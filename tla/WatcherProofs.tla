------------------------------ MODULE WatcherProofs ------------------------------
(***************************************************************************)
(* Proofs about a watcher, for every finite set of objects, every capacity *)
(* and however often an object changes or the server ends a stream.        *)
(*                                                                         *)
(* InOrder is a property of steps, and its invariant follows an object's   *)
(* states along the whole way they take: from the cluster over the stream  *)
(* and the channel to the dispatcher and the pool, no state is overtaken   *)
(* by an earlier one.                                                      *)
(***************************************************************************)
EXTENDS Watcher, SequenceLemmas, FiniteSetTheorems

\* The dispatcher submits an event.
TypeInv ==
  /\ TypeOK
  /\ dispatcher = "submitting" => event \in Events

\* The event f does not carry an earlier state of the same object than e.
NotAfter(e, f) == e[1] = f[1] => e[2] <= f[2]

InLine(q) == \A i, j \in 1 .. Len(q) : i < j => NotAfter(q[i], q[j])

OnTheWay == Range(eventChan) \union Range(stream)

OrderInv ==
  /\ InLine(eventChan)
  /\ InLine(stream)
  /\ \A e \in Range(eventChan), f \in Range(stream) : NotAfter(e, f)
  /\ \A e \in OnTheWay : handed[e[1]] <= e[2] /\ e[2] <= version[e[1]]
  /\ dispatcher = "submitting" =>
       /\ handed[event[1]] <= event[2] /\ event[2] <= version[event[1]]
       /\ \A e \in OnTheWay : NotAfter(event, e)
  /\ \A o \in Object : handed[o] <= version[o]

-------------------------------------------------------------------------------
(* Events and sequences of them *)

LEMMA EventFields ==
  /\ \A e \in Events : e[1] \in Object /\ e[2] \in 1 .. MaxVersion
  /\ \A o \in Object, v \in 1 .. MaxVersion : <<o, v>> \in Events
  /\ NoEvent \notin Events
  BY DEF Events, NoEvent

LEMMA AppendInLine ==
  ASSUME NEW q \in Seq(Events), NEW x \in Events, InLine(q),
         \A e \in Range(q) : NotAfter(e, x)
  PROVE  InLine(Append(q, x))
<1> DEFINE p == Append(q, x)
<1>1. /\ Len(q) \in Nat /\ Len(p) = Len(q) + 1
      /\ \A i \in 1 .. Len(q) : p[i] = q[i] /\ q[i] \in Range(q)
      /\ p[Len(q) + 1] = x
  BY AppendElements, RangeElements
<1> HIDE DEF p
<1>2. ASSUME NEW i \in 1 .. Len(p), NEW j \in 1 .. Len(p), i < j PROVE NotAfter(p[i], p[j])
  <2>1. i \in 1 .. Len(q)
    BY <1>1, <1>2
  <2>2. CASE j \in 1 .. Len(q)
    BY <1>1, <1>2, <2>1, <2>2 DEF InLine
  <2>3. CASE j = Len(q) + 1
    BY <1>1, <2>1, <2>3
  <2> QED
    BY <1>1, <2>2, <2>3
<1> QED
  BY <1>2 DEF InLine, p

LEMMA TailInLine ==
  ASSUME NEW q \in Seq(Events), q # <<>>, InLine(q)
  PROVE  /\ InLine(Tail(q))
         /\ \A e \in Range(Tail(q)) : NotAfter(Head(q), e)
<1> DEFINE t == Tail(q)
<1>1. /\ Len(q) \in Nat \ {0} /\ Len(t) = Len(q) - 1
      /\ \A i \in 1 .. Len(t) : t[i] = q[i + 1] /\ i + 1 \in 1 .. Len(q)
      /\ Head(q) = q[1]
      /\ t \in Seq(Events)
  BY TailElements
<1>2. \A e \in Range(t) : \E i \in 1 .. Len(t) : t[i] = e
  BY <1>1, RangeElements
<1> HIDE DEF t
<1>3. ASSUME NEW i \in 1 .. Len(t), NEW j \in 1 .. Len(t), i < j PROVE NotAfter(t[i], t[j])
  <2>1. i + 1 < j + 1
    BY <1>3
  <2> QED
    BY <1>1, <2>1 DEF InLine
<1>4. ASSUME NEW i \in 1 .. Len(t) PROVE NotAfter(Head(q), t[i])
  <2>1. 1 < i + 1 /\ 1 \in 1 .. Len(q)
    BY <1>1
  <2> QED
    BY <1>1, <2>1 DEF InLine
<1>5. InLine(t) /\ \A e \in Range(t) : NotAfter(Head(q), e)
  BY <1>2, <1>3, <1>4 DEF InLine
<1> QED
  BY <1>5 DEF t

\* The objects of the cluster as a stream lists them: each once, as it is now.
LEMMA ListedObjects ==
  ASSUME TypeOK, NEW q \in SetToSeqs({<<o, version[o]>> : o \in exists})
  PROVE  /\ q \in Seq(Events)
         /\ \A e \in Range(q) : e[2] = version[e[1]]
         /\ InLine(q)
<1> DEFINE S == {<<o, version[o]>> : o \in exists}
<1>1. S \subseteq Events
  BY EventFields DEF TypeOK
<1>2. IsFiniteSet(Events)
  <2>1. IsFiniteSet(1 .. MaxVersion)
    BY WatcherAssumption, FS_Interval
  <2> QED
    BY <2>1, WatcherAssumption, FS_Product DEF Events
<1>3. Cardinality(S) \in Nat
  BY <1>1, <1>2, FS_Subset, FS_CardinalityType
<1>4. \A e \in S : e[2] = version[e[1]]
  OBVIOUS
<1>5. q \in [1 .. Cardinality(S) -> S]
  BY DEF SetToSeqs
<1> HIDE DEF S
<1>6. q \in Seq(Events) /\ Len(q) = Cardinality(S) /\ \A i \in 1 .. Len(q) : q[i] \in S
  BY <1>1, <1>3, <1>5
<1>7. Range(q) \subseteq S
  BY <1>6, RangeElements
<1>8. InLine(q)
  <2> SUFFICES ASSUME NEW i \in 1 .. Len(q), NEW j \in 1 .. Len(q), q[i][1] = q[j][1]
               PROVE  q[i][2] <= q[j][2]
    BY DEF InLine, NotAfter
  <2>1. q[i][2] = q[j][2] /\ q[i] \in Events
    BY <1>1, <1>4, <1>6
  <2> QED
    BY <2>1, EventFields
<1> QED
  BY <1>4, <1>6, <1>7, <1>8

-------------------------------------------------------------------------------
(* Type correctness *)

LEMMA TypeInit == Init => TypeInv
<1> SUFFICES ASSUME Init PROVE TypeInv
  OBVIOUS
<1>1. /\ version \in [Object -> 1 .. MaxVersion]
      /\ handed \in [Object -> 0 .. MaxVersion]
      /\ cuts \in 0 .. MaxCuts
      /\ Len(eventChan) <= Capacity
  BY WatcherAssumption DEF Init
<1>2. connected \in BOOLEAN /\ (connected => loop = "receiving")
  BY Zenon DEF Init
<1>3. stream \in Seq(Events) /\ eventChan \in Seq(Events)
  BY DEF Init
<1> QED
  BY <1>1, <1>2, <1>3, Zenon DEF Init, TypeInv, TypeOK

LEMMA TypeLoop == TypeInv /\ LoopStep => TypeInv'
<1> SUFFICES ASSUME TypeInv, LoopStep PROVE TypeInv'
  OBVIOUS
<1> USE DEF TypeInv, TypeOK
<1>1. CASE CheckStop \/ ConnectFails \/ WakeUp \/ StreamEnds
  BY <1>1 DEF CheckStop, ConnectFails, WakeUp, StreamEnds, LoopVia, clusterVars, dispatchVars, stopVars
<1>2. CASE Connect
  <2>1. stream' \in Seq(Events)
    BY <1>2, ListedObjects DEF Connect
  <2> QED
    BY <1>2, <2>1 DEF Connect, LoopVia, clusterVars, dispatchVars, stopVars
<1>3. CASE Receive
  <2>1. /\ Head(stream) \in Events /\ Tail(stream) \in Seq(Events)
        /\ Append(eventChan, Head(stream)) \in Seq(Events)
        /\ Len(Append(eventChan, Head(stream))) = Len(eventChan) + 1 /\ Len(eventChan) \in Nat
    BY <1>3, TailElements, AppendElements DEF Receive
  <2>2. (connected \in BOOLEAN /\ (connected => loop = "receiving"))'
    BY <1>3, Zenon DEF Receive, LoopVia
  <2>3. eventChan' \in Seq(Events) /\ Len(eventChan') <= Capacity /\ lost' \subseteq Events
    <3>1. CASE Len(eventChan) < Capacity
      <4>1. eventChan' = Append(eventChan, Head(stream)) /\ lost' = lost
        BY <1>3, <3>1, Zenon DEF Receive
      <4>2. Len(eventChan) + 1 <= Capacity
        BY <2>1, <3>1, WatcherAssumption
      <4> QED
        BY <2>1, <4>1, <4>2
    <3>2. CASE ~(Len(eventChan) < Capacity)
      BY <1>3, <2>1, <3>2 DEF Receive
    <3> QED
      BY <3>1, <3>2
  <2> QED
    BY <1>3, <2>1, <2>2, <2>3 DEF Receive, LoopVia, clusterVars, dispatchVars, stopVars
<1>4. CASE Leave
  <2>1. (connected \in BOOLEAN /\ (connected => loop = "receiving"))'
    BY <1>4, Zenon DEF Leave
  <2> QED
    BY <1>4, <2>1 DEF Leave, LoopVia, clusterVars, dispatchVars, stopVars
<1> QED
  BY <1>1, <1>2, <1>3, <1>4 DEF LoopStep

LEMMA TypeDispatcher == TypeInv /\ DispatcherStep => TypeInv'
<1> SUFFICES ASSUME TypeInv, DispatcherStep PROVE TypeInv'
  OBVIOUS
<1> USE DEF TypeInv, TypeOK
<1>1. CASE TakeEvent
  <2>1. /\ Head(eventChan) \in Events /\ Tail(eventChan) \in Seq(Events)
        /\ Len(Tail(eventChan)) <= Capacity
    BY <1>1, TailElements, WatcherAssumption DEF TakeEvent
  <2> QED
    BY <1>1, <2>1 DEF TakeEvent, DispatchVia, clusterVars, streamVars, stopVars
<1>2. CASE SubmitAccepted
  <2>1. event \in Events
    BY <1>2 DEF SubmitAccepted, DispatchVia
  <2>2. event[1] \in Object /\ event[2] \in 0 .. MaxVersion
    BY <2>1, EventFields
  <2>3. handed' \in [Object -> 0 .. MaxVersion]
    BY <1>2, <2>2 DEF SubmitAccepted
  <2> QED
    BY <1>2, <2>3 DEF SubmitAccepted, DispatchVia, clusterVars, streamVars, stopVars
<1>3. CASE SubmitRefused
  BY <1>3 DEF SubmitRefused, DispatchVia, clusterVars, streamVars, stopVars
<1>4. CASE Quit
  BY <1>4 DEF Quit, DispatchVia, clusterVars, streamVars, stopVars
<1> QED
  BY <1>1, <1>2, <1>3, <1>4 DEF DispatcherStep

LEMMA TypeNext == TypeInv /\ [Next]_vars => TypeInv'
<1> SUFFICES ASSUME TypeInv, [Next]_vars PROVE TypeInv'
  OBVIOUS
<1> USE DEF TypeInv, TypeOK
<1>1. CASE Start \/ CloseStopCh \/ WaitGoroutines \/ Cancel
  <2>1. (connected \in BOOLEAN /\ (connected => loop = "receiving"))'
    <3>1. CASE Start
      <4>1. ~connected
        BY <3>1 DEF Start
      <4> QED
        BY <3>1, <4>1, Zenon DEF Start, streamVars
    <3>2. CASE CloseStopCh \/ WaitGoroutines \/ Cancel
      <4>1. UNCHANGED <<connected, loop>>
        BY <3>2 DEF CloseStopCh, WaitGoroutines, Cancel, streamVars
      <4> QED
        BY <4>1, Zenon
    <3> QED
      BY <1>1, <3>1, <3>2
  <2> QED
    BY <1>1, <2>1
       DEF Start, CloseStopCh, WaitGoroutines, Cancel, clusterVars, streamVars, dispatchVars, stopVars
<1>2. CASE LoopStep
  BY <1>2, TypeLoop DEF TypeInv
<1>3. CASE DispatcherStep
  BY <1>3, TypeDispatcher DEF TypeInv
<1>4. ASSUME NEW o \in Object, Change(o) \/ Delete(o) PROVE TypeInv'
  <2>1. version[o] + 1 \in 1 .. MaxVersion
    BY <1>4, WatcherAssumption DEF Change, Delete, Touch
  <2>2. <<o, version[o] + 1>> \in Events
    BY <2>1, EventFields
  <2>3. version' \in [Object -> 1 .. MaxVersion]
    BY <1>4, <2>1 DEF Change, Delete, Touch
  <2>4. stream' \in Seq(Events)
    <3>1. Append(stream, <<o, version[o] + 1>>) \in Seq(Events)
      BY <2>2, AppendElements
    <3> QED
      BY <1>4, <3>1, Zenon DEF Change, Delete, Touch
  <2> QED
    BY <1>4, <2>3, <2>4 DEF Change, Delete, Touch, dispatchVars, stopVars
<1>5. CASE CutStream
  <2>1. (connected \in BOOLEAN /\ (connected => loop = "receiving"))'
    BY <1>5, Zenon DEF CutStream
  <2>2. cuts' \in 0 .. MaxCuts /\ stream' \in Seq(Events)
    <3>1. cuts' \in 0 .. MaxCuts
      BY <1>5, WatcherAssumption DEF CutStream
    <3>2. stream' \in Seq(Events)
      BY <1>5, EmptyElements, Zenon DEF CutStream
    <3> QED
      BY <3>1, <3>2
  <2> QED
    BY <1>5, <2>1, <2>2 DEF CutStream, clusterVars, dispatchVars, stopVars
<1>6. CASE UNCHANGED vars
  BY <1>6 DEF vars, clusterVars, streamVars, dispatchVars, stopVars
<1> QED
  BY <1>1, <1>2, <1>3, <1>4, <1>5, <1>6 DEF Next

\* The channel never holds more than its capacity, and only the goroutine that
\* receives has a stream open.
THEOREM TypeCorrect == Safety => []TypeOK
<1>1. TypeInv => TypeOK
  BY DEF TypeInv
<1> QED
  BY <1>1, TypeInit, TypeNext, PTL DEF Safety

-------------------------------------------------------------------------------
(* Stop joins *)

LEMMA JoinsNext == TypeInv /\ StopJoins /\ [Next]_vars => StopJoins'
<1> SUFFICES ASSUME TypeInv, StopJoins, [Next]_vars PROVE StopJoins'
  OBVIOUS
<1> USE DEF StopJoins, Gone
<1>1. CASE Start \/ CloseStopCh \/ WaitGoroutines \/ Cancel
  BY <1>1 DEF Start, CloseStopCh, WaitGoroutines, Cancel, dispatchVars, stopVars
<1>2. CASE LoopStep
  BY <1>2 DEF LoopStep, CheckStop, Connect, ConnectFails, WakeUp, Receive, StreamEnds, Leave, LoopVia,
              dispatchVars, stopVars
<1>3. CASE DispatcherStep
  BY <1>3 DEF DispatcherStep, TakeEvent, SubmitAccepted, SubmitRefused, Quit, DispatchVia, stopVars
<1>4. ASSUME NEW o \in Object, Change(o) \/ Delete(o) PROVE StopJoins'
  BY <1>4 DEF Change, Delete, Touch, dispatchVars, stopVars
<1>5. CASE CutStream \/ UNCHANGED vars
  BY <1>5 DEF CutStream, vars, dispatchVars, stopVars
<1> QED
  BY <1>1, <1>2, <1>3, <1>4, <1>5 DEF Next

\* Neither goroutine is alive behind a Stop that has returned, or ever again.
THEOREM StopIsAJoin == Safety => []StopJoins
<1>1. Init => StopJoins
  BY DEF Init, StopJoins
<1> QED
  BY <1>1, TypeInit, TypeNext, JoinsNext, PTL DEF Safety

-------------------------------------------------------------------------------
(* The states of an object reach the pool in order *)

LEMMA OrderInit == Init => OrderInv
<1> SUFFICES ASSUME Init PROVE OrderInv
  OBVIOUS
<1>1. Range(eventChan) = {} /\ Range(stream) = {}
  BY EmptyElements DEF Init
<1>2. Len(eventChan) = 0 /\ Len(stream) = 0
  BY DEF Init
<1> QED
  BY <1>1, <1>2 DEF Init, OrderInv, InLine, OnTheWay

\* A step that moves no event.
LEMMA OrderFrame ==
  ASSUME OrderInv, UNCHANGED <<version, stream, eventChan, event, handed>>,
         dispatcher' = "submitting" => dispatcher = "submitting"
  PROVE  OrderInv'
  BY DEF OrderInv, OnTheWay, InLine

\* A step that loses what is on the stream.
LEMMA OrderLoseStream ==
  ASSUME OrderInv, stream' = <<>>, UNCHANGED <<version, eventChan, dispatcher, event, handed>>
  PROVE  OrderInv'
<1>1. Range(stream') = {}
  BY EmptyElements
<1>2. InLine(stream')
  BY DEF InLine
<1> QED
  BY <1>1, <1>2 DEF OrderInv, OnTheWay, InLine

\* A later state goes behind all the earlier ones.
LEMMA OrderTouch ==
  ASSUME TypeInv, OrderInv, NEW o \in Object, Touch(o)
  PROVE  OrderInv'
<1> USE DEF TypeInv, TypeOK
<1> DEFINE x == <<o, version[o] + 1>>
<1>1. /\ version' = [version EXCEPT ![o] = @ + 1]
      /\ UNCHANGED <<eventChan, dispatcher, event, handed>>
      /\ version[o] < MaxVersion /\ version[o] \in 1 .. MaxVersion
  BY DEF Touch, dispatchVars
<1>2. stream' = stream \/ stream' = Append(stream, x)
  BY Zenon DEF Touch
<1>3. x \in Events /\ x[1] = o /\ x[2] = version[o] + 1
  BY <1>1, WatcherAssumption, EventFields
<1> HIDE DEF x
<1>4. Range(eventChan) \subseteq Events /\ Range(stream) \subseteq Events
  BY RangeIsImage
<1>5. \A p \in Object : version[p] <= version'[p] /\ version[p] \in Nat /\ version'[p] \in Nat
                       /\ handed[p] \in Nat
  BY <1>1
<1>6. \A e \in Events : e[1] \in Object /\ e[2] \in Nat
  BY EventFields
<1>7. \A e \in Events : e[2] <= version[e[1]] => NotAfter(e, x) /\ e[2] <= version'[e[1]]
  BY <1>3, <1>5, <1>6 DEF NotAfter
<1>8. \A e \in OnTheWay : NotAfter(e, x) /\ handed[e[1]] <= e[2] /\ e[2] <= version'[e[1]]
  BY <1>4, <1>7 DEF OrderInv, OnTheWay
<1>9. handed[x[1]] <= x[2] /\ x[2] <= version'[x[1]]
  BY <1>1, <1>3, <1>5 DEF OrderInv
<1>10. dispatcher = "submitting" => NotAfter(event, x) /\ event[2] <= version'[event[1]]
  BY <1>7 DEF OrderInv
<1>11. \A p \in Object : handed[p] <= version'[p]
  BY <1>5 DEF OrderInv
<1>12. CASE stream' = stream
  BY <1>1, <1>8, <1>10, <1>11, <1>12 DEF OrderInv, OnTheWay, InLine
<1>13. CASE stream' = Append(stream, x)
  <2>1. InLine(stream')
    BY <1>3, <1>8, <1>13, AppendInLine DEF OrderInv, OnTheWay
  <2>2. Range(stream') = Range(stream) \union {x}
    BY <1>3, <1>13, AppendRange
  <2> QED
    BY <1>1, <1>8, <1>9, <1>10, <1>11, <2>1, <2>2 DEF OrderInv, OnTheWay, InLine
<1> QED
  BY <1>2, <1>12, <1>13

\* A new stream starts with the latest states.
LEMMA OrderConnect ==
  ASSUME TypeInv, OrderInv, Connect
  PROVE  OrderInv'
<1> USE DEF TypeInv, TypeOK
<1>1. UNCHANGED <<version, eventChan, dispatcher, event, handed>>
  BY DEF Connect, LoopVia, clusterVars, dispatchVars
<1>2. /\ stream' \in Seq(Events)
      /\ \A e \in Range(stream') : e[2] = version[e[1]]
      /\ InLine(stream')
  BY ListedObjects DEF Connect
<1>3. Range(eventChan) \subseteq Events /\ Range(stream') \subseteq Events
  BY <1>2, RangeIsImage
<1>4. \A e \in Events : e[1] \in Object /\ e[2] \in Nat /\ version[e[1]] \in Nat
                       /\ handed[e[1]] \in Nat
  BY EventFields
<1>5. ASSUME NEW e \in Events, e[2] <= version[e[1]], NEW f \in Range(stream')
      PROVE  NotAfter(e, f)
  BY <1>2, <1>3, <1>5 DEF NotAfter
<1>6. \A e \in Range(stream') : handed[e[1]] <= e[2] /\ e[2] <= version[e[1]]
  BY <1>2, <1>3, <1>4 DEF OrderInv
<1>7. \A e \in Range(eventChan) :
        /\ handed[e[1]] <= e[2] /\ e[2] <= version[e[1]]
        /\ \A f \in Range(stream') : NotAfter(e, f)
  BY <1>3, <1>5 DEF OrderInv, OnTheWay
<1>8. dispatcher = "submitting" => \A f \in Range(stream') : NotAfter(event, f)
  BY <1>5 DEF OrderInv
<1> QED
  BY <1>1, <1>2, <1>6, <1>7, <1>8 DEF OrderInv, OnTheWay, InLine

\* The first event of the stream is behind everything on the channel.
LEMMA OrderReceive ==
  ASSUME TypeInv, OrderInv, Receive
  PROVE  OrderInv'
<1> USE DEF TypeInv, TypeOK
<1> PICK h : h = Head(stream)
  OBVIOUS
<1>1. /\ stream # <<>>
      /\ stream' = Tail(stream)
      /\ UNCHANGED <<version, dispatcher, event, handed>>
      /\ eventChan' = Append(eventChan, h) \/ eventChan' = eventChan
  BY Zenon DEF Receive, LoopVia, clusterVars, dispatchVars
<1>2. /\ h \in Events
      /\ Range(stream) = {h} \union Range(stream')
      /\ InLine(stream')
      /\ \A e \in Range(stream') : NotAfter(h, e)
  BY <1>1, TailElements, TailRange, TailInLine DEF OrderInv
<1>3. CASE eventChan' = eventChan
  BY <1>1, <1>2, <1>3 DEF OrderInv, OnTheWay, InLine
<1>4. CASE eventChan' = Append(eventChan, h)
  <2>1. Range(eventChan') = Range(eventChan) \union {h}
    BY <1>2, <1>4, AppendRange
  <2>2. InLine(eventChan')
    BY <1>2, <1>4, AppendInLine DEF OrderInv
  <2> QED
    BY <1>1, <1>2, <2>1, <2>2 DEF OrderInv, OnTheWay
<1> QED
  BY <1>1, <1>3, <1>4

\* The dispatcher takes the earliest event there is.
LEMMA OrderTakeEvent ==
  ASSUME TypeInv, OrderInv, TakeEvent
  PROVE  OrderInv'
<1> USE DEF TypeInv, TypeOK
<1>1. /\ eventChan # <<>>
      /\ event' = Head(eventChan)
      /\ eventChan' = Tail(eventChan)
      /\ UNCHANGED <<version, stream, handed>>
  BY DEF TakeEvent, DispatchVia, clusterVars, streamVars
<1>2. /\ event' \in Events
      /\ Range(eventChan) = {event'} \union Range(eventChan')
      /\ InLine(eventChan')
      /\ \A e \in Range(eventChan') : NotAfter(event', e)
  BY <1>1, TailElements, TailRange, TailInLine DEF OrderInv
<1> QED
  BY <1>1, <1>2 DEF OrderInv, OnTheWay, InLine

LEMMA OrderSubmitAccepted ==
  ASSUME TypeInv, OrderInv, SubmitAccepted
  PROVE  OrderInv'
<1> USE DEF TypeInv, TypeOK
<1>1. /\ dispatcher = "submitting"
      /\ dispatcher' = "select"
      /\ handed' = [handed EXCEPT ![event[1]] = event[2]]
      /\ UNCHANGED <<version, stream, eventChan, event>>
  BY DEF SubmitAccepted, DispatchVia, clusterVars, streamVars
<1>2. event \in Events /\ event[1] \in Object
  BY <1>1, EventFields
<1>3. Range(eventChan) \subseteq Events /\ Range(stream) \subseteq Events
  BY RangeIsImage
<1>4. \A o \in Object : handed'[o] = IF o = event[1] THEN event[2] ELSE handed[o]
  BY <1>1, <1>2
<1>5. \A e \in OnTheWay : e[1] \in Object
  BY <1>3, EventFields DEF OnTheWay
<1>6. \A e \in OnTheWay : handed'[e[1]] <= e[2]
  BY <1>1, <1>4, <1>5 DEF OrderInv, NotAfter
<1>7. \A o \in Object : handed'[o] <= version[o]
  BY <1>1, <1>4 DEF OrderInv
<1> QED
  BY <1>1, <1>6, <1>7 DEF OrderInv, OnTheWay, InLine

LEMMA OrderNext == TypeInv /\ OrderInv /\ [Next]_vars => OrderInv'
<1> SUFFICES ASSUME TypeInv, OrderInv, [Next]_vars PROVE OrderInv'
  OBVIOUS
<1>1. CASE Start \/ CloseStopCh \/ WaitGoroutines \/ Cancel
  BY <1>1, OrderFrame
     DEF Start, CloseStopCh, WaitGoroutines, Cancel, clusterVars, streamVars, dispatchVars
<1>2. CASE CheckStop \/ ConnectFails \/ WakeUp \/ StreamEnds
  BY <1>2, OrderFrame
     DEF CheckStop, ConnectFails, WakeUp, StreamEnds, LoopVia, clusterVars, dispatchVars
<1>3. CASE Connect
  BY <1>3, OrderConnect
<1>4. CASE Receive
  BY <1>4, OrderReceive
<1>5. CASE Leave
  BY <1>5, OrderLoseStream DEF Leave, LoopVia, clusterVars, dispatchVars
<1>6. CASE TakeEvent
  BY <1>6, OrderTakeEvent
<1>7. CASE SubmitAccepted
  BY <1>7, OrderSubmitAccepted
<1>8. CASE SubmitRefused \/ Quit
  BY <1>8, OrderFrame DEF SubmitRefused, Quit, DispatchVia, clusterVars, streamVars
<1>9. ASSUME NEW o \in Object, Change(o) \/ Delete(o) PROVE OrderInv'
  BY <1>9, OrderTouch DEF Change, Delete
<1>10. CASE CutStream
  <2>1. UNCHANGED <<version, eventChan, dispatcher, event, handed>>
    BY <1>10 DEF CutStream, clusterVars, dispatchVars
  <2>2. stream' = stream \/ stream' = <<>>
    BY <1>10 DEF CutStream
  <2> QED
    BY <2>1, <2>2, OrderFrame, OrderLoseStream
<1>11. CASE UNCHANGED vars
  BY <1>11, OrderFrame DEF vars, clusterVars, streamVars, dispatchVars
<1> QED
  BY <1>1, <1>2, <1>3, <1>4, <1>5, <1>6, <1>7, <1>8, <1>9, <1>10, <1>11
     DEF Next, LoopStep, DispatcherStep

\* Only an accepted event moves what the pool was handed, and never backwards.
LEMMA HandedGrows ==
  ASSUME TypeInv, OrderInv, [Next]_vars
  PROVE  [\A o \in Object : handed'[o] >= handed[o]]_vars
<1> SUFFICES \A o \in Object : handed'[o] >= handed[o]
  OBVIOUS
<1> USE DEF TypeInv, TypeOK
<1>1. CASE SubmitAccepted
  <2>1. /\ event \in Events /\ handed[event[1]] <= event[2]
        /\ handed' = [handed EXCEPT ![event[1]] = event[2]]
    BY <1>1 DEF SubmitAccepted, DispatchVia, OrderInv
  <2>2. event[1] \in Object /\ event[2] \in Nat
    BY <2>1, EventFields
  <2> QED
    BY <2>1, <2>2
<1>2. CASE ~SubmitAccepted
  <2>1. handed' = handed
    BY <1>2 DEF Next, Start, CloseStopCh, WaitGoroutines, Cancel, LoopStep, CheckStop, Connect,
                ConnectFails, WakeUp, Receive, StreamEnds, Leave, LoopVia, DispatcherStep, TakeEvent,
                SubmitRefused, Quit, Change, Delete, Touch, CutStream, vars, dispatchVars
  <2> QED
    BY <2>1
<1> QED
  BY <1>1, <1>2

\* Whatever is dropped, refused, cut or listed again, the pool is never handed a
\* state of an object that is earlier than one it was handed before.
THEOREM HandedInOrder == Safety => InOrder
<1>1. TypeInv /\ OrderInv /\ [Next]_vars => [\A o \in Object : handed'[o] >= handed[o]]_vars
  BY HandedGrows
<1> QED
  BY <1>1, TypeInit, TypeNext, OrderInit, OrderNext, PTL DEF Safety, InOrder
==================================================================================
