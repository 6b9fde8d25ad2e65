----------------------------- MODULE EventBusProofs -----------------------------
(***************************************************************************)
(* Proofs about the event bus, for every capacity, every set of events and *)
(* every set of observers.                                                 *)
(*                                                                         *)
(* FanOut relates the channel, the dispatcher's loop and the goroutines it *)
(* has spawned.  It is not inductive: that nobody is told twice rests on   *)
(* an event being on the channel once, on its being off the channel when   *)
(* the loop has it, and on no observer being subscribed twice.             *)
(***************************************************************************)
EXTENDS EventBus, SequenceLemmas

\* Each event is on the channel at most once, and only if its Publish put it there.
ChanInv ==
  /\ IsInjective(eventChan)
  /\ \A e \in Range(eventChan) : publish[e] = "sent"

\* The loop works through distinct observers, for an event that is off the channel.
LoopInv ==
  dispatcher = "notifying" =>
    /\ IsInjective(pending)
    /\ publish[current] = "sent"
    /\ ~Queued(current)

BusInv == IsInjective(observers) /\ ChanInv /\ LoopInv /\ FanOut

-------------------------------------------------------------------------------
(* Type correctness *)

LEMMA TypeInit == Init => TypeOK
<1> SUFFICES ASSUME Init PROVE TypeOK
  OBVIOUS
<1>1. Len(eventChan) <= Capacity
  BY BusAssumption DEF Init
<1>2. [o \in Observer |-> "none"] \in [Observer -> {"none", "spawned", "running", "returned"}]
  OBVIOUS
<1>3. call \in [Event -> [Observer -> {"none", "spawned", "running", "returned"}]]
  BY <1>2 DEF Init
<1>4. observers \in Seq(Observer) /\ eventChan \in Seq(Event) /\ pending \in Seq(Observer)
  BY DEF Init
<1> QED
  BY <1>1, <1>3, <1>4, Zenon DEF Init, TypeOK

LEMMA TypeNext == TypeOK /\ [Next]_vars => TypeOK'
<1> SUFFICES ASSUME TypeOK, [Next]_vars PROVE TypeOK'
  OBVIOUS
<1> USE DEF TypeOK
<1>1. CASE Start \/ CloseStopCh \/ WaitDispatcher \/ Cancel
  BY <1>1 DEF Start, CloseStopCh, WaitDispatcher, Cancel, busVars, loopVars, stopVars
<1>2. CASE TakeEvent
  <2>1. /\ Head(eventChan) \in Event /\ Head(eventChan) # NoEvent
        /\ Tail(eventChan) \in Seq(Event) /\ Len(Tail(eventChan)) <= Capacity
    BY <1>2, TailElements, BusAssumption DEF TakeEvent
  <2> QED
    BY <1>2, <2>1 DEF TakeEvent, stopVars
<1>3. CASE SpawnNotify
  <2>1. Head(pending) \in Observer /\ Tail(pending) \in Seq(Observer) /\ current \in Event
    BY <1>3, TailElements DEF SpawnNotify
  <2> QED
    BY <1>3, <2>1 DEF SpawnNotify, busVars, stopVars
<1>4. CASE NotifyDone \/ Quit
  BY <1>4 DEF NotifyDone, Quit, busVars, stopVars
<1>5. ASSUME NEW o \in Observer, SubscribeInTime(o) PROVE TypeOK'
  <2>1. Append(observers, o) \in Seq(Observer)
    BY AppendElements
  <2> QED
    BY <1>5, <2>1 DEF SubscribeInTime, Subscribe, busVars, loopVars, stopVars
<1>6. ASSUME NEW e \in Event, PublishSent(e) PROVE TypeOK'
  <2>1. Append(eventChan, e) \in Seq(Event) /\ Len(Append(eventChan, e)) <= Capacity
    BY <1>6, AppendElements, BusAssumption DEF PublishSent
  <2> QED
    BY <1>6, <2>1 DEF PublishSent, PublishVia, loopVars, stopVars
<1>7. ASSUME NEW e \in Event, PublishDropped(e) PROVE TypeOK'
  BY <1>7 DEF PublishDropped, PublishVia, loopVars, stopVars
<1>8. ASSUME NEW e \in Event, NEW o \in Observer, BeginOnAlert(e, o) \/ ReturnOnAlert(e, o)
      PROVE  TypeOK'
  <2>1. PICK to \in {"running", "returned"} : call' = [call EXCEPT ![e][o] = to]
    BY <1>8 DEF BeginOnAlert, ReturnOnAlert, CallVia
  <2>2. [call[e] EXCEPT ![o] = to] \in [Observer -> {"none", "spawned", "running", "returned"}]
    OBVIOUS
  <2>3. call' \in [Event -> [Observer -> {"none", "spawned", "running", "returned"}]]
    BY <2>1, <2>2
  <2> QED
    BY <1>8, <2>3 DEF BeginOnAlert, ReturnOnAlert, CallVia, busVars, loopVars, stopVars
<1>9. CASE UNCHANGED vars
  BY <1>9 DEF vars, busVars, loopVars, stopVars
<1> QED
  BY <1>1, <1>2, <1>3, <1>4, <1>5, <1>6, <1>7, <1>8, <1>9 DEF Next, DispatcherStep

\* The channel never holds more than its capacity, and the dispatcher holds an event
\* exactly while it is in its loop over the observers.
THEOREM TypeCorrect == Safety => []TypeOK
  BY TypeInit, TypeNext, PTL DEF Safety

-------------------------------------------------------------------------------
(* Fan-out *)

LEMMA BusInit == Init => BusInv
<1> SUFFICES ASSUME Init PROVE BusInv
  OBVIOUS
<1>1. /\ IsInjective(observers)
      /\ IsInjective(eventChan)
      /\ Range(eventChan) = {}
  BY EmptyElements DEF Init
<1> QED
  BY <1>1 DEF Init, BusInv, ChanInv, LoopInv, FanOut, Notified, Queued

\* A step that leaves the slice, the channel, the loop, the verdicts of Publish and
\* the set of those who were told alone leaves BusInv alone.
LEMMA BusFrame ==
  ASSUME BusInv, UNCHANGED <<observers, eventChan, publish>>,
         UNCHANGED <<current, pending>> \/ (dispatcher # "notifying" /\ dispatcher' # "notifying"),
         dispatcher = "notifying" <=> dispatcher' = "notifying",
         \A e \in Event : Notified(e)' = Notified(e)
  PROVE  BusInv'
  BY DEF BusInv, ChanInv, LoopInv, FanOut, Queued, Awaiting

LEMMA BusSubscribe ==
  ASSUME TypeOK, BusInv, NEW o \in Observer, SubscribeInTime(o)
  PROVE  BusInv'
<1> USE DEF TypeOK
<1>1. /\ \A e \in Event : publish[e] = "idle"
      /\ observers' = Append(observers, o)
      /\ o \notin Range(observers)
      /\ UNCHANGED <<eventChan, publish, dispatcher, current, pending, call>>
  BY DEF SubscribeInTime, Subscribe, busVars, loopVars
<1>2. IsInjective(observers')
  BY <1>1, AppendDistinct DEF BusInv
<1>3. Range(eventChan) = {} /\ dispatcher # "notifying"
  BY <1>1, RangeIsImage DEF BusInv, ChanInv, LoopInv
<1>4. FanOut'
  BY <1>1 DEF BusInv, FanOut, Queued, Notified
<1> QED
  BY <1>1, <1>2, <1>3, <1>4 DEF BusInv, ChanInv, LoopInv

LEMMA BusPublishSent ==
  ASSUME TypeOK, BusInv, NEW x \in Event, PublishSent(x)
  PROVE  BusInv'
<1> USE DEF TypeOK
<1>1. /\ publish[x] = "idle"
      /\ eventChan' = Append(eventChan, x)
      /\ publish' = [publish EXCEPT ![x] = "sent"]
      /\ UNCHANGED <<observers, dispatcher, current, pending, call>>
  BY DEF PublishSent, PublishVia, loopVars
<1>2. Range(eventChan') = Range(eventChan) \union {x} /\ Range(eventChan) \subseteq Event
  BY <1>1, AppendRange, RangeIsImage
<1>3. x \notin Range(eventChan)
  BY <1>1 DEF BusInv, ChanInv
<1>4. ChanInv'
  BY <1>1, <1>2, <1>3, AppendDistinct DEF BusInv, ChanInv
<1>5. LoopInv'
  BY <1>1, <1>2 DEF BusInv, LoopInv, Queued
<1>6. FanOut'
  BY <1>1, <1>2 DEF BusInv, FanOut, Queued, Notified, Awaiting
<1> QED
  BY <1>1, <1>4, <1>5, <1>6 DEF BusInv

LEMMA BusPublishDropped ==
  ASSUME TypeOK, BusInv, NEW x \in Event, PublishDropped(x)
  PROVE  BusInv'
<1> USE DEF TypeOK
<1>1. /\ publish[x] = "idle"
      /\ publish' = [publish EXCEPT ![x] = "dropped"]
      /\ UNCHANGED <<observers, eventChan, dispatcher, current, pending, call>>
  BY DEF PublishDropped, PublishVia, loopVars
<1>2. \A e \in Event : publish[e] = "sent" <=> publish'[e] = "sent"
  BY <1>1
<1>3. Range(eventChan) \subseteq Event
  BY RangeIsImage
<1> QED
  BY <1>1, <1>2, <1>3 DEF BusInv, ChanInv, LoopInv, FanOut, Queued, Notified, Awaiting

\* Taking an event off the channel puts every observer before it.
LEMMA BusTakeEvent ==
  ASSUME TypeOK, BusInv, TakeEvent
  PROVE  BusInv'
<1> USE DEF TypeOK
<1> PICK h : h = Head(eventChan)
  OBVIOUS
<1>1. /\ dispatcher = "select"
      /\ dispatcher' = "notifying"
      /\ eventChan # <<>>
      /\ current' = h
      /\ pending' = observers
      /\ eventChan' = Tail(eventChan)
      /\ UNCHANGED <<observers, publish, call>>
  BY DEF TakeEvent
<1>2. /\ IsInjective(eventChan')
      /\ h \notin Range(eventChan')
      /\ Range(eventChan) = {h} \union Range(eventChan')
      /\ h \in Event
  BY <1>1, TailDistinct, TailRange, TailElements DEF BusInv, ChanInv
<1>3. ChanInv'
  BY <1>1, <1>2 DEF BusInv, ChanInv
<1>4. LoopInv'
  BY <1>1, <1>2 DEF BusInv, ChanInv, LoopInv, Queued
<1>5. Notified(h) = {}
  BY <1>2 DEF BusInv, FanOut, Queued
<1>6. FanOut'
  BY <1>1, <1>2, <1>5 DEF BusInv, FanOut, Queued, Notified, Awaiting
<1> QED
  BY <1>1, <1>3, <1>4, <1>6 DEF BusInv

\* A spawn moves the first observer from those ahead to those who were told.
LEMMA BusSpawnNotify ==
  ASSUME TypeOK, BusInv, SpawnNotify
  PROVE  BusInv'
<1> USE DEF TypeOK
<1> PICK h : h = Head(pending)
  OBVIOUS
<1>1. /\ dispatcher = "notifying"
      /\ pending # <<>>
      /\ call' = [call EXCEPT ![current][h] = "spawned"]
      /\ pending' = Tail(pending)
      /\ UNCHANGED <<observers, eventChan, publish, dispatcher, current>>
  BY DEF SpawnNotify, busVars
<1>2. /\ current \in Event
      /\ h \in Observer
      /\ IsInjective(pending')
      /\ h \notin Range(pending')
      /\ Range(pending) = {h} \union Range(pending')
  BY <1>1, TailDistinct, TailRange, TailElements DEF BusInv, LoopInv
<1>3. publish[current] = "sent" /\ ~Queued(current)
  BY <1>1 DEF BusInv, LoopInv
<1>4. /\ Notified(current)' = Notified(current) \union {h}
      /\ \A e \in Event \ {current} : Notified(e)' = Notified(e)
  BY <1>1, <1>2 DEF Notified
<1>5. /\ Notified(current) \union Range(pending) = Range(observers)
      /\ Notified(current) \intersect Range(pending) = {}
  BY <1>1, <1>2, <1>3 DEF BusInv, FanOut, Awaiting
<1>6. /\ (Notified(current) \union Range(pending) = Range(observers))'
      /\ (Notified(current) \intersect Range(pending) = {})'
  BY <1>1, <1>2, <1>4, <1>5
<1>7. FanOut'
  <2> SUFFICES ASSUME NEW e \in Event
               PROVE  (/\ publish[e] # "sent" \/ Queued(e) => Notified(e) = {}
                       /\ publish[e] = "sent" /\ ~Queued(e) =>
                            /\ Notified(e) \union Awaiting(e) = Range(observers)
                            /\ Notified(e) \intersect Awaiting(e) = {})'
    BY DEF FanOut
  <2>1. CASE e = current
    BY <1>1, <1>2, <1>3, <1>6, <2>1 DEF Queued, Awaiting
  <2>2. CASE e # current
    BY <1>1, <1>2, <1>4, <2>2 DEF BusInv, FanOut, Queued, Awaiting
  <2> QED
    BY <2>1, <2>2
<1>8. LoopInv'
  BY <1>1, <1>2, <1>3 DEF LoopInv, Queued
<1>9. ChanInv'
  BY <1>1 DEF BusInv, ChanInv
<1> QED
  BY <1>1, <1>7, <1>8, <1>9 DEF BusInv

LEMMA BusNotifyDone ==
  ASSUME TypeOK, BusInv, NotifyDone
  PROVE  BusInv'
<1> USE DEF TypeOK
<1>1. /\ dispatcher = "notifying"
      /\ dispatcher' = "select"
      /\ UNCHANGED <<observers, eventChan, publish, call>>
  BY DEF NotifyDone, busVars
<1>2. Range(pending) = {}
  BY EmptyElements DEF NotifyDone
<1>3. \A e \in Event : Awaiting(e) = {} /\ Awaiting(e)' = {} /\ Notified(e)' = Notified(e)
  BY <1>1, <1>2 DEF Awaiting, Notified
<1> QED
  BY <1>1, <1>3 DEF BusInv, ChanInv, LoopInv, FanOut, Queued

LEMMA BusNext == TypeOK /\ BusInv /\ [Next]_vars => BusInv'
<1> SUFFICES ASSUME TypeOK, BusInv, [Next]_vars PROVE BusInv'
  OBVIOUS
<1>1. CASE Start \/ CloseStopCh \/ WaitDispatcher \/ Cancel \/ Quit
  BY <1>1, BusFrame
     DEF Start, CloseStopCh, WaitDispatcher, Cancel, Quit, busVars, loopVars, Notified
<1>2. CASE TakeEvent
  BY <1>2, BusTakeEvent
<1>3. CASE SpawnNotify
  BY <1>3, BusSpawnNotify
<1>4. CASE NotifyDone
  BY <1>4, BusNotifyDone
<1>5. ASSUME NEW o \in Observer, SubscribeInTime(o) PROVE BusInv'
  BY <1>5, BusSubscribe
<1>6. ASSUME NEW e \in Event, PublishSent(e) PROVE BusInv'
  BY <1>6, BusPublishSent
<1>7. ASSUME NEW e \in Event, PublishDropped(e) PROVE BusInv'
  BY <1>7, BusPublishDropped
<1>8. ASSUME NEW e \in Event, NEW o \in Observer, BeginOnAlert(e, o) \/ ReturnOnAlert(e, o)
      PROVE  BusInv'
  <2>1. UNCHANGED <<observers, eventChan, publish, dispatcher, current, pending>>
    BY <1>8 DEF BeginOnAlert, ReturnOnAlert, CallVia, busVars, loopVars
  <2>2. \A f \in Event, p \in Observer : call'[f][p] # "none" <=> call[f][p] # "none"
    BY <1>8 DEF BeginOnAlert, ReturnOnAlert, CallVia, TypeOK
  <2> QED
    BY <2>1, <2>2, BusFrame DEF Notified
<1>9. CASE UNCHANGED vars
  BY <1>9, BusFrame DEF vars, busVars, loopVars, Notified
<1> QED
  BY <1>1, <1>2, <1>3, <1>4, <1>5, <1>6, <1>7, <1>8, <1>9 DEF Next, DispatcherStep

\* An event that found room is told to every observer there is, each of them once:
\* those who have not been told are those the dispatcher's loop has still to reach.
\* An event that did not, or still waits, is told to nobody.
THEOREM FanOutHolds == Safety => []FanOut
<1>1. BusInv => FanOut
  BY DEF BusInv
<1> QED
  BY <1>1, TypeCorrect, BusInit, BusNext, PTL DEF Safety
=================================================================================
