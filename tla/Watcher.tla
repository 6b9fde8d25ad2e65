-------------------------------- MODULE Watcher --------------------------------
(***************************************************************************)
(* A resource watcher of internal/collector: PodWatcher and NodeWatcher,   *)
(* which differ in the resource they watch and the size of their channel.  *)
(* One goroutine keeps a watch stream to the Kubernetes API open and puts  *)
(* its events on a bounded channel; another takes them off and submits     *)
(* them to the worker pool.                                                *)
(*                                                                         *)
(* An object of the cluster is a version number that grows with every      *)
(* change; an event is an object and the version it carries.  The type of  *)
(* an event is left out because the code never looks at it.  A watch with  *)
(* empty ListOptions starts with one event per existing object, and the    *)
(* server may end it at any time.                                          *)
(***************************************************************************)
EXTENDS Integers, Sequences, SequencesExt

CONSTANTS
  Object,      \* the pods, or the nodes
  Capacity,    \* of eventChan: 500 for pods, 300 for nodes
  MaxVersion,  \* bound on the changes of an object
  MaxCuts      \* bound on the streams the server ends

ASSUME WatcherAssumption ==
  /\ IsFiniteSet(Object)
  /\ Capacity \in Nat \ {0} /\ MaxVersion \in Nat \ {0} /\ MaxCuts \in Nat

VARIABLES
  version,     \* the current version of each object
  exists,      \* the objects that have not been deleted
  connected,   \* the server still adds to the stream
  stream,      \* the events on their way to ResultChan
  cuts,        \* how many streams the server has ended
  loop,        \* where watchPods or watchNodes is
  eventChan,   \* the contents of the channel eventChan
  dispatcher,  \* where eventDispatcher is
  event,       \* the event it is submitting; the last one, in between
  handed,      \* the last version of each object the pool has accepted
  lost,        \* the events dropped since the stream was opened
  stopCh,      \* stopCh has been closed
  ctxDone,     \* the context of Start is done
  stop         \* where Stop is

clusterVars == <<version, exists>>
streamVars  == <<connected, stream, cuts>>
dispatchVars == <<dispatcher, event, handed>>
stopVars    == <<stopCh, stop>>
vars == <<clusterVars, streamVars, loop, eventChan, dispatchVars, lost, stopVars, ctxDone>>

Events == Object \X (1 .. MaxVersion)
NoEvent == <<>>

Init ==
  /\ version = [o \in Object |-> 1]
  /\ exists = Object
  /\ connected = FALSE
  /\ stream = <<>>
  /\ cuts = 0
  /\ loop = "new"
  /\ eventChan = <<>>
  /\ dispatcher = "new"
  /\ event = NoEvent
  /\ handed = [o \in Object |-> 0]
  /\ lost = {}
  /\ stopCh = FALSE
  /\ ctxDone = FALSE
  /\ stop = "idle"

-------------------------------------------------------------------------------
(* Faulty variants of the steps below, none of them part of Next *)

\* A stream is opened at the resource version the last one ended with, which is
\* not what the watcher has seen: nothing is listed again.
ConnectWithoutList ==
  /\ loop = "dialing"
  /\ ~ctxDone
  /\ connected' = TRUE
  /\ stream' = <<>>
  /\ lost' = {}
  /\ loop' = "receiving"
  /\ UNCHANGED <<clusterVars, cuts, eventChan, dispatchVars, stopVars, ctxDone>>

\* break inside the select ends the select and not the loop around it.
BreakSelectOnly ==
  /\ loop = "receiving"
  /\ stopCh \/ ctxDone
  /\ UNCHANGED vars

\* An event the pool refuses goes back to the end of the channel.
RequeueRefused ==
  /\ dispatcher = "submitting"
  /\ Len(eventChan) < Capacity
  /\ eventChan' = Append(eventChan, event)
  /\ dispatcher' = "select"
  /\ UNCHANGED <<clusterVars, streamVars, loop, event, handed, lost, stopVars, ctxDone>>

\* The dispatcher is not counted in the wait group.
WaitLoopOnly ==
  /\ stop = "closing"
  /\ loop \in {"new", "exited"}
  /\ stop' = "returned"
  /\ UNCHANGED <<clusterVars, streamVars, loop, eventChan, dispatchVars, lost, stopCh, ctxDone>>

\* An off-by-one in the capacity of the channel.
ReceivePastCap ==
  /\ loop = "receiving"
  /\ stream # <<>>
  /\ stream' = Tail(stream)
  /\ Len(eventChan) <= Capacity
  /\ eventChan' = Append(eventChan, Head(stream))
  /\ UNCHANGED <<clusterVars, connected, cuts, loop, dispatchVars, lost, stopVars, ctxDone>>

-------------------------------------------------------------------------------
(* The cluster and its API server *)

Touch(o) ==
  /\ o \in exists
  /\ version[o] < MaxVersion
  /\ version' = [version EXCEPT ![o] = @ + 1]
  /\ stream' = IF connected THEN Append(stream, <<o, version[o] + 1>>) ELSE stream
  /\ UNCHANGED <<connected, cuts, loop, eventChan, dispatchVars, lost, stopVars, ctxDone>>

Change(o) == Touch(o) /\ UNCHANGED exists

\* The last event of an object carries the state it was deleted in.
Delete(o) == Touch(o) /\ exists' = exists \ {o}

\* The server ends the stream, and what was on its way is lost or not.
CutStream ==
  /\ connected
  /\ cuts < MaxCuts
  /\ connected' = FALSE
  /\ stream' \in {stream, <<>>}
  /\ cuts' = cuts + 1
  /\ UNCHANGED <<clusterVars, loop, eventChan, dispatchVars, lost, stopVars, ctxDone>>

-------------------------------------------------------------------------------
(* watchPods, watchNodes *)

LoopVia(from, to) ==
  /\ loop = from
  /\ loop' = to
  /\ UNCHANGED <<clusterVars, cuts, dispatchVars, stopVars, ctxDone>>

\* The select with a default at the head of the outer loop.
CheckStop ==
  /\ LoopVia("checking", IF stopCh \/ ctxDone THEN "exited" ELSE "dialing")
  /\ UNCHANGED <<connected, stream, eventChan, lost>>

\* Watch returns a stream that begins with every object there is, in any order.
Connect ==
  /\ LoopVia("dialing", "receiving")
  /\ ~ctxDone
  /\ connected' = TRUE
  /\ stream' \in SetToSeqs({<<o, version[o]>> : o \in exists})
  /\ lost' = {}
  /\ UNCHANGED eventChan

\* Watch returns an error, and the goroutine sleeps for five seconds.
ConnectFails ==
  /\ LoopVia("dialing", "sleeping")
  /\ UNCHANGED <<connected, stream, eventChan, lost>>

WakeUp ==
  /\ LoopVia("sleeping", "checking")
  /\ UNCHANGED <<connected, stream, eventChan, lost>>

\* case event, ok := <-watcher.ResultChan(), with the send that follows: a full
\* channel drops the event.  An object of another type is ignored.
Receive ==
  /\ LoopVia("receiving", "receiving")
  /\ stream # <<>>
  /\ stream' = Tail(stream)
  /\ IF Len(eventChan) < Capacity
     THEN eventChan' = Append(eventChan, Head(stream)) /\ UNCHANGED lost
     ELSE lost' = lost \union {Head(stream)} /\ UNCHANGED eventChan
  /\ UNCHANGED connected

\* !ok: the stream is closed and drained.
StreamEnds ==
  /\ LoopVia("receiving", "checking")
  /\ stream = <<>>
  /\ ~connected
  /\ UNCHANGED <<connected, stream, eventChan, lost>>

\* The stop signal or the context; the deferred watcher.Stop ends the stream.
Leave ==
  /\ LoopVia("receiving", "checking")
  /\ stopCh \/ ctxDone
  /\ connected' = FALSE
  /\ stream' = <<>>
  /\ UNCHANGED <<eventChan, lost>>

-------------------------------------------------------------------------------
(* eventDispatcher *)

DispatchVia(from, to) ==
  /\ dispatcher = from
  /\ dispatcher' = to
  /\ UNCHANGED <<clusterVars, streamVars, loop, stopVars, ctxDone>>

TakeEvent ==
  /\ DispatchVia("select", "submitting")
  /\ eventChan # <<>>
  /\ event' = Head(eventChan)
  /\ eventChan' = Tail(eventChan)
  /\ UNCHANGED <<handed, lost>>

\* SubmitWithContext returns nil: the pool has accepted processEvent(event).
SubmitAccepted ==
  /\ DispatchVia("submitting", "select")
  /\ handed' = [handed EXCEPT ![event[1]] = event[2]]
  /\ UNCHANGED <<eventChan, event, lost>>

\* It returns an error, full, stopped or cancelled, and the event is dropped.
SubmitRefused ==
  /\ DispatchVia("submitting", "select")
  /\ lost' = lost \union {event}
  /\ UNCHANGED <<eventChan, event, handed>>

Quit ==
  /\ DispatchVia("select", "exited")
  /\ stopCh \/ ctxDone
  /\ UNCHANGED <<eventChan, event, handed, lost>>

-------------------------------------------------------------------------------
(* Start, Stop and the context *)

Start ==
  /\ loop = "new"
  /\ stop = "idle"
  /\ loop' = "checking"
  /\ dispatcher' = "select"
  /\ UNCHANGED <<clusterVars, streamVars, eventChan, event, handed, lost, stopVars, ctxDone>>

CloseStopCh ==
  /\ stop = "idle"
  /\ stopCh' = TRUE
  /\ stop' = "closing"
  /\ UNCHANGED <<clusterVars, streamVars, loop, eventChan, dispatchVars, lost, ctxDone>>

Gone == {"new", "exited"}

WaitGoroutines ==
  /\ stop = "closing"
  /\ loop \in Gone
  /\ dispatcher \in Gone
  /\ stop' = "returned"
  /\ UNCHANGED <<clusterVars, streamVars, loop, eventChan, dispatchVars, lost, stopCh, ctxDone>>

Cancel ==
  /\ ~ctxDone
  /\ ctxDone' = TRUE
  /\ UNCHANGED <<clusterVars, streamVars, loop, eventChan, dispatchVars, lost, stopVars>>

LoopStep == CheckStop \/ Connect \/ ConnectFails \/ WakeUp \/ Receive \/ StreamEnds \/ Leave

DispatcherStep == TakeEvent \/ SubmitAccepted \/ SubmitRefused \/ Quit

Next ==
  \/ Start \/ CloseStopCh \/ WaitGoroutines \/ Cancel
  \/ LoopStep \/ DispatcherStep
  \/ \E o \in Object : Change(o) \/ Delete(o)
  \/ CutStream

\* Both goroutines go on when they can, and the API server cannot refuse every
\* Watch.  A select that may leave does not have to, while there are events.
Fairness ==
  /\ WF_vars(LoopStep)
  /\ SF_vars(Connect)
  /\ WF_vars(Leave)
  /\ WF_vars(DispatcherStep)
  /\ WF_vars(WaitGoroutines)

Safety == Init /\ [][Next]_vars

Spec == Safety /\ Fairness

-------------------------------------------------------------------------------
(* What a watcher guarantees *)

TypeOK ==
  /\ version \in [Object -> 1 .. MaxVersion]
  /\ exists \subseteq Object
  /\ connected \in BOOLEAN
  /\ stream \in Seq(Events)
  /\ cuts \in 0 .. MaxCuts
  /\ loop \in {"new", "checking", "dialing", "sleeping", "receiving", "exited"}
  /\ connected => loop = "receiving"
  /\ eventChan \in Seq(Events)
  /\ Len(eventChan) <= Capacity
  /\ dispatcher \in {"new", "select", "submitting", "exited"}
  /\ event \in Events \union {NoEvent}
  /\ handed \in [Object -> 0 .. MaxVersion]
  /\ lost \subseteq Events
  /\ stopCh \in BOOLEAN
  /\ ctxDone \in BOOLEAN
  /\ stop \in {"idle", "closing", "returned"}

\* Neither goroutine outlives Stop, so nothing is submitted to the pool behind it:
\* main stops the pool next (pod_collector.go:258).
StopJoins == stop = "returned" => loop \in Gone /\ dispatcher \in Gone

\* The pool is handed the states of an object in the order they happened, across
\* dropped events, refused ones and new streams (pod_collector.go:141).
InOrder == [][\A o \in Object : handed'[o] >= handed[o]]_vars

\* The latest state of an object that still exists reaches the pool, even if it
\* changed while no stream was open, unless that very event found a channel full
\* or the watcher is stopped (pod_collector.go:71).
Resync ==
  \A o \in Object :
    o \in exists /\ version[o] = MaxVersion /\ loop # "new" ~>
      \/ handed[o] = MaxVersion
      \/ <<o, MaxVersion>> \in lost
      \/ o \notin exists
      \/ stopCh \/ ctxDone

\* Stop returns, wherever the two goroutines are when it is called
\* (pod_collector.go:260).
StopReturns == stop = "closing" ~> stop = "returned"
===============================================================================
