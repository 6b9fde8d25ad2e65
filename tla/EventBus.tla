------------------------------- MODULE EventBus -------------------------------
(***************************************************************************)
(* The alert event bus of internal/processor/event_bus.go.  Publishers put *)
(* events on a bounded channel without waiting; one dispatcher goroutine   *)
(* takes them off and spawns a goroutine per subscribed observer, which    *)
(* nobody waits for.                                                       *)
(*                                                                         *)
(* An observer's OnAlert is two steps, its call and its return: the hub's  *)
(* never waits, the e-mail dispatcher's talks to an SMTP server and        *)
(* ignores its context, so a call may stay open for as long as it likes.   *)
(***************************************************************************)
EXTENDS Integers, Sequences, Functions

CONSTANTS
  Event,       \* the events, one per call of Publish
  Observer,    \* the observers main may subscribe
  Capacity,    \* of eventChan; 200 in NewEventBus
  NoEvent      \* what an idle dispatcher holds

ASSUME BusAssumption == Capacity \in Nat \ {0} /\ NoEvent \notin Event

VARIABLES
  observers,   \* eb.observers, in the order of subscription
  eventChan,   \* the contents of eb.eventChan
  stopCh,      \* eb.stopCh has been closed
  ctxDone,     \* the context of Start is done
  dispatcher,  \* where the dispatcher is
  current,     \* the event notifyObservers was called with
  pending,     \* the observers its loop has still to reach
  publish,     \* how each Publish returned
  call,        \* where each notification goroutine is, by event and observer
  stop         \* where Stop is

busVars  == <<eventChan, publish>>
loopVars == <<dispatcher, current, pending>>
stopVars == <<stopCh, stop>>
vars == <<observers, busVars, loopVars, call, stopVars, ctxDone>>

Init ==
  /\ observers = <<>>
  /\ eventChan = <<>>
  /\ stopCh = FALSE
  /\ ctxDone = FALSE
  /\ dispatcher = "new"
  /\ current = NoEvent
  /\ pending = <<>>
  /\ publish = [e \in Event |-> "idle"]
  /\ call = [e \in Event |-> [o \in Observer |-> "none"]]
  /\ stop = "idle"

-------------------------------------------------------------------------------
(* Faulty variants of the steps below, none of them part of Next *)

\* The dispatcher calls the observers itself instead of spawning goroutines.
NotifyInTurn ==
  /\ dispatcher = "notifying"
  /\ pending # <<>>
  /\ \A o \in Observer : call[current][o] \in {"none", "returned"}
  /\ call' = [call EXCEPT ![current][Head(pending)] = "spawned"]
  /\ pending' = Tail(pending)
  /\ UNCHANGED <<observers, busVars, dispatcher, current, stopVars, ctxDone>>

\* A full channel makes room by dropping its oldest event.
PublishOverOldest(e) ==
  /\ publish[e] = "idle"
  /\ observers # <<>>
  /\ Len(eventChan) >= Capacity
  /\ eventChan' = Append(Tail(eventChan), e)
  /\ publish' = [publish EXCEPT ![e] = "sent"]
  /\ UNCHANGED <<observers, loopVars, call, stopVars, ctxDone>>

-------------------------------------------------------------------------------
(* Subscribe, Publish *)

Subscribe(o) ==
  /\ o \notin Range(observers)
  /\ observers' = Append(observers, o)
  /\ UNCHANGED <<busVars, loopVars, call, stopVars, ctxDone>>

\* What the bus asks of main: to subscribe every observer before anything is published.
\* The slice is not protected, and relies on that; MonitoringTool has the order main
\* starts its parts in.
SubscribeInTime(o) == (\A e \in Event : publish[e] = "idle") /\ Subscribe(o)

PublishVia(e, outcome) ==
  /\ publish[e] = "idle"
  /\ observers # <<>>
  /\ publish' = [publish EXCEPT ![e] = outcome]
  /\ UNCHANGED <<observers, loopVars, call, stopVars, ctxDone>>

\* case eb.eventChan <- event.  The channel is never closed, so this also
\* happens after Stop.
PublishSent(e) ==
  /\ Len(eventChan) < Capacity
  /\ eventChan' = Append(eventChan, e)
  /\ PublishVia(e, "sent")

\* default: the event is dropped, and the caller does not hear of it.
PublishDropped(e) ==
  /\ Len(eventChan) >= Capacity
  /\ UNCHANGED eventChan
  /\ PublishVia(e, "dropped")

-------------------------------------------------------------------------------
(* The dispatcher *)

Start ==
  /\ dispatcher = "new"
  /\ stop = "idle"
  /\ dispatcher' = "select"
  /\ UNCHANGED <<observers, busVars, current, pending, call, stopVars, ctxDone>>

\* case event := <-eb.eventChan, up to the range over the observers
TakeEvent ==
  /\ dispatcher = "select"
  /\ eventChan # <<>>
  /\ dispatcher' = "notifying"
  /\ current' = Head(eventChan)
  /\ pending' = observers
  /\ eventChan' = Tail(eventChan)
  /\ UNCHANGED <<observers, publish, call, stopVars, ctxDone>>

\* go func(obs AlertObserver) { ... }(observer)
SpawnNotify ==
  /\ dispatcher = "notifying"
  /\ pending # <<>>
  /\ call' = [call EXCEPT ![current][Head(pending)] = "spawned"]
  /\ pending' = Tail(pending)
  /\ UNCHANGED <<observers, busVars, dispatcher, current, stopVars, ctxDone>>

NotifyDone ==
  /\ dispatcher = "notifying"
  /\ pending = <<>>
  /\ dispatcher' = "select"
  /\ current' = NoEvent
  /\ UNCHANGED <<observers, busVars, pending, call, stopVars, ctxDone>>

\* The stop signal or the context, when the select picks them.
Quit ==
  /\ dispatcher = "select"
  /\ stopCh \/ ctxDone
  /\ dispatcher' = "exited"
  /\ UNCHANGED <<observers, busVars, current, pending, call, stopVars, ctxDone>>

-------------------------------------------------------------------------------
(* The notification goroutines *)

CallVia(e, o, from, to) ==
  /\ call[e][o] = from
  /\ call' = [call EXCEPT ![e][o] = to]
  /\ UNCHANGED <<observers, busVars, loopVars, stopVars, ctxDone>>

BeginOnAlert(e, o)  == CallVia(e, o, "spawned", "running")
ReturnOnAlert(e, o) == CallVia(e, o, "running", "returned")

-------------------------------------------------------------------------------
(* Stop, called once, by main *)

CloseStopCh ==
  /\ stop = "idle"
  /\ stopCh' = TRUE
  /\ stop' = "closing"
  /\ UNCHANGED <<observers, busVars, loopVars, call, ctxDone>>

\* eb.wg counts the dispatcher only.
WaitDispatcher ==
  /\ stop = "closing"
  /\ dispatcher \in {"new", "exited"}
  /\ stop' = "returned"
  /\ UNCHANGED <<observers, busVars, loopVars, call, stopCh, ctxDone>>

Cancel ==
  /\ ~ctxDone
  /\ ctxDone' = TRUE
  /\ UNCHANGED <<observers, busVars, loopVars, call, stopVars>>

DispatcherStep == TakeEvent \/ SpawnNotify \/ NotifyDone \/ Quit

Next ==
  \/ Start \/ CloseStopCh \/ WaitDispatcher \/ Cancel
  \/ DispatcherStep
  \/ \E o \in Observer : SubscribeInTime(o)
  \/ \E e \in Event : PublishSent(e) \/ PublishDropped(e)
  \/ \E e \in Event, o \in Observer : BeginOnAlert(e, o) \/ ReturnOnAlert(e, o)

\* The dispatcher and Stop go on when they can, and a spawned goroutine gets to
\* run.  Nothing makes an observer return: SMTP has no deadline here.
Fairness ==
  /\ WF_vars(DispatcherStep)
  /\ WF_vars(WaitDispatcher)
  /\ \A e \in Event, o \in Observer : WF_vars(BeginOnAlert(e, o))

Safety == Init /\ [][Next]_vars

Spec == Safety /\ Fairness

-------------------------------------------------------------------------------
(* What the bus guarantees *)

TypeOK ==
  /\ observers \in Seq(Observer)
  /\ eventChan \in Seq(Event)
  /\ Len(eventChan) <= Capacity
  /\ stopCh \in BOOLEAN
  /\ ctxDone \in BOOLEAN
  /\ dispatcher \in {"new", "select", "notifying", "exited"}
  /\ current \in Event \union {NoEvent}
  /\ current # NoEvent <=> dispatcher = "notifying"
  /\ pending \in Seq(Observer)
  /\ publish \in [Event -> {"idle", "sent", "dropped"}]
  /\ call \in [Event -> [Observer -> {"none", "spawned", "running", "returned"}]]
  /\ stop \in {"idle", "closing", "returned"}

Queued(e) == e \in Range(eventChan)
Notified(e) == {o \in Observer : call[e][o] # "none"}
Awaiting(e) == IF dispatcher = "notifying" /\ e = current THEN Range(pending) ELSE {}

\* An event that was published is in the channel, with no observer told, or has
\* been taken off it, and then every observer is told of it or is next in the
\* dispatcher's loop.  A dropped event reaches nobody (event_bus.go:46, 80).
FanOut ==
  \A e \in Event :
    /\ publish[e] # "sent" \/ Queued(e) => Notified(e) = {}
    /\ publish[e] = "sent" /\ ~Queued(e) =>
         /\ Notified(e) \union Awaiting(e) = Range(observers)
         /\ Notified(e) \intersect Awaiting(e) = {}

\* Every event that finds room is handed to every observer, however long other
\* observers, or the same one, take over it, unless the bus is stopped, cancelled
\* or never started; and neither of these comes in the middle of a fan-out, to leave
\* an observer out of what another was told (event_bus.go:79).
Isolation ==
  \A e \in Event, o \in Observer :
    LET told == call[e][o] \in {"running", "returned"} IN
    /\ publish[e] = "sent" /\ o \in Range(observers) ~>
         told \/ stopCh \/ ctxDone \/ dispatcher = "new"
    /\ (o \in Range(observers) /\ \E p \in Observer : call[e][p] # "none") ~> told
===============================================================================
