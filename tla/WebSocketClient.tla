---------------------------- MODULE WebSocketClient ----------------------------
(***************************************************************************)
(* The WebSocketManager of web/static/js/websocket.js: one connection that *)
(* is opened again after it is lost, against a network that fails, peers   *)
(* that die without a word, a heartbeat that is to notice them, and the    *)
(* late events of sockets the manager has already let go.                  *)
(*                                                                         *)
(* Time is left out: a timer that runs may fire, so the growing pauses are *)
(* not told apart.  A socket that nobody can hear of any more, and a timer *)
(* that is over, are forgotten.                                            *)
(***************************************************************************)
EXTENDS Integers, FiniteSets, FiniteSetsExt

CONSTANTS
  Socket,     \* the sockets there can be at a time, 1 .. n
  MaxMissed,  \* maxMissedHeartbeats
  MaxFaults,  \* bound on what the network and the server do
  MaxCalls    \* bound on what the user and the browser do

VARIABLES
  loaded,               \* the page has called connect()
  creates,              \* new WebSocket(url) does not throw
  ws,                   \* this.ws, 0 when there is none
  sockets,              \* each socket
  timers,               \* the pending reconnect timers
  reconnectTimer,       \* the handle of the last one, 0 when it was cleared
  intervals,            \* the heartbeats that run
  heartbeatInterval,    \* the handle of the last one, 0 when it was cleared
  missedHeartbeats,
  intentionallyClosed,
  shown,                \* the page shows that it is connected
  up,                   \* the server can be reached
  faults, calls         \* counts for the bounds

timerVars == <<timers, reconnectTimer>>
heartVars == <<intervals, heartbeatInterval, missedHeartbeats>>
worldVars == <<up, faults>>
vars == <<loaded, creates, ws, sockets, timerVars, heartVars, intentionallyClosed, shown,
          worldVars, calls>>

\* healthy: a peer answers.  pinged: an answer of a healthy peer is due.
Unused == [state |-> "unused", healthy |-> FALSE, pinged |-> FALSE]

ReadyState(s) == IF s = 0 THEN "unused" ELSE sockets[s].state

Init ==
  /\ loaded = FALSE
  /\ creates \in BOOLEAN
  /\ ws = 0
  /\ sockets = [s \in Socket |-> Unused]
  /\ timers = {}
  /\ reconnectTimer = 0
  /\ intervals = {}
  /\ heartbeatInterval = 0
  /\ missedHeartbeats = 0
  /\ intentionallyClosed = FALSE
  /\ shown = FALSE
  /\ up \in BOOLEAN
  /\ faults = 0
  /\ calls = 0

-------------------------------------------------------------------------------
(* The methods *)

\* The first number that is not the handle of anything.
Fresh(used) == Min((1 .. Cardinality(used) + 1) \ used)

\* A faulty variant: a timer that is still pending is left.
LeaveTimer(pending) ==
  LET t == Fresh(pending \union {reconnectTimer}) IN
  timers' = pending \union {t} /\ reconnectTimer' = t

\* reconnect, with these timers pending.
Reconnect(pending) ==
  LET t == Fresh(pending \union {reconnectTimer}) IN
  timers' = (pending \ {reconnectTimer}) \union {t} /\ reconnectTimer' = t

StopHeartbeat ==
  /\ intervals' = intervals \ {heartbeatInterval}
  /\ heartbeatInterval' = 0
  /\ missedHeartbeats' = 0

StartHeartbeat ==
  LET i == Fresh(intervals) IN
  /\ intervals' = (intervals \ {heartbeatInterval}) \union {i}
  /\ heartbeatInterval' = i
  /\ missedHeartbeats' = 0

\* The old socket is closed and its handler removed, so it is not heard of again;
\* its heartbeat goes on until the new one opens or fails.
Connect(pending) ==
  LET kept == [s \in Socket |-> IF s = ws THEN Unused ELSE sockets[s]]
      new  == Min({s \in Socket : kept[s] = Unused})
  IN
  /\ intentionallyClosed' = FALSE
  /\ IF creates
     THEN /\ ws' = new
          /\ sockets' = [kept EXCEPT ![new] = [Unused EXCEPT !.state = "connecting",
                                                         !.healthy = up]]
          /\ timers' = pending \ {reconnectTimer}
          /\ reconnectTimer' = 0
     ELSE /\ ws' = 0
          /\ sockets' = kept
          /\ Reconnect(pending \ {reconnectTimer})
  /\ UNCHANGED <<creates, heartVars, shown>>

-------------------------------------------------------------------------------
(* The page and the browser *)

Load ==
  /\ ~loaded
  /\ loaded' = TRUE
  /\ Connect(timers)
  /\ UNCHANGED <<worldVars, calls>>

Called == loaded /\ calls < MaxCalls /\ calls' = calls + 1 /\ UNCHANGED <<loaded, worldVars>>

Visible == Called /\ ReadyState(ws) # "open" /\ Connect(timers)

Online == Called /\ Connect(timers)

\* For whoever uses the manager; the page itself never calls it.  The handler stays with
\* the socket, which is heard of once more.
Disconnect ==
  /\ Called
  /\ intentionallyClosed' = TRUE
  /\ StopHeartbeat
  /\ timers' = timers \ {reconnectTimer}
  /\ reconnectTimer' = 0
  /\ ws' = 0
  /\ sockets' = [s \in Socket |->
       IF s # ws THEN sockets[s]
       ELSE IF sockets[s].state = "closed" THEN Unused
       ELSE [sockets[s] EXCEPT !.state = "closing"]]
  /\ UNCHANGED <<creates, shown>>

TimerFires(t) ==
  /\ t \in timers
  /\ Connect(timers \ {t})
  /\ UNCHANGED <<loaded, worldVars, calls>>

-------------------------------------------------------------------------------
(* The events of a socket *)

Open(s) ==
  /\ sockets[s].state = "connecting" /\ sockets[s].healthy
  /\ sockets' = [sockets EXCEPT ![s].state = "open"]
  /\ shown' = TRUE
  /\ StartHeartbeat
  /\ UNCHANGED <<loaded, creates, ws, timerVars, intentionallyClosed, worldVars, calls>>

\* A faulty variant: a socket that is not the manager's any more opens nothing again.
OnCloseOfCurrent(s) ==
  /\ sockets' = [sockets EXCEPT ![s] = IF s = ws THEN [@ EXCEPT !.state = "closed"] ELSE Unused]
  /\ StopHeartbeat
  /\ shown' = FALSE
  /\ IF intentionallyClosed \/ s # ws THEN UNCHANGED timerVars ELSE Reconnect(timers)
  /\ UNCHANGED <<loaded, creates, ws, intentionallyClosed, calls>>

\* The close event, of the manager's socket or of one it has let go.
OnClose(s) ==
  /\ sockets' = [sockets EXCEPT ![s] = IF s = ws THEN [@ EXCEPT !.state = "closed"] ELSE Unused]
  /\ StopHeartbeat
  /\ shown' = FALSE
  /\ IF intentionallyClosed THEN UNCHANGED timerVars ELSE Reconnect(timers)
  /\ UNCHANGED <<loaded, creates, ws, intentionallyClosed, calls>>

\* What was closed here is closed, or an attempt without a peer has failed.
Closes(s) ==
  /\ \/ sockets[s].state = "closing"
     \/ sockets[s].state = "connecting" /\ ~sockets[s].healthy
  /\ OnClose(s)
  /\ UNCHANGED worldVars

\* The other end closes it, or the browser notices that there is none.
ClosedByPeer(s) ==
  /\ sockets[s].state = "open"
  /\ faults < MaxFaults
  /\ faults' = faults + 1
  /\ OnClose(s)
  /\ UNCHANGED up

\* A pong or an alert.
Message(s) ==
  /\ sockets[s].state = "open" /\ sockets[s].healthy
  /\ sockets' = [sockets EXCEPT ![s].pinged = FALSE]
  /\ missedHeartbeats' = 0
  /\ UNCHANGED <<loaded, creates, ws, timerVars, intervals, heartbeatInterval,
                 intentionallyClosed, shown, worldVars, calls>>

\* A faulty variant: a ping that could be sent counts as a message.
ForgivingTick(i) ==
  /\ i \in intervals
  /\ ReadyState(ws) = "open" /\ ~sockets[ws].pinged
  /\ missedHeartbeats' = 0
  /\ sockets' = [sockets EXCEPT ![ws].pinged = sockets[ws].healthy]
  /\ UNCHANGED <<loaded, creates, ws, timerVars, intervals, heartbeatInterval,
                 intentionallyClosed, shown, worldVars, calls>>

\* Every thirty seconds; a healthy peer answers within that time.
HeartbeatTick(i) ==
  /\ i \in intervals
  /\ ReadyState(ws) = "open" /\ ~sockets[ws].pinged
  /\ missedHeartbeats' = missedHeartbeats + 1
  /\ sockets' = [sockets EXCEPT ![ws] =
       IF missedHeartbeats + 1 >= MaxMissed THEN [@ EXCEPT !.state = "closing"]
       ELSE [@ EXCEPT !.pinged = sockets[ws].healthy]]
  /\ UNCHANGED <<loaded, creates, ws, timerVars, intervals, heartbeatInterval,
                 intentionallyClosed, shown, worldVars, calls>>

-------------------------------------------------------------------------------
(* The network *)

Fault ==
  /\ faults < MaxFaults
  /\ faults' = faults + 1
  /\ UNCHANGED <<loaded, creates, ws, timerVars, heartVars, intentionallyClosed, shown, calls>>

\* Nobody is told.
Dies(s) ==
  /\ Fault
  /\ sockets[s].healthy
  /\ sockets' = [sockets EXCEPT ![s].healthy = FALSE, ![s].pinged = FALSE]
  /\ UNCHANGED up

GoDown ==
  /\ Fault
  /\ up
  /\ up' = FALSE
  /\ sockets' = [s \in Socket |-> [sockets[s] EXCEPT !.healthy = FALSE, !.pinged = FALSE]]

GoUp ==
  /\ ~up
  /\ up' = TRUE
  /\ UNCHANGED <<loaded, creates, ws, sockets, timerVars, heartVars, intentionallyClosed,
                 shown, faults, calls>>

-------------------------------------------------------------------------------
Next ==
  \/ Load \/ Visible \/ Online \/ Disconnect \/ GoDown \/ GoUp
  \/ \E t \in timers : TimerFires(t)
  \/ \E i \in intervals : HeartbeatTick(i)
  \/ \E s \in Socket : Open(s) \/ Closes(s) \/ ClosedByPeer(s) \/ Message(s) \/ Dies(s)

\* A timer fires, an attempt ends, a closing socket closes, and a pong comes.
Fairness ==
  /\ WF_vars(\E t \in timers : TimerFires(t))
  /\ WF_vars(\E i \in intervals : HeartbeatTick(i))
  /\ WF_vars(\E s \in Socket : Open(s) \/ Closes(s))
  /\ WF_vars(\E s \in Socket : Message(s) /\ sockets[s].pinged)

Spec == Init /\ [][Next]_vars /\ Fairness

-------------------------------------------------------------------------------
TypeOK ==
  /\ {loaded, creates, intentionallyClosed, shown, up} \subseteq BOOLEAN
  /\ ws \in Socket \union {0}
  /\ sockets \in [Socket ->
       [state : {"unused", "connecting", "open", "closing", "closed"},
        healthy : BOOLEAN, pinged : BOOLEAN]]
  /\ {reconnectTimer, heartbeatInterval} \union timers \union intervals \subseteq Nat
  /\ missedHeartbeats \in 0 .. MaxMissed
  /\ faults \in 0 .. MaxFaults
  /\ calls \in 0 .. MaxCalls

\* The manager never has two connections, two attempts to come or two heartbeats,
\* whichever calls and late events meet, and none to come after disconnect()
\* (websocket.js:155, :123, :49).
OneOfEach ==
  /\ Cardinality({s \in Socket : sockets[s].state \in {"connecting", "open"}}) <= 1
  /\ Cardinality(timers) <= 1
  /\ Cardinality(intervals) <= 1
  /\ intentionallyClosed =>
       timers = {} /\ intervals = {} /\ ReadyState(ws) \notin {"connecting", "open"}

\* Unless it was told to disconnect, the manager always has something to go on: an
\* attempt to come, one that has not ended, or a connection it watches
\* (websocket.js:100).
NeverStranded ==
  loaded /\ ~intentionallyClosed =>
    \/ timers # {}
    \/ ReadyState(ws) \in {"connecting", "closing"}
    \/ ReadyState(ws) = "open" /\ intervals # {}

\* Once the server stays up, a manager that was started is connected for good, and
\* shows it, unless it was told not to be; and once the server stays away the page
\* stops showing a connection, although no socket need be told (websocket.js:1,
\* "persistent reconnection", and :130).
ComesBack ==
  /\ <>[](up /\ creates) =>
       <>[](\/ intentionallyClosed \/ ~loaded
            \/ ReadyState(ws) = "open" /\ sockets[ws].healthy /\ shown)
  /\ <>[]~up => <>[]~shown
===============================================================================
