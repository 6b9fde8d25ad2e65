---------------------------------- MODULE Page ----------------------------------
(***************************************************************************)
(* The two halves of the browser page side by side: what it shows of the   *)
(* alerts (Dashboard) and the connection they are pushed over              *)
(* (WebSocketClient).  They share no variable, and a push may come at any  *)
(* time or never whatever the connection does, so it is enough to let one  *)
(* of them run and keep the other where it starts.                         *)
(***************************************************************************)
EXTENDS Dashboard

CONSTANTS
  Socket, MaxMissed, MaxFaults, MaxCalls  \* of WebSocketClient

ASSUME ClientAssumption ==
  /\ Cardinality(Socket) \in Nat /\ Socket = 1 .. Cardinality(Socket)
  /\ {MaxMissed, MaxFaults, MaxCalls} \subseteq Nat
  /\ MaxMissed > 0 /\ Cardinality(Socket) > MaxCalls

VARIABLES
  half,  \* the half that runs
  loaded, creates, ws, sockets, timers, reconnectTimer, intervals, heartbeatInterval,
  missedHeartbeats, intentionallyClosed, shown, up, faults, calls  \* of the connection

clientVars == <<loaded, creates, ws, sockets, timers, reconnectTimer, intervals,
  heartbeatInterval, missedHeartbeats, intentionallyClosed, shown, up, faults, calls>>

Client == INSTANCE WebSocketClient

PageInit ==
  /\ half \in {"dashboard", "client"}
  /\ Init
  /\ Client!Init
  /\ half = "dashboard" => creates /\ up
  /\ half = "client" => infinite = {} /\ db = {}

PageNext ==
  \/ half = "dashboard" /\ Next        /\ UNCHANGED <<half, clientVars>>
  \/ half = "client"    /\ Client!Next /\ UNCHANGED <<half, vars>>

\* The half that does not run is never opened, and its fairness asks for nothing.
PageSpec ==
  /\ PageInit /\ [][PageNext]_<<half, vars, clientVars>>
  /\ Fairness /\ Client!Fairness

-------------------------------------------------------------------------------
\* The types of both modules.
PageTypeOK == TypeOK /\ Client!TypeOK

\* WebSocketClient: one connection, one attempt to come, one heartbeat (websocket.js:155).
OneOfEach == Client!OneOfEach

\* WebSocketClient: always something to go on (websocket.js:100).
NeverStranded == Client!NeverStranded

\* WebSocketClient: once the server stays up or away, the page is connected for good,
\* or shows that it is not (websocket.js:1).
ComesBack == Client!ComesBack
===============================================================================
