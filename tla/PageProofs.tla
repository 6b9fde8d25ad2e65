------------------------------- MODULE PageProofs -------------------------------
(***************************************************************************)
(* Proofs about the page: its connection, for any number of sockets,       *)
(* faults and calls, and what it shows, for any number of alerts, of       *)
(* severities and of overlapping fetches and any length of its list.       *)
(*                                                                         *)
(* Of the connection, that there is one of each thing follows from what    *)
(* runs being what the manager has a handle of (HandleInv).  That connect  *)
(* finds a socket to use rests on counting: a socket that was let go was   *)
(* let go by a call.  Of the dashboard, that no alert is listed twice      *)
(* follows from the lists the fetches have on their way (Fetch), and these *)
(* from what the database answers: no two stored alerts have equally many  *)
(* later ones, so GetRecent lists the newest of them, each once.           *)
(***************************************************************************)
EXTENDS Page, SequenceLemmas, FiniteSetTheorems, WellFoundedInduction

-------------------------------------------------------------------------------
(* Numbers and finite sets *)

LEMMA LeastOf ==
  ASSUME NEW S \in SUBSET Nat, S # {}
  PROVE  /\ Min(S) \in S
         /\ \A x \in S : Min(S) <= x
<1> DEFINE R == {p \in Nat \X Nat : p[1] < p[2]}
<1>1. IsWellFoundedOn(R, Nat)
  BY NatLessThanWellFounded, Zenon DEF OpToRel
<1>2. \A x, y \in Nat : y < x => <<y, x>> \in R
  OBVIOUS
<1> HIDE DEF R
<1>3. PICK x \in S : \A y \in S : ~(<<y, x>> \in R)
  BY <1>1, WFMin
<1>4. ASSUME NEW y \in S PROVE x <= y
  <2>1. x \in Nat /\ y \in Nat
    OBVIOUS
  <2>2. ~(y < x)
    BY <1>2, <1>3, <2>1, Zenon
  <2> QED
    BY <2>1, <2>2
<1> QED
  BY <1>4 DEF Min

\* The module of the connection counts and compares as this one does.
LEMMA ClientCounts ==
  ASSUME NEW S
  PROVE  /\ Client!Cardinality(S) = Cardinality(S)
         /\ Client!Min(S) = Min(S)
  BY DEF Client!Cardinality, Cardinality, Client!Min, Min

LEMMA AtMostOne ==
  ASSUME NEW S, NEW x, S \subseteq {x}
  PROVE  IsFiniteSet(S) /\ Cardinality(S) <= 1
<1>1. IsFiniteSet({x}) /\ Cardinality({x}) = 1
  BY FS_Singleton
<1> QED
  BY <1>1, FS_Subset

LEMMA FewSockets == IsFiniteSet(Socket) /\ Socket \subseteq Nat \ {0}
<1>1. PICK n \in Nat : Socket = 1 .. n
  BY ClientAssumption
<1>2. IsFiniteSet(1 .. n)
  BY FS_Interval
<1> QED
  BY <1>1, <1>2

-------------------------------------------------------------------------------
(* The connection *)

State(s) == sockets[s].state

\* The sockets the manager has let go and may still hear of.
LetGo == {s \in Socket \ {ws} : State(s) # "unused"}

\* What runs is what the manager has a handle of, only its own socket is alive, and a
\* socket that it has let go is one it was told to disconnect.
HandleInv ==
  /\ timers \subseteq {reconnectTimer}
  /\ intervals \subseteq {heartbeatInterval}
  /\ \A s \in Socket : State(s) \in {"connecting", "open", "closed"} => s = ws
  /\ \A s \in Socket : State(s) = "unused" => sockets[s] = Client!Unused
  /\ Cardinality(LetGo) <= calls

SilentInv ==
  intentionallyClosed =>
    /\ timers = {}
    /\ intervals = {}
    /\ Client!ReadyState(ws) \notin {"connecting", "open"}

BeatInv == Client!ReadyState(ws) = "open" => missedHeartbeats < MaxMissed

ClientInv == Client!TypeOK /\ HandleInv /\ SilentInv /\ BeatInv /\ NeverStranded

-------------------------------------------------------------------------------
(* The manager's methods *)

LEMMA FreshIsNat ==
  ASSUME NEW x, NEW used, used \subseteq {x}
  PROVE  Client!Fresh(used) \in Nat
<1> DEFINE S == (1 .. Cardinality(used) + 1) \ used
<1>1. Cardinality(used) \in Nat /\ (used # {} => Cardinality(used) = 1)
  <2>1. Cardinality({}) = 0 /\ Cardinality({x}) = 1
    BY FS_EmptySet, FS_Singleton
  <2>2. CASE used = {}
    BY <2>1, <2>2
  <2>3. CASE used = {x}
    BY <2>1, <2>3
  <2> QED
    BY <2>2, <2>3
<1>2. S \in SUBSET Nat
  BY <1>1
<1>3. S # {}
  <2>1. CASE used = {}
    <3>1. 1 \in 1 .. Cardinality(used) + 1
      BY <1>1
    <3> QED
      BY <2>1, <3>1
  <2>2. CASE used # {}
    <3>1. 1 \in 1 .. Cardinality(used) + 1 /\ 2 \in 1 .. Cardinality(used) + 1
      BY <1>1, <2>2
    <3> QED
      BY <3>1
  <2> QED
    BY <2>1, <2>2
<1>4. Client!Fresh(used) = Min(S)
  BY ClientCounts DEF Client!Fresh
<1> HIDE DEF S
<1> QED
  BY <1>2, <1>3, <1>4, LeastOf

LEMMA ReconnectDoes ==
  ASSUME NEW pending, pending \subseteq {reconnectTimer}, Client!Reconnect(pending)
  PROVE  reconnectTimer' \in Nat /\ timers' = {reconnectTimer'}
<1>1. pending \union {reconnectTimer} = {reconnectTimer} /\ pending \ {reconnectTimer} = {}
  OBVIOUS
<1> QED
  BY <1>1, FreshIsNat DEF Client!Reconnect

LEMMA StartHeartbeatDoes ==
  ASSUME HandleInv, Client!StartHeartbeat
  PROVE  /\ heartbeatInterval' \in Nat
         /\ intervals' = {heartbeatInterval'}
         /\ missedHeartbeats' = 0
<1>1. intervals \ {heartbeatInterval} = {}
  BY DEF HandleInv
<1>2. Client!Fresh(intervals) \in Nat
  BY FreshIsNat DEF HandleInv
<1> QED
  BY <1>1, <1>2 DEF Client!StartHeartbeat

\* connect() leaves one attempt, which is either under way or to come, and no more
\* sockets that were let go than there were.
LEMMA ConnectDoes ==
  ASSUME ClientInv, NEW pending, pending \subseteq timers, Client!Connect(pending)
  PROVE  /\ ~intentionallyClosed'
         /\ UNCHANGED <<creates, intervals, heartbeatInterval, missedHeartbeats, shown>>
         /\ reconnectTimer' \in Nat
         /\ timers' \subseteq {reconnectTimer'}
         /\ \/ ws' \in Socket /\ sockets'[ws'].state = "connecting"
            \/ ws' = 0 /\ timers' # {}
         /\ sockets' \in [Socket ->
              [state : {"unused", "connecting", "open", "closing", "closed"},
               healthy : BOOLEAN, pinged : BOOLEAN]]
         /\ \A s \in Socket :
              /\ s = ws' \/ sockets'[s] = sockets[s] \/ sockets'[s] = Client!Unused
              /\ s = ws /\ s # ws' => sockets'[s] = Client!Unused
<1> DEFINE kept == [s \in Socket |-> IF s = ws THEN Client!Unused ELSE sockets[s]]
<1> DEFINE free == {s \in Socket : kept[s] = Client!Unused}
<1> DEFINE first == Min(free)
<1>1. /\ ~intentionallyClosed'
      /\ UNCHANGED <<creates, intervals, heartbeatInterval, missedHeartbeats, shown>>
  BY DEF Client!Connect, Client!heartVars
<1>2. pending \subseteq {reconnectTimer} /\ pending \ {reconnectTimer} = {}
  BY DEF ClientInv, HandleInv
<1>3. /\ Client!Unused \in [state : {"unused", "connecting", "open", "closing", "closed"},
                            healthy : BOOLEAN, pinged : BOOLEAN]
      /\ up \in BOOLEAN
  BY DEF Client!Unused, ClientInv, Client!TypeOK
<1>4. kept \in [Socket -> [state : {"unused", "connecting", "open", "closing", "closed"},
                           healthy : BOOLEAN, pinged : BOOLEAN]]
  BY <1>3 DEF ClientInv, Client!TypeOK
<1>5. \A s \in Socket : kept[s] = IF s = ws THEN Client!Unused ELSE sockets[s]
  OBVIOUS
<1>6. first \in Socket
  <2>1. ASSUME free = {} PROVE FALSE
    <3>1. \A s \in Socket : s # ws /\ sockets[s] # Client!Unused
      BY <2>1
    <3>2. LetGo = Socket
      BY <3>1 DEF LetGo, State, ClientInv, HandleInv
    <3>3. Cardinality(Socket) <= calls /\ calls <= MaxCalls /\ calls \in Nat
      BY <3>2, ClientAssumption DEF ClientInv, HandleInv, Client!TypeOK
    <3> QED
      BY <3>3, ClientAssumption
  <2>2. free \in SUBSET Nat
    BY FewSockets
  <2> HIDE DEF free
  <2>3. first \in free
    BY <2>1, <2>2, LeastOf
  <2> QED
    BY <2>3 DEF free
<1>7. IF creates
      THEN /\ ws' = first
           /\ sockets' = [kept EXCEPT ![first] = [Client!Unused EXCEPT !.state = "connecting",
                                                                       !.healthy = up]]
           /\ timers' = pending \ {reconnectTimer}
           /\ reconnectTimer' = 0
      ELSE /\ ws' = 0
           /\ sockets' = kept
           /\ Client!Reconnect(pending \ {reconnectTimer})
  BY ClientCounts DEF Client!Connect
<1> HIDE DEF kept, first
<1>8. CASE creates
  <2> DEFINE fresh == [Client!Unused EXCEPT !.state = "connecting", !.healthy = up]
  <2>1. /\ fresh \in [state : {"unused", "connecting", "open", "closing", "closed"},
                      healthy : BOOLEAN, pinged : BOOLEAN]
        /\ fresh.state = "connecting"
    BY <1>3 DEF Client!Unused
  <2>2. ws' = first /\ sockets' = [kept EXCEPT ![first] = fresh]
        /\ timers' = {} /\ reconnectTimer' = 0
    BY <1>2, <1>7, <1>8
  <2> HIDE DEF fresh
  <2> QED
    BY <1>1, <1>4, <1>5, <1>6, <2>1, <2>2
<1>9. CASE ~creates
  <2>1. ws' = 0 /\ sockets' = kept /\ Client!Reconnect(pending \ {reconnectTimer})
    BY <1>7, <1>9
  <2>2. reconnectTimer' \in Nat /\ timers' = {reconnectTimer'}
    BY <1>2, <2>1, ReconnectDoes
  <2>3. \A s \in Socket : s # 0
    BY FewSockets
  <2> QED
    BY <1>1, <1>4, <1>5, <2>1, <2>2, <2>3
<1> QED
  BY <1>8, <1>9

LEMMA LetGoShrinks ==
  ASSUME ClientInv, LetGo' \subseteq LetGo, calls' \in Nat, calls <= calls'
  PROVE  Cardinality(LetGo)' <= calls'
<1>1. LetGo \subseteq Socket /\ IsFiniteSet(LetGo)
  <2>1. LetGo \subseteq Socket
    BY DEF LetGo
  <2> QED
    BY <2>1, FewSockets, FS_Subset
<1>2. /\ Cardinality(LetGo') <= Cardinality(LetGo)
      /\ Cardinality(LetGo') \in Nat /\ Cardinality(LetGo) \in Nat
  BY <1>1, FS_Subset, FS_CardinalityType
<1>3. Cardinality(LetGo) <= calls /\ calls \in Nat
  BY ClientAssumption DEF ClientInv, HandleInv, Client!TypeOK
<1> QED
  BY <1>2, <1>3

LEMMA ClientTypes ==
  ASSUME ClientInv
  PROVE  /\ loaded \in BOOLEAN /\ creates \in BOOLEAN /\ intentionallyClosed \in BOOLEAN
         /\ shown \in BOOLEAN /\ up \in BOOLEAN
         /\ ws \in Socket \union {0}
         /\ 0 \notin Socket
         /\ sockets \in [Socket ->
              [state : {"unused", "connecting", "open", "closing", "closed"},
               healthy : BOOLEAN, pinged : BOOLEAN]]
         /\ reconnectTimer \in Nat /\ heartbeatInterval \in Nat
         /\ timers \subseteq {reconnectTimer} /\ intervals \subseteq {heartbeatInterval}
         /\ missedHeartbeats \in 0 .. MaxMissed
         /\ faults \in 0 .. MaxFaults
         /\ calls \in 0 .. MaxCalls
  BY FewSockets DEF ClientInv, HandleInv, Client!TypeOK

LEMMA ConnectKeeps ==
  ASSUME ClientInv, NEW pending, pending \subseteq timers, Client!Connect(pending),
         loaded' \in BOOLEAN, UNCHANGED <<up, faults>>,
         calls' \in 0 .. MaxCalls, calls <= calls'
  PROVE  ClientInv'
<1>1. /\ ~intentionallyClosed'
      /\ UNCHANGED <<creates, intervals, heartbeatInterval, missedHeartbeats, shown>>
      /\ reconnectTimer' \in Nat
      /\ timers' \subseteq {reconnectTimer'}
      /\ \/ ws' \in Socket /\ sockets'[ws'].state = "connecting"
         \/ ws' = 0 /\ timers' # {}
      /\ sockets' \in [Socket ->
           [state : {"unused", "connecting", "open", "closing", "closed"},
            healthy : BOOLEAN, pinged : BOOLEAN]]
      /\ \A s \in Socket :
           /\ s = ws' \/ sockets'[s] = sockets[s] \/ sockets'[s] = Client!Unused
           /\ s = ws /\ s # ws' => sockets'[s] = Client!Unused
  BY ConnectDoes
<1>2. Client!Unused.state = "unused"
  BY DEF Client!Unused
<1>3. Client!TypeOK'
  <2>1. intentionallyClosed' = FALSE
    BY DEF Client!Connect
  <2> QED
    BY <1>1, <2>1, ClientTypes DEF Client!TypeOK
<1>4. \A s \in Socket : State(s)' \in {"connecting", "open", "closed"} => s = ws'
  BY <1>1, <1>2 DEF State, ClientInv, HandleInv
<1>5. \A s \in Socket : State(s)' = "unused" => sockets'[s] = Client!Unused
  <2> SUFFICES ASSUME NEW s \in Socket, sockets'[s].state = "unused"
               PROVE  sockets'[s] = Client!Unused
    BY DEF State
  <2>1. sockets[s].state = "unused" => sockets[s] = Client!Unused
    BY DEF State, ClientInv, HandleInv
  <2>2. s # ws'
    BY <1>1, ClientTypes
  <2> QED
    BY <1>1, <2>1, <2>2
<1>6. LetGo' \subseteq LetGo
  BY <1>1, <1>2 DEF LetGo, State
<1>7. HandleInv'
  BY <1>1, <1>4, <1>5, <1>6, LetGoShrinks, ClientTypes DEF HandleInv, Client!Unused
<1>8. \/ Client!ReadyState(ws)' = "connecting"
      \/ Client!ReadyState(ws)' = "unused" /\ timers' # {}
  <2>1. 0 \notin Socket
    BY ClientTypes
  <2>2. CASE ws' \in Socket /\ sockets'[ws'].state = "connecting"
    BY <2>1, <2>2 DEF Client!ReadyState
  <2>3. CASE ws' = 0 /\ timers' # {}
    BY <2>3, Zenon DEF Client!ReadyState
  <2> QED
    BY <1>1, <2>2, <2>3, Zenon
<1>9. SilentInv' /\ BeatInv' /\ NeverStranded'
  BY <1>1, <1>8 DEF SilentInv, BeatInv, NeverStranded, Client!NeverStranded
<1> QED
  BY <1>3, <1>7, <1>9 DEF ClientInv

\* While the manager's socket is the same, its own events and those of sockets that
\* are let go bring no other one to life.
LEMMA SocketsKeep ==
  ASSUME ClientInv, UNCHANGED <<ws, calls>>,
         \A s \in Socket : \/ s = ws
                           \/ sockets'[s].state = sockets[s].state
                           \/ sockets'[s].state = "unused",
         \A s \in Socket : sockets'[s].state = "unused" => sockets'[s] = Client!Unused,
         timers' \subseteq {reconnectTimer'}, intervals' \subseteq {heartbeatInterval'}
  PROVE  HandleInv'
<1>1. \A s \in Socket : State(s)' \in {"connecting", "open", "closed"} => s = ws'
  BY DEF State, ClientInv, HandleInv
<1>2. LetGo' \subseteq LetGo
  BY DEF LetGo, State
<1>3. Cardinality(LetGo)' <= calls'
  BY <1>2, LetGoShrinks, ClientTypes
<1>4. \A s \in Socket : State(s)' = "unused" => (sockets[s] = Client!Unused)'
  BY DEF State, Client!Unused
<1> QED
  BY <1>1, <1>3, <1>4 DEF HandleInv

LEMMA ReadyIsState ==
  ASSUME ws \in Socket, 0 \notin Socket
  PROVE  Client!ReadyState(ws) = sockets[ws].state
  BY DEF Client!ReadyState

LEMMA DisconnectKeeps ==
  ASSUME ClientInv, Client!Disconnect
  PROVE  ClientInv'
<1>1. /\ intentionallyClosed' = TRUE
      /\ intervals' = {} /\ heartbeatInterval' = 0 /\ missedHeartbeats' = 0
      /\ timers' = {} /\ reconnectTimer' = 0
      /\ ws' = 0
      /\ calls < MaxCalls /\ calls' = calls + 1
      /\ UNCHANGED <<loaded, creates, shown, up, faults>>
  BY ClientTypes DEF Client!Disconnect, Client!Called, Client!StopHeartbeat, Client!worldVars
<1>2. /\ Client!Unused \in [state : {"unused", "connecting", "open", "closing", "closed"},
                            healthy : BOOLEAN, pinged : BOOLEAN]
      /\ Client!Unused.state = "unused"
  BY DEF Client!Unused
<1>3. /\ sockets' \in [Socket ->
           [state : {"unused", "connecting", "open", "closing", "closed"},
            healthy : BOOLEAN, pinged : BOOLEAN]]
      /\ \A s \in Socket \ {ws} : sockets'[s] = sockets[s]
      /\ ws \in Socket => \/ sockets'[ws] = Client!Unused
                          \/ sockets'[ws].state = "closing"
  BY <1>2, ClientTypes DEF Client!Disconnect
<1>4. calls \in 0 .. MaxCalls /\ MaxCalls \in Nat /\ 0 \notin Socket /\ MaxMissed \in Nat
  BY ClientTypes, ClientAssumption
<1>5. Client!TypeOK'
  <2>1. calls' \in 0 .. MaxCalls /\ missedHeartbeats' \in 0 .. MaxMissed
    BY <1>1, <1>4
  <2> QED
    BY <1>1, <1>3, <2>1, ClientTypes DEF Client!TypeOK
<1>6. \A s \in Socket : State(s)' \notin {"connecting", "open", "closed"}
  BY <1>2, <1>3 DEF State, ClientInv, HandleInv
<1>7. \A s \in Socket : State(s)' = "unused" => (sockets[s] = Client!Unused)'
  BY <1>2, <1>3 DEF State, Client!Unused, ClientInv, HandleInv
<1>8. Cardinality(LetGo)' <= calls'
  <2>1. LetGo \subseteq Socket /\ IsFiniteSet(LetGo)
    BY FewSockets, FS_Subset DEF LetGo
  <2>2. /\ IsFiniteSet(LetGo \union {ws})
        /\ Cardinality(LetGo \union {ws}) <= Cardinality(LetGo) + 1
    <3>1. IsFiniteSet(LetGo \union {ws})
          /\ Cardinality(LetGo \union {ws}) =
               IF ws \in LetGo THEN Cardinality(LetGo) ELSE Cardinality(LetGo) + 1
      BY <2>1, FS_AddElement
    <3> QED
      BY <2>1, <3>1, FS_CardinalityType
  <2>3. LetGo' \subseteq LetGo \union {ws}
    BY <1>3 DEF LetGo, State
  <2>4. /\ Cardinality(LetGo') <= Cardinality(LetGo \union {ws})
        /\ Cardinality(LetGo') \in Nat
        /\ Cardinality(LetGo \union {ws}) \in Nat
        /\ Cardinality(LetGo) \in Nat
    BY <2>1, <2>2, <2>3, FS_Subset, FS_CardinalityType
  <2>5. Cardinality(LetGo) <= calls
    BY DEF ClientInv, HandleInv
  <2> QED
    BY <1>1, <1>4, <2>2, <2>4, <2>5
<1>9. HandleInv'
  BY <1>1, <1>6, <1>7, <1>8 DEF HandleInv
<1>10. Client!ReadyState(ws)' = "unused"
  BY <1>1 DEF Client!ReadyState
<1>11. SilentInv' /\ BeatInv' /\ NeverStranded'
  BY <1>1, <1>10 DEF SilentInv, BeatInv, NeverStranded, Client!NeverStranded
<1> QED
  BY <1>5, <1>9, <1>11 DEF ClientInv

LEMMA OpenKeeps ==
  ASSUME ClientInv, NEW s \in Socket, Client!Open(s)
  PROVE  ClientInv'
<1>1. /\ sockets[s].state = "connecting"
      /\ sockets' = [sockets EXCEPT ![s].state = "open"]
      /\ shown' = TRUE
      /\ Client!StartHeartbeat
      /\ UNCHANGED <<loaded, creates, ws, timers, reconnectTimer, intentionallyClosed, up,
                     faults, calls>>
  BY DEF Client!Open, Client!timerVars, Client!worldVars
<1>2. s = ws
  BY <1>1 DEF ClientInv, HandleInv, State
<1>3. /\ heartbeatInterval' \in Nat /\ intervals' = {heartbeatInterval'}
      /\ missedHeartbeats' = 0
  BY <1>1, StartHeartbeatDoes DEF ClientInv
<1>4. /\ sockets' \in [Socket ->
           [state : {"unused", "connecting", "open", "closing", "closed"},
            healthy : BOOLEAN, pinged : BOOLEAN]]
      /\ sockets'[s].state = "open"
      /\ \A x \in Socket \ {s} : sockets'[x] = sockets[x]
  BY <1>1, ClientTypes
<1>5. Client!TypeOK'
  <2>1. missedHeartbeats' \in 0 .. MaxMissed
    BY <1>3, ClientAssumption
  <2> QED
    BY <1>1, <1>3, <1>4, <2>1, ClientTypes DEF Client!TypeOK
<1>6. HandleInv'
  <2>1. \A x \in Socket : sockets'[x].state = "unused" => sockets'[x] = Client!Unused
    BY <1>4 DEF ClientInv, HandleInv, State
  <2> QED
    BY <1>1, <1>2, <1>3, <1>4, <2>1, ClientTypes, SocketsKeep
<1>7. Client!ReadyState(ws) = "connecting" /\ Client!ReadyState(ws)' = "open"
  BY <1>1, <1>2, <1>4, ClientTypes DEF Client!ReadyState
<1>8. ~intentionallyClosed
  BY <1>7 DEF ClientInv, SilentInv
<1>9. SilentInv' /\ NeverStranded'
  BY <1>1, <1>3, <1>7, <1>8 DEF SilentInv, NeverStranded, Client!NeverStranded
<1>10. BeatInv'
  BY <1>3, ClientAssumption DEF BeatInv
<1> QED
  BY <1>5, <1>6, <1>9, <1>10 DEF ClientInv

\* However late the close event is, and whichever socket it is of.
LEMMA OnCloseKeeps ==
  ASSUME ClientInv, NEW s \in Socket, Client!OnClose(s),
         up' \in BOOLEAN, faults' \in 0 .. MaxFaults
  PROVE  ClientInv'
<1>1. /\ sockets' = [sockets EXCEPT ![s] =
           IF s = ws THEN [sockets[s] EXCEPT !.state = "closed"] ELSE Client!Unused]
      /\ intervals' = {} /\ heartbeatInterval' = 0 /\ missedHeartbeats' = 0
      /\ IF intentionallyClosed THEN UNCHANGED <<timers, reconnectTimer>>
         ELSE Client!Reconnect(timers)
      /\ shown' = FALSE
      /\ UNCHANGED <<loaded, creates, ws, intentionallyClosed, calls>>
  BY ClientTypes DEF Client!OnClose, Client!StopHeartbeat, Client!timerVars
<1>2. /\ Client!Unused \in [state : {"unused", "connecting", "open", "closing", "closed"},
                            healthy : BOOLEAN, pinged : BOOLEAN]
      /\ Client!Unused.state = "unused"
  BY DEF Client!Unused
<1>3. /\ sockets' \in [Socket ->
           [state : {"unused", "connecting", "open", "closing", "closed"},
            healthy : BOOLEAN, pinged : BOOLEAN]]
      /\ \A x \in Socket \ {s} : sockets'[x] = sockets[x]
      /\ IF s = ws THEN sockets'[s].state = "closed" ELSE sockets'[s] = Client!Unused
  BY <1>1, <1>2, ClientTypes
<1>4. /\ reconnectTimer' \in Nat
      /\ timers' \subseteq {reconnectTimer'}
      /\ intentionallyClosed => timers' = timers
      /\ ~intentionallyClosed => timers' # {}
  <2>1. CASE intentionallyClosed
    BY <1>1, <2>1, ClientTypes
  <2>2. CASE ~intentionallyClosed
    <3>1. reconnectTimer' \in Nat /\ timers' = {reconnectTimer'}
      BY <1>1, <2>2, ClientTypes, ReconnectDoes
    <3> QED
      BY <2>2, <3>1
  <2> QED
    BY <2>1, <2>2
<1>5. Client!TypeOK'
  <2>1. missedHeartbeats' \in 0 .. MaxMissed
    BY <1>1, ClientAssumption
  <2>2. {reconnectTimer', heartbeatInterval'} \union timers' \union intervals' \subseteq Nat
    BY <1>1, <1>4
  <2>3. /\ UNCHANGED <<loaded, creates, ws, intentionallyClosed, calls>>
        /\ shown' \in BOOLEAN
    BY <1>1
  <2> QED
    BY <1>3, <2>1, <2>2, <2>3, ClientTypes DEF Client!TypeOK
<1>6. HandleInv'
  <2>1. \A x \in Socket : sockets'[x].state = "unused" => sockets'[x] = Client!Unused
    BY <1>3 DEF ClientInv, HandleInv, State
  <2>2. \A x \in Socket : \/ x = ws
                          \/ sockets'[x].state = sockets[x].state
                          \/ sockets'[x].state = "unused"
    BY <1>2, <1>3
  <2> QED
    BY <1>1, <1>4, <2>1, <2>2, SocketsKeep
<1>7. SilentInv'
  <2>1. Client!ReadyState(ws)' = Client!ReadyState(ws) \/ Client!ReadyState(ws)' = "closed"
    BY <1>1, <1>3, ClientTypes DEF Client!ReadyState
  <2> QED
    BY <1>1, <1>4, <2>1 DEF SilentInv, ClientInv
<1>8. BeatInv'
  BY <1>1, ClientAssumption DEF BeatInv
<1>9. NeverStranded'
  BY <1>1, <1>4 DEF NeverStranded, Client!NeverStranded
<1> QED
  BY <1>5, <1>6, <1>7, <1>8, <1>9 DEF ClientInv

\* What changes no state of a socket and no handle disturbs only the count of the
\* missed heartbeats.
LEMMA StatesKeep ==
  ASSUME ClientInv,
         UNCHANGED <<loaded, creates, ws, timers, reconnectTimer, intervals,
                     heartbeatInterval, intentionallyClosed, shown, calls>>,
         sockets' \in [Socket ->
           [state : {"unused", "connecting", "open", "closing", "closed"},
            healthy : BOOLEAN, pinged : BOOLEAN]],
         \A s \in Socket : \/ sockets'[s].state = sockets[s].state
                           \/ s = ws /\ sockets'[s].state = "closing",
         \A s \in Socket : sockets'[s].state = "unused" => sockets'[s] = Client!Unused,
         missedHeartbeats' \in 0 .. MaxMissed, up' \in BOOLEAN, faults' \in 0 .. MaxFaults,
         BeatInv'
  PROVE  ClientInv'
<1>1. Client!TypeOK'
  BY ClientTypes DEF Client!TypeOK
<1>2. HandleInv'
  BY ClientTypes, SocketsKeep
<1>3. Client!ReadyState(ws)' = Client!ReadyState(ws) \/ Client!ReadyState(ws)' = "closing"
  BY ClientTypes DEF Client!ReadyState
<1>4. SilentInv'
  BY <1>3 DEF SilentInv, ClientInv
<1>5. NeverStranded'
  BY <1>3 DEF NeverStranded, Client!NeverStranded, ClientInv
<1> QED
  BY <1>1, <1>2, <1>4, <1>5 DEF ClientInv

LEMMA MessageKeeps ==
  ASSUME ClientInv, NEW s \in Socket, Client!Message(s)
  PROVE  ClientInv'
<1>1. /\ sockets' = [sockets EXCEPT ![s].pinged = FALSE]
      /\ sockets[s].state = "open"
      /\ missedHeartbeats' = 0
      /\ UNCHANGED <<loaded, creates, ws, timers, reconnectTimer, intervals,
                     heartbeatInterval, intentionallyClosed, shown, calls, up, faults>>
  BY DEF Client!Message, Client!timerVars, Client!worldVars
<1>2. /\ sockets' \in [Socket ->
           [state : {"unused", "connecting", "open", "closing", "closed"},
            healthy : BOOLEAN, pinged : BOOLEAN]]
      /\ sockets'[s].state = "open"
      /\ \A x \in Socket \ {s} : sockets'[x] = sockets[x]
  BY <1>1, ClientTypes
<1>3. \A x \in Socket : sockets'[x].state = "unused" => sockets'[x] = Client!Unused
  BY <1>2 DEF ClientInv, HandleInv, State
<1>4. BeatInv' /\ missedHeartbeats' \in 0 .. MaxMissed
  BY <1>1, ClientAssumption DEF BeatInv
<1> QED
  BY <1>1, <1>2, <1>3, <1>4, ClientTypes, StatesKeep

LEMMA TickKeeps ==
  ASSUME ClientInv, NEW i \in intervals, Client!HeartbeatTick(i)
  PROVE  ClientInv'
<1>1. /\ Client!ReadyState(ws) = "open"
      /\ missedHeartbeats' = missedHeartbeats + 1
      /\ sockets' = [sockets EXCEPT ![ws] =
           IF missedHeartbeats + 1 >= MaxMissed THEN [sockets[ws] EXCEPT !.state = "closing"]
           ELSE [sockets[ws] EXCEPT !.pinged = sockets[ws].healthy]]
      /\ UNCHANGED <<loaded, creates, ws, timers, reconnectTimer, intervals,
                     heartbeatInterval, intentionallyClosed, shown, calls, up, faults>>
  BY DEF Client!HeartbeatTick, Client!timerVars, Client!worldVars
<1>2. ws \in Socket /\ sockets[ws].state = "open"
  BY <1>1, ClientTypes DEF Client!ReadyState
<1>3. missedHeartbeats \in Nat /\ missedHeartbeats < MaxMissed /\ MaxMissed \in Nat
  BY <1>1, ClientTypes, ClientAssumption DEF ClientInv, BeatInv
<1>4. /\ sockets' \in [Socket ->
           [state : {"unused", "connecting", "open", "closing", "closed"},
            healthy : BOOLEAN, pinged : BOOLEAN]]
      /\ sockets'[ws].state = IF missedHeartbeats + 1 >= MaxMissed THEN "closing" ELSE "open"
      /\ \A x \in Socket \ {ws} : sockets'[x] = sockets[x]
  BY <1>1, <1>2, ClientTypes
<1>5. \A x \in Socket : sockets'[x].state = "unused" => sockets'[x] = Client!Unused
  BY <1>4 DEF ClientInv, HandleInv, State
<1>6. \A x \in Socket : \/ sockets'[x].state = sockets[x].state
                        \/ x = ws /\ sockets'[x].state = "closing"
  BY <1>2, <1>4
<1>7. missedHeartbeats' \in 0 .. MaxMissed
  BY <1>1, <1>3
<1>8. BeatInv'
  <2>1. Client!ReadyState(ws)' = sockets'[ws].state
    BY <1>1, <1>2, ClientTypes DEF Client!ReadyState
  <2>2. CASE missedHeartbeats + 1 >= MaxMissed
    BY <1>4, <2>1, <2>2 DEF BeatInv
  <2>3. CASE ~(missedHeartbeats + 1 >= MaxMissed)
    BY <1>1, <1>3, <2>3 DEF BeatInv
  <2> QED
    BY <2>2, <2>3
<1> QED
  BY <1>1, <1>4, <1>5, <1>6, <1>7, <1>8, ClientTypes, StatesKeep

LEMMA FaultKeeps ==
  ASSUME ClientInv, Client!Fault, up' \in BOOLEAN,
         sockets' \in [Socket ->
           [state : {"unused", "connecting", "open", "closing", "closed"},
            healthy : BOOLEAN, pinged : BOOLEAN]],
         \A s \in Socket : sockets'[s].state = sockets[s].state,
         \A s \in Socket : sockets'[s].state = "unused" => sockets'[s] = Client!Unused
  PROVE  ClientInv'
<1>1. /\ faults < MaxFaults /\ faults' = faults + 1
      /\ UNCHANGED <<loaded, creates, ws, timers, reconnectTimer, intervals,
                     heartbeatInterval, missedHeartbeats, intentionallyClosed, shown, calls>>
  BY DEF Client!Fault, Client!timerVars, Client!heartVars
<1>2. faults' \in 0 .. MaxFaults
  BY <1>1, ClientTypes, ClientAssumption
<1>3. BeatInv'
  <2>1. Client!ReadyState(ws)' = Client!ReadyState(ws)
    BY <1>1, ClientTypes DEF Client!ReadyState
  <2> QED
    BY <1>1, <2>1 DEF BeatInv, ClientInv
<1> QED
  BY <1>1, <1>2, <1>3, ClientTypes, StatesKeep

LEMMA DiesKeeps ==
  ASSUME ClientInv, NEW s \in Socket, Client!Dies(s)
  PROVE  ClientInv'
<1>1. /\ sockets[s].healthy
      /\ sockets' = [sockets EXCEPT ![s].healthy = FALSE, ![s].pinged = FALSE]
      /\ Client!Fault /\ up' = up
  BY DEF Client!Dies
<1>2. /\ sockets' \in [Socket ->
           [state : {"unused", "connecting", "open", "closing", "closed"},
            healthy : BOOLEAN, pinged : BOOLEAN]]
      /\ \A x \in Socket : sockets'[x].state = sockets[x].state
      /\ \A x \in Socket \ {s} : sockets'[x] = sockets[x]
  BY <1>1, ClientTypes
<1>3. sockets[s].state # "unused"
  BY <1>1 DEF ClientInv, HandleInv, State, Client!Unused
<1>4. \A x \in Socket : sockets'[x].state = "unused" => sockets'[x] = Client!Unused
  BY <1>2, <1>3 DEF ClientInv, HandleInv, State
<1> QED
  BY <1>1, <1>2, <1>4, ClientTypes, FaultKeeps

LEMMA GoDownKeeps ==
  ASSUME ClientInv, Client!GoDown
  PROVE  ClientInv'
<1>1. /\ sockets' = [s \in Socket |-> [sockets[s] EXCEPT !.healthy = FALSE, !.pinged = FALSE]]
      /\ Client!Fault /\ up' = FALSE
  BY DEF Client!GoDown
<1>2. /\ sockets' \in [Socket ->
           [state : {"unused", "connecting", "open", "closing", "closed"},
            healthy : BOOLEAN, pinged : BOOLEAN]]
      /\ \A x \in Socket : sockets'[x].state = sockets[x].state
  BY <1>1, ClientTypes
<1>3. \A x \in Socket : sockets'[x].state = "unused" => sockets'[x] = Client!Unused
  <2> SUFFICES ASSUME NEW x \in Socket, sockets'[x].state = "unused"
               PROVE  sockets'[x] = Client!Unused
    OBVIOUS
  <2>1. sockets[x] = Client!Unused
    BY <1>2 DEF ClientInv, HandleInv, State
  <2>2. sockets'[x] = [Client!Unused EXCEPT !.healthy = FALSE, !.pinged = FALSE]
    BY <1>1, <2>1
  <2> QED
    BY <2>2 DEF Client!Unused
<1> QED
  BY <1>1, <1>2, <1>3, FaultKeeps

LEMMA GoUpKeeps ==
  ASSUME ClientInv, Client!GoUp
  PROVE  ClientInv'
<1>1. /\ up' = TRUE
      /\ UNCHANGED <<loaded, creates, ws, sockets, timers, reconnectTimer, intervals,
                     heartbeatInterval, missedHeartbeats, intentionallyClosed, shown, faults,
                     calls>>
  BY DEF Client!GoUp, Client!timerVars, Client!heartVars
<1>2. Client!ReadyState(ws)' = Client!ReadyState(ws)
  BY <1>1 DEF Client!ReadyState
<1>3. BeatInv'
  BY <1>1, <1>2 DEF BeatInv, ClientInv
<1>4. \A s \in Socket : sockets'[s].state = "unused" => sockets'[s] = Client!Unused
  BY <1>1 DEF ClientInv, HandleInv, State
<1> QED
  BY <1>1, <1>3, <1>4, ClientTypes, StatesKeep

LEMMA ClientInit ==
  ASSUME Client!Init
  PROVE  ClientInv
<1>1. /\ loaded = FALSE /\ creates \in BOOLEAN /\ ws = 0
      /\ sockets = [s \in Socket |-> Client!Unused]
      /\ timers = {} /\ reconnectTimer = 0 /\ intervals = {} /\ heartbeatInterval = 0
      /\ missedHeartbeats = 0 /\ intentionallyClosed = FALSE /\ shown = FALSE
      /\ up \in BOOLEAN /\ faults = 0 /\ calls = 0
  BY DEF Client!Init
<1>2. /\ Client!Unused \in [state : {"unused", "connecting", "open", "closing", "closed"},
                            healthy : BOOLEAN, pinged : BOOLEAN]
      /\ \A s \in Socket : State(s) = "unused" /\ sockets[s] = Client!Unused
  BY <1>1 DEF Client!Unused, State
<1>3. 0 \in 0 .. MaxMissed /\ 0 \in 0 .. MaxFaults /\ 0 \in 0 .. MaxCalls
  BY ClientAssumption
<1>4. Client!TypeOK
  <2>1. sockets \in [Socket ->
          [state : {"unused", "connecting", "open", "closing", "closed"},
           healthy : BOOLEAN, pinged : BOOLEAN]]
    BY <1>1, <1>2
  <2>2. {reconnectTimer, heartbeatInterval} \union timers \union intervals \subseteq Nat
    BY <1>1
  <2>3. {loaded, creates, intentionallyClosed, shown, up} \subseteq BOOLEAN
    BY <1>1
  <2> QED
    BY <1>1, <1>3, <2>1, <2>2, <2>3 DEF Client!TypeOK
<1>5. HandleInv
  <2>1. LetGo = {}
    BY <1>2 DEF LetGo
  <2>2. Cardinality(LetGo) = 0
    BY <2>1, FS_EmptySet
  <2> QED
    BY <1>1, <1>2, <2>2 DEF HandleInv
<1>6. Client!ReadyState(ws) = "unused"
  BY <1>1 DEF Client!ReadyState
<1>7. SilentInv /\ BeatInv /\ NeverStranded
  BY <1>1, <1>6 DEF SilentInv, BeatInv, NeverStranded, Client!NeverStranded
<1> QED
  BY <1>4, <1>5, <1>7 DEF ClientInv

LEMMA ClientNext ==
  ASSUME ClientInv, Client!Next
  PROVE  ClientInv'
<1>1. calls \in 0 .. MaxCalls /\ MaxCalls \in Nat
  BY ClientTypes, ClientAssumption
<1>2. CASE Client!Load
  <2>1. Client!Connect(timers) /\ UNCHANGED <<up, faults, calls>> /\ loaded' \in BOOLEAN
    BY <1>2 DEF Client!Load, Client!worldVars
  <2> QED
    BY <1>1, <2>1, ConnectKeeps
<1>3. CASE Client!Visible \/ Client!Online
  <2>1. /\ Client!Connect(timers) /\ UNCHANGED <<loaded, up, faults>>
        /\ calls < MaxCalls /\ calls' = calls + 1
    BY <1>3 DEF Client!Visible, Client!Online, Client!Called, Client!worldVars
  <2>2. calls' \in 0 .. MaxCalls /\ calls <= calls'
    BY <1>1, <2>1
  <2> QED
    BY <2>1, <2>2, ClientTypes, ConnectKeeps
<1>4. ASSUME NEW t \in timers, Client!TimerFires(t) PROVE ClientInv'
  <2>1. Client!Connect(timers \ {t}) /\ UNCHANGED <<loaded, up, faults, calls>>
    BY <1>4 DEF Client!TimerFires, Client!worldVars
  <2> QED
    BY <1>1, <2>1, ClientTypes, ConnectKeeps
<1>5. ASSUME NEW s \in Socket, Client!Closes(s) \/ Client!ClosedByPeer(s) PROVE ClientInv'
  <2>1. /\ Client!OnClose(s) /\ up' = up
        /\ \/ faults' = faults
           \/ faults < MaxFaults /\ faults' = faults + 1
    BY <1>5 DEF Client!Closes, Client!ClosedByPeer, Client!worldVars
  <2>2. faults' \in 0 .. MaxFaults
    BY <2>1, ClientTypes, ClientAssumption
  <2> QED
    BY <2>1, <2>2, ClientTypes, OnCloseKeeps
<1> QED
  BY <1>2, <1>3, <1>4, <1>5, DisconnectKeeps, GoDownKeeps, GoUpKeeps, TickKeeps, OpenKeeps,
     MessageKeeps, DiesKeeps DEF Client!Next

LEMMA ClientStutters ==
  ASSUME ClientInv, UNCHANGED clientVars
  PROVE  ClientInv'
<1>1. UNCHANGED <<loaded, creates, ws, sockets, timers, reconnectTimer, intervals,
                  heartbeatInterval, missedHeartbeats, intentionallyClosed, shown, up, faults,
                  calls>>
  BY DEF clientVars
<1>2. Client!ReadyState(ws)' = Client!ReadyState(ws)
  BY <1>1 DEF Client!ReadyState
<1>3. BeatInv'
  BY <1>1, <1>2 DEF BeatInv, ClientInv
<1>4. \A s \in Socket : sockets'[s].state = "unused" => sockets'[s] = Client!Unused
  BY <1>1 DEF ClientInv, HandleInv, State
<1> QED
  BY <1>1, <1>3, <1>4, ClientTypes, StatesKeep

\* Of what has one handle there is one at most.
LEMMA ClientInvIsOneOfEach ==
  ASSUME ClientInv
  PROVE  OneOfEach
<1>1. {s \in Socket : sockets[s].state \in {"connecting", "open"}} \subseteq {ws}
  BY DEF ClientInv, HandleInv, State
<1>2. timers \subseteq {reconnectTimer} /\ intervals \subseteq {heartbeatInterval}
  BY ClientTypes
<1>3. /\ Cardinality({s \in Socket : sockets[s].state \in {"connecting", "open"}}) <= 1
      /\ Cardinality(timers) <= 1
      /\ Cardinality(intervals) <= 1
  BY <1>1, <1>2, AtMostOne
<1>4. SilentInv
  BY DEF ClientInv
<1> QED
  BY <1>3, <1>4, ClientCounts DEF OneOfEach, Client!OneOfEach, SilentInv

-------------------------------------------------------------------------------
(* What the server answers *)

\* The lists the page may have: stored alerts, none twice, and no more than it asks for.
Lists == {list \in Seq(db) : IsInjective(list) /\ Len(list) <= Limit}

LEMMA StoredAlerts ==
  ASSUME db \subseteq Alert
  PROVE  /\ IsFiniteSet(db)
         /\ \A a \in db : a \in Nat
         /\ \A S \in SUBSET db : IsFiniteSet(S) /\ Cardinality(S) \in Nat
<1>1. AlertCount \in Nat
  BY DashboardAssumption
<1>2. IsFiniteSet(Alert) /\ Alert \subseteq Nat
  BY <1>1, FS_Interval DEF Alert
<1>3. IsFiniteSet(db)
  BY <1>2, FS_Subset
<1> QED
  BY <1>2, <1>3, FS_Subset, FS_CardinalityType

\* Of two stored alerts the later has fewer later ones, so that no two have equally many.
LEMMA LaterIsStrict ==
  ASSUME db \subseteq Alert, NEW a \in db, NEW b \in db, a < b
  PROVE  Cardinality(Later(b)) < Cardinality(Later(a))
<1>1. a \in Nat /\ b \in Nat /\ \A c \in db : c \in Nat
  BY StoredAlerts
<1>2. Later(b) \subseteq Later(a) /\ b \in Later(a) /\ b \notin Later(b)
  <2>1. \A c \in db : c > b => c > a
    BY <1>1
  <2>2. b > a /\ ~(b > b)
    BY <1>1
  <2> QED
    BY <2>1, <2>2, Zenon DEF Later
<1>3. IsFiniteSet(Later(a)) /\ Cardinality(Later(a)) \in Nat /\ Cardinality(Later(b)) \in Nat
  BY StoredAlerts DEF Later
<1>4. Cardinality(Later(b)) <= Cardinality(Later(a)) /\ Cardinality(Later(b)) # Cardinality(Later(a))
  BY <1>2, <1>3, FS_Subset
<1> QED
  BY <1>3, <1>4

LEMMA RankIsInjective ==
  ASSUME db \subseteq Alert, NEW a \in db, NEW b \in db,
         Cardinality(Later(a)) = Cardinality(Later(b))
  PROVE  a = b
<1>1. a \in Nat /\ b \in Nat /\ Cardinality(Later(a)) \in Nat
  BY StoredAlerts DEF Later
<1>2. ~(a < b)
  BY <1>1, LaterIsStrict
<1>3. ~(b < a)
  BY <1>1, LaterIsStrict
<1> QED
  BY <1>1, <1>2, <1>3

\* The newest alerts have 0, 1, 2, ... later ones: each number up to theirs occurs.
LEMMA RanksAreExact ==
  ASSUME db \subseteq Alert
  PROVE  /\ Cardinality(Newest) \in 0 .. Limit
         /\ \A n \in 1 .. Cardinality(Newest) :
              \E a \in db : Cardinality(Later(a)) = n - 1
<1> DEFINE n == Cardinality(Newest)
<1> DEFINE rank == [a \in Newest |-> Cardinality(Later(a))]
<1>1. /\ Newest \subseteq db /\ IsFiniteSet(Newest) /\ n \in Nat
      /\ \A a \in Newest : /\ Cardinality(Later(a)) \in Nat
                           /\ Cardinality(Later(a)) < Limit
      /\ Limit \in Nat
  <2>1. Newest \subseteq db /\ \A a \in Newest : Later(a) \subseteq db
    BY DEF Newest, Later
  <2> QED
    BY <2>1, StoredAlerts, DashboardAssumption DEF Newest
<1>2. IsInjective(rank)
  BY <1>1, RankIsInjective DEF IsInjective
<1>3. \A m \in Nat : IsFiniteSet(0 .. m - 1) /\ Cardinality(0 .. m - 1) = m
  <2> SUFFICES ASSUME NEW m \in Nat
               PROVE  IsFiniteSet(0 .. m - 1) /\ Cardinality(0 .. m - 1) = m
    OBVIOUS
  <2>1. 0 \in Int /\ m - 1 \in Int
    OBVIOUS
  <2>2. Cardinality(0 .. m - 1) = IF 0 > m - 1 THEN 0 ELSE (m - 1) - 0 + 1
    BY <2>1, FS_Interval
  <2> QED
    BY <2>1, <2>2, FS_Interval
<1>4. n <= Limit
  <2>1. rank \in Injection(Newest, 0 .. Limit - 1)
    BY <1>1, <1>2 DEF Injection
  <2>2. IsFiniteSet(0 .. Limit - 1) /\ Cardinality(0 .. Limit - 1) = Limit
    BY <1>1, <1>3
  <2> HIDE DEF rank
  <2> QED
    BY <2>1, <2>2, FS_Injection
<1>5. ASSUME NEW a \in Newest PROVE rank[a] \in 0 .. n - 1
  <2>1. Later(a) \subseteq Newest
    <3> SUFFICES ASSUME NEW b \in Later(a) PROVE b \in Newest
      OBVIOUS
    <3>1. b \in db /\ a < b
      BY DEF Later
    <3>2. /\ Cardinality(Later(b)) < Cardinality(Later(a))
          /\ Cardinality(Later(b)) \in Nat
      BY <1>1, <3>1, LaterIsStrict, StoredAlerts DEF Later
    <3> QED
      BY <1>1, <3>1, <3>2 DEF Newest
  <2>2. a \notin Later(a)
    BY <1>1, StoredAlerts DEF Later
  <2>3. /\ Cardinality(Later(a)) <= n
        /\ Cardinality(Later(a)) # n
    BY <1>1, <2>1, <2>2, FS_Subset
  <2> QED
    BY <1>1, <2>3
<1>6. rank \in Surjection(Newest, 0 .. n - 1)
  <2>1. rank \in Injection(Newest, 0 .. n - 1)
    BY <1>2, <1>5 DEF Injection
  <2>2. IsFiniteSet(0 .. n - 1) /\ Cardinality(0 .. n - 1) = Cardinality(Newest)
    BY <1>1, <1>3
  <2> HIDE DEF rank, n
  <2> QED
    BY <2>1, <2>2, FS_Injection
<1>7. ASSUME NEW k \in 1 .. n PROVE \E a \in db : Cardinality(Later(a)) = k - 1
  <2>1. k - 1 \in 0 .. n - 1
    BY <1>1
  <2>2. PICK a \in Newest : rank[a] = k - 1
    BY <1>6, <2>1 DEF Surjection
  <2> QED
    BY <1>1, <2>2
<1> QED
  BY <1>1, <1>4, <1>7

LEMMA GetRecentIsAList ==
  ASSUME db \subseteq Alert
  PROVE  GetRecent \in Lists
<1> DEFINE n == Cardinality(Newest)
<1>1. n \in Nat /\ n <= Limit
  BY RanksAreExact, DashboardAssumption
<1>2. /\ GetRecent = [k \in 1 .. n |-> CHOOSE a \in db : Cardinality(Later(a)) = k - 1]
      /\ \A k \in 1 .. n : \E a \in db : Cardinality(Later(a)) = k - 1
  BY RanksAreExact DEF GetRecent
<1> HIDE DEF n
<1>3. \A k \in 1 .. n : GetRecent[k] \in db /\ Cardinality(Later(GetRecent[k])) = k - 1
  BY <1>2
<1>4. GetRecent \in Seq(db) /\ Len(GetRecent) = n
  BY <1>1, <1>2, <1>3
<1>5. IsInjective(GetRecent)
  <2> SUFFICES ASSUME NEW j \in 1 .. n, NEW k \in 1 .. n, GetRecent[j] = GetRecent[k]
               PROVE  j = k
    BY <1>4 DEF IsInjective
  <2>1. j - 1 = k - 1
    BY <1>3
  <2> QED
    BY <1>1, <2>1
<1> QED
  BY <1>1, <1>4, <1>5 DEF Lists

-------------------------------------------------------------------------------
(* What the page keeps *)

OneOf(S) == {<<>>} \union {<<x>> : x \in S}

\* A fetch has a list or none, and a number or none for each severity.
Fetch ==
  {f \in [Query -> OneOf(Lists \union Nat)] :
     f["recent"] \in OneOf(Lists) /\ \A s \in Severity : f[s] \in OneOf(Nat)}

DashInv ==
  /\ stage \in {"closed", "loading", "live"}
  /\ infinite \subseteq MayBeInfinite
  /\ db \subseteq Alert
  /\ fetches \in Seq(Fetch) /\ Len(fetches) <= FetchCount
  /\ alerts \in Lists
  /\ severityCounts \in [Severity -> Nat]
  /\ unreadCount \in Nat
  /\ readAlertIds \subseteq db
  /\ pushes \in 0 .. MaxPushes
  /\ BadgeNeverHides

LEMMA ListsGrow ==
  ASSUME db \subseteq db'
  PROVE  Lists \subseteq Lists' /\ Fetch \subseteq Fetch'
<1>1. Lists \subseteq Lists'
  <2>1. Seq(db) \subseteq Seq(db')
    OBVIOUS
  <2> QED
    BY <2>1 DEF Lists
<1>2. OneOf(Lists) \subseteq OneOf(Lists)' /\ OneOf(Lists \union Nat) \subseteq OneOf(Lists \union Nat)'
  BY <1>1 DEF OneOf
<1>3. ASSUME NEW f \in Fetch PROVE f \in Fetch'
  <2>1. f \in [Query -> OneOf(Lists \union Nat)] /\ f["recent"] \in OneOf(Lists)
        /\ \A s \in Severity : f[s] \in OneOf(Nat)
    BY DEF Fetch
  <2>2. f \in [Query -> OneOf(Lists \union Nat)']
    BY <1>2, <2>1
  <2>3. OneOf(Nat)' = OneOf(Nat)
    BY DEF OneOf
  <2> QED
    BY <1>2, <2>1, <2>2, <2>3 DEF Fetch
<1> QED
  BY <1>1, <1>3

LEMMA OneOfHolds ==
  ASSUME NEW S
  PROVE  /\ <<>> \in OneOf(S)
         /\ \A x \in S : <<x>> \in OneOf(S)
         /\ \A t \in OneOf(S) : /\ Len(t) <= 1
                                /\ t # <<>> => t[1] \in S
<1>1. <<>> \in OneOf(S) /\ \A x \in S : <<x>> \in OneOf(S)
  BY Zenon DEF OneOf
<1>2. ASSUME NEW t \in OneOf(S) PROVE Len(t) <= 1 /\ (t # <<>> => t[1] \in S)
  <2>1. CASE t = <<>>
    BY <2>1, EmptyElements
  <2>2. CASE \E x \in S : t = <<x>>
    <3>1. PICK x \in S : t = <<x>>
      BY <2>2
    <3>2. Len(<<x>>) = 1 /\ <<x>>[1] = x
      OBVIOUS
    <3> QED
      BY <3>1, <3>2
  <2> QED
    BY <2>1, <2>2 DEF OneOf
<1> QED
  BY <1>1, <1>2

LEMMA RemoveAtShrinks ==
  ASSUME NEW S, NEW q \in Seq(S), NEW i \in 1 .. Len(q)
  PROVE  /\ RemoveAt(q, i) \in Seq(S)
         /\ Len(RemoveAt(q, i)) = Len(q) - 1
<1>1. SubSeq(q, 1, i - 1) \in Seq(S) /\ Len(SubSeq(q, 1, i - 1)) = i - 1
  OBVIOUS
<1>2. SubSeq(q, i + 1, Len(q)) \in Seq(S) /\ Len(SubSeq(q, i + 1, Len(q))) = Len(q) - i
  OBVIOUS
<1>3. \A s, t \in Seq(S) : s \o t \in Seq(S) /\ Len(s \o t) = Len(s) + Len(t)
  OBVIOUS
<1> DEFINE before == SubSeq(q, 1, i - 1)
<1> DEFINE after == SubSeq(q, i + 1, Len(q))
<1>4. RemoveAt(q, i) = before \o after
  BY DEF RemoveAt
<1> HIDE DEF before, after
<1>5. before \o after \in Seq(S) /\ Len(before \o after) = (i - 1) + (Len(q) - i)
  BY <1>1, <1>2, <1>3 DEF before, after
<1> QED
  BY <1>4, <1>5

\* An alert that is not in the list is put in front of it, and the last may fall out.
LEMMA PushedInFront ==
  ASSUME NEW list \in Lists, NEW a \in db, ~Contains(list, a)
  PROVE  /\ FirstOf(<<a>> \o list) \in Lists
         /\ ToSet(FirstOf(<<a>> \o list)) \subseteq {a} \union ToSet(list)
<1> DEFINE longer == <<a>> \o list
<1> DEFINE len == Min({Limit, Len(longer)})
<1>1. /\ list \in Seq(db) /\ Len(list) \in Nat /\ IsInjective(list)
      /\ \A k \in 1 .. Len(list) : list[k] # a
  BY DEF Lists, Contains
<1>2. /\ longer \in Seq(db) /\ Len(longer) = Len(list) + 1
      /\ longer[1] = a /\ \A k \in 2 .. Len(longer) : longer[k] = list[k - 1]
  BY <1>1
<1> HIDE DEF longer
<1>3. len \in Nat /\ len <= Limit /\ len <= Len(longer)
  <2>1. {Limit, Len(longer)} \in SUBSET Nat /\ {Limit, Len(longer)} # {}
    BY <1>1, <1>2, DashboardAssumption
  <2> QED
    BY <2>1, LeastOf
<1> HIDE DEF len
<1> DEFINE first == SubSeq(longer, 1, len)
<1>4. FirstOf(longer) = first
  BY DEF FirstOf, len
<1>5. first \in Seq(db) /\ Len(first) = len /\ \A k \in 1 .. len : first[k] = longer[k]
  BY <1>2, <1>3
<1> HIDE DEF first
<1>6. \A k \in 1 .. len : k # 1 => k \in 2 .. Len(longer) /\ k - 1 \in 1 .. Len(list)
  BY <1>1, <1>2, <1>3
<1>7. IsInjective(first)
  <2> SUFFICES ASSUME NEW j \in 1 .. len, NEW k \in 1 .. len, longer[j] = longer[k]
               PROVE  j = k
    BY <1>5 DEF IsInjective
  <2>1. CASE j = 1 \/ k = 1
    BY <1>1, <1>2, <1>6, <2>1
  <2>2. CASE j # 1 /\ k # 1
    <3>1. list[j - 1] = list[k - 1] /\ j - 1 \in 1 .. Len(list) /\ k - 1 \in 1 .. Len(list)
      BY <1>2, <1>6, <2>2
    <3>2. j - 1 = k - 1
      BY <1>1, <3>1 DEF IsInjective
    <3> QED
      BY <1>3, <3>2
  <2> QED
    BY <2>1, <2>2
<1>8. \A k \in 1 .. len : first[k] \in {a} \union ToSet(list)
  <2> SUFFICES ASSUME NEW k \in 1 .. len PROVE first[k] \in {a} \union ToSet(list)
    OBVIOUS
  <2>1. CASE k = 1
    BY <1>2, <1>5, <2>1
  <2>2. CASE k # 1
    <3>1. first[k] = list[k - 1] /\ k - 1 \in DOMAIN list
      BY <1>1, <1>2, <1>5, <1>6, <2>2
    <3> QED
      BY <3>1, Zenon DEF ToSet
  <2> QED
    BY <2>1, <2>2
<1>9. ToSet(first) \subseteq {a} \union ToSet(list)
  BY <1>5, <1>8 DEF ToSet
<1> QED
  BY <1>3, <1>4, <1>5, <1>7, <1>9 DEF Lists, longer

-------------------------------------------------------------------------------
(* The steps of the dashboard *)

LEMMA DashInit ==
  ASSUME Init
  PROVE  DashInv
<1>1. <<>> \in Lists /\ <<>> \in Seq(Fetch) /\ Len(<<>>) = 0
  BY EmptyElements, DashboardAssumption DEF Lists
<1>2. ToSet(<<>>) = {}
  BY DEF ToSet
<1>3. FetchCount \in Nat /\ MaxPushes \in Nat
  BY DashboardAssumption
<1>4. [s \in Severity |-> 0] \in [Severity -> Nat]
  OBVIOUS
<1>5. BadgeNeverHides
  BY <1>2 DEF Init, BadgeNeverHides
<1> QED
  BY <1>1, <1>3, <1>4, <1>5 DEF Init, DashInv

\* While the list, what was read and the number stay, so does what they say.
LEMMA BadgeStays ==
  ASSUME DashInv, UNCHANGED <<alerts, unreadCount, readAlertIds>>
  PROVE  BadgeNeverHides'
  BY DEF DashInv, BadgeNeverHides, ToSet

LEMMA StoreKeeps ==
  ASSUME DashInv, NEW a \in Alert, Store(a)
  PROVE  DashInv'
<1>1. /\ db' = db \union {a}
      /\ UNCHANGED <<stage, infinite, fetches, alerts, severityCounts, unreadCount,
                     readAlertIds, pushes>>
  BY DEF Store, listVars
<1>2. Lists \subseteq Lists' /\ Fetch \subseteq Fetch'
  BY <1>1, ListsGrow
<1>3. fetches' \in Seq(Fetch')
  BY <1>1, <1>2 DEF DashInv
<1>4. BadgeNeverHides'
  BY <1>1, BadgeStays
<1> QED
  BY <1>1, <1>2, <1>3, <1>4 DEF DashInv

\* What does not change what is stored leaves the lists and the fetches what they are.
LEMMA SameLists ==
  ASSUME db' = db
  PROVE  Lists' = Lists /\ Fetch' = Fetch
  BY DEF Lists, Fetch, OneOf

LEMMA AnswerKeeps ==
  ASSUME DashInv, NEW i \in DOMAIN fetches, NEW q \in Query, Answer(i, q)
  PROVE  DashInv'
<1>1. /\ fetches' = [fetches EXCEPT ![i][q] =
           IF q = "recent" THEN <<GetRecent>> ELSE <<CountBySeverity(q)>>]
      /\ UNCHANGED <<stage, infinite, db, alerts, severityCounts, unreadCount, readAlertIds,
                     pushes>>
  BY DEF Answer, listVars
<1>2. /\ fetches \in Seq(Fetch) /\ db \subseteq Alert
      /\ fetches[i] \in Fetch
  BY DEF DashInv
<1>3. /\ GetRecent \in Lists
      /\ CountBySeverity(q) \in Nat
  BY <1>2, GetRecentIsAList, StoredAlerts DEF CountBySeverity
<1> DEFINE reply == IF q = "recent" THEN <<GetRecent>> ELSE <<CountBySeverity(q)>>
<1>4. /\ reply \in OneOf(Lists \union Nat)
      /\ q = "recent" => reply \in OneOf(Lists)
      /\ q # "recent" => reply \in OneOf(Nat)
  BY <1>3, OneOfHolds
<1>5. fetches' = [fetches EXCEPT ![i] = [fetches[i] EXCEPT ![q] = reply]]
  BY <1>1
<1> HIDE DEF reply
<1> DEFINE f == [fetches[i] EXCEPT ![q] = reply]
<1>6. f \in Fetch
  <2>1. /\ fetches[i] \in [Query -> OneOf(Lists \union Nat)]
        /\ fetches[i]["recent"] \in OneOf(Lists)
        /\ \A s \in Severity : fetches[i][s] \in OneOf(Nat)
    BY <1>2 DEF Fetch
  <2>2. "recent" \in Query /\ Severity \subseteq Query /\ "recent" \notin Severity
    BY DashboardAssumption DEF Query
  <2>3. f \in [Query -> OneOf(Lists \union Nat)]
    BY <1>4, <2>1
  <2>4. f["recent"] \in OneOf(Lists)
    BY <1>4, <2>1, <2>2
  <2>5. \A s \in Severity : f[s] \in OneOf(Nat)
    BY <1>4, <2>1, <2>2
  <2> HIDE DEF f
  <2> QED
    BY <2>3, <2>4, <2>5 DEF Fetch
<1> HIDE DEF f
<1>7. fetches' \in Seq(Fetch) /\ Len(fetches') = Len(fetches)
  BY <1>2, <1>5, <1>6 DEF f
<1>8. fetches' \in Seq(Fetch') /\ alerts' \in Lists'
  BY <1>1, <1>7, SameLists DEF DashInv
<1>9. BadgeNeverHides'
  BY <1>1, BadgeStays
<1> QED
  BY <1>1, <1>7, <1>8, <1>9 DEF DashInv

LEMMA OpenAndBeginKeep ==
  ASSUME DashInv, Open \/ Begin
  PROVE  DashInv'
<1>1. /\ UNCHANGED <<infinite, db, alerts, severityCounts, unreadCount, readAlertIds, pushes>>
      /\ stage' \in {"closed", "loading", "live"}
  BY DEF Open, Begin, listVars, DashInv
<1>2. Unanswered \in Fetch
  <2>1. Unanswered \in [Query -> OneOf(Lists \union Nat)]
    BY OneOfHolds DEF Unanswered
  <2>2. "recent" \in Query /\ Severity \subseteq Query
    BY DEF Query
  <2> QED
    BY <2>1, <2>2, OneOfHolds DEF Unanswered, Fetch
<1>3. fetches' \in Seq(Fetch) /\ Len(fetches') <= FetchCount
  <2>1. FetchCount \in Nat /\ FetchCount >= 2
    BY DashboardAssumption
  <2>2. CASE Open
    <3>1. fetches' = <<Unanswered, Unanswered>>
      BY <2>2 DEF Open
    <3> QED
      BY <1>2, <2>1, <3>1
  <2>3. CASE Begin
    <3>1. fetches' = Append(fetches, Unanswered) /\ Len(fetches) < FetchCount
      BY <2>3 DEF Begin
    <3>2. fetches \in Seq(Fetch)
      BY DEF DashInv
    <3>3. Append(fetches, Unanswered) \in Seq(Fetch)
          /\ Len(Append(fetches, Unanswered)) = Len(fetches) + 1 /\ Len(fetches) \in Nat
      BY <1>2, <3>2, AppendElements
    <3> QED
      BY <2>1, <3>1, <3>3
  <2> QED
    BY <2>2, <2>3
<1>4. fetches' \in Seq(Fetch') /\ alerts' \in Lists'
  BY <1>1, <1>3, SameLists DEF DashInv
<1>5. BadgeNeverHides'
  BY <1>1, BadgeStays
<1> QED
  BY <1>1, <1>3, <1>4, <1>5 DEF DashInv

\* A fetch is over, whatever comes of it.
LEMMA ReturnsDoes ==
  ASSUME DashInv, NEW i \in DOMAIN fetches, Returns(i)
  PROVE  /\ fetches' \in Seq(Fetch') /\ Len(fetches') <= FetchCount
         /\ stage' = "live"
         /\ UNCHANGED <<infinite, db, readAlertIds, pushes>>
         /\ fetches[i]["recent"][1] \in Lists
         /\ \A s \in Severity : fetches[i][s][1] \in Nat
<1>1. /\ \A q \in Query : fetches[i][q] # <<>>
      /\ fetches' = RemoveAt(fetches, i)
      /\ stage' = "live"
      /\ UNCHANGED <<infinite, db, readAlertIds, pushes>>
  BY DEF Returns, Had
<1>2. fetches \in Seq(Fetch) /\ i \in 1 .. Len(fetches) /\ fetches[i] \in Fetch
      /\ Len(fetches) <= FetchCount /\ FetchCount \in Nat
  BY DashboardAssumption DEF DashInv
<1>3. RemoveAt(fetches, i) \in Seq(Fetch) /\ Len(RemoveAt(fetches, i)) = Len(fetches) - 1
  BY <1>2, RemoveAtShrinks
<1>4. fetches' \in Seq(Fetch') /\ Len(fetches') <= FetchCount
  BY <1>1, <1>2, <1>3, SameLists
<1>5. /\ fetches[i]["recent"] \in OneOf(Lists) /\ fetches[i]["recent"] # <<>>
      /\ \A s \in Severity : fetches[i][s] \in OneOf(Nat) /\ fetches[i][s] # <<>>
  BY <1>1, <1>2 DEF Fetch, Query
<1>6. fetches[i]["recent"][1] \in Lists /\ \A s \in Severity : fetches[i][s][1] \in Nat
  BY <1>5, OneOfHolds
<1> QED
  BY <1>1, <1>4, <1>6

LEMMA FailKeeps ==
  ASSUME DashInv, NEW i \in DOMAIN fetches, Fail(i)
  PROVE  DashInv'
<1>1. /\ Returns(i)
      /\ UNCHANGED <<alerts, severityCounts, unreadCount>>
  BY DEF Fail, listVars
<1>2. /\ fetches' \in Seq(Fetch') /\ Len(fetches') <= FetchCount
      /\ stage' = "live"
      /\ UNCHANGED <<infinite, db, readAlertIds, pushes>>
  BY <1>1, ReturnsDoes
<1>3. BadgeNeverHides' /\ alerts' \in Lists'
  BY <1>1, <1>2, BadgeStays, SameLists DEF DashInv
<1> QED
  BY <1>1, <1>2, <1>3 DEF DashInv

\* The answers are counted anew, against what was read by then.
LEMMA FinishKeeps ==
  ASSUME DashInv, NEW i \in DOMAIN fetches, Finish(i)
  PROVE  DashInv'
<1>1. /\ Returns(i)
      /\ alerts' = fetches[i]["recent"][1]
      /\ severityCounts' = [s \in Severity |-> fetches[i][s][1]]
      /\ unreadCount' = Cardinality({a \in ToSet(alerts') : Unread(a)})
  BY DEF Finish
<1>2. /\ fetches' \in Seq(Fetch') /\ Len(fetches') <= FetchCount
      /\ stage' = "live"
      /\ UNCHANGED <<infinite, db, readAlertIds, pushes>>
      /\ alerts' \in Lists
      /\ severityCounts' \in [Severity -> Nat]
  BY <1>1, ReturnsDoes
<1>3. ToSet(alerts') \subseteq db
  BY <1>2 DEF Lists, ToSet
<1> DEFINE unread == {a \in ToSet(alerts') : Unread(a)}
<1>4. IsFiniteSet(unread) /\ unreadCount' \in Nat /\ unreadCount' = Cardinality(unread)
  <2>1. unread \in SUBSET db
    BY <1>3
  <2> HIDE DEF unread
  <2> QED
    BY <1>1, <2>1, StoredAlerts DEF DashInv, unread
<1>5. BadgeNeverHides'
  <2>1. ToSet(alerts') \ readAlertIds = unread
    BY DEF Unread
  <2>2. ToSet(alerts)' \ readAlertIds' = unread
    BY <1>2, <2>1 DEF ToSet
  <2> HIDE DEF unread
  <2>3. unread # {} => unreadCount' > 0
    BY <1>4, FS_EmptySet
  <2> QED
    BY <2>2, <2>3 DEF BadgeNeverHides
<1>6. alerts' \in Lists'
  BY <1>2, SameLists
<1> QED
  BY <1>2, <1>4, <1>5, <1>6 DEF DashInv

\* A push raises the number if the alert is unread, up to the most that is counted.
LEMMA AddAlertKeeps ==
  ASSUME DashInv, NEW a \in Alert, AddAlert(a)
  PROVE  DashInv'
<1>1. /\ UNCHANGED <<stage, infinite, db, fetches, readAlertIds>>
      /\ a \in db
      /\ IF Contains(alerts, a)
         THEN UNCHANGED <<alerts, severityCounts, unreadCount, pushes>>
         ELSE /\ pushes < MaxPushes
              /\ pushes' = pushes + 1
              /\ alerts' = FirstOf(<<a>> \o alerts)
              /\ severityCounts' = [severityCounts EXCEPT ![SeverityOf[a]] = @ + 1]
              /\ unreadCount' = IF Unread(a) /\ unreadCount < MaxUnread
                                THEN unreadCount + 1 ELSE unreadCount
  BY DEF AddAlert, listVars
<1>2. fetches' \in Seq(Fetch') /\ Lists' = Lists
  BY <1>1, SameLists DEF DashInv
<1>3. CASE Contains(alerts, a)
  <2>1. UNCHANGED <<alerts, severityCounts, unreadCount, pushes>>
    BY <1>1, <1>3
  <2>2. BadgeNeverHides'
    BY <1>1, <2>1, BadgeStays
  <2> QED
    BY <1>1, <1>2, <2>1, <2>2 DEF DashInv
<1>4. CASE ~Contains(alerts, a)
  <2>1. /\ pushes < MaxPushes /\ pushes' = pushes + 1
        /\ alerts' = FirstOf(<<a>> \o alerts)
        /\ severityCounts' = [severityCounts EXCEPT ![SeverityOf[a]] = @ + 1]
        /\ unreadCount' = IF Unread(a) /\ unreadCount < MaxUnread
                          THEN unreadCount + 1 ELSE unreadCount
    BY <1>1, <1>4
  <2>2. /\ pushes \in 0 .. MaxPushes /\ MaxPushes \in Nat
        /\ unreadCount \in Nat /\ MaxUnread \in Nat \ {0}
        /\ severityCounts \in [Severity -> Nat]
        /\ SeverityOf[a] \in Severity
    BY DashboardAssumption DEF DashInv
  <2>3. pushes' \in 0 .. MaxPushes /\ unreadCount' \in Nat
    BY <2>1, <2>2
  <2>4. severityCounts' \in [Severity -> Nat]
    BY <2>1, <2>2
  <2>5. alerts' \in Lists /\ ToSet(alerts') \subseteq {a} \union ToSet(alerts)
    BY <1>1, <1>4, <2>1, PushedInFront DEF DashInv
  <2>6. BadgeNeverHides'
    <3> SUFFICES ASSUME ToSet(alerts') \ readAlertIds # {}
                 PROVE  unreadCount' > 0
      BY <1>1 DEF BadgeNeverHides, ToSet
    <3>1. CASE Unread(a)
      BY <2>1, <2>2, <3>1
    <3>2. CASE ~Unread(a)
      <4>1. ToSet(alerts) \ readAlertIds # {}
        BY <2>5, <3>2 DEF Unread
      <4>2. unreadCount > 0 /\ unreadCount' = unreadCount
        BY <2>1, <3>2, <4>1 DEF DashInv, BadgeNeverHides
      <4> QED
        BY <4>2
    <3> QED
      BY <3>1, <3>2
  <2> QED
    BY <1>1, <1>2, <2>3, <2>4, <2>5, <2>6 DEF DashInv
<1> QED
  BY <1>3, <1>4

LEMMA MarkAllReadKeeps ==
  ASSUME DashInv, MarkAllRead
  PROVE  DashInv'
<1>1. /\ readAlertIds' = readAlertIds \union ToSet(alerts)
      /\ unreadCount' = 0
      /\ UNCHANGED <<stage, infinite, db, fetches, alerts, severityCounts, pushes>>
  BY DEF MarkAllRead
<1>2. ToSet(alerts) \subseteq db
  BY DEF DashInv, Lists, ToSet
<1>3. fetches' \in Seq(Fetch') /\ alerts' \in Lists' /\ readAlertIds' \subseteq db'
  BY <1>1, <1>2, SameLists DEF DashInv
<1>4. BadgeNeverHides'
  BY <1>1 DEF BadgeNeverHides, ToSet
<1> QED
  BY <1>1, <1>3, <1>4 DEF DashInv

LEMMA DashStutters ==
  ASSUME DashInv, UNCHANGED vars
  PROVE  DashInv'
<1>1. UNCHANGED <<stage, infinite, db, fetches, alerts, severityCounts, unreadCount,
                  readAlertIds, pushes>>
  BY DEF vars, listVars
<1>2. fetches' \in Seq(Fetch') /\ alerts' \in Lists' /\ BadgeNeverHides'
  BY <1>1, SameLists, BadgeStays DEF DashInv
<1> QED
  BY <1>1, <1>2 DEF DashInv

LEMMA DashNext ==
  ASSUME DashInv, Next
  PROVE  DashInv'
  BY OpenAndBeginKeep, MarkAllReadKeeps, StoreKeeps, AddAlertKeeps, FinishKeeps, FailKeeps,
     AnswerKeeps DEF Next

LEMMA DashInvIsTyped ==
  ASSUME DashInv
  PROVE  TypeOK /\ NoDuplicates /\ BadgeNeverHides
<1>1. ASSUME NEW i \in DOMAIN fetches, NEW q \in Query PROVE Len(fetches[i][q]) <= 1
  <2>1. fetches[i] \in Fetch
    BY DEF DashInv
  <2>2. fetches[i] \in [Query -> OneOf(Lists \union Nat)]
    BY <2>1 DEF Fetch
  <2>3. fetches[i][q] \in OneOf(Lists \union Nat)
    BY <2>2
  <2> QED
    BY <2>3, OneOfHolds
<1>2. alerts \in Seq(Alert) /\ Len(alerts) <= Limit /\ IsInjective(alerts)
  BY DEF DashInv, Lists
<1> QED
  BY <1>1, <1>2 DEF DashInv, TypeOK, NoDuplicates

-------------------------------------------------------------------------------
(* The theorems *)

PageInv == DashInv /\ ClientInv

LEMMA PageInvHolds == PageSpec => []PageInv
<1>1. PageInit => PageInv
  BY DashInit, ClientInit DEF PageInit, PageInv
<1>2. PageInv /\ [PageNext]_<<half, vars, clientVars>> => PageInv'
  <2> SUFFICES ASSUME PageInv, [PageNext]_<<half, vars, clientVars>>
               PROVE  PageInv'
    OBVIOUS
  <2>1. CASE Next /\ UNCHANGED clientVars
    BY <2>1, DashNext, ClientStutters DEF PageInv
  <2>2. CASE Client!Next /\ UNCHANGED vars
    BY <2>2, ClientNext, DashStutters DEF PageInv
  <2>3. CASE UNCHANGED <<vars, clientVars>>
    BY <2>3, DashStutters, ClientStutters DEF PageInv
  <2> QED
    BY <2>1, <2>2, <2>3 DEF PageNext
<1> QED
  BY <1>1, <1>2, PTL DEF PageSpec

\* Whatever the page shows and however its connection fares, each variable of either
\* half has its type.
THEOREM TypeCorrect == PageSpec => []PageTypeOK
<1>1. PageInv => PageTypeOK
  BY DashInvIsTyped DEF PageInv, ClientInv, PageTypeOK
<1> QED
  BY <1>1, PageInvHolds, PTL

\* However many sockets, faults and calls there are, and however late a socket that was
\* let go is heard of, the manager has one connection, one attempt to come and one
\* heartbeat at most, and none after disconnect() (websocket.js:155, :123, :49).
THEOREM OneConnection == PageSpec => []OneOfEach
<1>1. PageInv => OneOfEach
  BY ClientInvIsOneOfEach DEF PageInv
<1> QED
  BY <1>1, PageInvHolds, PTL

\* No order of calls, events and faults leaves a manager that was not told to disconnect
\* with nothing to wake it (websocket.js:100).
THEOREM AlwaysAWayBack == PageSpec => []NeverStranded
<1>1. PageInv => NeverStranded
  BY DEF PageInv, ClientInv
<1> QED
  BY <1>1, PageInvHolds, PTL

\* For any number of alerts and of overlapping fetches, and any limit of the list: none
\* is in it twice (app.js:168).
THEOREM ListIsDistinct == PageSpec => []NoDuplicates
<1>1. PageInv => NoDuplicates
  BY DashInvIsTyped DEF PageInv
<1> QED
  BY <1>1, PageInvHolds, PTL

\* Likewise, and for any cap of the count: an unread alert in the list shows in the
\* bell's number (app.js:96, :217, :374).
THEOREM BadgeShows == PageSpec => []BadgeNeverHides
<1>1. PageInv => BadgeNeverHides
  BY DashInvIsTyped DEF PageInv
<1> QED
  BY <1>1, PageInvHolds, PTL
=================================================================================
