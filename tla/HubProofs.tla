-------------------------------- MODULE HubProofs --------------------------------
(***************************************************************************)
(* Proofs about the WebSocket hub, for every capacity and every set of     *)
(* clients and messages.                                                   *)
(*                                                                         *)
(* The type is inductive together with what Run is sending, NoGhosts by    *)
(* itself.  OneWriter needs to know who holds each mutex, and Gapless that *)
(* the channel is the end of the log and that Run's loop is over clients   *)
(* that are still in the map.                                              *)
(***************************************************************************)
EXTENDS Hub, SequenceLemmas

\* Run has a message in its loop, and no more has left the channel than was put on it.
TypeInv ==
  /\ TypeOK
  /\ Len(broadcast) <= Len(log)
  /\ run \in {"sending", "writing", "stuck"} => message # None

\* ServeWS has not got past Register yet.
Fresh(c) == reader[c] \in {"none", "registering"}

\* The mutex of a client is held by the one who is writing to it.  A pinger is not
\* started twice.
LockInv ==
  \A c \in Client :
    /\ Fresh(c) => pinger[c] = "none"
    /\ writeMu[c] = "reader" <=> reader[c] = "writing"
    /\ writeMu[c] = "pinger" <=> pinger[c] = "writing"
    /\ writeMu[c] = "run" <=> run = "writing" /\ target = c

\* The channel is the end of the log, and Run is sending what comes just before it.
LogInv ==
  /\ \A i \in 1 .. Len(broadcast) : broadcast[i] = log[Taken + i]
  /\ run \in {"sending", "writing"} => Taken >= 1 /\ message = log[Taken]

\* Run's loop is over clients that are in the map, each of them once.
LoopInv ==
  /\ run = "select" => targets = {}
  /\ run \in {"sending", "writing"} => targets \subseteq clients
  /\ run = "writing" => target \in clients
  /\ target \notin targets

Connected(c) == conn[c] \in {"open", "stalled"}

\* The place in the log up to which a client has been sent messages.
SentUpTo(c) == IF c \in targets \union {target} THEN Taken - 1 ELSE Taken

GotInv ==
  /\ \A c \in Client : Fresh(c) => got[c] = <<>>
  /\ \A c \in clients : Connected(c) =>
       /\ Len(got[c]) = SentUpTo(c) - since[c]
       /\ \A i \in 1 .. Len(got[c]) : got[c][i] = log[since[c] + i]

StreamInv == LogInv /\ LoopInv /\ GotInv

-------------------------------------------------------------------------------
(* Type correctness *)

LEMMA TypeInit == Init => TypeInv
<1> SUFFICES ASSUME Init PROVE TypeInv
  OBVIOUS
<1>1. /\ broadcast \in Seq(Msg) /\ log \in Seq(Msg)
      /\ Len(broadcast) <= Capacity /\ Len(broadcast) <= Len(log)
  BY HubAssumption DEF Init
<1>2. got \in [Client -> Seq(Msg)] /\ since \in [Client -> Nat]
  BY DEF Init
<1>3. /\ post \in [Msg -> {"idle", "queued", "dropped"}]
      /\ conn \in [Client -> {"none", "open", "stalled", "failed", "closed"}]
      /\ reader \in [Client -> {"none", "registering", "exited"} \union Serving]
      /\ pinger \in [Client -> {"none", "waiting", "pinging", "writing", "exited"}]
      /\ writeMu \in [Client -> {"free", "run", "reader", "pinger"}]
  BY DEF Init
<1> QED
  BY <1>1, <1>2, <1>3 DEF Init, TypeInv, TypeOK

LEMMA TypeRun == TypeInv /\ RunStep => TypeInv'
<1> SUFFICES ASSUME TypeInv, RunStep PROVE TypeInv'
  OBVIOUS
<1> USE DEF TypeInv, TypeOK, clientVars
<1>1. CASE TakeMessage
  <2>1. /\ Head(broadcast) \in Msg /\ Head(broadcast) # None
        /\ Tail(broadcast) \in Seq(Msg)
        /\ Len(Tail(broadcast)) <= Capacity /\ Len(Tail(broadcast)) <= Len(log)
    BY <1>1, TailElements, HubAssumption DEF TakeMessage
  <2> QED
    BY <1>1, <2>1 DEF TakeMessage
<1>2. CASE Sent
  <2>1. target \in Client /\ message \in Msg
    BY <1>2 DEF Sent
  <2>2. Append(got[target], message) \in Seq(Msg)
    BY <2>1, AppendElements
  <2>3. got' \in [Client -> Seq(Msg)]
    BY <1>2, <2>2 DEF Sent
  <2> QED
    BY <1>2, <2>3 DEF Sent, postVars
<1>3. CASE SendFailed
  BY <1>3 DEF SendFailed, postVars
<1>4. CASE SentToAll \/ Exit
  BY <1>4 DEF SentToAll, Exit, postVars
<1>5. ASSUME NEW c \in Client, SendTo(c) PROVE TypeInv'
  BY <1>5, HubAssumption DEF SendTo, postVars
<1> QED
  BY <1>1, <1>2, <1>3, <1>4, <1>5 DEF RunStep

LEMMA TypeNext == TypeInv /\ [Next]_vars => TypeInv'
<1> SUFFICES ASSUME TypeInv, [Next]_vars PROVE TypeInv'
  OBVIOUS
<1> USE DEF TypeInv, TypeOK
<1>1. CASE RunStep
  BY <1>1, TypeRun DEF TypeInv
<1>2. CASE Cancel
  BY <1>2 DEF Cancel, postVars, runVars, clientVars
<1>3. ASSUME NEW m \in Msg, Queue(m) PROVE TypeInv'
  <2>1. /\ Append(broadcast, m) \in Seq(Msg) /\ Append(log, m) \in Seq(Msg)
        /\ Len(Append(broadcast, m)) = Len(broadcast) + 1 /\ Len(Append(log, m)) = Len(log) + 1
        /\ Len(broadcast) \in Nat /\ Len(log) \in Nat
    BY AppendElements
  <2>2. Len(broadcast) + 1 <= Capacity
    BY <1>3, <2>1, HubAssumption DEF Queue
  <2> QED
    BY <1>3, <2>1, <2>2 DEF Queue, runVars, clientVars
<1>4. ASSUME NEW m \in Msg, Drop(m) PROVE TypeInv'
  BY <1>4 DEF Drop, runVars, clientVars
<1>5. ASSUME NEW c \in Client, Register(c) \/ Unregister(c) PROVE TypeInv'
  <2>1. CASE Register(c)
    <3>1. Taken \in Nat
      BY DEF Taken
    <3>2. reader' \in [Client -> {"none", "registering", "exited"} \union Serving]
      BY <2>1 DEF Register, Serving
    <3>3. /\ since' \in [Client -> Nat]
          /\ pinger' \in [Client -> {"none", "waiting", "pinging", "writing", "exited"}]
      BY <2>1, <3>1 DEF Register
    <3> QED
      BY <2>1, <3>2, <3>3 DEF Register, postVars, runVars
  <2>2. CASE Unregister(c)
    BY <2>2 DEF Unregister, Serving, postVars, runVars
  <2> QED
    BY <1>5, <2>1, <2>2
<1>6. ASSUME NEW c \in Client, ReaderStep(c) \/ Upgrade(c) \/ ReadPing(c) PROVE TypeInv'
  BY <1>6 DEF ReaderStep, ReadError, LockForPong, PongSent, PongFailed, Upgrade, ReadPing,
              ReaderVia, Serving, postVars, runVars
<1>7. ASSUME NEW c \in Client, PingerStep(c) PROVE TypeInv'
  BY <1>7 DEF PingerStep, Tick, LockForPing, PingSent, PingFailed, PingerVia, postVars, runVars
<1>8. ASSUME NEW c \in Client, Stall(c) \/ Resume(c) \/ Fail(c) PROVE TypeInv'
  BY <1>8 DEF Stall, Resume, Fail, postVars, runVars
<1>9. CASE UNCHANGED vars
  BY <1>9 DEF vars, postVars, runVars, clientVars
<1> QED
  BY <1>1, <1>2, <1>3, <1>4, <1>5, <1>6, <1>7, <1>8, <1>9 DEF Next, PeerStep

\* The channel never holds more than its capacity, and Run has a client in hand
\* exactly while it is writing to one or hangs behind a failed write.
THEOREM TypeCorrect == Safety => []TypeOK
<1>1. TypeInv => TypeOK
  BY DEF TypeInv
<1> QED
  BY <1>1, TypeInit, TypeNext, PTL DEF Safety

-------------------------------------------------------------------------------
(* One writer *)

LEMMA LockInit == Init => LockInv
  BY DEF Init, LockInv, Fresh

\* A step that leaves the mutexes and the three places of its owners alone.
LEMMA LockFrame ==
  ASSUME LockInv, UNCHANGED writeMu,
         \A c \in Client : reader[c] = "writing" <=> reader'[c] = "writing",
         \A c \in Client : pinger[c] = "writing" <=> pinger'[c] = "writing",
         \A c \in Client : Fresh(c)' => Fresh(c) /\ pinger'[c] = pinger[c],
         \A c \in Client : run = "writing" /\ target = c <=> run' = "writing" /\ target' = c
  PROVE  LockInv'
  BY DEF LockInv

LEMMA LockNext == TypeInv /\ LockInv /\ [Next]_vars => LockInv'
<1> SUFFICES ASSUME TypeInv, LockInv, [Next]_vars PROVE LockInv'
  OBVIOUS
<1> USE DEF TypeInv, TypeOK
<1>1. CASE TakeMessage \/ SentToAll \/ Exit
  BY <1>1, LockFrame DEF Fresh, TakeMessage, SentToAll, Exit, clientVars
<1>2. CASE Sent
  BY <1>2, HubAssumption DEF Sent, LockInv, Fresh
<1>3. CASE SendFailed
  BY <1>3 DEF SendFailed, LockInv, Fresh
<1>4. ASSUME NEW c \in Client, SendTo(c) PROVE LockInv'
  BY <1>4 DEF SendTo, LockInv, Fresh
<1>5. CASE Cancel
  BY <1>5, LockFrame DEF Fresh, Cancel, runVars, clientVars
<1>6. ASSUME NEW m \in Msg, Queue(m) \/ Drop(m) PROVE LockInv'
  BY <1>6, LockFrame DEF Fresh, Queue, Drop, runVars, clientVars
<1>7. ASSUME NEW c \in Client, Register(c) \/ Unregister(c) PROVE LockInv'
  <2>1. CASE Unregister(c)
    BY <2>1, LockFrame DEF Fresh, Unregister, runVars
  <2>2. CASE Register(c)
    BY <2>2 DEF Register, runVars, LockInv, Fresh
  <2> QED
    BY <1>7, <2>1, <2>2
<1>8. ASSUME NEW c \in Client, ReaderStep(c) PROVE LockInv'
  BY <1>8 DEF ReaderStep, ReadError, LockForPong, PongSent, PongFailed, ReaderVia, runVars, LockInv, Fresh
<1>9. ASSUME NEW c \in Client, PingerStep(c) PROVE LockInv'
  BY <1>9 DEF PingerStep, Tick, LockForPing, PingSent, PingFailed, PingerVia, runVars, LockInv, Fresh
<1>10. ASSUME NEW c \in Client, PeerStep(c) PROVE LockInv'
  BY <1>10, LockFrame DEF Fresh, PeerStep, Upgrade, Stall, Resume, Fail, ReadPing, ReaderVia, runVars
<1>11. CASE UNCHANGED vars
  BY <1>11, LockFrame DEF Fresh, vars, runVars, clientVars
<1> QED
  BY <1>1, <1>2, <1>3, <1>4, <1>5, <1>6, <1>7, <1>8, <1>9, <1>10, <1>11 DEF Next, RunStep

\* Run, the reader and the pinger of a client never write on its connection at the
\* same time.
THEOREM WritesAreApart == Safety => []OneWriter
<1>1. LockInv => OneWriter
  <2> SUFFICES ASSUME LockInv, NEW c \in Client
               PROVE  /\ reader[c] = "writing" => pinger[c] # "writing"
                      /\ run = "writing" /\ target = c =>
                           reader[c] # "writing" /\ pinger[c] # "writing"
    BY DEF OneWriter
  <2> QED
    BY DEF LockInv
<1> QED
  BY <1>1, TypeInit, TypeNext, LockInit, LockNext, PTL DEF Safety

-------------------------------------------------------------------------------
(* No ghosts *)

LEMMA GhostInit == Init => NoGhosts
  BY DEF Init, NoGhosts, Serving

\* A step of somebody who neither enters nor leaves the map.
LEMMA GhostFrame ==
  ASSUME NoGhosts, UNCHANGED clients,
         \A c \in Client : reader[c] \in Serving <=> reader'[c] \in Serving,
         \A c \in Client : reader[c] = "exited" <=> reader'[c] = "exited",
         \A c \in Client : conn[c] = "closed" <=> conn'[c] = "closed"
  PROVE  NoGhosts'
  BY DEF NoGhosts

LEMMA GhostNext == TypeInv /\ NoGhosts /\ [Next]_vars => NoGhosts'
<1> SUFFICES ASSUME TypeInv, NoGhosts, [Next]_vars PROVE NoGhosts'
  OBVIOUS
<1> USE DEF TypeInv, TypeOK
<1>1. CASE RunStep
  BY <1>1, GhostFrame
     DEF RunStep, TakeMessage, Sent, SendFailed, SentToAll, Exit, SendTo, clientVars
<1>2. CASE Cancel
  BY <1>2, GhostFrame DEF Cancel, clientVars
<1>3. ASSUME NEW m \in Msg, Queue(m) \/ Drop(m) PROVE NoGhosts'
  BY <1>3, GhostFrame DEF Queue, Drop, clientVars
<1>4. ASSUME NEW c \in Client, Register(c) PROVE NoGhosts'
  BY <1>4 DEF Register, NoGhosts, Serving
<1>5. ASSUME NEW c \in Client, Unregister(c) PROVE NoGhosts'
  BY <1>5 DEF Unregister, NoGhosts, Serving
<1>6. ASSUME NEW c \in Client, ReaderStep(c) PROVE NoGhosts'
  BY <1>6, GhostFrame
     DEF ReaderStep, ReadError, LockForPong, PongSent, PongFailed, ReaderVia, Serving
<1>7. ASSUME NEW c \in Client, PingerStep(c) PROVE NoGhosts'
  BY <1>7, GhostFrame DEF PingerStep, Tick, LockForPing, PingSent, PingFailed, PingerVia
<1>8. ASSUME NEW c \in Client, PeerStep(c) PROVE NoGhosts'
  <2>1. CASE Upgrade(c)
    BY <2>1 DEF Upgrade, ReaderVia, NoGhosts, Serving
  <2>2. CASE Stall(c) \/ Resume(c) \/ Fail(c) \/ ReadPing(c)
    BY <2>2, GhostFrame DEF Stall, Resume, Fail, ReadPing, ReaderVia, Serving
  <2> QED
    BY <1>8, <2>1, <2>2 DEF PeerStep
<1>9. CASE UNCHANGED vars
  BY <1>9, GhostFrame DEF vars, clientVars
<1> QED
  BY <1>1, <1>2, <1>3, <1>4, <1>5, <1>6, <1>7, <1>8, <1>9 DEF Next

\* The map holds the clients whose reader is still there to take them out of it, and
\* a connection is closed when its reader has left and not before.
THEOREM MapIsExact == Safety => []NoGhosts
  BY TypeInit, TypeNext, GhostInit, GhostNext, PTL DEF Safety

-------------------------------------------------------------------------------
(* The stream of a connected client *)

LEMMA StreamInit == Init => StreamInv
<1> SUFFICES ASSUME Init PROVE StreamInv
  OBVIOUS
<1>1. Len(broadcast) = 0 /\ Len(log) = 0
  BY DEF Init
<1> QED
  BY <1>1 DEF Init, StreamInv, LogInv, LoopInv, GotInv, Fresh

\* A step that leaves the messages and Run's loop alone, and connects nobody who
\* could have been sent something.
LEMMA StreamFrame ==
  ASSUME StreamInv, UNCHANGED <<broadcast, log, run, message, targets, target, got, since, clients>>,
         \A c \in clients : Connected(c)' => Connected(c),
         \A c \in Client : Fresh(c)' => Fresh(c)
  PROVE  StreamInv'
  BY DEF StreamInv, LogInv, LoopInv, GotInv, Taken, SentUpTo

\* The channel and the log grow together at their ends.
LEMMA StreamQueue ==
  ASSUME TypeInv, StreamInv, NEW m \in Msg, Queue(m)
  PROVE  StreamInv'
<1> USE DEF TypeInv, TypeOK
<1>1. /\ broadcast' = Append(broadcast, m)
      /\ log' = Append(log, m)
      /\ UNCHANGED <<clients, run, message, targets, target, conn, reader, got, since>>
  BY DEF Queue, runVars, clientVars
<1>2. /\ Len(broadcast') = Len(broadcast) + 1 /\ Len(log') = Len(log) + 1
      /\ \A i \in 1 .. Len(broadcast) : broadcast'[i] = broadcast[i]
      /\ \A i \in 1 .. Len(log) : log'[i] = log[i]
      /\ broadcast'[Len(broadcast) + 1] = m /\ log'[Len(log) + 1] = m
      /\ Len(broadcast) \in Nat /\ Len(log) \in Nat /\ Len(broadcast) <= Len(log)
  BY <1>1, AppendElements
<1>3. Taken' = Taken /\ Taken \in 0 .. Len(log) /\ Taken + Len(broadcast) = Len(log)
  BY <1>2 DEF Taken
<1>4. LogInv'
  <2>1. ASSUME NEW i \in 1 .. Len(broadcast') PROVE broadcast'[i] = log'[Taken + i]
    <3>1. CASE i \in 1 .. Len(broadcast)
      <4>1. Taken + i \in 1 .. Len(log)
        BY <1>2, <1>3, <3>1
      <4> QED
        BY <1>2, <3>1, <4>1 DEF StreamInv, LogInv
    <3>2. CASE i = Len(broadcast) + 1
      <4>1. Taken + i = Len(log) + 1
        BY <1>2, <1>3, <3>2
      <4> QED
        BY <1>2, <3>2, <4>1
    <3> QED
      BY <1>2, <3>1, <3>2
  <2>2. ASSUME run \in {"sending", "writing"} PROVE Taken >= 1 /\ message = log'[Taken]
    <3>1. Taken >= 1 /\ message = log[Taken]
      BY <2>2 DEF StreamInv, LogInv
    <3>2. Taken \in 1 .. Len(log)
      BY <1>2, <1>3, <3>1
    <3> QED
      BY <1>2, <3>1, <3>2
  <2> QED
    BY <1>1, <1>3, <2>1, <2>2 DEF LogInv
<1>5. LoopInv'
  BY <1>1 DEF StreamInv, LoopInv
<1>6. GotInv'
  <2>1. ASSUME NEW c \in clients, Connected(c)
        PROVE  \A i \in 1 .. Len(got[c]) : got[c][i] = log'[since[c] + i]
    <3>1. /\ Len(got[c]) = SentUpTo(c) - since[c]
          /\ \A i \in 1 .. Len(got[c]) : got[c][i] = log[since[c] + i]
      BY <2>1 DEF StreamInv, GotInv
    <3>2. SentUpTo(c) <= Len(log) /\ SentUpTo(c) \in Int /\ since[c] \in Nat
      BY <1>2, <1>3 DEF SentUpTo
    <3>3. \A i \in 1 .. Len(got[c]) : since[c] + i \in 1 .. Len(log)
      BY <1>2, <3>1, <3>2
    <3> QED
      BY <1>2, <3>1, <3>3
  <2> QED
    BY <1>1, <1>3, <2>1 DEF StreamInv, GotInv, Fresh, Connected, SentUpTo
<1> QED
  BY <1>4, <1>5, <1>6 DEF StreamInv

\* Every client Run knows of is now one message behind.
LEMMA StreamTakeMessage ==
  ASSUME TypeInv, StreamInv, TakeMessage
  PROVE  StreamInv'
<1> USE DEF TypeInv, TypeOK
<1>1. /\ run = "select"
      /\ run' = "sending"
      /\ broadcast # <<>>
      /\ message' = Head(broadcast)
      /\ targets' = clients
      /\ broadcast' = Tail(broadcast)
      /\ UNCHANGED <<clients, log, target, conn, reader, got, since>>
  BY DEF TakeMessage, clientVars
<1>2. /\ Len(broadcast) \in Nat \ {0} /\ Len(log) \in Nat /\ Len(broadcast) <= Len(log)
      /\ Len(broadcast') = Len(broadcast) - 1
      /\ \A i \in 1 .. Len(broadcast) - 1 : broadcast'[i] = broadcast[i + 1]
      /\ message' = broadcast[1]
  BY <1>1, TailElements
<1>3. Taken' = Taken + 1 /\ Taken \in Nat
  BY <1>1, <1>2 DEF Taken
<1>4. LogInv'
  <2>1. \A i \in 1 .. Len(broadcast) : broadcast[i] = log[Taken + i]
    BY DEF StreamInv, LogInv
  <2>2. message' = log'[Taken']
    BY <1>1, <1>2, <1>3, <2>1
  <2>3. ASSUME NEW i \in 1 .. Len(broadcast') PROVE broadcast'[i] = log'[Taken' + i]
    <3>1. i + 1 \in 1 .. Len(broadcast) /\ Taken' + i = Taken + (i + 1)
      BY <1>2, <1>3
    <3> QED
      BY <1>1, <1>2, <2>1, <3>1
  <2>4. Taken' >= 1
    BY <1>3
  <2> QED
    BY <2>2, <2>3, <2>4, Zenon DEF LogInv
<1>5. target = None /\ targets = {}
  BY <1>1 DEF StreamInv, LoopInv
<1>6. LoopInv'
  BY <1>1, <1>5, HubAssumption DEF LoopInv
<1>7. \A c \in clients : SentUpTo(c)' = SentUpTo(c)
  BY <1>1, <1>3, <1>5, HubAssumption DEF SentUpTo
<1>8. GotInv'
  BY <1>1, <1>7 DEF StreamInv, GotInv, Fresh, Connected
<1> QED
  BY <1>4, <1>6, <1>8 DEF StreamInv

\* A new client has been sent nothing, and begins where Run has got to.
LEMMA StreamRegister ==
  ASSUME TypeInv, StreamInv, NEW c \in Client, Register(c)
  PROVE  StreamInv'
<1> USE DEF TypeInv, TypeOK
<1>1. /\ run = "select"
      /\ Fresh(c)
      /\ clients' = clients \union {c}
      /\ reader' = [reader EXCEPT ![c] = "reading"]
      /\ since' = [since EXCEPT ![c] = Taken]
      /\ UNCHANGED <<broadcast, log, run, message, targets, target, conn, got>>
  BY DEF Register, postVars, runVars, Fresh
<1>2. target = None /\ targets = {}
  BY <1>1 DEF StreamInv, LoopInv
<1>3. Taken \in Nat /\ Taken' = Taken /\ \A d \in Client : SentUpTo(d)' = SentUpTo(d)
  BY <1>1 DEF Taken, SentUpTo
<1>4. SentUpTo(c) = Taken
  BY <1>2, HubAssumption DEF SentUpTo
<1>5. got[c] = <<>> /\ Len(got[c]) = 0
  BY <1>1 DEF StreamInv, GotInv
<1>6. GotInv'
  <2>1. \A d \in Client : Fresh(d)' => Fresh(d)
    BY <1>1 DEF Fresh
  <2>2. ASSUME NEW d \in clients', Connected(d)
        PROVE  /\ Len(got[d]) = SentUpTo(d) - since'[d]
               /\ \A i \in 1 .. Len(got[d]) : got[d][i] = log[since'[d] + i]
    <3>1. CASE d = c
      BY <1>1, <1>3, <1>4, <1>5, <3>1
    <3>2. CASE d # c
      BY <1>1, <2>2, <3>2 DEF StreamInv, GotInv
    <3> QED
      BY <3>1, <3>2
  <2> QED
    BY <1>1, <1>3, <2>1, <2>2 DEF StreamInv, GotInv, Connected
<1>7. LogInv' /\ LoopInv'
  BY <1>1, <1>3 DEF StreamInv, LogInv, LoopInv
<1> QED
  BY <1>6, <1>7 DEF StreamInv

LEMMA StreamUnregister ==
  ASSUME TypeInv, StreamInv, NEW c \in Client, Unregister(c)
  PROVE  StreamInv'
<1> USE DEF TypeInv, TypeOK
<1>1. /\ run = "select"
      /\ clients' = clients \ {c}
      /\ UNCHANGED <<broadcast, log, run, message, targets, target, got, since>>
      /\ \A d \in Client : Fresh(d)' => Fresh(d)
      /\ \A d \in Client : Connected(d)' => Connected(d)
  BY DEF Unregister, postVars, runVars, Fresh, Connected
<1> QED
  BY <1>1 DEF StreamInv, LogInv, LoopInv, GotInv, Taken, SentUpTo

\* The client Run has in hand catches up.
LEMMA StreamSent ==
  ASSUME TypeInv, StreamInv, NoGhosts, Sent
  PROVE  StreamInv'
<1> USE DEF TypeInv, TypeOK
<1> PICK t : t = target
  OBVIOUS
<1>1. /\ run = "writing"
      /\ run' = "sending"
      /\ got' = IF conn[t] = "open" THEN [got EXCEPT ![t] = Append(@, message)] ELSE got
      /\ target' = None
      /\ conn[t] \in {"open", "failed"}
      /\ UNCHANGED <<clients, broadcast, log, message, targets, conn, reader, since>>
  BY DEF Sent, WriteOk, postVars
<1>2. /\ t \in Client /\ t \in clients /\ t \notin targets /\ message \in Msg /\ ~Fresh(t)
  BY <1>1 DEF StreamInv, LoopInv, NoGhosts, Fresh, Serving
<1>3. Taken \in Nat /\ Taken' = Taken /\ Taken >= 1 /\ message = log[Taken]
  BY <1>1 DEF Taken, StreamInv, LogInv
<1>4. LogInv'
  BY <1>1, <1>3 DEF StreamInv, LogInv
<1>5. LoopInv'
  BY <1>1, HubAssumption DEF StreamInv, LoopInv
<1>6. /\ SentUpTo(t) = Taken - 1 /\ SentUpTo(t)' = Taken
      /\ \A d \in Client \ {t} : SentUpTo(d)' = SentUpTo(d)
  BY <1>1, <1>2, <1>3, HubAssumption DEF SentUpTo
<1>7. \A d \in Client : d # t \/ conn[t] # "open" => got'[d] = got[d]
  BY <1>1
<1>8. ASSUME Connected(t)
      PROVE  /\ Len(got'[t]) = Taken - since[t]
             /\ \A i \in 1 .. Len(got'[t]) : got'[t][i] = log[since[t] + i]
  <2>1. got'[t] = Append(got[t], message)
    BY <1>1, <1>2, <1>8 DEF Connected
  <2>2. /\ Len(got[t]) = Taken - 1 - since[t]
        /\ \A i \in 1 .. Len(got[t]) : got[t][i] = log[since[t] + i]
    BY <1>2, <1>6, <1>8 DEF StreamInv, GotInv
  <2>3. /\ Len(got'[t]) = Len(got[t]) + 1 /\ Len(got[t]) \in Nat /\ since[t] \in Nat
        /\ \A i \in 1 .. Len(got[t]) : got'[t][i] = got[t][i]
        /\ got'[t][Len(got[t]) + 1] = message
    BY <1>2, <2>1, AppendElements
  <2>4. since[t] + (Len(got[t]) + 1) = Taken
    BY <1>3, <2>2, <2>3
  <2>5. ASSUME NEW i \in 1 .. Len(got'[t]) PROVE got'[t][i] = log[since[t] + i]
    <3>1. CASE i \in 1 .. Len(got[t])
      BY <2>2, <2>3, <3>1
    <3>2. CASE i = Len(got[t]) + 1
      BY <1>3, <2>3, <2>4, <3>2
    <3> QED
      BY <2>3, <3>1, <3>2
  <2> QED
    BY <1>3, <2>2, <2>3, <2>5
<1>9. GotInv'
  <2>1. \A d \in Client : Fresh(d)' => got'[d] = <<>>
    BY <1>1, <1>2, <1>7 DEF StreamInv, GotInv, Fresh
  <2>2. ASSUME NEW d \in clients, Connected(d)
        PROVE  /\ Len(got'[d]) = SentUpTo(d)' - since[d]
               /\ \A i \in 1 .. Len(got'[d]) : got'[d][i] = log[since[d] + i]
    <3>1. CASE d = t
      BY <1>6, <1>8, <2>2, <3>1
    <3>2. CASE d # t
      BY <1>6, <1>7, <2>2, <3>2 DEF StreamInv, GotInv
    <3> QED
      BY <3>1, <3>2
  <2> QED
    BY <1>1, <2>1, <2>2 DEF GotInv, Connected
<1> QED
  BY <1>4, <1>5, <1>9 DEF StreamInv

\* The rest of Run's steps change neither a stream nor how far it has to go.
LEMMA StreamLoop ==
  ASSUME TypeInv, StreamInv, SendFailed \/ SentToAll \/ Exit \/ \E c \in Client : SendTo(c)
  PROVE  StreamInv'
<1> USE DEF TypeInv, TypeOK
<1>1. /\ UNCHANGED <<clients, broadcast, log, conn, reader, got, since>>
      /\ run' \in {"sending", "writing"} => run \in {"sending", "writing"} /\ message' = message
  BY DEF SendFailed, SentToAll, Exit, SendTo, postVars, clientVars
<1>2. LoopInv'
  BY DEF SendFailed, SentToAll, Exit, SendTo, postVars, clientVars, StreamInv, LoopInv
<1>3. targets' \union {target'} = targets \union {target}
      \/ \A c \in clients : c \in targets' \union {target'} <=> c \in targets \union {target}
  BY HubAssumption DEF SendFailed, SentToAll, Exit, SendTo, postVars, clientVars
<1>4. Taken' = Taken /\ \A c \in clients : SentUpTo(c)' = SentUpTo(c)
  BY <1>1, <1>3 DEF Taken, SentUpTo
<1>5. LogInv'
  BY <1>1, <1>4 DEF StreamInv, LogInv
<1>6. GotInv'
  BY <1>1, <1>4 DEF StreamInv, GotInv, Fresh, Connected
<1> QED
  BY <1>2, <1>5, <1>6 DEF StreamInv

LEMMA StreamNext == TypeInv /\ NoGhosts /\ StreamInv /\ [Next]_vars => StreamInv'
<1> SUFFICES ASSUME TypeInv, NoGhosts, StreamInv, [Next]_vars PROVE StreamInv'
  OBVIOUS
<1> USE DEF TypeInv, TypeOK
<1>1. CASE TakeMessage
  BY <1>1, StreamTakeMessage DEF TypeInv
<1>2. CASE Sent
  BY <1>2, StreamSent DEF TypeInv
<1>3. CASE SendFailed \/ SentToAll \/ Exit \/ \E c \in Client : SendTo(c)
  BY <1>3, StreamLoop DEF TypeInv
<1>4. CASE Cancel
  BY <1>4, StreamFrame DEF Cancel, postVars, runVars, clientVars, Connected, Fresh
<1>5. ASSUME NEW m \in Msg, Queue(m) PROVE StreamInv'
  BY <1>5, StreamQueue DEF TypeInv
<1>6. ASSUME NEW m \in Msg, Drop(m) PROVE StreamInv'
  BY <1>6, StreamFrame DEF Drop, runVars, clientVars, Connected, Fresh
<1>7. ASSUME NEW c \in Client, Register(c) PROVE StreamInv'
  BY <1>7, StreamRegister DEF TypeInv
<1>8. ASSUME NEW c \in Client, Unregister(c) PROVE StreamInv'
  BY <1>8, StreamUnregister DEF TypeInv
<1>9. ASSUME NEW c \in Client, ReaderStep(c) PROVE StreamInv'
  BY <1>9, StreamFrame
     DEF ReaderStep, ReadError, LockForPong, PongSent, PongFailed, ReaderVia, postVars, runVars,
         Connected, Fresh
<1>10. ASSUME NEW c \in Client, PingerStep(c) PROVE StreamInv'
  BY <1>10, StreamFrame
     DEF PingerStep, Tick, LockForPing, PingSent, PingFailed, PingerVia, postVars, runVars,
         Connected, Fresh
<1>11. ASSUME NEW c \in Client, PeerStep(c) PROVE StreamInv'
  <2>1. CASE Upgrade(c)
    <3>1. c \notin clients
      BY <2>1 DEF Upgrade, ReaderVia, NoGhosts, Serving
    <3> QED
      BY <2>1, <3>1, StreamFrame DEF Upgrade, ReaderVia, postVars, runVars, Connected, Fresh
  <2>2. CASE Stall(c) \/ Resume(c) \/ Fail(c) \/ ReadPing(c)
    BY <2>2, StreamFrame
       DEF Stall, Resume, Fail, ReadPing, ReaderVia, postVars, runVars, Connected, Fresh
  <2> QED
    BY <1>11, <2>1, <2>2 DEF PeerStep
<1>12. CASE UNCHANGED vars
  BY <1>12, StreamFrame DEF vars, postVars, runVars, clientVars, Connected, Fresh
<1> QED
  BY <1>1, <1>2, <1>3, <1>4, <1>5, <1>6, <1>7, <1>8, <1>9, <1>10, <1>11, <1>12 DEF Next, RunStep

LEMMA StreamIsGapless == TypeInv /\ StreamInv => Gapless
<1> SUFFICES ASSUME TypeInv, StreamInv, NEW c \in clients, Connected(c)
             PROVE  got[c] = SubSeq(log, since[c] + 1, SentUpTo(c))
  BY DEF Gapless, Connected, SentUpTo
<1> USE DEF TypeInv, TypeOK
<1> DEFINE s == SubSeq(log, since[c] + 1, SentUpTo(c))
<1>1. /\ Len(got[c]) = SentUpTo(c) - since[c]
      /\ \A i \in 1 .. Len(got[c]) : got[c][i] = log[since[c] + i]
      /\ got[c] \in Seq(Msg) /\ since[c] \in Nat /\ log \in Seq(Msg)
  BY DEF StreamInv, GotInv
<1>2. SentUpTo(c) <= Len(log) /\ SentUpTo(c) \in Int /\ since[c] + 1 >= 1
      /\ SentUpTo(c) >= since[c]
  BY <1>1 DEF SentUpTo, Taken
<1>3. /\ s \in Seq(Msg)
      /\ Len(s) = SentUpTo(c) - since[c]
      /\ \A i \in 1 .. SentUpTo(c) - since[c] : s[i] = log[since[c] + i]
  BY <1>1, <1>2
<1>4. Len(got[c]) = Len(s) /\ \A i \in 1 .. Len(got[c]) : got[c][i] = s[i]
  BY <1>1, <1>3
<1> HIDE DEF s
<1>5. got[c] = s
  BY <1>1, <1>3, <1>4, SameElements
<1> QED
  BY <1>5 DEF s

\* A client that stays connected misses no message and gets none twice or out of
\* order, whoever else comes and goes and however slowly the others read.
THEOREM StreamsAreGapless == Safety => []Gapless
  BY TypeInit, TypeNext, GhostInit, GhostNext, StreamInit, StreamNext, StreamIsGapless, PTL
     DEF Safety
==================================================================================
