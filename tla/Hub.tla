---------------------------------- MODULE Hub ----------------------------------
(***************************************************************************)
(* The WebSocket hub of internal/websocket/hub.go.  One goroutine, Run,    *)
(* owns the set of clients and receives from three channels: register and  *)
(* unregister, which are unbuffered, so that a sender waits for Run to be  *)
(* in its select, and broadcast, which is bounded and never waited for.    *)
(* Every connection brings a reader, a pinger and a mutex that keeps their *)
(* writes and Run's apart.                                                 *)
(*                                                                         *)
(* Writes are steps of their own between taking and releasing the mutex,   *)
(* because no write has a deadline except a ping: a peer that stops        *)
(* reading stalls the writer, and whoever waits for the mutex after it.    *)
(***************************************************************************)
EXTENDS Integers, Sequences, SequencesExt

CONSTANTS
  Client,    \* the connections, one per call of ServeWS
  Msg,       \* the messages, one per call of Broadcast
  Capacity,  \* of broadcast; 500 in NewHub
  None       \* no client, no message

ASSUME HubAssumption == Capacity \in Nat \ {0} /\ None \notin Client \union Msg

VARIABLES
  clients,    \* h.clients
  broadcast,  \* the contents of the channel h.broadcast
  log,        \* all the messages ever put on it, in that order
  ctxDone,    \* the context of Run is done
  run,        \* where Run is
  message,    \* the message Run is sending
  targets,    \* the copied clients it has still to write to
  target,     \* the one it is writing to
  post,       \* how each Broadcast returned
  conn,       \* each connection, as its peer and the network have left it
  reader,     \* where the ServeWS of each client, and then its reader, is
  pinger,     \* where each pinger is
  writeMu,    \* who holds the write mutex of each client
  got,        \* what the peer of each client can receive, in order
  since       \* how many messages Run had taken when it registered each client

runVars    == <<run, message, targets, target>>
postVars   == <<broadcast, log, post>>
clientVars == <<conn, reader, pinger, writeMu, got, since>>
vars == <<clients, postVars, ctxDone, runVars, clientVars>>

Init ==
  /\ clients = {}
  /\ broadcast = <<>>
  /\ log = <<>>
  /\ ctxDone = FALSE
  /\ run = "select"
  /\ message = None
  /\ targets = {}
  /\ target = None
  /\ post = [m \in Msg |-> "idle"]
  /\ conn = [c \in Client |-> "none"]
  /\ reader = [c \in Client |-> "none"]
  /\ pinger = [c \in Client |-> "none"]
  /\ writeMu = [c \in Client |-> "free"]
  /\ got = [c \in Client |-> <<>>]
  /\ since = [c \in Client |-> 0]

\* How many messages Run has taken off the channel.
Taken == Len(log) - Len(broadcast)

\* The reader goroutine of a registered client.
Serving == {"reading", "replying", "writing", "leaving"}

-------------------------------------------------------------------------------
(* Faulty variants of the steps below, none of them part of Next *)

\* Run takes the write mutex only if it is free, and skips the client otherwise.
SendOrSkip(c) ==
  /\ run = "sending"
  /\ c \in targets
  /\ targets' = targets \ {c}
  /\ IF writeMu[c] = "free"
     THEN /\ run' = "writing"
          /\ target' = c
          /\ writeMu' = [writeMu EXCEPT ![c] = "run"]
     ELSE UNCHANGED <<run, target, writeMu>>
  /\ UNCHANGED <<clients, postVars, ctxDone, message, conn, reader, pinger, got, since>>

\* The pong is written without the mutex.
PongUnlocked(c) ==
  /\ reader[c] = "replying"
  /\ reader' = [reader EXCEPT ![c] = "writing"]
  /\ UNCHANGED <<clients, postVars, ctxDone, runVars, conn, pinger, writeMu, got, since>>

\* ServeWS starts the reader and the pinger first and registers the client last,
\* without waiting for Run: it writes the map itself.
RegisterLate(c) ==
  /\ reader[c] \in {"registering", "exited"}
  /\ c \notin clients
  /\ reader' = [reader EXCEPT ![c] = IF @ = "registering" THEN "reading" ELSE @]
  /\ pinger' = [pinger EXCEPT ![c] = IF @ = "none" THEN "waiting" ELSE @]
  /\ clients' = clients \union {c}
  /\ UNCHANGED <<postVars, ctxDone, runVars, conn, writeMu, got, since>>

\* Run forgets to remove the client from the map.
UnregisterKeeps(c) ==
  /\ run = "select"
  /\ reader[c] = "leaving"
  /\ conn' = [conn EXCEPT ![c] = "closed"]
  /\ reader' = [reader EXCEPT ![c] = "exited"]
  /\ UNCHANGED <<clients, postVars, ctxDone, runVars, pinger, writeMu, got, since>>

\* The reader returns on an error without unregistering its client.
ReadErrorReturns(c) ==
  /\ reader[c] = "reading"
  /\ reader' = [reader EXCEPT ![c] = "exited"]
  /\ UNCHANGED <<clients, postVars, ctxDone, runVars, conn, pinger, writeMu, got, since>>

\* A successful write ends the loop over the clients.
SentToFirst ==
  /\ run = "writing"
  /\ conn[target] \in {"open", "failed"}
  /\ run' = "select"
  /\ got' = IF conn[target] = "open" THEN [got EXCEPT ![target] = Append(@, message)] ELSE got
  /\ writeMu' = [writeMu EXCEPT ![target] = "free"]
  /\ target' = None
  /\ targets' = {}
  /\ message' = None
  /\ UNCHANGED <<clients, postVars, ctxDone, conn, reader, pinger, since>>

\* An off-by-one in the capacity of the channel.
QueuePastCap(m) ==
  /\ post[m] = "idle"
  /\ Len(broadcast) <= Capacity
  /\ broadcast' = Append(broadcast, m)
  /\ log' = Append(log, m)
  /\ post' = [post EXCEPT ![m] = "queued"]
  /\ UNCHANGED <<clients, ctxDone, runVars, clientVars>>

-------------------------------------------------------------------------------
(* Peers and the network *)

\* A peer that stops reading, with the socket buffers full.
Stall(c) ==
  /\ conn[c] = "open"
  /\ conn' = [conn EXCEPT ![c] = "stalled"]
  /\ UNCHANGED <<clients, postVars, ctxDone, runVars, reader, pinger, writeMu, got, since>>

Resume(c) ==
  /\ conn[c] = "stalled"
  /\ conn' = [conn EXCEPT ![c] = "open"]
  /\ UNCHANGED <<clients, postVars, ctxDone, runVars, reader, pinger, writeMu, got, since>>

\* The peer goes away.  A write may still succeed, into the socket buffer, and
\* nobody receives it.
Fail(c) ==
  /\ conn[c] \in {"open", "stalled"}
  /\ conn' = [conn EXCEPT ![c] = "failed"]
  /\ UNCHANGED <<clients, postVars, ctxDone, runVars, reader, pinger, writeMu, got, since>>

\* What a write on this connection can come to.
WriteOk(c) == conn[c] \in {"open", "failed"}
WriteFails(c) == conn[c] \in {"failed", "closed"}

-------------------------------------------------------------------------------
(* Run *)

\* case client := <-h.register, together with the ServeWS that sends: it goes on
\* to start the reader and the pinger.
Register(c) ==
  /\ run = "select"
  /\ reader[c] = "registering"
  /\ clients' = clients \union {c}
  /\ reader' = [reader EXCEPT ![c] = "reading"]
  /\ pinger' = [pinger EXCEPT ![c] = "waiting"]
  /\ since' = [since EXCEPT ![c] = Taken]
  /\ UNCHANGED <<postVars, ctxDone, runVars, conn, writeMu, got>>

\* case client := <-h.unregister, together with the reader that sends.  A client
\* that is not in the map any more is left alone.
Unregister(c) ==
  /\ run = "select"
  /\ reader[c] = "leaving"
  /\ clients' = clients \ {c}
  /\ conn' = IF c \in clients THEN [conn EXCEPT ![c] = "closed"] ELSE conn
  /\ reader' = [reader EXCEPT ![c] = "exited"]
  /\ UNCHANGED <<postVars, ctxDone, runVars, pinger, writeMu, got, since>>

\* case message := <-h.broadcast, and the copy of the clients under the lock
TakeMessage ==
  /\ run = "select"
  /\ broadcast # <<>>
  /\ run' = "sending"
  /\ message' = Head(broadcast)
  /\ targets' = clients
  /\ broadcast' = Tail(broadcast)
  /\ UNCHANGED <<clients, log, post, ctxDone, target, clientVars>>

\* client.WriteJSON takes the client's mutex; a map is copied in any order.
SendTo(c) ==
  /\ run = "sending"
  /\ c \in targets
  /\ writeMu[c] = "free"
  /\ run' = "writing"
  /\ target' = c
  /\ targets' = targets \ {c}
  /\ writeMu' = [writeMu EXCEPT ![c] = "run"]
  /\ UNCHANGED <<clients, postVars, ctxDone, message, conn, reader, pinger, got, since>>

Sent ==
  /\ run = "writing"
  /\ WriteOk(target)
  /\ run' = "sending"
  /\ got' = IF conn[target] = "open" THEN [got EXCEPT ![target] = Append(@, message)] ELSE got
  /\ writeMu' = [writeMu EXCEPT ![target] = "free"]
  /\ target' = None
  /\ UNCHANGED <<clients, postVars, ctxDone, message, targets, conn, reader, pinger, since>>

\* The write fails, and Run goes on to h.unregister <- client, a send that only
\* Run itself could receive: there is no step out of "stuck".
SendFailed ==
  /\ run = "writing"
  /\ WriteFails(target)
  /\ run' = "stuck"
  /\ writeMu' = [writeMu EXCEPT ![target] = "free"]
  /\ UNCHANGED <<clients, postVars, ctxDone, message, targets, target, conn, reader, pinger, got, since>>

SentToAll ==
  /\ run = "sending"
  /\ targets = {}
  /\ run' = "select"
  /\ message' = None
  /\ UNCHANGED <<clients, postVars, ctxDone, targets, target, clientVars>>

\* case <-ctx.Done().  The clients stay as they are.
Exit ==
  /\ run = "select"
  /\ ctxDone
  /\ run' = "exited"
  /\ UNCHANGED <<clients, postVars, ctxDone, message, targets, target, clientVars>>

-------------------------------------------------------------------------------
(* Broadcast, also on behalf of OnAlert *)

Queue(m) ==
  /\ post[m] = "idle"
  /\ Len(broadcast) < Capacity
  /\ broadcast' = Append(broadcast, m)
  /\ log' = Append(log, m)
  /\ post' = [post EXCEPT ![m] = "queued"]
  /\ UNCHANGED <<clients, ctxDone, runVars, clientVars>>

Drop(m) ==
  /\ post[m] = "idle"
  /\ Len(broadcast) >= Capacity
  /\ post' = [post EXCEPT ![m] = "dropped"]
  /\ UNCHANGED <<clients, broadcast, log, ctxDone, runVars, clientVars>>

-------------------------------------------------------------------------------
(* ServeWS and the reader *)

ReaderVia(c, from, to) ==
  /\ reader[c] = from
  /\ reader' = [reader EXCEPT ![c] = to]
  /\ UNCHANGED <<clients, postVars, ctxDone, runVars, pinger, got, since>>

\* ServeWS upgrades the connection and waits on h.register.
Upgrade(c) ==
  /\ conn' = [conn EXCEPT ![c] = "open"]
  /\ UNCHANGED writeMu
  /\ ReaderVia(c, "none", "registering")

\* A "ping" message that asks for a pong.  Other messages change nothing.
ReadPing(c) ==
  /\ conn[c] \in {"open", "stalled"}
  /\ UNCHANGED <<conn, writeMu>>
  /\ ReaderVia(c, "reading", "replying")

\* ReadJSON fails: the peer is gone, or sent something else than JSON, or no pong
\* has moved the read deadline for a minute.  The deferred Unregister follows.
ReadError(c) ==
  /\ UNCHANGED <<conn, writeMu>>
  /\ ReaderVia(c, "reading", "leaving")

LockForPong(c) ==
  /\ writeMu[c] = "free"
  /\ writeMu' = [writeMu EXCEPT ![c] = "reader"]
  /\ UNCHANGED conn
  /\ ReaderVia(c, "replying", "writing")

PongSent(c) ==
  /\ WriteOk(c)
  /\ writeMu' = [writeMu EXCEPT ![c] = "free"]
  /\ UNCHANGED conn
  /\ ReaderVia(c, "writing", "reading")

\* break leaves the loop, so this ends in Unregister too.
PongFailed(c) ==
  /\ WriteFails(c)
  /\ writeMu' = [writeMu EXCEPT ![c] = "free"]
  /\ UNCHANGED conn
  /\ ReaderVia(c, "writing", "leaving")

-------------------------------------------------------------------------------
(* The pinger *)

PingerVia(c, from, to) ==
  /\ pinger[c] = from
  /\ pinger' = [pinger EXCEPT ![c] = to]
  /\ UNCHANGED <<clients, postVars, ctxDone, runVars, reader, got, since>>

\* A tick: the pinger looks the client up under h.mu.
Tick(c) ==
  /\ PingerVia(c, "waiting", IF c \in clients THEN "pinging" ELSE "exited")
  /\ UNCHANGED <<conn, writeMu>>

LockForPing(c) ==
  /\ writeMu[c] = "free"
  /\ writeMu' = [writeMu EXCEPT ![c] = "pinger"]
  /\ UNCHANGED conn
  /\ PingerVia(c, "pinging", "writing")

PingSent(c) ==
  /\ WriteOk(c)
  /\ writeMu' = [writeMu EXCEPT ![c] = "free"]
  /\ UNCHANGED conn
  /\ PingerVia(c, "writing", "waiting")

\* The write fails, or does not end in ten seconds, which fails the connection
\* for every later write.
PingFailed(c) ==
  /\ conn[c] \in {"stalled", "failed", "closed"}
  /\ writeMu' = [writeMu EXCEPT ![c] = "free"]
  /\ conn' = [conn EXCEPT ![c] = IF @ = "stalled" THEN "failed" ELSE @]
  /\ PingerVia(c, "writing", "exited")

-------------------------------------------------------------------------------
Cancel ==
  /\ ~ctxDone
  /\ ctxDone' = TRUE
  /\ UNCHANGED <<clients, postVars, runVars, clientVars>>

RunStep ==
  \/ TakeMessage \/ Sent \/ SendFailed \/ SentToAll \/ Exit
  \/ \E c \in Client : SendTo(c)

\* A reader's own steps, when it does not wait for Run.
ReaderStep(c) == ReadError(c) \/ LockForPong(c) \/ PongSent(c) \/ PongFailed(c)

PingerStep(c) == Tick(c) \/ LockForPing(c) \/ PingSent(c) \/ PingFailed(c)

PeerStep(c) == Upgrade(c) \/ Stall(c) \/ Resume(c) \/ Fail(c) \/ ReadPing(c)

Next ==
  \/ RunStep \/ Cancel
  \/ \E m \in Msg : Queue(m) \/ Drop(m)
  \/ \E c \in Client :
       Register(c) \/ Unregister(c) \/ ReaderStep(c) \/ PingerStep(c) \/ PeerStep(c)

\* Run, the readers and the pingers go on when they can; the ticker ticks; and a
\* read on a connection that is gone fails within the read deadline.  A reader is
\* not made to fail on a healthy connection, nor a peer to resume or to leave.
\* A Go mutex starves nobody, hence strong fairness where one is taken.
Fairness ==
  /\ WF_vars(RunStep)
  /\ \A c \in Client :
       /\ WF_vars(Register(c) \/ Unregister(c))
       /\ WF_vars(conn[c] \in {"failed", "closed"} /\ ReadError(c))
       /\ SF_vars(SendTo(c))
       /\ SF_vars(LockForPong(c))
       /\ WF_vars(PongSent(c) \/ PongFailed(c))
       /\ WF_vars(Tick(c))
       /\ SF_vars(LockForPing(c))
       /\ WF_vars(PingSent(c) \/ PingFailed(c))

Safety == Init /\ [][Next]_vars

Spec == Safety /\ Fairness

\* The same with peers that read what they are sent for as long as they are there.
\* One that does not may stall Run for good, and every other client with it.
SpecResponsive == Init /\ [][Next /\ \A c \in Client : conn'[c] # "stalled"]_vars /\ Fairness

-------------------------------------------------------------------------------
(* What the hub guarantees *)

TypeOK ==
  /\ clients \subseteq Client
  /\ broadcast \in Seq(Msg)
  /\ Len(broadcast) <= Capacity
  /\ log \in Seq(Msg)
  /\ ctxDone \in BOOLEAN
  /\ run \in {"select", "sending", "writing", "stuck", "exited"}
  /\ message \in Msg \union {None}
  /\ targets \subseteq Client
  /\ target \in Client \union {None}
  /\ target # None <=> run \in {"writing", "stuck"}
  /\ post \in [Msg -> {"idle", "queued", "dropped"}]
  /\ conn \in [Client -> {"none", "open", "stalled", "failed", "closed"}]
  /\ reader \in [Client -> {"none", "registering", "exited"} \union Serving]
  /\ pinger \in [Client -> {"none", "waiting", "pinging", "writing", "exited"}]
  /\ writeMu \in [Client -> {"free", "run", "reader", "pinger"}]
  /\ got \in [Client -> Seq(Msg)]
  /\ since \in [Client -> Nat]

\* At most one of Run, the reader and the pinger writes on a connection at a time
\* (hub.go:91, "ensures no concurrent writes").
OneWriter ==
  \A c \in Client :
    /\ reader[c] = "writing" => pinger[c] # "writing"
    /\ run = "writing" /\ target = c => reader[c] # "writing" /\ pinger[c] # "writing"

\* The map holds exactly the clients whose reader is still there to unregister
\* them: no ghost is left behind by a connection that came and went, and a
\* connection is closed once, after its reader has left (hub.go:73, 184).
NoGhosts ==
  \A c \in Client :
    /\ c \in clients <=> reader[c] \in Serving
    /\ conn[c] = "closed" <=> reader[c] = "exited"

\* A client that is still connected has received everything Run took off the
\* channel since it was registered, in order and without gap or repetition, but
\* for the message Run has yet to send it (hub.go:82).
Gapless ==
  \A c \in clients :
    conn[c] \in {"open", "stalled"} =>
      got[c] = SubSeq(log, since[c] + 1,
                      IF c \in targets \union {target} THEN Taken - 1 ELSE Taken)

Dead == run \in {"stuck", "exited"}

\* A broadcast message reaches every client that is registered while it waits in
\* the channel and stays connected, unless Run is gone (hub.go:92).
Delivered ==
  \A m \in Msg, c \in Client :
    Contains(broadcast, m) /\ c \in clients ~>
      \/ Contains(got[c], m)
      \/ c \notin clients \/ conn[c] = "failed"
      \/ Dead

\* The connection of a peer that went away is removed and closed, unless Run is
\* gone, and the pinger of a closed connection ends: no goroutine is left behind for
\* a client that is gone (hub.go:184, 223).
Reaped ==
  \A c \in Client :
    /\ conn[c] = "failed" /\ c \in clients ~> conn[c] = "closed" \/ Dead
    /\ conn[c] = "closed" ~> pinger[c] = "exited"

-------------------------------------------------------------------------------
(* What the repository says of the hub and the code does not do *)

\* "Hub did not stop after context cancellation" is a failure (hub_test.go).
StopsOnCancel == ctxDone ~> run = "exited"
===============================================================================
