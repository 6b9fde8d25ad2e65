----------------------------- MODULE MonitoringTool -----------------------------
(***************************************************************************)
(* The program of cmd/monitoring-tool: the watchers, the worker pool, the  *)
(* state manager, the event bus and its observers, the database, the HTTP  *)
(* requests that read it, and main, which starts them in one order and     *)
(* stops them in another.                                                  *)
(*                                                                         *)
(* The pool and the bus are the modules WorkerPool and EventBus, step for  *)
(* step.  A watcher is reduced to what the others see of it: a goroutine   *)
(* that submits checks, one at a time, until it is stopped (the module     *)
(* Watcher has the rest).  A check is the task a watcher submits; running  *)
(* it means storing and publishing each of its alerts.                     *)
(***************************************************************************)
EXTENDS Integers, Sequences, Functions

CONSTANTS
  WorkerCount, QueueSize,  \* of the pool; 5 and 300 in NewEvaluatorEngine
  Capacity,                \* of the bus; 200 in NewEventBus
  Check,                   \* the tasks the watchers submit
  Alert,                   \* the alerts they raise
  Owner,                   \* the watcher that submits each check
  AlertsOf,                \* the alerts each check raises, in order
  EmailEnabled,            \* e-mail is enabled and configured
  Request,                 \* the HTTP requests that query the database
  None                     \* no check, no alert

Observer == {"hub", "email"}
Kind == {"pods", "nodes", "metrics"}

\* The order in which shutdown stops what init has started.
PoolFirst == <<"metrics", "pool", "pods", "nodes", "bus", "database">>
DatabaseFirst == <<"metrics", "pods", "nodes", "database", "pool", "bus">>
ShutdownOrder == <<"metrics", "pods", "nodes", "pool", "bus", "database">>

\* The bus has room for an event.  A check builds each of its alerts anew, so no alert
\* is raised twice, by one check or by two.
ASSUME ToolAssumption ==
  /\ WorkerCount \in Int
  /\ QueueSize \in Int
  /\ Capacity \in Nat \ {0}
  /\ EmailEnabled \in BOOLEAN
  /\ Owner \in [Check -> Kind]
  /\ AlertsOf \in [Check -> Seq(Alert)]
  /\ \A c \in Check : IsInjective(AlertsOf[c])
  /\ \A c, d \in Check : c # d => Range(AlertsOf[c]) \intersect Range(AlertsOf[d]) = {}
  /\ None \notin Check \union Alert

VARIABLES
  main,        \* where main is
  watcher,     \* where the goroutines of each watcher are
  work,        \* the alerts a running check has still to process
  publishing,  \* the checks that have stored an alert and not yet published it
  stored,      \* the alerts in the database
  failed,      \* the alerts Create returned an error for
  skipped,     \* the alerts of checks that ended without raising them
  dbOpen,      \* closeDatabase has not been called
  request      \* where each HTTP request is

VARIABLES  \* of the pool
  stopped, stopChan, taskQueue, queueClosed, worker, holds, runs, finished, submit, stop, timed

VARIABLES  \* of the bus
  observers, eventChan, busStopCh, dispatcher, current, pending, publish, call, busStop

VARIABLE ctxDone  \* appCtx is done

Pool == INSTANCE WorkerPool
  WITH Task <- Check, CtxTask <- Check, NoTask <- None, Stopper <- {"main"}, TimedStopper <- {}

Bus == INSTANCE EventBus
  WITH Event <- Alert, NoEvent <- None, stop <- busStop, stopCh <- busStopCh

flowVars == <<work, publishing, stored, failed, skipped>>
toolVars == <<main, watcher, dbOpen, request>>
poolVars == <<stopped, stopChan, taskQueue, queueClosed, worker, holds, runs, finished,
              submit, stop, timed>>
busVars  == <<observers, eventChan, busStopCh, dispatcher, current, pending, publish, call,
              busStop>>
vars == <<flowVars, toolVars, poolVars, busVars, ctxDone>>

Init ==
  /\ main = "start bus"
  /\ watcher = [k \in Kind |-> "new"]
  /\ work = [c \in Check |-> <<>>]
  /\ publishing = {}
  /\ stored = {}
  /\ failed = {}
  /\ skipped = {}
  /\ dbOpen = TRUE
  /\ request = [r \in Request |-> "idle"]
  /\ Pool!Init
  /\ Bus!Init

-------------------------------------------------------------------------------
(* init *)

MainVia(from, to) ==
  /\ main = from
  /\ main' = to
  /\ UNCHANGED <<flowVars, dbOpen, request>>

StartBus ==
  /\ MainVia("start bus", "subscribe hub")
  /\ Bus!Start
  /\ UNCHANGED <<watcher, poolVars>>

SubscribeHub ==
  /\ MainVia("subscribe hub", "subscribe email")
  /\ Bus!Subscribe("hub")
  /\ UNCHANGED <<watcher, poolVars>>

\* A faulty variant: what connects to the mail server comes last.
SubscribeEmailLast ==
  \/ /\ MainVia("subscribe email", "start pool")
     /\ UNCHANGED <<watcher, poolVars, busVars, ctxDone>>
  \/ /\ main = "serving"
     /\ EmailEnabled
     /\ Bus!Subscribe("email")
     /\ UNCHANGED <<flowVars, toolVars, poolVars>>

\* Both observers are subscribed before the pool and the watchers start, so before
\* there is anything to publish.
SubscribeEmail ==
  /\ MainVia("subscribe email", "start pool")
  /\ IF EmailEnabled THEN Bus!Subscribe("email") ELSE UNCHANGED <<busVars, ctxDone>>
  /\ UNCHANGED <<watcher, poolVars>>

StartPool ==
  /\ MainVia("start pool", "start watchers")
  /\ Pool!Start
  /\ UNCHANGED <<watcher, busVars>>

\* initK8sWatchers: the first watcher works already while the next is started.
StartOrder == <<"pods", "nodes", "metrics">>

StartWatcher(i) ==
  /\ main = "start watchers"
  /\ watcher[StartOrder[i]] = "new"
  /\ \A j \in 1 .. i - 1 : watcher[StartOrder[j]] # "new"
  /\ watcher' = [watcher EXCEPT ![StartOrder[i]] = "running"]
  /\ main' = IF i = Len(StartOrder) THEN "serving" ELSE main
  /\ UNCHANGED <<flowVars, dbOpen, request, poolVars, busVars, ctxDone>>

-------------------------------------------------------------------------------
(* Watchers *)

MidSubmit(c) == submit[c] \in {"entered", "checked"}

\* A watcher's goroutine submits one check after the other.  It may go on doing so
\* when it has been told to stop, because its select picks any ready case.
Submit(c) ==
  /\ watcher[Owner[c]] \in {"running", "stopping"}
  /\ \A d \in Check \ {c} : Owner[d] = Owner[c] => ~MidSubmit(d)
  /\ Pool!SubmitStep(c)
  /\ UNCHANGED <<flowVars, toolVars, busVars>>

\* It leaves its loop between two submissions, on its stopCh or on the context.
LeaveLoop(k) ==
  /\ watcher[k] \in {"running", "stopping"}
  /\ watcher[k] = "stopping" \/ ctxDone
  /\ \A c \in Check : Owner[c] = k => ~MidSubmit(c)
  /\ watcher' = [watcher EXCEPT ![k] = "exited"]
  /\ UNCHANGED <<flowVars, main, dbOpen, request, poolVars, busVars, ctxDone>>

-------------------------------------------------------------------------------
(* The workers: processEvent, checkPodMetrics, checkNodeMetrics, ProcessAlert *)

FlowFrame == UNCHANGED <<toolVars, busVars>>

\* A check has its alerts to process; a check of metrics has none when the metrics
\* API returns an error.
BeginCheck(w) ==
  /\ Pool!Receive(w)
  /\ LET c == Head(taskQueue) IN
       \/ work' = [work EXCEPT ![c] = AlertsOf[c]] /\ UNCHANGED skipped
       \/ /\ Owner[c] = "metrics"
          /\ skipped' = skipped \union Range(AlertsOf[c])
          /\ UNCHANGED work
  /\ FlowFrame
  /\ UNCHANGED <<publishing, stored, failed>>

\* The check a worker is in the middle of, and the alert it is at.
At(w, stage) ==
  /\ worker[w] = "running"
  /\ work[holds[w]] # <<>>
  /\ stage = IF holds[w] \in publishing THEN "publish" ELSE "create"

NextAlert(w) == work' = [work EXCEPT ![holds[w]] = Tail(@)]

\* A faulty variant: the alert is published first and stored afterwards.
PublishThenCreate(w) ==
  /\ At(w, "create")
  /\ Bus!PublishSent(Head(work[holds[w]]))
  /\ publishing' = publishing \union {holds[w]}
  /\ UNCHANGED <<toolVars, poolVars, work, stored, failed, skipped>>

\* A faulty variant: the first error ends the check.
CreateFailsReturn(w) ==
  /\ At(w, "create")
  /\ failed' = failed \union {Head(work[holds[w]])}
  /\ work' = [work EXCEPT ![holds[w]] = <<>>]
  /\ UNCHANGED <<toolVars, poolVars, busVars, ctxDone, publishing, stored, skipped>>

\* alertRepo.Create returns nil, which it cannot once the context is done.
CreateOk(w) ==
  /\ At(w, "create")
  /\ dbOpen
  /\ ~ctxDone
  /\ stored' = stored \union {Head(work[holds[w]])}
  /\ publishing' = publishing \union {holds[w]}
  /\ UNCHANGED <<toolVars, poolVars, busVars, ctxDone, work, failed, skipped>>

\* Create returns an error; the loop of the check continues with the next alert.
CreateFails(w) ==
  /\ At(w, "create")
  /\ failed' = failed \union {Head(work[holds[w]])}
  /\ NextAlert(w)
  /\ UNCHANGED <<toolVars, poolVars, busVars, ctxDone, publishing, stored, skipped>>

\* A faulty variant: every alert is sent twice, whatever room there is.
PublishTwice(w) ==
  /\ At(w, "publish")
  /\ eventChan' = eventChan \o <<Head(work[holds[w]]), Head(work[holds[w]])>>
  /\ publish' = [publish EXCEPT ![Head(work[holds[w]])] = "sent"]
  /\ publishing' = publishing \ {holds[w]}
  /\ NextAlert(w)
  /\ UNCHANGED <<toolVars, poolVars, ctxDone, observers, busStopCh, dispatcher, current>>
  /\ UNCHANGED <<pending, call, busStop, stored, failed, skipped>>

Publish(w) ==
  /\ At(w, "publish")
  /\ Bus!PublishSent(Head(work[holds[w]])) \/ Bus!PublishDropped(Head(work[holds[w]]))
  /\ publishing' = publishing \ {holds[w]}
  /\ NextAlert(w)
  /\ UNCHANGED <<toolVars, poolVars, stored, failed, skipped>>

EndCheck(w) ==
  /\ Pool!FinishTask(w)
  /\ work[holds[w]] = <<>>
  /\ FlowFrame
  /\ UNCHANGED flowVars

QuitWorker(w) == Pool!Quit(w) /\ FlowFrame /\ UNCHANGED flowVars

-------------------------------------------------------------------------------
(* HTTP requests *)

RequestVia(r, from, to) ==
  /\ request[r] = from
  /\ request' = [request EXCEPT ![r] = to]
  /\ UNCHANGED <<flowVars, main, watcher, dbOpen, poolVars, busVars, ctxDone>>

Arrive(r) == main = "serving" /\ RequestVia(r, "idle", "querying")
Answer(r) == RequestVia(r, "querying", IF dbOpen THEN "answered" ELSE "refused")

-------------------------------------------------------------------------------
(* shutdown *)

\* The signal, and srv.Shutdown: no new connections.
Signal ==
  /\ MainVia("serving", "draining")
  /\ UNCHANGED <<watcher, poolVars, busVars, ctxDone>>

\* A faulty variant: Shutdown is called with a context that never expires.
DrainedAll ==
  /\ MainVia("draining", "cancel")
  /\ \A r \in Request : request[r] # "querying"
  /\ UNCHANGED <<watcher, poolVars, busVars, ctxDone>>

\* srv.Shutdown returns when the requests are done, or after ten seconds.
Drained ==
  /\ MainVia("draining", "cancel")
  /\ UNCHANGED <<watcher, poolVars, busVars, ctxDone>>

AppCancel ==
  /\ MainVia("cancel", ShutdownOrder[1])
  /\ Pool!Cancel
  /\ Bus!Cancel
  /\ UNCHANGED watcher

\* What main stops after x.
After(x) ==
  LET i == CHOOSE j \in DOMAIN ShutdownOrder : ShutdownOrder[j] = x
  IN IF i = Len(ShutdownOrder) THEN "done" ELSE ShutdownOrder[i + 1]

\* Stop of a watcher closes its stopCh and waits for its goroutines.
TellWatcher(k) ==
  /\ main = k
  /\ watcher[k] = "running"
  /\ watcher' = [watcher EXCEPT ![k] = "stopping"]
  /\ UNCHANGED <<flowVars, main, dbOpen, request, poolVars, busVars, ctxDone>>

WatcherStopped(k) ==
  /\ MainVia(k, After(k))
  /\ watcher[k] = "exited"
  /\ UNCHANGED <<watcher, poolVars, busVars, ctxDone>>

StopPool ==
  /\ main = "pool"
  /\ Pool!StopStep("main")
  /\ main' = IF stop'["main"] = "returned" THEN After("pool") ELSE main
  /\ UNCHANGED <<flowVars, watcher, dbOpen, request, busVars>>

StopBus ==
  /\ main = "bus"
  /\ Bus!CloseStopCh \/ Bus!WaitDispatcher
  /\ main' = IF busStop' = "returned" THEN After("bus") ELSE main
  /\ UNCHANGED <<flowVars, watcher, dbOpen, request, poolVars>>

CloseDatabase ==
  /\ main = "database"
  /\ main' = After("database")
  /\ dbOpen' = FALSE
  /\ UNCHANGED <<flowVars, watcher, request, poolVars, busVars, ctxDone>>

-------------------------------------------------------------------------------
BusStep ==
  /\ \/ Bus!DispatcherStep
     \/ \E a \in Alert, o \in Observer : Bus!BeginOnAlert(a, o) \/ Bus!ReturnOnAlert(a, o)
  /\ UNCHANGED <<flowVars, toolVars, poolVars>>

MainStep ==
  \/ StartBus \/ SubscribeHub \/ SubscribeEmail \/ StartPool
  \/ Signal \/ Drained \/ AppCancel \/ StopPool \/ StopBus \/ CloseDatabase
  \/ \E i \in DOMAIN StartOrder : StartWatcher(i)
  \/ \E k \in Kind : TellWatcher(k) \/ WatcherStopped(k)

WorkerStep(w) ==
  \/ BeginCheck(w) \/ CreateOk(w) \/ CreateFails(w) \/ Publish(w)
  \/ EndCheck(w) \/ QuitWorker(w)

\* The process ends with main, and with a panic.
Running == main # "done" /\ ~Pool!Panicked

Next ==
  /\ Running
  /\ \/ MainStep
     \/ \E k \in Kind : LeaveLoop(k)
     \/ \E c \in Check : Submit(c)
     \/ \E w \in Pool!Worker : WorkerStep(w)
     \/ \E r \in Request : Arrive(r) \/ Answer(r)
     \/ BusStep

\* Goroutines that can run do run, and main goes on, but for the signal, which may
\* never come, and a request, whose client may be as slow as it likes.
Fairness ==
  /\ WF_vars(Running /\ MainStep /\ ~Signal)
  /\ \A k \in Kind : WF_vars(Running /\ LeaveLoop(k))
  /\ \A c \in Check : WF_vars(Running /\ MidSubmit(c) /\ Submit(c))
  /\ \A w \in Pool!Worker : WF_vars(Running /\ WorkerStep(w))
  /\ WF_vars(Running /\ Bus!DispatcherStep /\ BusStep)
  /\ \A a \in Alert, o \in Observer : WF_vars(Running /\ Bus!BeginOnAlert(a, o) /\ BusStep)

Safety == Init /\ [][Next]_vars

Spec == Safety /\ Fairness

-------------------------------------------------------------------------------
(* What the program guarantees *)

TypeOK ==
  /\ Pool!TypeOK
  /\ Bus!TypeOK
  /\ watcher \in [Kind -> {"new", "running", "stopping", "exited"}]
  /\ work \in [Check -> Seq(Alert)]
  /\ publishing \subseteq Check
  /\ stored \subseteq Alert
  /\ failed \subseteq Alert
  /\ skipped \subseteq Alert
  /\ dbOpen \in BOOLEAN
  /\ request \in [Request -> {"idle", "querying", "answered", "refused"}]

\* main stops every watcher before it stops the pool, so that no Submit finds the
\* queue closed: the panic the pool alone allows cannot happen in this program
\* (main.go:157).
NoPanic == ~Pool!Panicked

\* When the database is closed no watcher and no worker is left that could use it, and
\* no event leaves the bus any more (main.go:166).
DatabaseOutlivesWork ==
  ~dbOpen =>
    /\ \A w \in Pool!Worker : ~Pool!Live(w)
    /\ \A k \in Kind : watcher[k] = "exited"
    /\ dispatcher \in {"new", "exited"}

\* Every alert of a check that ran to its end was stored and then published, or its
\* own Create failed: neither the failure of another alert nor a shutdown between the
\* two steps costs it (pod_collector.go:185, state_manager.go:30).
NoneSkipped ==
  \A c \in finished, a \in Alert :
    a \in Range(AlertsOf[c]) =>
      \/ a \in failed \union skipped
      \/ a \in stored /\ publish[a] # "idle"

\* The program as an alert service.
Flow == INSTANCE AlertFlow WITH
  fate <- [a \in Alert |-> CASE a \in stored -> "stored"
                             [] a \in failed \union skipped -> "lost"
                             [] OTHER -> "pending"],
  told <- [a \in Alert |-> {o \in Observer : call[a][o] \in {"running", "returned"}}],
  open <- dbOpen

\* An alert is stored before anybody is told of it, nobody is told twice, and
\* nothing is stored once the database is closed.
ImplementsFlow == Flow!Spec

\* Once the signal has come the program ends, whatever its requests, checks and
\* observers are in the middle of (main.go:143).
ShutdownEnds == main = "draining" ~> main = "done"

\* A stored alert reaches every subscribed observer, unless the bus is full or the
\* program is shutting down (event_bus.go:79).
StoredIsTold ==
  \A a \in Alert, o \in Observer :
    a \in stored /\ o \in Range(observers) ~>
      call[a][o] \in {"running", "returned"} \/ publish[a] = "dropped" \/ ctxDone
===============================================================================
