------------------------------ MODULE WorkerPool ------------------------------
(***************************************************************************)
(* The worker pool of internal/pool/worker_pool.go: a fixed number of      *)
(* goroutines that receive tasks from a bounded channel until the pool is  *)
(* stopped or its context is cancelled.                                    *)
(*                                                                         *)
(* Every goroutine that touches the pool is a process here: the workers,   *)
(* one caller per Submit, one per Stop or StopWithTimeout.  A step ends    *)
(* where the code can be descheduled between two accesses to shared state: *)
(* Submit reads the flag under the lock and sends after it has released    *)
(* it, and Stop sets the flag, closes stopChan, waits, and closes the      *)
(* queue in four steps.                                                    *)
(***************************************************************************)
EXTENDS Integers, Sequences

CONSTANTS
  WorkerCount,   \* first argument of NewWorkerPool
  QueueSize,     \* second argument of NewWorkerPool
  Task,          \* the tasks, one per call of Submit or SubmitWithContext
  CtxTask,       \* those that are submitted through SubmitWithContext
  Stopper,       \* the calls of Stop
  TimedStopper,  \* those of them made on behalf of StopWithTimeout
  NoTask         \* what an idle worker holds

\* NewWorkerPool replaces arguments that are not positive.
NumWorkers == IF WorkerCount <= 0 THEN 1 ELSE WorkerCount
QueueCap == IF QueueSize <= 0 THEN 100 ELSE QueueSize
Worker == 1 .. NumWorkers

ASSUME PoolAssumption ==
  /\ WorkerCount \in Int
  /\ QueueSize \in Int
  /\ CtxTask \subseteq Task
  /\ TimedStopper \subseteq Stopper
  /\ NoTask \notin Task

VARIABLES
  stopped,       \* wp.stopped, read and written under wp.mu
  stopChan,      \* wp.stopChan has been closed
  taskQueue,     \* the contents of the buffered channel wp.taskQueue
  queueClosed,   \* wp.taskQueue has been closed
  ctxDone,       \* the context the workers and the submitters share is done
  worker,        \* where each worker is in its loop
  holds,         \* the task each worker is executing
  runs,          \* how many times each task has been begun
  finished,      \* the tasks that have returned
  submit,        \* where each Submit is, or how it returned
  stop,          \* where each Stop is
  timed          \* where each StopWithTimeout is, or how it returned

queueVars  == <<taskQueue, queueClosed>>
workerVars == <<worker, holds, runs, finished>>
stopVars   == <<stopped, stopChan, stop, timed>>
vars == <<queueVars, workerVars, stopVars, ctxDone, submit>>

Init ==
  /\ stopped = FALSE
  /\ stopChan = FALSE
  /\ taskQueue = <<>>
  /\ queueClosed = FALSE
  /\ ctxDone = FALSE
  /\ worker = [w \in Worker |-> "new"]
  /\ holds = [w \in Worker |-> NoTask]
  /\ runs = [t \in Task |-> 0]
  /\ finished = {}
  /\ submit = [t \in Task |-> "idle"]
  /\ stop = [s \in Stopper |-> "idle"]
  /\ timed = [s \in TimedStopper |-> "idle"]

\* A worker that counts in wp.wg.
Live(w) == worker[w] \in {"select", "running"}

\* A panic in any goroutine ends the program.
Panicked == \E t \in Task : submit[t] = "panicked"

-------------------------------------------------------------------------------
(* Faulty variants of the steps below.  Next uses none of them: each is what a  *)
(* slip in the code would turn a step into, and makes a property at the end of  *)
(* the module fail when it takes that step's place.                             *)

\* An off-by-one in the capacity of the channel.
SendOnePastCap(t) ==
  /\ submit[t] = "checked"
  /\ ~queueClosed
  /\ Len(taskQueue) <= QueueCap
  /\ taskQueue' = Append(taskQueue, t)
  /\ submit' = [submit EXCEPT ![t] = "accepted"]
  /\ UNCHANGED <<workerVars, stopVars, ctxDone, queueClosed>>

\* The queue is never closed, so that a late Submit still succeeds.
LateSendAccepted(t) ==
  /\ submit[t] = "checked"
  /\ queueClosed
  /\ taskQueue' = Append(taskQueue, t)
  /\ submit' = [submit EXCEPT ![t] = "accepted"]
  /\ UNCHANGED <<workerVars, stopVars, ctxDone, queueClosed>>

\* Workers look at the head of a shared slice and remove it in a later step.
ReceivePeek(w) ==
  /\ worker[w] = "select"
  /\ taskQueue # <<>>
  /\ worker' = [worker EXCEPT ![w] = "running"]
  /\ holds' = [holds EXCEPT ![w] = Head(taskQueue)]
  /\ runs' = [runs EXCEPT ![Head(taskQueue)] = @ + 1]
  /\ UNCHANGED <<queueVars, stopVars, finished, ctxDone, submit>>

\* A worker checks the stop signal after it has received, and drops the task.
ReceiveThenCheckStop(w) ==
  /\ worker[w] = "select"
  /\ taskQueue # <<>>
  /\ worker' = [worker EXCEPT ![w] = IF stopChan THEN "exited" ELSE "running"]
  /\ holds' = [holds EXCEPT ![w] = IF stopChan THEN NoTask ELSE Head(taskQueue)]
  /\ runs' = [runs EXCEPT ![Head(taskQueue)] = IF stopChan THEN @ ELSE @ + 1]
  /\ taskQueue' = Tail(taskQueue)
  /\ UNCHANGED <<queueClosed, stopVars, finished, ctxDone, submit>>

\* A worker returns the error of its task instead of going on.
FinishAndLeave(w) ==
  /\ worker[w] = "running"
  /\ worker' = [worker EXCEPT ![w] = "exited"]
  /\ holds' = [holds EXCEPT ![w] = NoTask]
  /\ finished' = finished \union {holds[w]}
  /\ UNCHANGED <<queueVars, stopVars, runs, ctxDone, submit>>

\* Stop sets the flag and forgets to close stopChan.
SignalForgotten(s) ==
  /\ stop[s] = "flagged"
  /\ stop' = [stop EXCEPT ![s] = "signalled"]
  /\ UNCHANGED <<queueVars, workerVars, stopped, stopChan, timed, ctxDone, submit>>

\* Stop closes the queue first and waits for the workers afterwards.
CloseBeforeWait(s) ==
  /\ stop[s] = "signalled"
  /\ queueClosed' = TRUE
  /\ stop' = [stop EXCEPT ![s] = "returned"]
  /\ UNCHANGED <<workerVars, taskQueue, stopped, stopChan, timed, ctxDone, submit>>

-------------------------------------------------------------------------------
(* The workers *)

\* The owner of a pool starts it once, before it may stop it: the evaluator
\* starts it in init and stops it in shutdown.  Some tests never start it.
Start ==
  /\ ~stopped
  /\ \A w \in Worker : worker[w] = "new"
  /\ worker' = [w \in Worker |-> "select"]
  /\ UNCHANGED <<queueVars, stopVars, holds, runs, finished, ctxDone, submit>>

\* case task, ok := <-wp.taskQueue, with ok true
Receive(w) ==
  /\ worker[w] = "select"
  /\ taskQueue # <<>>
  /\ worker' = [worker EXCEPT ![w] = "running"]
  /\ holds' = [holds EXCEPT ![w] = Head(taskQueue)]
  /\ runs' = [runs EXCEPT ![Head(taskQueue)] = @ + 1]
  /\ taskQueue' = Tail(taskQueue)
  /\ UNCHANGED <<queueClosed, stopVars, finished, ctxDone, submit>>

\* task(ctx) returns; its error, if any, is dropped.
FinishTask(w) ==
  /\ worker[w] = "running"
  /\ worker' = [worker EXCEPT ![w] = "select"]
  /\ holds' = [holds EXCEPT ![w] = NoTask]
  /\ finished' = finished \union {holds[w]}
  /\ UNCHANGED <<queueVars, stopVars, runs, ctxDone, submit>>

\* The three ways out of the select: the queue is closed and drained, the stop
\* signal, the context.  Go picks any ready case, so a worker that may leave
\* may just as well receive again.
Quit(w) ==
  /\ worker[w] = "select"
  /\ stopChan \/ ctxDone \/ (queueClosed /\ taskQueue = <<>>)
  /\ worker' = [worker EXCEPT ![w] = "exited"]
  /\ UNCHANGED <<queueVars, stopVars, holds, runs, finished, ctxDone, submit>>

-------------------------------------------------------------------------------
(* Submit and SubmitWithContext *)

SubmitVia(t, outcome) ==
  /\ submit' = [submit EXCEPT ![t] = outcome]
  /\ UNCHANGED <<workerVars, stopVars, ctxDone, queueClosed>>

\* SubmitWithContext looks at the context once, before it calls Submit.
CheckContext(t) ==
  /\ t \in CtxTask
  /\ submit[t] = "idle"
  /\ SubmitVia(t, IF ctxDone THEN "rejected" ELSE "entered")
  /\ UNCHANGED taskQueue

\* if wp.stopped, between RLock and RUnlock
CheckStopped(t) ==
  /\ submit[t] = IF t \in CtxTask THEN "entered" ELSE "idle"
  /\ SubmitVia(t, IF stopped THEN "rejected" ELSE "checked")
  /\ UNCHANGED taskQueue

\* case wp.taskQueue <- task
SendAccepted(t) ==
  /\ submit[t] = "checked"
  /\ ~queueClosed
  /\ Len(taskQueue) < QueueCap
  /\ taskQueue' = Append(taskQueue, t)
  /\ SubmitVia(t, "accepted")

\* default: the queue is full
SendFull(t) ==
  /\ submit[t] = "checked"
  /\ ~queueClosed
  /\ Len(taskQueue) >= QueueCap
  /\ SubmitVia(t, "rejected")
  /\ UNCHANGED taskQueue

\* The Go runtime panics when a select sends on a closed channel.
SendOnClosed(t) ==
  /\ submit[t] = "checked"
  /\ queueClosed
  /\ SubmitVia(t, "panicked")
  /\ UNCHANGED taskQueue

-------------------------------------------------------------------------------
(* Stop and StopWithTimeout *)

StopVia(s, next) ==
  /\ stop' = [stop EXCEPT ![s] = next]
  /\ UNCHANGED <<workerVars, taskQueue, ctxDone, submit>>

\* StopWithTimeout runs Stop in a goroutine of its own, so a timed Stop begins
\* once its StopWithTimeout has been called.
MayStop(s) == s \in TimedStopper => timed[s] # "idle"

\* The critical section at the head of Stop.  Only the first caller goes on.
SetStopped(s) ==
  /\ stop[s] = "idle"
  /\ MayStop(s)
  /\ StopVia(s, IF stopped THEN "returned" ELSE "flagged")
  /\ stopped' = TRUE
  /\ UNCHANGED <<stopChan, queueClosed, timed>>

CloseStopChan(s) ==
  /\ stop[s] = "flagged"
  /\ stopChan' = TRUE
  /\ StopVia(s, "signalled")
  /\ UNCHANGED <<stopped, queueClosed, timed>>

\* wp.wg.Wait() returns when every started worker has called Done.
WaitWorkers(s) ==
  /\ stop[s] = "signalled"
  /\ \A w \in Worker : ~Live(w)
  /\ StopVia(s, "waited")
  /\ UNCHANGED <<stopped, stopChan, queueClosed, timed>>

CloseQueue(s) ==
  /\ stop[s] = "waited"
  /\ queueClosed' = TRUE
  /\ StopVia(s, "returned")
  /\ UNCHANGED <<stopped, stopChan, timed>>

TimedVia(s, from, to) ==
  /\ timed[s] = from
  /\ timed' = [timed EXCEPT ![s] = to]
  /\ UNCHANGED <<queueVars, workerVars, stopped, stopChan, stop, ctxDone, submit>>

CallTimedStop(s) == TimedVia(s, "idle", "waiting")
TimedStopDone(s) == stop[s] = "returned" /\ TimedVia(s, "waiting", "ok")
TimedStopExpires(s) == TimedVia(s, "waiting", "timeout")

-------------------------------------------------------------------------------
\* appCancel, or the parent context of a test
Cancel ==
  /\ ~ctxDone
  /\ ctxDone' = TRUE
  /\ UNCHANGED <<queueVars, workerVars, stopVars, submit>>

WorkerStep(w) == Receive(w) \/ FinishTask(w) \/ Quit(w)

SubmitStep(t) ==
  \/ CheckContext(t) \/ CheckStopped(t)
  \/ SendAccepted(t) \/ SendFull(t) \/ SendOnClosed(t)

StopStep(s) == SetStopped(s) \/ CloseStopChan(s) \/ WaitWorkers(s) \/ CloseQueue(s)

TimedStep(s) == CallTimedStop(s) \/ TimedStopDone(s) \/ TimedStopExpires(s)

Next ==
  /\ ~Panicked
  /\ \/ Start
     \/ Cancel
     \/ \E w \in Worker : WorkerStep(w)
     \/ \E t \in Task : SubmitStep(t)
     \/ \E s \in Stopper : StopStep(s)
     \/ \E s \in TimedStopper : TimedStep(s)

\* A call of Stop, or of the StopWithTimeout around it, has been made.
Begun(s) == stop[s] # "idle" \/ (s \in TimedStopper /\ timed[s] # "idle")

\* Goroutines that can run do run, and a task returns (the tasks of this program
\* are bounded calls to the Kubernetes API and to PostgreSQL).  Nothing forces a
\* caller to submit, to stop or to cancel; one that has begun goes on.
Fairness ==
  /\ \A w \in Worker : WF_vars(~Panicked /\ WorkerStep(w))
  /\ \A t \in Task : WF_vars(~Panicked /\ submit[t] # "idle" /\ SubmitStep(t))
  /\ \A s \in Stopper : WF_vars(~Panicked /\ Begun(s) /\ StopStep(s))
  /\ \A s \in TimedStopper : WF_vars(~Panicked /\ TimedStopDone(s))

Safety == Init /\ [][Next]_vars

Spec == Safety /\ Fairness

-------------------------------------------------------------------------------
(* What the pool guarantees *)

TypeOK ==
  /\ stopped \in BOOLEAN
  /\ stopChan \in BOOLEAN
  /\ taskQueue \in Seq(Task)
  /\ Len(taskQueue) <= QueueCap
  /\ queueClosed \in BOOLEAN
  /\ ctxDone \in BOOLEAN
  /\ worker \in [Worker -> {"new", "select", "running", "exited"}]
  /\ holds \in [Worker -> Task \union {NoTask}]
  /\ \A w \in Worker : holds[w] # NoTask <=> worker[w] = "running"
  /\ runs \in [Task -> Nat]
  /\ finished \subseteq Task
  /\ submit \in [Task -> {"idle", "entered", "checked", "accepted", "rejected", "panicked"}]
  /\ stop \in [Stopper -> {"idle", "flagged", "signalled", "waited", "returned"}]
  /\ timed \in [TimedStopper -> {"idle", "waiting", "ok", "timeout"}]

Queued(t) == \E i \in 1 .. Len(taskQueue) : taskQueue[i] = t
Held(t) == \E w \in Worker : holds[w] = t

\* No task is ever executed twice, by two workers or by one, and a task whose
\* Submit returned an error is never executed at all (worker_pool.go:62, 89).
AtMostOnce ==
  \A t \in Task : runs[t] <= 1 /\ (runs[t] = 1 => submit[t] = "accepted")

\* The pool neither loses nor invents work: an accepted task is waiting, or in
\* the hands of a worker, or done, and nothing else is (worker_pool.go:62, 98).
Accounted ==
  \A t \in Task :
    /\ submit[t] = "accepted" <=> Queued(t) \/ Held(t) \/ t \in finished
    /\ Queued(t) => runs[t] = 0
    /\ Held(t) => t \notin finished

\* The call of Stop that closes the pool returns only when every worker has left
\* its loop, so nothing is in flight behind it (worker_pool.go:133).
StopIsQuiescent == queueClosed => \A w \in Worker : ~Live(w)

\* The pool as a service to its submitters.
Phase(t) ==
  CASE submit[t] = "rejected" -> "refused"
    [] submit[t] = "accepted" /\ t \in finished -> "finished"
    [] submit[t] = "accepted" /\ t \notin finished /\ Held(t) -> "running"
    [] submit[t] = "accepted" /\ t \notin finished /\ ~Held(t) -> "accepted"
    [] OTHER -> "new"

Service ==
  INSTANCE TaskService WITH phase <- [t \in Task |-> Phase(t)], closed <- queueClosed

\* The pool implements the service: whatever the interleaving of submitters,
\* workers and stoppers, no task is accepted or begun once Stop has closed the
\* pool, and a task that was begun is ended.
ImplementsService == Service!Spec

\* Stop always returns: closing stopChan reaches every worker, whatever is left
\* in the queue and whoever else is stopping the pool (worker_pool.go:120).
StopReturns ==
  \A s \in Stopper :
    Begun(s) ~> \/ stop[s] = "returned" /\ (s \in TimedStopper => timed[s] # "waiting")
                \/ Panicked

\* A started pool gets round to every accepted task, unless it is stopped or
\* cancelled first (worker_pool.go:57).
AcceptedRuns ==
  \A t \in Task :
    submit[t] = "accepted" ~>
      \/ runs[t] = 1
      \/ stopChan \/ ctxDone
      \/ \A w \in Worker : worker[w] = "new"

-------------------------------------------------------------------------------
(* What the repository says of the pool and the code does not do *)

\* "Returns error if pool is stopped or queue is full" (worker_pool.go:87): a
\* Submit returns, it does not bring the program down.
SubmitReturns == ~Panicked
===============================================================================
