--------------------------- MODULE WorkerPoolProofs ---------------------------
(***************************************************************************)
(* Proofs about the worker pool, for every number of workers, every queue  *)
(* size and every set of submitters and stoppers.                          *)
(*                                                                         *)
(* StopIsQuiescent, AtMostOnce and Accounted are not inductive by          *)
(* themselves.  ShutdownInv says what is already true while Stop is still  *)
(* on its way to closing the queue, and WorkInv follows each task through  *)
(* the queue and the hands of one worker.                                  *)
(***************************************************************************)
EXTENDS WorkerPool, SequenceLemmas

\* A Stop past its critical section has set the flag, and one past Wait, or the
\* closed queue it leaves behind, has no live worker beside it.
ShutdownInv ==
  /\ \A s \in Stopper : stop[s] \in {"flagged", "signalled", "waited"} => stopped
  /\ \A s \in Stopper : stop[s] = "waited" => \A w \in Worker : ~Live(w)
  /\ queueClosed => stopped
  /\ queueClosed => \A w \in Worker : ~Live(w)

\* Each accepted task is in exactly one place, and has been begun as often as
\* that place says.
QueueInv ==
  /\ \A i, j \in 1 .. Len(taskQueue) : taskQueue[i] = taskQueue[j] => i = j
  /\ \A i \in 1 .. Len(taskQueue) :
       /\ submit[taskQueue[i]] = "accepted"
       /\ runs[taskQueue[i]] = 0
       /\ taskQueue[i] \notin finished

HeldInv ==
  /\ \A w \in Worker : holds[w] # NoTask =>
       /\ submit[holds[w]] = "accepted"
       /\ runs[holds[w]] = 1
       /\ holds[w] \notin finished
  /\ \A v, w \in Worker : holds[v] # NoTask /\ holds[v] = holds[w] => v = w

DoneInv ==
  \A t \in finished : submit[t] = "accepted" /\ runs[t] = 1

PlaceInv ==
  \A t \in Task :
    /\ submit[t] = "accepted" => Queued(t) \/ Held(t) \/ t \in finished
    /\ submit[t] # "accepted" => runs[t] = 0

WorkInv == QueueInv /\ HeldInv /\ DoneInv /\ PlaceInv

-------------------------------------------------------------------------------
(* The constants *)

\* NewWorkerPool leaves the channel a positive capacity.
LEMMA CapType == QueueCap \in Nat /\ QueueCap >= 1
  BY PoolAssumption DEF QueueCap

-------------------------------------------------------------------------------
(* Type correctness *)

LEMMA TypeInit == Init => TypeOK
<1> SUFFICES ASSUME Init PROVE TypeOK
  OBVIOUS
<1>1. taskQueue \in Seq(Task) /\ Len(taskQueue) <= QueueCap
  BY CapType DEF Init
<1>2. \A w \in Worker : holds[w] # NoTask <=> worker[w] = "running"
  BY DEF Init
<1>3. runs \in [Task -> Nat] /\ finished \subseteq Task
  BY DEF Init
<1> QED
  BY <1>1, <1>2, <1>3 DEF Init, TypeOK

LEMMA TypeNext == TypeOK /\ [Next]_vars => TypeOK'
<1> SUFFICES ASSUME TypeOK, [Next]_vars PROVE TypeOK'
  OBVIOUS
<1> USE DEF TypeOK
<1>1. CASE Start
  BY <1>1 DEF Start, queueVars, stopVars
<1>2. CASE Cancel
  BY <1>2 DEF Cancel, queueVars, workerVars, stopVars
<1>3. ASSUME NEW w \in Worker, Receive(w) PROVE TypeOK'
  <2>1. Head(taskQueue) \in Task /\ Tail(taskQueue) \in Seq(Task)
        /\ Len(Tail(taskQueue)) <= QueueCap
    BY <1>3, TailElements, CapType DEF Receive
  <2>2. Head(taskQueue) # NoTask
    BY <2>1, PoolAssumption
  <2> QED
    BY <1>3, <2>1, <2>2 DEF Receive, stopVars
<1>4. ASSUME NEW w \in Worker, FinishTask(w) PROVE TypeOK'
  BY <1>4 DEF FinishTask, queueVars, stopVars
<1>5. ASSUME NEW w \in Worker, Quit(w) PROVE TypeOK'
  BY <1>5 DEF Quit, queueVars, stopVars
<1>6. ASSUME NEW t \in Task, CheckContext(t) \/ CheckStopped(t) \/ SendFull(t) \/ SendOnClosed(t)
      PROVE  TypeOK'
  BY <1>6 DEF CheckContext, CheckStopped, SendFull, SendOnClosed, SubmitVia, workerVars, stopVars
<1>7. ASSUME NEW t \in Task, SendAccepted(t) PROVE TypeOK'
  <2>1. Append(taskQueue, t) \in Seq(Task) /\ Len(Append(taskQueue, t)) <= QueueCap
    BY <1>7, AppendElements, CapType DEF SendAccepted
  <2> QED
    BY <1>7, <2>1 DEF SendAccepted, SubmitVia, workerVars, stopVars
<1>8. ASSUME NEW s \in Stopper, StopStep(s) PROVE TypeOK'
  BY <1>8 DEF StopStep, SetStopped, CloseStopChan, WaitWorkers, CloseQueue, StopVia, workerVars
<1>9. ASSUME NEW s \in TimedStopper, TimedStep(s) PROVE TypeOK'
  BY <1>9 DEF TimedStep, CallTimedStop, TimedStopDone, TimedStopExpires, TimedVia,
              queueVars, workerVars
<1>10. CASE UNCHANGED vars
  BY <1>10 DEF vars, queueVars, workerVars, stopVars
<1> QED
  BY <1>1, <1>2, <1>3, <1>4, <1>5, <1>6, <1>7, <1>8, <1>9, <1>10
     DEF Next, WorkerStep, SubmitStep

\* The channel never holds more than its capacity, a worker holds a task exactly
\* while it runs one, and every process is at one of its program points.
THEOREM TypeCorrect == Safety => []TypeOK
  BY TypeInit, TypeNext, PTL DEF Safety

-------------------------------------------------------------------------------
(* Stop is quiescent *)

LEMMA ShutdownInit == Init => ShutdownInv
  BY DEF Init, ShutdownInv, Live

LEMMA ShutdownNext == TypeOK /\ ShutdownInv /\ [Next]_vars => ShutdownInv'
<1> SUFFICES ASSUME TypeOK, ShutdownInv, [Next]_vars PROVE ShutdownInv'
  OBVIOUS
<1> USE DEF TypeOK, ShutdownInv, Live
<1>1. CASE Start
  BY <1>1 DEF Start, queueVars, stopVars
<1>2. CASE Cancel
  BY <1>2 DEF Cancel, queueVars, workerVars, stopVars
<1>3. ASSUME NEW v \in Worker, WorkerStep(v) PROVE ShutdownInv'
  <2>1. \A w \in Worker : ~Live(w) => ~Live(w)'
    BY <1>3 DEF WorkerStep, Receive, FinishTask, Quit
  <2>2. UNCHANGED <<stop, stopped, queueClosed>>
    BY <1>3 DEF WorkerStep, Receive, FinishTask, Quit, queueVars, stopVars
  <2> QED
    BY <2>1, <2>2
<1>4. ASSUME NEW t \in Task, SubmitStep(t) PROVE ShutdownInv'
  <2>1. UNCHANGED <<stop, stopped, queueClosed, worker>>
    BY <1>4 DEF SubmitStep, CheckContext, CheckStopped, SendAccepted, SendFull,
                SendOnClosed, SubmitVia, workerVars, stopVars
  <2> QED
    BY <2>1
<1>5. ASSUME NEW s \in Stopper, StopStep(s) PROVE ShutdownInv'
  <2>1. CASE SetStopped(s)
    BY <2>1 DEF SetStopped, StopVia, workerVars
  <2>2. CASE CloseStopChan(s)
    BY <2>2 DEF CloseStopChan, StopVia, workerVars
  <2>3. CASE WaitWorkers(s)
    BY <2>3 DEF WaitWorkers, StopVia, workerVars
  <2>4. CASE CloseQueue(s)
    BY <2>4 DEF CloseQueue, StopVia, workerVars
  <2> QED
    BY <1>5, <2>1, <2>2, <2>3, <2>4 DEF StopStep
<1>6. ASSUME NEW s \in TimedStopper, TimedStep(s) PROVE ShutdownInv'
  BY <1>6 DEF TimedStep, CallTimedStop, TimedStopDone, TimedStopExpires, TimedVia,
              queueVars, workerVars
<1>7. CASE UNCHANGED vars
  BY <1>7 DEF vars, queueVars, workerVars, stopVars
<1> QED
  BY <1>1, <1>2, <1>3, <1>4, <1>5, <1>6, <1>7 DEF Next

\* Stop closes the queue only when every worker has left its loop, and none ever
\* comes back: nothing is in flight behind the Stop that closed the pool.
THEOREM Quiescence == Safety => []StopIsQuiescent
<1>1. ShutdownInv => StopIsQuiescent
  BY DEF ShutdownInv, StopIsQuiescent
<1> QED
  BY <1>1, TypeCorrect, ShutdownInit, ShutdownNext, PTL DEF Safety

-------------------------------------------------------------------------------
(* Every accepted task is in one place, and runs once *)

LEMMA WorkInit == Init => WorkInv
<1> SUFFICES ASSUME Init PROVE WorkInv
  OBVIOUS
<1>1. Len(taskQueue) = 0
  BY DEF Init
<1> QED
  BY <1>1 DEF Init, WorkInv, QueueInv, HeldInv, DoneInv, PlaceInv

\* A step that leaves the queue, the hands, the counters and the verdicts of
\* Submit alone leaves WorkInv alone.
LEMMA WorkFrame ==
  ASSUME WorkInv, UNCHANGED <<taskQueue, holds, runs, finished, submit>>
  PROVE  WorkInv'
  BY DEF WorkInv, QueueInv, HeldInv, DoneInv, PlaceInv, Queued, Held

\* A Submit that does not accept its task, whatever else it decides.
LEMMA WorkRefused ==
  ASSUME TypeOK, WorkInv, NEW t \in Task, submit[t] # "accepted",
         submit' = [submit EXCEPT ![t] = submit'[t]], submit'[t] # "accepted",
         UNCHANGED <<taskQueue, holds, runs, finished>>
  PROVE  WorkInv'
<1> USE DEF TypeOK
<1>1. \A u \in Task : submit[u] = "accepted" <=> submit'[u] = "accepted"
  OBVIOUS
<1>2. \A i \in 1 .. Len(taskQueue) : taskQueue[i] \in Task
  OBVIOUS
<1>3. QueueInv'
  BY <1>1, <1>2 DEF WorkInv, QueueInv
<1>4. HeldInv'
  BY <1>1 DEF WorkInv, HeldInv
<1>5. DoneInv'
  BY <1>1 DEF WorkInv, DoneInv
<1>6. PlaceInv'
  BY <1>1 DEF WorkInv, PlaceInv, Queued, Held
<1> QED
  BY <1>3, <1>4, <1>5, <1>6 DEF WorkInv

LEMMA WorkAccepted ==
  ASSUME TypeOK, WorkInv, NEW t \in Task, SendAccepted(t)
  PROVE  WorkInv'
<1> USE DEF TypeOK
<1>1. /\ submit[t] = "checked"
      /\ taskQueue' = Append(taskQueue, t)
      /\ submit' = [submit EXCEPT ![t] = "accepted"]
      /\ UNCHANGED <<holds, runs, finished>>
  BY DEF SendAccepted, SubmitVia, workerVars
<1>2. /\ Len(taskQueue') = Len(taskQueue) + 1
      /\ \A i \in 1 .. Len(taskQueue) : taskQueue'[i] = taskQueue[i]
      /\ taskQueue'[Len(taskQueue) + 1] = t
      /\ Len(taskQueue) \in Nat
  BY <1>1, AppendElements
<1>3. /\ \A i \in 1 .. Len(taskQueue) : taskQueue[i] # t /\ taskQueue[i] \in Task
      /\ \A w \in Worker : holds[w] # t
      /\ t \notin finished
      /\ runs[t] = 0
  <2>1. t # NoTask
    BY PoolAssumption
  <2> QED
    BY <1>1, <2>1 DEF WorkInv, QueueInv, HeldInv, DoneInv, PlaceInv
<1>4. QueueInv'
  <2>1. \A i \in 1 .. Len(taskQueue') : i \in 1 .. Len(taskQueue) \/ i = Len(taskQueue) + 1
    BY <1>2
  <2>2. \A u \in Task : submit'[u] = IF u = t THEN "accepted" ELSE submit[u]
    BY <1>1
  <2>3. ASSUME NEW i \in 1 .. Len(taskQueue'), NEW j \in 1 .. Len(taskQueue'),
               taskQueue'[i] = taskQueue'[j]
        PROVE  i = j
    <3>1. CASE i \in 1 .. Len(taskQueue) /\ j \in 1 .. Len(taskQueue)
      BY <1>2, <2>3, <3>1 DEF WorkInv, QueueInv
    <3>2. CASE i = Len(taskQueue) + 1 \/ j = Len(taskQueue) + 1
      BY <1>2, <1>3, <2>1, <2>3, <3>2
    <3> QED
      BY <2>1, <3>1, <3>2
  <2>4. ASSUME NEW i \in 1 .. Len(taskQueue')
        PROVE  /\ submit'[taskQueue'[i]] = "accepted"
               /\ runs'[taskQueue'[i]] = 0
               /\ taskQueue'[i] \notin finished'
    <3>1. CASE i \in 1 .. Len(taskQueue)
      BY <1>1, <1>2, <1>3, <2>2, <3>1 DEF WorkInv, QueueInv
    <3>2. CASE i = Len(taskQueue) + 1
      BY <1>1, <1>2, <1>3, <2>2, <3>2
    <3> QED
      BY <2>1, <3>1, <3>2
  <2> QED
    BY <2>3, <2>4 DEF QueueInv
<1>5. HeldInv'
  BY <1>1, <1>3 DEF WorkInv, HeldInv
<1>6. DoneInv'
  BY <1>1, <1>3 DEF WorkInv, DoneInv
<1>7. PlaceInv'
  <2>1. Queued(t)'
    BY <1>2 DEF Queued
  <2>2. \A u \in Task : Queued(u) => Queued(u)'
    BY <1>2 DEF Queued
  <2> QED
    BY <1>1, <2>1, <2>2 DEF WorkInv, PlaceInv, Held
<1> QED
  BY <1>4, <1>5, <1>6, <1>7 DEF WorkInv

LEMMA WorkReceive ==
  ASSUME TypeOK, WorkInv, NEW w \in Worker, Receive(w)
  PROVE  WorkInv'
<1> USE DEF TypeOK
<1> PICK h : h = Head(taskQueue)
  OBVIOUS
<1>1. /\ worker[w] = "select"
      /\ taskQueue # <<>>
      /\ holds' = [holds EXCEPT ![w] = h]
      /\ runs' = [runs EXCEPT ![h] = @ + 1]
      /\ taskQueue' = Tail(taskQueue)
      /\ UNCHANGED <<submit, finished>>
  BY DEF Receive
<1>2. /\ h \in Task
      /\ h = taskQueue[1]
      /\ Len(taskQueue) \in Nat \ {0}
      /\ Len(taskQueue') = Len(taskQueue) - 1
      /\ \A i \in 1 .. Len(taskQueue) - 1 : taskQueue'[i] = taskQueue[i + 1]
  BY <1>1, TailElements
<1>3. /\ submit[h] = "accepted"
      /\ runs[h] = 0
      /\ h \notin finished
      /\ h # NoTask
  BY <1>2, PoolAssumption DEF WorkInv, QueueInv
<1>4. \A v \in Worker : holds[v] # h
  BY <1>3 DEF WorkInv, HeldInv
<1>5. \A i \in 1 .. Len(taskQueue) - 1 : taskQueue'[i] # h /\ taskQueue'[i] \in Task
  <2> SUFFICES ASSUME NEW i \in 1 .. Len(taskQueue) - 1
               PROVE  taskQueue[i + 1] # h /\ taskQueue[i + 1] \in Task
    BY <1>2
  <2>1. i + 1 \in 1 .. Len(taskQueue) /\ i + 1 # 1 /\ 1 \in 1 .. Len(taskQueue)
    BY <1>2
  <2>2. \A j, k \in 1 .. Len(taskQueue) : taskQueue[j] = taskQueue[k] => j = k
    BY DEF WorkInv, QueueInv
  <2>3. taskQueue[i + 1] # taskQueue[1]
    BY <2>1, <2>2
  <2>4. taskQueue[i + 1] \in Task
    BY <2>1
  <2> QED
    BY <1>2, <2>3, <2>4
<1>6. QueueInv'
  BY <1>1, <1>2, <1>3, <1>5 DEF WorkInv, QueueInv
<1>7. HeldInv'
  <2>1. \A v \in Worker : holds'[v] = IF v = w THEN h ELSE holds[v]
    BY <1>1
  <2>2. \A u \in Task : runs'[u] = IF u = h THEN 1 ELSE runs[u]
    BY <1>1, <1>2, <1>3
  <2> QED
    BY <1>1, <1>2, <1>3, <1>4, <2>1, <2>2 DEF WorkInv, HeldInv
<1>8. DoneInv'
  BY <1>1, <1>2, <1>3 DEF WorkInv, DoneInv
<1>9. PlaceInv'
  <2>1. Held(h)'
    BY <1>1 DEF Held
  <2>2. \A u \in Task : Queued(u) => u = h \/ Queued(u)'
    <3> SUFFICES ASSUME NEW u \in Task, u # h, NEW i \in 1 .. Len(taskQueue), taskQueue[i] = u
                 PROVE  Queued(u)'
      BY DEF Queued
    <3>1. i # 1 /\ i - 1 \in 1 .. Len(taskQueue')
      BY <1>2
    <3>2. taskQueue'[i - 1] = taskQueue[(i - 1) + 1] /\ (i - 1) + 1 = i
      BY <1>2, <3>1
    <3> QED
      BY <3>1, <3>2 DEF Queued
  <2>3. \A u \in Task : Held(u) => Held(u)'
    <3>1. holds[w] = NoTask
      BY <1>1
    <3> QED
      BY <1>1, <3>1, PoolAssumption DEF Held
  <2>4. \A u \in Task : submit[u] # "accepted" => runs'[u] = runs[u]
    BY <1>1, <1>2, <1>3
  <2> QED
    BY <1>1, <2>1, <2>2, <2>3, <2>4 DEF WorkInv, PlaceInv
<1> QED
  BY <1>6, <1>7, <1>8, <1>9 DEF WorkInv

LEMMA WorkFinish ==
  ASSUME TypeOK, WorkInv, NEW w \in Worker, FinishTask(w)
  PROVE  WorkInv'
<1> USE DEF TypeOK
<1>1. /\ worker[w] = "running"
      /\ holds' = [holds EXCEPT ![w] = NoTask]
      /\ finished' = finished \union {holds[w]}
      /\ UNCHANGED <<taskQueue, runs, submit>>
  BY DEF FinishTask, queueVars
<1>2. /\ holds[w] \in Task
      /\ holds[w] # NoTask
      /\ submit[holds[w]] = "accepted"
      /\ runs[holds[w]] = 1
  BY <1>1 DEF WorkInv, HeldInv
<1>3. \A i \in 1 .. Len(taskQueue) : taskQueue[i] # holds[w]
  BY <1>2 DEF WorkInv, QueueInv
<1>4. QueueInv'
  BY <1>1, <1>3 DEF WorkInv, QueueInv
<1>5. HeldInv'
  BY <1>1, <1>2 DEF WorkInv, HeldInv
<1>6. DoneInv'
  BY <1>1, <1>2 DEF WorkInv, DoneInv
<1>7. PlaceInv'
  <2>1. \A u \in Task : Held(u) => Held(u)' \/ u \in finished'
    BY <1>1 DEF Held
  <2> QED
    BY <1>1, <2>1 DEF WorkInv, PlaceInv, Queued
<1> QED
  BY <1>4, <1>5, <1>6, <1>7 DEF WorkInv

LEMMA WorkNext == TypeOK /\ WorkInv /\ [Next]_vars => WorkInv'
<1> SUFFICES ASSUME TypeOK, WorkInv, [Next]_vars PROVE WorkInv'
  OBVIOUS
<1>1. CASE Start
  BY <1>1, WorkFrame DEF Start, queueVars
<1>2. CASE Cancel
  BY <1>2, WorkFrame DEF Cancel, queueVars, workerVars
<1>3. ASSUME NEW w \in Worker, WorkerStep(w) PROVE WorkInv'
  <2>1. CASE Receive(w)
    BY <2>1, WorkReceive
  <2>2. CASE FinishTask(w)
    BY <2>2, WorkFinish
  <2>3. CASE Quit(w)
    BY <2>3, WorkFrame DEF Quit, queueVars
  <2> QED
    BY <1>3, <2>1, <2>2, <2>3 DEF WorkerStep
<1>4. ASSUME NEW t \in Task, SubmitStep(t) PROVE WorkInv'
  <2>1. CASE SendAccepted(t)
    BY <2>1, WorkAccepted
  <2>2. CASE CheckContext(t) \/ CheckStopped(t) \/ SendFull(t) \/ SendOnClosed(t)
    BY <2>2, WorkRefused
       DEF CheckContext, CheckStopped, SendFull, SendOnClosed, SubmitVia, workerVars, TypeOK
  <2> QED
    BY <1>4, <2>1, <2>2 DEF SubmitStep
<1>5. ASSUME NEW s \in Stopper, StopStep(s) PROVE WorkInv'
  BY <1>5, WorkFrame
     DEF StopStep, SetStopped, CloseStopChan, WaitWorkers, CloseQueue, StopVia, workerVars
<1>6. ASSUME NEW s \in TimedStopper, TimedStep(s) PROVE WorkInv'
  BY <1>6, WorkFrame
     DEF TimedStep, CallTimedStop, TimedStopDone, TimedStopExpires, TimedVia, queueVars, workerVars
<1>7. CASE UNCHANGED vars
  BY <1>7, WorkFrame DEF vars, queueVars, workerVars
<1> QED
  BY <1>1, <1>2, <1>3, <1>4, <1>5, <1>6, <1>7 DEF Next

LEMMA WorkIsAtMostOnce == TypeOK /\ WorkInv => AtMostOnce
<1> SUFFICES ASSUME TypeOK, WorkInv, NEW t \in Task
             PROVE  runs[t] <= 1 /\ (runs[t] = 1 => submit[t] = "accepted")
  BY DEF AtMostOnce
<1>1. runs[t] \in Nat /\ t # NoTask
  BY PoolAssumption DEF TypeOK
<1>2. CASE submit[t] = "accepted"
  BY <1>1, <1>2 DEF WorkInv, QueueInv, HeldInv, DoneInv, PlaceInv, Queued, Held
<1>3. CASE submit[t] # "accepted"
  BY <1>3 DEF WorkInv, PlaceInv
<1> QED
  BY <1>2, <1>3

LEMMA WorkIsAccounted == TypeOK /\ WorkInv => Accounted
<1> SUFFICES ASSUME TypeOK, WorkInv, NEW t \in Task
             PROVE  /\ submit[t] = "accepted" <=> Queued(t) \/ Held(t) \/ t \in finished
                    /\ Queued(t) => runs[t] = 0
                    /\ Held(t) => t \notin finished
  BY DEF Accounted
<1>1. t # NoTask
  BY PoolAssumption
<1> QED
  BY <1>1 DEF WorkInv, QueueInv, HeldInv, DoneInv, PlaceInv, Queued, Held

\* A task is begun at most once, and only if its Submit returned nil.
THEOREM RunsAtMostOnce == Safety => []AtMostOnce
  BY TypeCorrect, WorkInit, WorkNext, WorkIsAtMostOnce, PTL DEF Safety

\* An accepted task is in the queue, with a worker, or done, and nothing else is.
THEOREM NothingIsLost == Safety => []Accounted
  BY TypeCorrect, WorkInit, WorkNext, WorkIsAccounted, PTL DEF Safety

-------------------------------------------------------------------------------
(* The pool implements the task service *)

\* Where a task is settles its phase.
PhaseInv ==
  \A t \in Task :
    /\ submit[t] \notin {"accepted", "rejected"} => Phase(t) = "new"
    /\ submit[t] = "rejected" => Phase(t) = "refused"
    /\ Queued(t) => Phase(t) = "accepted"
    /\ Held(t) <=> Phase(t) = "running"
    /\ t \in finished => Phase(t) = "finished"

LEMMA WorkIsPhase == TypeOK /\ WorkInv => PhaseInv
<1> SUFFICES ASSUME TypeOK, WorkInv, NEW t \in Task
             PROVE  /\ submit[t] \notin {"accepted", "rejected"} => Phase(t) = "new"
                    /\ submit[t] = "rejected" => Phase(t) = "refused"
                    /\ Queued(t) => Phase(t) = "accepted"
                    /\ Held(t) <=> Phase(t) = "running"
                    /\ t \in finished => Phase(t) = "finished"
  BY DEF PhaseInv
<1>1. t # NoTask
  BY PoolAssumption
<1>2. Queued(t) => submit[t] = "accepted" /\ t \notin finished /\ ~Held(t)
  BY <1>1 DEF WorkInv, QueueInv, HeldInv, Queued, Held
<1>3. Held(t) => submit[t] = "accepted" /\ t \notin finished
  BY <1>1 DEF WorkInv, HeldInv, Held
<1>4. t \in finished => submit[t] = "accepted"
  BY DEF WorkInv, DoneInv
<1> QED
  BY <1>2, <1>3, <1>4 DEF Phase

\* A step in which each task stays where it is, and the queue as open as it was.
LEMMA ServiceStutters ==
  ASSUME UNCHANGED <<queueClosed, holds, finished>>,
         \A t \in Task : submit'[t] = submit[t]
  PROVE  UNCHANGED Service!vars
<1>1. \A t \in Task : Phase(t)' = Phase(t)
  BY DEF Phase, Held
<1> QED
  BY <1>1 DEF Service!vars

\* A step in which one task moves on.
LEMMA ServiceMoves ==
  ASSUME NEW t \in Task, NEW from, NEW to, Phase(t) = from, Phase(t)' = to,
         UNCHANGED queueClosed,
         \A u \in Task \ {t} : /\ submit'[u] = submit[u]
                               /\ u \in finished' <=> u \in finished
                               /\ Held(u)' <=> Held(u)
  PROVE  Service!Move(t, from, to)
<1>1. \A u \in Task \ {t} : Phase(u)' = Phase(u)
  BY DEF Phase
<1> QED
  BY <1>1 DEF Service!Move

LEMMA ServiceInit == Init => Service!Init
<1> SUFFICES ASSUME Init PROVE Service!Init
  OBVIOUS
<1>1. \A t \in Task : Phase(t) = "new"
  BY DEF Init, Phase
<1> QED
  BY <1>1 DEF Init, Service!Init

\* Every step of the pool is a step of the service or leaves it alone.  That a task is
\* neither accepted nor begun once the queue is closed is ShutdownInv's doing.
LEMMA ServiceNext ==
  ASSUME TypeOK, ShutdownInv, PhaseInv, PhaseInv', [Next]_vars
  PROVE  [Service!Next]_(Service!vars)
<1> USE DEF TypeOK
<1>1. CASE Start
  BY <1>1, ServiceStutters DEF Start, queueVars
<1>2. CASE Cancel
  BY <1>2, ServiceStutters DEF Cancel, queueVars, workerVars
<1>3. ASSUME NEW w \in Worker, Receive(w) PROVE Service!Next
  <2> PICK t : t = Head(taskQueue)
    OBVIOUS
  <2>1. /\ worker[w] = "select" /\ Live(w)
        /\ t \in Task
        /\ holds' = [holds EXCEPT ![w] = t]
        /\ UNCHANGED <<submit, finished, queueClosed>>
    BY <1>3, TailElements DEF Receive, Live
  <2>2. Queued(t)
    BY <1>3, TailElements DEF Receive, Queued
  <2>3. Held(t)'
    BY <2>1 DEF Held
  <2>4. Phase(t) = "accepted" /\ Phase(t)' = "running"
    BY <2>1, <2>2, <2>3 DEF PhaseInv
  <2>5. \A u \in Task \ {t} : Held(u)' <=> Held(u)
    BY <2>1, PoolAssumption DEF Held
  <2>6. ~queueClosed
    BY <2>1 DEF ShutdownInv
  <2>7. Service!Move(t, "accepted", "running")
    BY <2>1, <2>4, <2>5, ServiceMoves
  <2> QED
    BY <2>1, <2>6, <2>7 DEF Service!Next, Service!Begin
<1>4. ASSUME NEW w \in Worker, FinishTask(w) PROVE Service!Next
  <2> PICK t : t = holds[w]
    OBVIOUS
  <2>1. /\ t \in Task
        /\ t # NoTask
        /\ holds' = [holds EXCEPT ![w] = NoTask]
        /\ finished' = finished \union {t}
        /\ UNCHANGED <<submit, queueClosed>>
    BY <1>4 DEF FinishTask, queueVars
  <2>2. Held(t) /\ t \in finished'
    BY <2>1 DEF Held
  <2>3. Phase(t) = "running" /\ Phase(t)' = "finished"
    BY <2>1, <2>2 DEF PhaseInv
  <2>4. \A u \in Task \ {t} : Held(u)' <=> Held(u)
    BY <2>1, PoolAssumption DEF Held
  <2>5. Service!Move(t, "running", "finished")
    BY <2>1, <2>3, <2>4, ServiceMoves
  <2> QED
    BY <2>1, <2>5 DEF Service!Next, Service!End
<1>5. ASSUME NEW w \in Worker, Quit(w) PROVE [Service!Next]_(Service!vars)
  BY <1>5, ServiceStutters DEF Quit, queueVars
<1>6. ASSUME NEW t \in Task, SendAccepted(t) PROVE Service!Next
  <2>1. /\ submit[t] = "checked"
        /\ ~queueClosed
        /\ submit' = [submit EXCEPT ![t] = "accepted"]
        /\ UNCHANGED <<holds, finished, queueClosed>>
    BY <1>6 DEF SendAccepted, SubmitVia, workerVars
  <2>2. Queued(t)'
    <3>1. taskQueue' = Append(taskQueue, t) /\ Len(taskQueue) + 1 \in 1 .. Len(taskQueue')
      BY <1>6, AppendElements DEF SendAccepted
    <3>2. taskQueue'[Len(taskQueue) + 1] = t
      BY <3>1, AppendElements
    <3> QED
      BY <3>1, <3>2 DEF Queued
  <2>3. Phase(t) = "new" /\ Phase(t)' = "accepted"
    BY <2>1, <2>2 DEF PhaseInv
  <2>4. \A u \in Task : Held(u)' <=> Held(u)
    BY <2>1 DEF Held
  <2>5. Service!Move(t, "new", "accepted")
    BY <2>1, <2>3, <2>4, ServiceMoves
  <2> QED
    BY <2>1, <2>5 DEF Service!Next, Service!Accept
<1>7. ASSUME NEW t \in Task, CheckContext(t) \/ CheckStopped(t) \/ SendFull(t) \/ SendOnClosed(t)
      PROVE  [Service!Next]_(Service!vars)
  <2>1. /\ submit[t] \notin {"accepted", "rejected"}
        /\ submit'[t] # "accepted"
        /\ \A u \in Task \ {t} : submit'[u] = submit[u]
        /\ UNCHANGED <<holds, finished, queueClosed>>
    BY <1>7 DEF CheckContext, CheckStopped, SendFull, SendOnClosed, SubmitVia, workerVars
  <2>2. \A u \in Task : Held(u)' <=> Held(u)
    BY <2>1 DEF Held
  <2>3. Phase(t) = "new"
    BY <2>1 DEF PhaseInv
  <2>4. CASE submit'[t] = "rejected"
    <3>1. Phase(t)' = "refused"
      BY <2>4 DEF PhaseInv
    <3>2. Service!Move(t, "new", "refused")
      BY <2>1, <2>2, <2>3, <3>1, ServiceMoves
    <3> QED
      BY <3>2 DEF Service!Next, Service!Refuse
  <2>5. CASE submit'[t] # "rejected"
    <3>1. Phase(t)' = "new"
      BY <2>1, <2>5 DEF PhaseInv
    <3>2. \A u \in Task : Phase(u)' = Phase(u)
      BY <2>1, <2>2, <2>3, <3>1 DEF Phase
    <3> QED
      BY <2>1, <3>2 DEF Service!vars
  <2> QED
    BY <2>4, <2>5
<1>8. ASSUME NEW s \in Stopper, SetStopped(s) \/ CloseStopChan(s) \/ WaitWorkers(s)
      PROVE  [Service!Next]_(Service!vars)
  BY <1>8, ServiceStutters DEF SetStopped, CloseStopChan, WaitWorkers, StopVia, workerVars
<1>9. ASSUME NEW s \in Stopper, CloseQueue(s) PROVE Service!Next
  <2>1. /\ queueClosed'
        /\ UNCHANGED <<holds, finished, submit>>
        /\ \A w \in Worker : ~Live(w)
    BY <1>9 DEF CloseQueue, StopVia, workerVars, ShutdownInv
  <2>2. \A t \in Task : ~Held(t)
    BY <2>1, PoolAssumption DEF Held, Live
  <2>3. \A t \in Task : Phase(t) # "running"
    BY <2>2 DEF PhaseInv
  <2>4. \A t \in Task : Phase(t)' = Phase(t)
    BY <2>1 DEF Phase, Held
  <2> QED
    BY <2>1, <2>3, <2>4 DEF Service!Next, Service!Close
<1>10. ASSUME NEW s \in TimedStopper, TimedStep(s) PROVE [Service!Next]_(Service!vars)
  BY <1>10, ServiceStutters
     DEF TimedStep, CallTimedStop, TimedStopDone, TimedStopExpires, TimedVia,
         queueVars, workerVars
<1>11. CASE UNCHANGED vars
  BY <1>11, ServiceStutters DEF vars, queueVars, workerVars
<1> QED
  BY <1>1, <1>2, <1>3, <1>4, <1>5, <1>6, <1>7, <1>8, <1>9, <1>10, <1>11
     DEF Next, WorkerStep, SubmitStep, StopStep

\* Whatever the interleaving of submitters, workers and stoppers, the pool refuses,
\* accepts, begins and ends its tasks as the service does: none is accepted or begun
\* behind the Stop that closed it.  (The fairness half of ImplementsService, that
\* what is begun is ended, stays with the model checker.)
THEOREM PoolIsAService == Safety => Service!Safety
  BY TypeCorrect, ShutdownInit, ShutdownNext, WorkInit, WorkNext, WorkIsPhase, ServiceInit, ServiceNext, PTL
     DEF Safety, Service!Safety
===============================================================================
