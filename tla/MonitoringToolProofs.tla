-------------------------- MODULE MonitoringToolProofs --------------------------
(***************************************************************************)
(* Proofs about the program as a whole, for any sets of checks, alerts and *)
(* requests and any size of its pool and its bus.                          *)
(*                                                                         *)
(* First, that a step of the program is a step of the pool and of the bus  *)
(* or leaves them alone.  What is proved of these components holds inside  *)
(* the program by that, and is not proved again: their proof modules are   *)
(* instantiated here with the program's variables.  What main adds is the  *)
(* order of its starts (StartInv) and of its stops (MainInv), and what the *)
(* state manager adds is where each alert of a check has got to (FlowInv); *)
(* the promise of AlertFlow follows from the two.                          *)
(***************************************************************************)
EXTENDS MonitoringTool, SequenceLemmas

\* The pool and the bus of MonitoringTool, with the theorems about them.
PoolP == INSTANCE WorkerPoolProofs
  WITH Task <- Check, CtxTask <- Check, NoTask <- None, Stopper <- {"main"}, TimedStopper <- {}

BusP == INSTANCE EventBusProofs
  WITH Event <- Alert, NoEvent <- None, stop <- busStop, stopCh <- busStopCh

\* Where main is once it has stopped a watcher, the pool or the bus.
Past(x) ==
  CASE x = "metrics" -> {"pods", "nodes", "pool", "bus", "database", "done"}
    [] x = "pods" -> {"nodes", "pool", "bus", "database", "done"}
    [] x = "nodes" -> {"pool", "bus", "database", "done"}
    [] x = "pool" -> {"bus", "database", "done"}
    [] x = "bus" -> {"database", "done"}

\* Until every observer is subscribed no worker runs, and nothing is published.
StartInv ==
  main \in {"start bus", "subscribe hub", "subscribe email"} =>
    /\ \A w \in Pool!Worker : worker[w] = "new"
    /\ \A a \in Alert : publish[a] = "idle"

\* main goes on only when the watcher it waits for has left its loop, and a goroutine
\* that has left its loop is in no Submit.
WatcherInv ==
  /\ \A k \in Kind : main \in Past(k) => watcher[k] = "exited"
  /\ \A c \in Check : MidSubmit(c) => watcher[Owner[c]] \in {"running", "stopping"}

\* How far Stop of the pool and of the bus have come follows from where main is.
StopInv ==
  /\ stopped <=> stop["main"] # "idle"
  /\ stop["main"] # "idle" => main \in Past("nodes")
  /\ stop["main"] = "returned" <=> main \in Past("pool")
  /\ queueClosed <=> main \in Past("pool")
  /\ busStop # "idle" => main \in Past("pool")
  /\ busStop = "returned" <=> main \in Past("bus")
  /\ busStop = "returned" => dispatcher \in {"new", "exited"}
  /\ ~dbOpen => main = "done"

MainInv == WatcherInv /\ StopInv /\ NoPanic

Decided == stored \union failed \union skipped

\* The alerts a check has still to process are alerts of its own that nobody has
\* decided on, but for the one it has stored and is about to publish; and those it has
\* behind it are settled.
CheckInv(c) ==
  /\ runs[c] = 0 => work[c] = <<>> /\ Range(AlertsOf[c]) \intersect Decided = {}
  /\ Range(work[c]) \subseteq Range(AlertsOf[c])
  /\ IsInjective(work[c])
  /\ Range(work[c]) \intersect (failed \union skipped) = {}
  /\ \A a \in Range(work[c]) : a \in stored <=> c \in publishing /\ a = Head(work[c])
  /\ c \in publishing => work[c] # <<>>
  /\ c \in finished => work[c] = <<>>
  /\ runs[c] # 0 =>
       \A a \in Range(AlertsOf[c]) \ Range(work[c]) :
         a \in failed \union skipped \/ (a \in stored /\ publish[a] # "idle")

\* No alert is both stored and lost, and nothing is published that was not stored.
FlowInv ==
  /\ \A c \in Check : CheckInv(c)
  /\ stored \intersect (failed \union skipped) = {}
  /\ \A a \in Alert : publish[a] # "idle" => a \in stored

-------------------------------------------------------------------------------
(* The components *)

LEMMA PoolConstants == PoolP!PoolAssumption
  BY ToolAssumption DEF PoolP!PoolAssumption

LEMMA BusConstants == BusP!BusAssumption
  BY ToolAssumption DEF BusP!BusAssumption

LEMMA PoolSame ==
  /\ Pool!Init <=> PoolP!Init
  /\ [Pool!Next]_(Pool!vars) <=> [PoolP!Next]_(PoolP!vars)
  /\ Pool!TypeOK <=> PoolP!TypeOK
  /\ Pool!TypeOK' <=> PoolP!TypeOK'
<1> USE DEF Pool!NumWorkers, PoolP!NumWorkers, Pool!QueueCap, PoolP!QueueCap, Pool!Worker, PoolP!Worker
<1>1. Pool!Init <=> PoolP!Init
  BY DEF Pool!Init, PoolP!Init
<1>2. Pool!vars = PoolP!vars /\ Pool!vars' = PoolP!vars'
  BY DEF Pool!vars, PoolP!vars, Pool!queueVars, PoolP!queueVars, Pool!workerVars, PoolP!workerVars,
    Pool!stopVars, PoolP!stopVars
<1>3. (Pool!TypeOK <=> PoolP!TypeOK) /\ (Pool!TypeOK' <=> PoolP!TypeOK')
  BY DEF Pool!TypeOK, PoolP!TypeOK
<1>4. Pool!Next <=> PoolP!Next
  BY DEF Pool!Next, PoolP!Next, Pool!queueVars, PoolP!queueVars, Pool!workerVars, PoolP!workerVars,
    Pool!stopVars, PoolP!stopVars, Pool!Panicked, PoolP!Panicked, Pool!Start, PoolP!Start, Pool!Cancel, PoolP!Cancel,
    Pool!WorkerStep, PoolP!WorkerStep, Pool!Receive, PoolP!Receive, Pool!FinishTask, PoolP!FinishTask,
    Pool!Quit, PoolP!Quit, Pool!SubmitStep, PoolP!SubmitStep, Pool!CheckContext, PoolP!CheckContext,
    Pool!CheckStopped, PoolP!CheckStopped, Pool!SendAccepted, PoolP!SendAccepted, Pool!SendFull, PoolP!SendFull,
    Pool!SendOnClosed, PoolP!SendOnClosed, Pool!SubmitVia, PoolP!SubmitVia, Pool!StopStep, PoolP!StopStep,
    Pool!SetStopped, PoolP!SetStopped, Pool!CloseStopChan, PoolP!CloseStopChan, Pool!WaitWorkers, PoolP!WaitWorkers,
    Pool!CloseQueue, PoolP!CloseQueue, Pool!StopVia, PoolP!StopVia, Pool!MayStop, PoolP!MayStop, Pool!Live, PoolP!Live,
    Pool!TimedStep, PoolP!TimedStep, Pool!CallTimedStop, PoolP!CallTimedStop, Pool!TimedStopDone, PoolP!TimedStopDone,
    Pool!TimedStopExpires, PoolP!TimedStopExpires, Pool!TimedVia, PoolP!TimedVia
<1> QED
  BY <1>1, <1>2, <1>3, <1>4

LEMMA BusSame ==
  /\ Bus!Init <=> BusP!Init
  /\ [Bus!Next]_(Bus!vars) <=> [BusP!Next]_(BusP!vars)
  /\ Bus!TypeOK <=> BusP!TypeOK
  /\ Bus!TypeOK' <=> BusP!TypeOK'
<1>1. Bus!Init <=> BusP!Init
  BY DEF Bus!Init, BusP!Init
<1>2. Bus!vars = BusP!vars /\ Bus!vars' = BusP!vars'
  BY DEF Bus!vars, BusP!vars, Bus!busVars, BusP!busVars, Bus!loopVars, BusP!loopVars,
         Bus!stopVars, BusP!stopVars
<1>3. (Bus!TypeOK <=> BusP!TypeOK) /\ (Bus!TypeOK' <=> BusP!TypeOK')
  BY DEF Bus!TypeOK, BusP!TypeOK
<1>4. Bus!Next <=> BusP!Next
  BY DEF Bus!Next, BusP!Next, Bus!busVars, BusP!busVars, Bus!loopVars, BusP!loopVars,
         Bus!stopVars, BusP!stopVars, Bus!Start, BusP!Start, Bus!CloseStopCh, BusP!CloseStopCh,
         Bus!WaitDispatcher, BusP!WaitDispatcher, Bus!Cancel, BusP!Cancel,
         Bus!DispatcherStep, BusP!DispatcherStep, Bus!TakeEvent, BusP!TakeEvent,
         Bus!SpawnNotify, BusP!SpawnNotify, Bus!NotifyDone, BusP!NotifyDone, Bus!Quit, BusP!Quit,
         Bus!SubscribeInTime, BusP!SubscribeInTime, Bus!Subscribe, BusP!Subscribe, Bus!PublishSent, BusP!PublishSent,
         Bus!PublishDropped, BusP!PublishDropped, Bus!PublishVia, BusP!PublishVia,
         Bus!BeginOnAlert, BusP!BeginOnAlert, Bus!ReturnOnAlert, BusP!ReturnOnAlert,
         Bus!CallVia, BusP!CallVia, Bus!Range, BusP!Range
<1> QED
  BY <1>1, <1>2, <1>3, <1>4

-------------------------------------------------------------------------------
(* Every step of the program is a step of the pool, or leaves it alone *)

LEMMA PoolFrame == UNCHANGED <<poolVars, ctxDone>> => UNCHANGED Pool!vars
  BY DEF poolVars, Pool!vars, Pool!queueVars, Pool!workerVars, Pool!stopVars

LEMMA MainIsPool == ~Pool!Panicked /\ MainStep => [Pool!Next]_(Pool!vars)
<1> SUFFICES ASSUME ~Pool!Panicked, MainStep PROVE [Pool!Next]_(Pool!vars)
  OBVIOUS
<1>1. CASE StartBus \/ SubscribeHub \/ SubscribeEmail \/ StopBus
  BY <1>1, PoolFrame
     DEF StartBus, SubscribeHub, SubscribeEmail, StopBus, Bus!Start, Bus!Subscribe,
         Bus!CloseStopCh, Bus!WaitDispatcher
<1>2. CASE Signal \/ Drained \/ CloseDatabase
  BY <1>2, PoolFrame DEF Signal, Drained, CloseDatabase
<1>3. CASE StartPool \/ AppCancel \/ StopPool
  BY <1>3 DEF StartPool, AppCancel, StopPool, Pool!Next
<1>4. ASSUME NEW i \in DOMAIN StartOrder, StartWatcher(i) PROVE [Pool!Next]_(Pool!vars)
  BY <1>4, PoolFrame DEF StartWatcher
<1>5. ASSUME NEW k \in Kind, TellWatcher(k) \/ WatcherStopped(k) PROVE [Pool!Next]_(Pool!vars)
  BY <1>5, PoolFrame DEF TellWatcher, WatcherStopped
<1> QED
  BY <1>1, <1>2, <1>3, <1>4, <1>5 DEF MainStep

LEMMA ToolIsPool == [Next]_vars => [Pool!Next]_(Pool!vars)
<1> SUFFICES ASSUME [Next]_vars PROVE [Pool!Next]_(Pool!vars)
  OBVIOUS
<1>1. CASE UNCHANGED vars
  BY <1>1, PoolFrame DEF vars
<1>2. CASE Next
  <2> USE <1>2 DEF Next, Running
  <2>1. CASE MainStep
    BY <2>1, MainIsPool
  <2>2. ASSUME NEW k \in Kind, LeaveLoop(k) PROVE [Pool!Next]_(Pool!vars)
    BY <2>2, PoolFrame DEF LeaveLoop
  <2>3. ASSUME NEW c \in Check, Submit(c) PROVE Pool!Next
    BY <2>3 DEF Submit, Pool!Next
  <2>4. ASSUME NEW w \in Pool!Worker, WorkerStep(w) PROVE [Pool!Next]_(Pool!vars)
    <3>1. CASE BeginCheck(w) \/ EndCheck(w) \/ QuitWorker(w)
      BY <3>1 DEF BeginCheck, EndCheck, QuitWorker, Pool!Next, Pool!WorkerStep
    <3>2. CASE CreateOk(w) \/ CreateFails(w)
      BY <3>2, PoolFrame DEF CreateOk, CreateFails
    <3>3. CASE Publish(w)
      BY <3>3, PoolFrame DEF Publish, Bus!PublishSent, Bus!PublishDropped, Bus!PublishVia
    <3> QED
      BY <2>4, <3>1, <3>2, <3>3 DEF WorkerStep
  <2>5. ASSUME NEW r \in Request, Arrive(r) \/ Answer(r) PROVE [Pool!Next]_(Pool!vars)
    BY <2>5, PoolFrame DEF Arrive, Answer, RequestVia
  <2>6. CASE BusStep
    BY <2>6, PoolFrame
       DEF BusStep, Bus!DispatcherStep, Bus!TakeEvent, Bus!SpawnNotify, Bus!NotifyDone,
           Bus!Quit, Bus!BeginOnAlert, Bus!ReturnOnAlert, Bus!CallVia
  <2> QED
    BY <2>1, <2>2, <2>3, <2>4, <2>5, <2>6
<1> QED
  BY <1>1, <1>2

-------------------------------------------------------------------------------
(* main subscribes the observers before there is anything to publish *)

\* The order in which main stops what it has started.
LEMMA AfterIs ==
  /\ After("metrics") = "pods"
  /\ After("pods") = "nodes"
  /\ After("nodes") = "pool"
  /\ After("pool") = "bus"
  /\ After("bus") = "database"
  /\ After("database") = "done"
<1>1. DOMAIN ShutdownOrder = 1 .. 6 /\ Len(ShutdownOrder) = 6
  BY DEF ShutdownOrder
<1>2. \A i \in 1 .. 6 :
        (CHOOSE j \in DOMAIN ShutdownOrder : ShutdownOrder[j] = ShutdownOrder[i]) = i
  BY <1>1 DEF ShutdownOrder
<1>3. ASSUME NEW i \in 1 .. 6
      PROVE  After(ShutdownOrder[i]) = IF i = 6 THEN "done" ELSE ShutdownOrder[i + 1]
  <2> DEFINE j == CHOOSE j \in DOMAIN ShutdownOrder : ShutdownOrder[j] = ShutdownOrder[i]
  <2>1. j = i
    BY <1>2
  <2>2. After(ShutdownOrder[i]) = IF j = Len(ShutdownOrder) THEN "done" ELSE ShutdownOrder[j + 1]
    BY DEF After
  <2> HIDE DEF j
  <2> QED
    BY <1>1, <2>1, <2>2
<1> QED
  BY <1>3 DEF ShutdownOrder

LEMMA StartInit == Init => StartInv
  BY DEF Init, Pool!Init, Bus!Init, StartInv

LEMMA StartNext == StartInv /\ [Next]_vars => StartInv'
<1> SUFFICES ASSUME StartInv, [Next]_vars PROVE StartInv'
  OBVIOUS
<1> DEFINE Starting == {"start bus", "subscribe hub", "subscribe email"}
<1>1. CASE StartBus \/ SubscribeHub \/ SubscribeEmail
  BY <1>1
     DEF StartBus, SubscribeHub, SubscribeEmail, MainVia, Bus!Start, Bus!Subscribe, Bus!busVars,
         poolVars, busVars, StartInv
<1>2. CASE StartPool \/ Signal \/ Drained \/ AppCancel
  <2>1. main' \notin Starting
    BY <1>2 DEF StartPool, Signal, Drained, AppCancel, MainVia, ShutdownOrder
  <2> QED
    BY <2>1 DEF StartInv
<1>3. CASE StopPool \/ StopBus \/ CloseDatabase
  <2>1. main' \notin Starting
    BY <1>3, AfterIs DEF StopPool, StopBus, CloseDatabase
  <2> QED
    BY <2>1 DEF StartInv
<1>4. ASSUME NEW i \in DOMAIN StartOrder, StartWatcher(i) PROVE StartInv'
  BY <1>4 DEF StartWatcher, StartInv
<1>5. ASSUME NEW k \in Kind, TellWatcher(k) \/ WatcherStopped(k) PROVE StartInv'
  <2>1. main' \notin Starting
    BY <1>5, AfterIs DEF TellWatcher, WatcherStopped, MainVia, Kind
  <2> QED
    BY <2>1 DEF StartInv
<1>6. ASSUME NEW k \in Kind, LeaveLoop(k) PROVE StartInv'
  BY <1>6 DEF LeaveLoop, poolVars, busVars, StartInv
<1>7. ASSUME NEW c \in Check, Submit(c) PROVE StartInv'
  <2>1. UNCHANGED <<main, worker, publish>>
    BY <1>7
       DEF Submit, Pool!SubmitStep, Pool!CheckContext, Pool!CheckStopped, Pool!SendAccepted,
           Pool!SendFull, Pool!SendOnClosed, Pool!SubmitVia, Pool!workerVars, toolVars, busVars
  <2> QED
    BY <2>1 DEF StartInv
<1>8. ASSUME NEW w \in Pool!Worker, WorkerStep(w) PROVE StartInv'
  <2>1. worker[w] # "new" /\ main' = main
    BY <1>8
       DEF WorkerStep, BeginCheck, CreateOk, CreateFails, Publish, EndCheck, QuitWorker, At,
           FlowFrame, Pool!Receive, Pool!FinishTask, Pool!Quit, toolVars
  <2> QED
    BY <2>1 DEF StartInv
<1>9. ASSUME NEW r \in Request, Arrive(r) \/ Answer(r) PROVE StartInv'
  BY <1>9 DEF Arrive, Answer, RequestVia, poolVars, busVars, StartInv
<1>10. CASE BusStep
  <2>1. UNCHANGED <<main, worker, publish>>
    BY <1>10
       DEF BusStep, Bus!DispatcherStep, Bus!TakeEvent, Bus!SpawnNotify, Bus!NotifyDone, Bus!Quit,
           Bus!BeginOnAlert, Bus!ReturnOnAlert, Bus!CallVia, Bus!busVars, toolVars, poolVars
  <2> QED
    BY <2>1 DEF StartInv
<1>11. CASE UNCHANGED vars
  BY <1>11 DEF vars, toolVars, poolVars, busVars, StartInv
<1> QED
  BY <1>1, <1>2, <1>3, <1>4, <1>5, <1>6, <1>7, <1>8, <1>9, <1>10, <1>11 DEF Next, MainStep

-------------------------------------------------------------------------------
(* ... and a step of the bus, or leaves it alone *)

LEMMA BusFrame == UNCHANGED <<busVars, ctxDone>> => UNCHANGED Bus!vars
  BY DEF busVars, Bus!vars, Bus!busVars, Bus!loopVars, Bus!stopVars

\* The alert a worker is at is one of the program's.
LEMMA AtType ==
  ASSUME TypeOK, NEW w \in Pool!Worker, NEW stage, At(w, stage)
  PROVE  /\ holds[w] \in Check
         /\ holds[w] # None
         /\ work[holds[w]] \in Seq(Alert)
         /\ work[holds[w]] # <<>>
         /\ Head(work[holds[w]]) \in Alert
<1>1. holds[w] \in Check /\ holds[w] # None
  BY DEF TypeOK, Pool!TypeOK, At
<1>2. work[holds[w]] \in Seq(Alert) /\ work[holds[w]] # <<>>
  BY <1>1 DEF TypeOK, At
<1> QED
  BY <1>1, <1>2, TailElements

LEMMA MainIsBus == StartInv /\ MainStep => [Bus!Next]_(Bus!vars)
<1> SUFFICES ASSUME StartInv, MainStep PROVE [Bus!Next]_(Bus!vars)
  OBVIOUS
<1>1. CASE StartBus \/ StopBus
  BY <1>1 DEF StartBus, StopBus, Bus!Next
<1>2. CASE SubscribeHub \/ SubscribeEmail
  <2>1. \A a \in Alert : publish[a] = "idle"
    BY <1>2 DEF SubscribeHub, SubscribeEmail, MainVia, StartInv
  <2> QED
    BY <1>2, <2>1, BusFrame
       DEF SubscribeHub, SubscribeEmail, Bus!Next, Bus!SubscribeInTime, Observer
<1>3. CASE Signal \/ Drained \/ CloseDatabase
  BY <1>3, BusFrame DEF Signal, Drained, CloseDatabase
<1>4. CASE StartPool \/ StopPool
  BY <1>4, BusFrame
     DEF StartPool, StopPool, Pool!Start, Pool!StopStep, Pool!SetStopped, Pool!CloseStopChan,
         Pool!WaitWorkers, Pool!CloseQueue, Pool!StopVia
<1>5. CASE AppCancel
  BY <1>5 DEF AppCancel, Bus!Next
<1>6. ASSUME NEW i \in DOMAIN StartOrder, StartWatcher(i) PROVE [Bus!Next]_(Bus!vars)
  BY <1>6, BusFrame DEF StartWatcher
<1>7. ASSUME NEW k \in Kind, TellWatcher(k) \/ WatcherStopped(k) PROVE [Bus!Next]_(Bus!vars)
  BY <1>7, BusFrame DEF TellWatcher, WatcherStopped
<1> QED
  BY <1>1, <1>2, <1>3, <1>4, <1>5, <1>6, <1>7 DEF MainStep

LEMMA ToolIsBus == TypeOK /\ StartInv /\ [Next]_vars => [Bus!Next]_(Bus!vars)
<1> SUFFICES ASSUME TypeOK, StartInv, [Next]_vars PROVE [Bus!Next]_(Bus!vars)
  OBVIOUS
<1>1. CASE MainStep
  BY <1>1, MainIsBus
<1>2. ASSUME NEW k \in Kind, LeaveLoop(k) PROVE [Bus!Next]_(Bus!vars)
  BY <1>2, BusFrame DEF LeaveLoop
<1>3. ASSUME NEW c \in Check, Submit(c) PROVE [Bus!Next]_(Bus!vars)
  BY <1>3, BusFrame
     DEF Submit, Pool!SubmitStep, Pool!CheckContext, Pool!CheckStopped, Pool!SendAccepted,
         Pool!SendFull, Pool!SendOnClosed, Pool!SubmitVia
<1>4. ASSUME NEW w \in Pool!Worker, WorkerStep(w) PROVE [Bus!Next]_(Bus!vars)
  <2>1. CASE BeginCheck(w) \/ EndCheck(w) \/ QuitWorker(w)
    BY <2>1, BusFrame
       DEF BeginCheck, EndCheck, QuitWorker, FlowFrame, Pool!Receive, Pool!FinishTask, Pool!Quit
  <2>2. CASE CreateOk(w) \/ CreateFails(w)
    BY <2>2, BusFrame DEF CreateOk, CreateFails
  <2>3. CASE Publish(w)
    BY <2>3, AtType DEF Publish, Bus!Next
  <2> QED
    BY <1>4, <2>1, <2>2, <2>3 DEF WorkerStep
<1>5. ASSUME NEW r \in Request, Arrive(r) \/ Answer(r) PROVE [Bus!Next]_(Bus!vars)
  BY <1>5, BusFrame DEF Arrive, Answer, RequestVia
<1>6. CASE BusStep
  BY <1>6 DEF BusStep, Bus!Next
<1>7. CASE UNCHANGED vars
  BY <1>7, BusFrame DEF vars
<1> QED
  BY <1>1, <1>2, <1>3, <1>4, <1>5, <1>6, <1>7 DEF Next

-------------------------------------------------------------------------------
(* Type correctness *)

LEMMA TypeInit == Init => TypeOK
<1> SUFFICES ASSUME Init PROVE TypeOK
  OBVIOUS
<1>1. Pool!TypeOK
  BY PoolP!TypeInit, PoolConstants, PoolSame DEF Init
<1>2. Bus!TypeOK
  BY BusP!TypeInit, BusConstants, BusSame DEF Init
<1>3. work \in [Check -> Seq(Alert)]
  <2>1. <<>> \in Seq(Alert)
    OBVIOUS
  <2> QED
    BY <2>1 DEF Init
<1> QED
  BY <1>1, <1>2, <1>3, Zenon DEF Init, TypeOK

\* What a check may do to its own alerts.
LEMMA WorkType ==
  ASSUME TypeOK, NEW w \in Pool!Worker, WorkerStep(w)
  PROVE  /\ work' \in [Check -> Seq(Alert)]
         /\ publishing' \subseteq Check
         /\ stored' \subseteq Alert
         /\ failed' \subseteq Alert
         /\ skipped' \subseteq Alert
<1> USE DEF TypeOK
<1>1. CASE BeginCheck(w)
  <2>1. /\ Head(taskQueue) \in Check
        /\ AlertsOf[Head(taskQueue)] \in Seq(Alert)
        /\ Range(AlertsOf[Head(taskQueue)]) \subseteq Alert
    BY <1>1, TailElements, RangeIsImage, ToolAssumption
       DEF BeginCheck, Pool!Receive, Pool!TypeOK
  <2> QED
    BY <1>1, <2>1 DEF BeginCheck
<1>2. CASE CreateOk(w)
  BY <1>2, AtType DEF CreateOk
<1>3. CASE CreateFails(w)
  BY <1>3, AtType, TailElements DEF CreateFails, NextAlert
<1>4. CASE Publish(w)
  BY <1>4, AtType, TailElements DEF Publish, NextAlert
<1>5. CASE EndCheck(w) \/ QuitWorker(w)
  BY <1>5 DEF EndCheck, QuitWorker, flowVars
<1> QED
  BY <1>1, <1>2, <1>3, <1>4, <1>5 DEF WorkerStep

LEMMA TypeNext == TypeOK /\ StartInv /\ [Next]_vars => TypeOK'
<1> SUFFICES ASSUME TypeOK, StartInv, [Next]_vars PROVE TypeOK'
  OBVIOUS
<1> USE DEF TypeOK
<1>1. Pool!TypeOK'
  BY ToolIsPool, PoolP!TypeNext, PoolConstants, PoolSame
<1>2. Bus!TypeOK'
  BY ToolIsBus, BusP!TypeNext, BusConstants, BusSame
<1> USE <1>1, <1>2
<1>3. CASE StartBus \/ SubscribeHub \/ SubscribeEmail \/ StartPool \/ Signal \/ Drained \/ AppCancel
  BY <1>3
     DEF StartBus, SubscribeHub, SubscribeEmail, StartPool, Signal, Drained, AppCancel, MainVia, flowVars
<1>4. CASE StopPool \/ StopBus \/ CloseDatabase
  BY <1>4 DEF StopPool, StopBus, CloseDatabase, flowVars
<1>5. ASSUME NEW i \in DOMAIN StartOrder, StartWatcher(i) PROVE TypeOK'
  BY <1>5 DEF StartWatcher, flowVars
<1>6. ASSUME NEW k \in Kind, TellWatcher(k) \/ WatcherStopped(k) \/ LeaveLoop(k) PROVE TypeOK'
  BY <1>6 DEF TellWatcher, WatcherStopped, LeaveLoop, MainVia, flowVars
<1>7. ASSUME NEW c \in Check, Submit(c) PROVE TypeOK'
  BY <1>7 DEF Submit, flowVars, toolVars
<1>8. ASSUME NEW w \in Pool!Worker, WorkerStep(w) PROVE TypeOK'
  <2>1. UNCHANGED toolVars
    BY <1>8 DEF WorkerStep, BeginCheck, CreateOk, CreateFails, Publish, EndCheck, QuitWorker, FlowFrame
  <2> QED
    BY <1>8, <2>1, WorkType DEF toolVars
<1>9. ASSUME NEW r \in Request, Arrive(r) \/ Answer(r) PROVE TypeOK'
  BY <1>9 DEF Arrive, Answer, RequestVia, flowVars
<1>10. CASE BusStep
  BY <1>10 DEF BusStep, flowVars, toolVars
<1>11. CASE UNCHANGED vars
  BY <1>11 DEF vars, flowVars, toolVars
<1> QED
  BY <1>3, <1>4, <1>5, <1>6, <1>7, <1>8, <1>9, <1>10, <1>11 DEF Next, MainStep

\* The slice of observers is not locked, and needs no lock: by the order in which main
\* starts its parts it is complete before a worker reads it.
LEMMA StartHolds == Safety => []StartInv
  BY StartInit, StartNext, PTL DEF Safety

\* The pool and the bus keep their types inside the program, and so does the rest.
THEOREM TypeCorrect == Safety => []TypeOK
  BY TypeInit, TypeNext, StartHolds, PTL DEF Safety

-------------------------------------------------------------------------------
(* The components inside the program *)

LEMMA ToolInitIsComponents == Init => PoolP!Init /\ BusP!Init
  BY PoolSame, BusSame DEF Init

LEMMA ToolNextIsComponents ==
  TypeOK /\ StartInv /\ [Next]_vars => [PoolP!Next]_(PoolP!vars) /\ [BusP!Next]_(BusP!vars)
  BY ToolIsPool, ToolIsBus, PoolSame, BusSame

\* The pool inside the program is the pool of WorkerPool: its submitters are the checks
\* of the watchers, and its one Stop is main's.
THEOREM PoolInside == Safety => Pool!Safety
<1>1. Init => Pool!Init
  BY DEF Init
<1> QED
  BY <1>1, ToolIsPool, PTL DEF Safety, Pool!Safety

\* The bus inside the program is the bus of EventBus: its publishers are the workers, and
\* main subscribes in time.
THEOREM BusInside == Safety => Bus!Safety
<1>1. Init => Bus!Init
  BY DEF Init
<1> QED
  BY <1>1, TypeCorrect, StartHolds, ToolIsBus, PTL DEF Safety, Bus!Safety

-------------------------------------------------------------------------------
(* Shutdown *)

LEMMA MainInit == Init => MainInv
<1> SUFFICES ASSUME Init PROVE MainInv
  OBVIOUS
<1>1. WatcherInv
  BY DEF Init, Pool!Init, WatcherInv, Past, MidSubmit, Kind
<1>2. StopInv
  BY DEF Init, Pool!Init, Bus!Init, StopInv, Past
<1>3. NoPanic
  BY DEF Init, Pool!Init, NoPanic, Pool!Panicked
<1> QED
  BY <1>1, <1>2, <1>3 DEF MainInv

\* The variables MainInv is about.
shutdownVars == <<main, watcher, submit, stopped, stop, queueClosed, busStop, dispatcher, dbOpen>>

LEMMA MainFrame ==
  ASSUME MainInv, UNCHANGED shutdownVars
  PROVE  MainInv'
  BY DEF MainInv, WatcherInv, StopInv, NoPanic, MidSubmit, Pool!Panicked, shutdownVars

\* A watcher that has left its loop cannot be the one that submits, and while one is in
\* its loop the queue is open: the send of a Submit never meets a closed channel.
LEMMA MainSubmit ==
  ASSUME TypeOK, MainInv, NEW c \in Check, Submit(c)
  PROVE  MainInv'
<1>1. /\ watcher[Owner[c]] \in {"running", "stopping"}
      /\ Owner[c] \in Kind
      /\ UNCHANGED <<main, watcher, stopped, stop, queueClosed, busStop, dispatcher, dbOpen>>
      /\ submit \in [Check -> {"idle", "entered", "checked", "accepted", "rejected", "panicked"}]
      /\ submit' = [submit EXCEPT ![c] = submit'[c]]
  BY ToolAssumption
     DEF Submit, Pool!SubmitStep, Pool!CheckContext, Pool!CheckStopped, Pool!SendAccepted,
         Pool!SendFull, Pool!SendOnClosed, Pool!SubmitVia, Pool!stopVars, toolVars, busVars,
         TypeOK, Pool!TypeOK
<1>2. ~queueClosed
  BY <1>1 DEF MainInv, WatcherInv, StopInv, Past, Kind
<1>3. submit'[c] # "panicked"
  BY <1>1, <1>2
     DEF Submit, Pool!SubmitStep, Pool!CheckContext, Pool!CheckStopped, Pool!SendAccepted,
         Pool!SendFull, Pool!SendOnClosed, Pool!SubmitVia
<1>4. WatcherInv'
  BY <1>1 DEF MainInv, WatcherInv, MidSubmit
<1>5. StopInv'
  BY <1>1 DEF MainInv, StopInv
<1>6. NoPanic'
  BY <1>1, <1>3 DEF MainInv, NoPanic, Pool!Panicked
<1> QED
  BY <1>4, <1>5, <1>6 DEF MainInv

\* Before the first Stop main may do as it likes with the watchers and the dispatcher,
\* as long as no watcher leaves its loop.
LEMMA MainAhead ==
  ASSUME MainInv, main \notin Past("metrics"), main' \notin Past("metrics"),
         UNCHANGED <<submit, stopped, stop, queueClosed, busStop, dbOpen>>,
         \A k \in Kind :
           watcher[k] \in {"running", "stopping"} => watcher'[k] \in {"running", "stopping"}
  PROVE  MainInv'
<1>1. \A k \in Kind \union {"pool", "bus"} : main \notin Past(k) /\ main' \notin Past(k)
  BY DEF Past, Kind
<1>2. WatcherInv'
  BY <1>1, ToolAssumption DEF MainInv, WatcherInv, MidSubmit
<1>3. StopInv'
  BY <1>1 DEF MainInv, StopInv, Kind, Past
<1>4. NoPanic'
  BY DEF MainInv, NoPanic, Pool!Panicked
<1> QED
  BY <1>2, <1>3, <1>4 DEF MainInv

LEMMA MainStart ==
  ASSUME TypeOK, MainInv,
         \/ StartBus \/ SubscribeHub \/ SubscribeEmail \/ StartPool
         \/ Signal \/ Drained \/ AppCancel
         \/ \E i \in DOMAIN StartOrder : StartWatcher(i)
  PROVE  MainInv'
<1>1. CASE StartBus \/ SubscribeHub \/ SubscribeEmail
  BY <1>1, MainAhead
     DEF StartBus, SubscribeHub, SubscribeEmail, MainVia, Past, Bus!Start, Bus!Subscribe,
         Bus!stopVars, poolVars, busVars
<1>2. CASE StartPool
  BY <1>2, MainAhead DEF StartPool, MainVia, Past, Pool!Start, Pool!stopVars, Pool!queueVars, busVars
<1>3. CASE Signal \/ Drained
  BY <1>3, MainAhead DEF Signal, Drained, MainVia, Past, poolVars, busVars
<1>4. CASE AppCancel
  BY <1>4, MainAhead
     DEF AppCancel, MainVia, ShutdownOrder, Past, Pool!Cancel, Pool!queueVars, Pool!stopVars,
         Bus!Cancel, Bus!stopVars
<1>5. ASSUME NEW i \in DOMAIN StartOrder, StartWatcher(i) PROVE MainInv'
  <2>1. /\ main = "start watchers"
        /\ main' \in {"start watchers", "serving"}
        /\ UNCHANGED <<submit, stopped, stop, queueClosed, busStop, dbOpen>>
        /\ watcher' = [watcher EXCEPT ![StartOrder[i]] = "running"]
        /\ watcher[StartOrder[i]] = "new"
    BY <1>5 DEF StartWatcher, poolVars, busVars
  <2> QED
    BY <2>1, MainAhead DEF Past, TypeOK
<1> QED
  BY <1>1, <1>2, <1>3, <1>4, <1>5

\* main tells a watcher to stop, or goes on because its goroutine has left its loop.
LEMMA MainStopWatcher ==
  ASSUME TypeOK, MainInv, NEW k \in Kind, TellWatcher(k) \/ WatcherStopped(k)
  PROVE  MainInv'
<1>1. UNCHANGED <<submit, stopped, stop, queueClosed, busStop, dispatcher, dbOpen>>
  BY DEF TellWatcher, WatcherStopped, MainVia, poolVars, busVars
<1>2. main = k /\ main \notin Past("nodes")
  BY DEF TellWatcher, WatcherStopped, MainVia, Past, Kind
<1>3. CASE TellWatcher(k)
  <2>1. main' = main /\ watcher' = [watcher EXCEPT ![k] = "stopping"] /\ watcher[k] = "running"
    BY <1>3 DEF TellWatcher
  <2> QED
    BY <1>1, <2>1, ToolAssumption
       DEF MainInv, WatcherInv, StopInv, NoPanic, MidSubmit, Pool!Panicked, TypeOK
<1>4. CASE WatcherStopped(k)
  <2>1. main' = After(k) /\ watcher[k] = "exited" /\ watcher' = watcher
    BY <1>4 DEF WatcherStopped, MainVia
  <2>2. WatcherInv'
    BY <1>1, <1>2, <2>1, AfterIs DEF MainInv, WatcherInv, MidSubmit, Past, Kind
  <2>3. StopInv'
    BY <1>1, <1>2, <2>1, AfterIs DEF MainInv, StopInv, Past, Kind
  <2> QED
    BY <1>1, <2>2, <2>3 DEF MainInv, NoPanic, Pool!Panicked
<1> QED
  BY <1>3, <1>4

LEMMA MainStopPool ==
  ASSUME TypeOK, MainInv, StopPool
  PROVE  MainInv'
<1>1. /\ main = "pool"
      /\ main' = IF stop'["main"] = "returned" THEN "bus" ELSE main
      /\ stop \in [{"main"} -> {"idle", "flagged", "signalled", "waited", "returned"}]
      /\ UNCHANGED <<submit, watcher, busStop, dispatcher, dbOpen>>
  BY AfterIs
     DEF StopPool, Pool!StopStep, Pool!SetStopped, Pool!CloseStopChan, Pool!WaitWorkers,
         Pool!CloseQueue, Pool!StopVia, busVars, TypeOK, Pool!TypeOK
<1>2. /\ (stopped <=> stop["main"] # "idle")'
      /\ (queueClosed <=> stop["main"] = "returned")'
  BY <1>1
     DEF MainInv, StopInv, StopPool, Pool!StopStep, Pool!SetStopped, Pool!CloseStopChan,
         Pool!WaitWorkers, Pool!CloseQueue, Pool!StopVia
<1>3. WatcherInv'
  BY <1>1 DEF MainInv, WatcherInv, MidSubmit, Past, Kind
<1>4. StopInv'
  BY <1>1, <1>2 DEF MainInv, StopInv, Past
<1>5. NoPanic'
  BY <1>1 DEF MainInv, NoPanic, Pool!Panicked
<1> QED
  BY <1>3, <1>4, <1>5 DEF MainInv

LEMMA MainStopBus ==
  ASSUME TypeOK, MainInv, StopBus \/ CloseDatabase
  PROVE  MainInv'
<1>1. UNCHANGED <<submit, watcher, stopped, stop, queueClosed, dispatcher>>
  BY DEF StopBus, CloseDatabase, Bus!CloseStopCh, Bus!WaitDispatcher, Bus!loopVars,
         poolVars, busVars
<1>2. main \in {"bus", "database"} /\ main' \in {"bus", "database", "done"}
  BY AfterIs DEF StopBus, CloseDatabase
<1>3. WatcherInv'
  BY <1>1, <1>2 DEF MainInv, WatcherInv, MidSubmit, Past, Kind
<1>4. NoPanic'
  BY <1>1 DEF MainInv, NoPanic, Pool!Panicked
<1>5. StopInv'
  <2>1. CASE StopBus
    BY <1>1, <2>1, AfterIs
       DEF MainInv, StopInv, Past, StopBus, Bus!CloseStopCh, Bus!WaitDispatcher
  <2>2. CASE CloseDatabase
    BY <1>1, <2>2, AfterIs DEF MainInv, StopInv, Past, CloseDatabase, busVars
  <2> QED
    BY <2>1, <2>2
<1> QED
  BY <1>3, <1>4, <1>5 DEF MainInv

LEMMA MainNext == TypeOK /\ MainInv /\ [Next]_vars => MainInv'
<1> SUFFICES ASSUME TypeOK, MainInv, [Next]_vars PROVE MainInv'
  OBVIOUS
<1>1. CASE MainStep
  BY <1>1, MainStart, MainStopWatcher, MainStopPool, MainStopBus DEF MainStep
<1>2. ASSUME NEW k \in Kind, LeaveLoop(k) PROVE MainInv'
  <2>1. /\ UNCHANGED <<main, submit, stopped, stop, queueClosed, busStop, dispatcher, dbOpen>>
        /\ watcher' = [watcher EXCEPT ![k] = "exited"]
        /\ \A c \in Check : Owner[c] = k => ~MidSubmit(c)
    BY <1>2 DEF LeaveLoop, poolVars, busVars
  <2> QED
    BY <2>1, ToolAssumption
       DEF MainInv, WatcherInv, StopInv, NoPanic, MidSubmit, Pool!Panicked, TypeOK
<1>3. ASSUME NEW c \in Check, Submit(c) PROVE MainInv'
  BY <1>3, MainSubmit
<1>4. ASSUME NEW w \in Pool!Worker, WorkerStep(w) PROVE MainInv'
  <2>1. UNCHANGED shutdownVars
    BY <1>4
       DEF WorkerStep, BeginCheck, CreateOk, CreateFails, Publish, EndCheck, QuitWorker,
           FlowFrame, Pool!Receive, Pool!FinishTask, Pool!Quit, Pool!stopVars, Pool!queueVars,
           Bus!PublishSent, Bus!PublishDropped, Bus!PublishVia, Bus!loopVars, Bus!stopVars,
           toolVars, poolVars, busVars, shutdownVars
  <2> QED
    BY <2>1, MainFrame
<1>5. ASSUME NEW r \in Request, Arrive(r) \/ Answer(r) PROVE MainInv'
  BY <1>5, MainFrame DEF Arrive, Answer, RequestVia, poolVars, busVars, shutdownVars
<1>6. CASE BusStep
  <2>1. /\ UNCHANGED <<main, watcher, submit, stopped, stop, queueClosed, busStop, dbOpen>>
        /\ dispatcher \in {"new", "exited"} => dispatcher' = dispatcher
    BY <1>6
       DEF BusStep, Bus!DispatcherStep, Bus!TakeEvent, Bus!SpawnNotify, Bus!NotifyDone,
           Bus!Quit, Bus!BeginOnAlert, Bus!ReturnOnAlert, Bus!CallVia, Bus!loopVars,
           Bus!stopVars, toolVars, poolVars
  <2> QED
    BY <2>1 DEF MainInv, WatcherInv, StopInv, NoPanic, MidSubmit, Pool!Panicked
<1>7. CASE UNCHANGED vars
  BY <1>7, MainFrame DEF vars, toolVars, poolVars, busVars, shutdownVars
<1> QED
  BY <1>1, <1>2, <1>3, <1>4, <1>5, <1>6, <1>7 DEF Next

\* Whatever the watchers, the pool and main are in the middle of, no Submit sends on a
\* closed queue: the panic the pool alone allows cannot happen in this program.
THEOREM ProgramNeverPanics == Safety => []NoPanic
<1>1. MainInv => NoPanic
  BY DEF MainInv
<1> QED
  BY <1>1, TypeCorrect, MainInit, MainNext, PTL DEF Safety

\* Once the pool's queue is closed its workers have left their loops for good.
LEMMA MainIsQuiet == MainInv /\ PoolP!ShutdownInv => DatabaseOutlivesWork
<1> SUFFICES ASSUME MainInv, PoolP!ShutdownInv, ~dbOpen PROVE
      /\ \A w \in Pool!Worker : ~Pool!Live(w)
      /\ \A k \in Kind : watcher[k] = "exited"
      /\ dispatcher \in {"new", "exited"}
  BY DEF DatabaseOutlivesWork
<1>1. main = "done" /\ queueClosed /\ busStop = "returned"
  BY DEF MainInv, StopInv, Past
<1>2. \A w \in Pool!Worker : ~Pool!Live(w)
  BY <1>1
     DEF PoolP!ShutdownInv, PoolP!Worker, PoolP!NumWorkers, PoolP!Live,
         Pool!Worker, Pool!NumWorkers, Pool!Live
<1> QED
  BY <1>1, <1>2 DEF MainInv, WatcherInv, StopInv, Past, Kind

\* Nobody is left to use the database when main closes it, in whatever order the
\* goroutines came to their ends.
THEOREM DatabaseIsLast == Safety => []DatabaseOutlivesWork
<1>1. Init => PoolP!ShutdownInv
  BY ToolInitIsComponents, PoolP!ShutdownInit, PoolConstants
<1>2. TypeOK /\ StartInv /\ PoolP!ShutdownInv /\ [Next]_vars => PoolP!ShutdownInv'
  BY ToolNextIsComponents, PoolSame, PoolP!ShutdownNext, PoolConstants DEF TypeOK
<1> QED
  BY <1>1, <1>2, TypeCorrect, StartHolds, MainInit, MainNext, MainIsQuiet, PTL DEF Safety

-------------------------------------------------------------------------------
(* What becomes of the alerts *)

\* What the pool and the bus say of their own state, in the names of the program.
PoolFacts ==
  /\ \A w \in Pool!Worker : holds[w] # None => runs[holds[w]] = 1 /\ holds[w] \notin finished
  /\ \A v, w \in Pool!Worker : holds[v] # None /\ holds[v] = holds[w] => v = w
  /\ taskQueue # <<>> => runs[Head(taskQueue)] = 0 /\ Head(taskQueue) \notin finished
  /\ \A c \in finished : runs[c] = 1

BusFacts ==
  /\ \A a \in Alert, o \in Observer : call[a][o] # "none" => publish[a] = "sent"
  /\ dispatcher = "notifying" /\ pending # <<>> => call[current][Head(pending)] = "none"

LEMMA PoolGivesFacts == Pool!TypeOK /\ PoolP!WorkInv => PoolFacts
<1> SUFFICES ASSUME Pool!TypeOK, PoolP!WorkInv PROVE PoolFacts
  OBVIOUS
<1> USE DEF PoolP!WorkInv, PoolP!QueueInv, PoolP!HeldInv, PoolP!DoneInv
<1>1. /\ \A w \in Pool!Worker : holds[w] # None => runs[holds[w]] = 1 /\ holds[w] \notin finished
      /\ \A v, w \in Pool!Worker : holds[v] # None /\ holds[v] = holds[w] => v = w
      /\ \A c \in finished : runs[c] = 1
  BY DEF PoolP!Worker, PoolP!NumWorkers, Pool!Worker, Pool!NumWorkers
<1>2. taskQueue # <<>> => runs[Head(taskQueue)] = 0 /\ Head(taskQueue) \notin finished
  <2> HAVE taskQueue # <<>>
  <2>1. Head(taskQueue) = taskQueue[1] /\ 1 \in 1 .. Len(taskQueue)
    BY TailElements DEF Pool!TypeOK
  <2> QED
    BY <2>1
<1> QED
  BY <1>1, <1>2 DEF PoolFacts

LEMMA BusGivesFacts == Bus!TypeOK /\ BusP!BusInv => BusFacts
<1> SUFFICES ASSUME Bus!TypeOK, BusP!BusInv PROVE BusFacts
  OBVIOUS
<1> USE DEF BusP!BusInv, BusP!FanOut, BusP!Notified
<1>1. \A a \in Alert, o \in Observer : call[a][o] # "none" => publish[a] = "sent"
  OBVIOUS
<1>2. dispatcher = "notifying" /\ pending # <<>> => call[current][Head(pending)] = "none"
  <2> HAVE dispatcher = "notifying" /\ pending # <<>>
  <2>1. Head(pending) \in BusP!Range(pending) /\ Head(pending) \in Observer /\ current \in Alert
    BY TailElements, RangeElements DEF Bus!TypeOK, Range, BusP!Range
  <2>2. publish[current] = "sent" /\ ~BusP!Queued(current)
    BY DEF BusP!LoopInv
  <2>3. BusP!Notified(current) \intersect BusP!Range(pending) = {}
    BY <2>1, <2>2 DEF BusP!Awaiting
  <2> QED
    BY <2>1, <2>3
<1> QED
  BY <1>1, <1>2 DEF BusFacts

LEMMA OwnAlerts ==
  ASSUME NEW c \in Check
  PROVE  /\ AlertsOf[c] \in Seq(Alert)
         /\ Range(AlertsOf[c]) \subseteq Alert
         /\ IsInjective(AlertsOf[c])
         /\ \A d \in Check \ {c} : Range(AlertsOf[c]) \intersect Range(AlertsOf[d]) = {}
  BY ToolAssumption, RangeIsImage

LEMMA FlowInit == Init => FlowInv
<1> SUFFICES ASSUME Init PROVE FlowInv
  OBVIOUS
<1>1. \A c \in Check : CheckInv(c)
  BY EmptyElements DEF Init, Pool!Init, CheckInv, Decided
<1>2. \A a \in Alert : publish[a] # "idle" => a \in stored
  BY DEF Init, Bus!Init
<1>3. stored = {}
  BY DEF Init
<1> QED
  BY <1>1, <1>2, <1>3 DEF FlowInv

\* The variables FlowInv is about.
alertVars == <<work, publishing, stored, failed, skipped, runs, finished, publish>>

LEMMA FlowStays ==
  ASSUME FlowInv, UNCHANGED alertVars
  PROVE  FlowInv'
  BY DEF FlowInv, CheckInv, Decided, alertVars

\* A worker's step touches the alerts of its own check only.
LEMMA OtherChecks ==
  ASSUME NEW c \in Check, NEW d \in Check \ {c}, CheckInv(d),
         UNCHANGED <<work[d], runs[d]>>,
         d \in publishing' <=> d \in publishing,
         d \in finished' <=> d \in finished,
         stored \subseteq stored', stored' \subseteq stored \union Range(AlertsOf[c]),
         failed \subseteq failed', failed' \subseteq failed \union Range(AlertsOf[c]),
         skipped \subseteq skipped', skipped' \subseteq skipped \union Range(AlertsOf[c]),
         \A a \in Alert : publish[a] # "idle" => publish'[a] # "idle"
  PROVE  CheckInv(d)'
<1>1. /\ Range(AlertsOf[c]) \intersect Range(AlertsOf[d]) = {}
      /\ Range(AlertsOf[d]) \subseteq Alert
  BY OwnAlerts
<1>2. Range(work[d]) \intersect Range(AlertsOf[c]) = {}
  BY <1>1 DEF CheckInv
<1>3. \A a \in Range(AlertsOf[d]) :
        /\ a \in stored' <=> a \in stored
        /\ a \in failed' <=> a \in failed
        /\ a \in skipped' <=> a \in skipped
  BY <1>1
<1> QED
  BY <1>1, <1>2, <1>3 DEF CheckInv, Decided

\* A check begins with all its alerts before it, or with all of them behind it.
LEMMA FlowBegin ==
  ASSUME TypeOK, PoolFacts, FlowInv, NEW w \in Pool!Worker, BeginCheck(w)
  PROVE  FlowInv'
<1> PICK c : c = Head(taskQueue)
  OBVIOUS
<1>1. /\ c \in Check
      /\ runs[c] = 0
      /\ c \notin finished
      /\ runs' = [runs EXCEPT ![c] = @ + 1]
      /\ runs \in [Check -> Nat]
      /\ work \in [Check -> Seq(Alert)]
      /\ UNCHANGED <<publishing, stored, failed, finished, publish>>
  BY TailElements
     DEF BeginCheck, FlowFrame, Pool!Receive, PoolFacts, TypeOK, Pool!TypeOK, busVars
<1>2. /\ work[c] = <<>>
      /\ c \notin publishing
      /\ Range(AlertsOf[c]) \intersect Decided = {}
      /\ CheckInv(c)
  BY <1>1 DEF FlowInv, CheckInv
<1>3. \/ work' = [work EXCEPT ![c] = AlertsOf[c]] /\ UNCHANGED skipped
      \/ skipped' = skipped \union Range(AlertsOf[c]) /\ UNCHANGED work
  BY DEF BeginCheck
<1>4. CheckInv(c)'
  <2>1. runs'[c] = 1
    BY <1>1
  <2>2. CASE work' = [work EXCEPT ![c] = AlertsOf[c]] /\ UNCHANGED skipped
    <3>1. work'[c] = AlertsOf[c]
      BY <1>1, <2>2
    <3> QED
      BY <1>1, <1>2, <2>1, <2>2, <3>1, OwnAlerts DEF CheckInv, Decided
  <2>3. CASE skipped' = skipped \union Range(AlertsOf[c]) /\ UNCHANGED work
    <3>1. Range(work[c]) = {}
      BY <1>2, EmptyElements
    <3> QED
      BY <1>1, <1>2, <2>1, <2>3, <3>1, OwnAlerts DEF CheckInv, Decided
  <2> QED
    BY <1>3, <2>2, <2>3
<1>5. ASSUME NEW d \in Check \ {c} PROVE CheckInv(d)'
  <2>1. CheckInv(d) /\ UNCHANGED <<work[d], runs[d]>>
    BY <1>1, <1>3 DEF FlowInv
  <2> QED
    BY <1>1, <1>3, <2>1, OtherChecks
<1>6. (stored \intersect (failed \union skipped) = {})'
  BY <1>1, <1>2, <1>3 DEF FlowInv, Decided
<1> QED
  BY <1>1, <1>4, <1>5, <1>6 DEF FlowInv

\* What is known of the check a worker is in the middle of.
LEMMA AtCheck ==
  ASSUME TypeOK, PoolFacts, FlowInv, NEW w \in Pool!Worker, NEW stage, At(w, stage)
  PROVE  LET c == holds[w]  a == Head(work[holds[w]]) IN
         /\ c \in Check
         /\ runs[c] = 1 /\ c \notin finished
         /\ CheckInv(c)
         /\ a \in Range(AlertsOf[c])
         /\ a \in Alert
         /\ a \in Range(work[c])
         /\ a \notin failed \union skipped
         /\ a \in stored <=> c \in publishing
         /\ Tail(work[c]) \in Seq(Alert)
         /\ IsInjective(Tail(work[c]))
         /\ Range(Tail(work[c])) = Range(work[c]) \ {a}
<1>1. /\ holds[w] \in Check
      /\ holds[w] # None
      /\ work[holds[w]] \in Seq(Alert)
      /\ work[holds[w]] # <<>>
      /\ Head(work[holds[w]]) \in Alert
  BY AtType
<1>2. runs[holds[w]] = 1 /\ holds[w] \notin finished /\ CheckInv(holds[w])
  BY <1>1 DEF PoolFacts, FlowInv
<1>3. IsInjective(work[holds[w]])
  BY <1>2 DEF CheckInv
<1>4. /\ Head(work[holds[w]]) \in Range(work[holds[w]])
      /\ Tail(work[holds[w]]) \in Seq(Alert)
      /\ IsInjective(Tail(work[holds[w]]))
      /\ Range(Tail(work[holds[w]])) = Range(work[holds[w]]) \ {Head(work[holds[w]])}
  BY <1>1, <1>3, TailElements, TailDistinct, TailRange
<1> QED
  BY <1>1, <1>2, <1>4 DEF CheckInv

\* A worker in the middle of a check stores an alert, fails to, or publishes it.
LEMMA FlowAlert ==
  ASSUME TypeOK, PoolFacts, FlowInv, NEW w \in Pool!Worker,
         CreateOk(w) \/ CreateFails(w) \/ Publish(w)
  PROVE  FlowInv'
<1> PICK c : c = holds[w]
  OBVIOUS
<1> PICK a : a = Head(work[c])
  OBVIOUS
<1>1. PICK stage : At(w, stage) /\ stage = IF c \in publishing THEN "publish" ELSE "create"
  BY DEF CreateOk, CreateFails, Publish, At
<1>2. /\ c \in Check
      /\ runs[c] = 1 /\ c \notin finished
      /\ CheckInv(c)
      /\ a \in Range(AlertsOf[c]) /\ a \in Alert /\ a \in Range(work[c])
      /\ a \notin failed \union skipped
      /\ a \in stored <=> c \in publishing
      /\ IsInjective(Tail(work[c]))
      /\ Range(Tail(work[c])) = Range(work[c]) \ {a}
      /\ work[c] # <<>>
  BY <1>1, AtCheck DEF At
<1>3. UNCHANGED <<runs, finished, skipped>>
  BY DEF CreateOk, CreateFails, Publish, poolVars
<1>4. /\ work \in [Check -> Seq(Alert)]
      /\ publish \in [Alert -> {"idle", "sent", "dropped"}]
  BY DEF TypeOK, Bus!TypeOK
<1>5. CASE CreateOk(w)
  <2>1. /\ c \notin publishing
        /\ stored' = stored \union {a}
        /\ publishing' = publishing \union {c}
        /\ UNCHANGED <<work, failed, publish>>
    BY <1>5 DEF CreateOk, At, busVars
  <2>2. CheckInv(c)'
    BY <1>2, <1>3, <2>1 DEF CheckInv, Decided
  <2>3. ASSUME NEW d \in Check \ {c} PROVE CheckInv(d)'
    BY <1>2, <1>3, <2>1, OtherChecks DEF FlowInv
  <2> QED
    BY <1>2, <1>3, <2>1, <2>2, <2>3 DEF FlowInv
<1>6. CASE CreateFails(w)
  <2>1. /\ c \notin publishing
        /\ failed' = failed \union {a}
        /\ work' = [work EXCEPT ![c] = Tail(@)]
        /\ UNCHANGED <<publishing, stored, publish>>
    BY <1>6 DEF CreateFails, NextAlert, At, busVars
  <2>2. work'[c] = Tail(work[c])
    BY <1>2, <1>4, <2>1
  <2>3. CheckInv(c)'
    BY <1>2, <1>3, <2>1, <2>2 DEF CheckInv, Decided
  <2>4. ASSUME NEW d \in Check \ {c} PROVE CheckInv(d)'
    BY <1>2, <1>3, <1>4, <2>1, OtherChecks DEF FlowInv
  <2> QED
    BY <1>2, <1>3, <2>1, <2>3, <2>4 DEF FlowInv
<1>7. CASE Publish(w)
  <2>1. /\ c \in publishing
        /\ publishing' = publishing \ {c}
        /\ work' = [work EXCEPT ![c] = Tail(@)]
        /\ UNCHANGED <<stored, failed>>
    BY <1>7 DEF Publish, NextAlert, At
  <2>2. PICK outcome \in {"sent", "dropped"} : publish' = [publish EXCEPT ![a] = outcome]
    BY <1>7 DEF Publish, Bus!PublishSent, Bus!PublishDropped, Bus!PublishVia
  <2>3. work'[c] = Tail(work[c])
    BY <1>2, <1>4, <2>1
  <2>4. CheckInv(c)'
    BY <1>2, <1>3, <1>4, <2>1, <2>2, <2>3, OwnAlerts DEF CheckInv, Decided
  <2>5. ASSUME NEW d \in Check \ {c} PROVE CheckInv(d)'
    BY <1>2, <1>3, <1>4, <2>1, <2>2, OtherChecks DEF FlowInv
  <2>6. \A b \in Alert : publish'[b] # "idle" => b \in stored'
    BY <1>2, <1>4, <2>1, <2>2 DEF FlowInv
  <2> QED
    BY <1>3, <2>1, <2>4, <2>5, <2>6 DEF FlowInv
<1> QED
  BY <1>5, <1>6, <1>7

LEMMA FlowEnd ==
  ASSUME TypeOK, PoolFacts, FlowInv, NEW w \in Pool!Worker, EndCheck(w)
  PROVE  FlowInv'
<1> PICK c : c = holds[w]
  OBVIOUS
<1>1. /\ c \in Check
      /\ work[c] = <<>>
      /\ finished' = finished \union {c}
      /\ UNCHANGED <<work, publishing, stored, failed, skipped, runs, publish>>
  BY DEF EndCheck, FlowFrame, Pool!FinishTask, flowVars, busVars, TypeOK, Pool!TypeOK
<1>2. \A d \in Check : CheckInv(d)'
  BY <1>1 DEF FlowInv, CheckInv, Decided
<1> QED
  BY <1>1, <1>2 DEF FlowInv

\* main touches neither the alerts nor those who were told of them.
LEMMA MainLeavesAlerts == MainStep => UNCHANGED <<flowVars, runs, finished, publish, call>>
<1> SUFFICES ASSUME MainStep PROVE UNCHANGED <<flowVars, runs, finished, publish, call>>
  OBVIOUS
<1>1. CASE StartBus \/ SubscribeHub \/ SubscribeEmail \/ StopBus
  BY <1>1
     DEF StartBus, SubscribeHub, SubscribeEmail, StopBus, MainVia, Bus!Start, Bus!Subscribe,
         Bus!CloseStopCh, Bus!WaitDispatcher, Bus!busVars, poolVars, busVars
<1>2. CASE StartPool \/ StopPool
  BY <1>2
     DEF StartPool, StopPool, MainVia, Pool!Start, Pool!StopStep, Pool!SetStopped,
         Pool!CloseStopChan, Pool!WaitWorkers, Pool!CloseQueue, Pool!StopVia, Pool!workerVars,
         busVars
<1>3. CASE Signal \/ Drained \/ CloseDatabase
  BY <1>3 DEF Signal, Drained, CloseDatabase, MainVia, poolVars, busVars
<1>4. CASE AppCancel
  BY <1>4 DEF AppCancel, MainVia, Pool!Cancel, Pool!workerVars, Bus!Cancel, Bus!busVars
<1>5. ASSUME NEW i \in DOMAIN StartOrder, StartWatcher(i)
      PROVE  UNCHANGED <<flowVars, runs, finished, publish, call>>
  BY <1>5 DEF StartWatcher, poolVars, busVars
<1>6. ASSUME NEW k \in Kind, TellWatcher(k) \/ WatcherStopped(k)
      PROVE  UNCHANGED <<flowVars, runs, finished, publish, call>>
  BY <1>6 DEF TellWatcher, WatcherStopped, MainVia, poolVars, busVars
<1> QED
  BY <1>1, <1>2, <1>3, <1>4, <1>5, <1>6 DEF MainStep

LEMMA FlowNext == TypeOK /\ PoolFacts /\ FlowInv /\ [Next]_vars => FlowInv'
<1> SUFFICES ASSUME TypeOK, PoolFacts, FlowInv, [Next]_vars PROVE FlowInv'
  OBVIOUS
<1>1. CASE MainStep
  BY <1>1, MainLeavesAlerts, FlowStays DEF flowVars, alertVars
<1>2. ASSUME NEW k \in Kind, LeaveLoop(k) PROVE FlowInv'
  BY <1>2, FlowStays DEF LeaveLoop, flowVars, poolVars, busVars, alertVars
<1>3. ASSUME NEW c \in Check, Submit(c) PROVE FlowInv'
  BY <1>3, FlowStays
     DEF Submit, Pool!SubmitStep, Pool!CheckContext, Pool!CheckStopped, Pool!SendAccepted,
         Pool!SendFull, Pool!SendOnClosed, Pool!SubmitVia, Pool!workerVars, flowVars, busVars,
         alertVars
<1>4. ASSUME NEW w \in Pool!Worker, WorkerStep(w) PROVE FlowInv'
  <2>1. CASE QuitWorker(w)
    BY <2>1, FlowStays DEF QuitWorker, FlowFrame, Pool!Quit, flowVars, busVars, alertVars
  <2> QED
    BY <1>4, <2>1, FlowBegin, FlowAlert, FlowEnd DEF WorkerStep
<1>5. ASSUME NEW r \in Request, Arrive(r) \/ Answer(r) PROVE FlowInv'
  BY <1>5, FlowStays DEF Arrive, Answer, RequestVia, flowVars, poolVars, busVars, alertVars
<1>6. CASE BusStep
  BY <1>6, FlowStays
     DEF BusStep, Bus!DispatcherStep, Bus!TakeEvent, Bus!SpawnNotify, Bus!NotifyDone,
         Bus!Quit, Bus!BeginOnAlert, Bus!ReturnOnAlert, Bus!CallVia, Bus!busVars,
         flowVars, poolVars, alertVars
<1>7. CASE UNCHANGED vars
  BY <1>7, FlowStays DEF vars, flowVars, poolVars, busVars, alertVars
<1> QED
  BY <1>1, <1>2, <1>3, <1>4, <1>5, <1>6, <1>7 DEF Next

LEMMA FlowIsNoneSkipped == TypeOK /\ PoolFacts /\ FlowInv => NoneSkipped
<1> SUFFICES ASSUME TypeOK, PoolFacts, FlowInv, NEW c \in finished, NEW a \in Range(AlertsOf[c])
             PROVE  a \in failed \union skipped \/ (a \in stored /\ publish[a] # "idle")
  BY DEF NoneSkipped
<1>1. c \in Check /\ runs[c] = 1
  BY DEF TypeOK, Pool!TypeOK, PoolFacts
<1>2. CheckInv(c) /\ Range(work[c]) = {}
  BY <1>1, EmptyElements DEF FlowInv, CheckInv
<1> QED
  BY <1>1, <1>2 DEF CheckInv

\* The invariants of the components and of the alerts, together.
LEMMA FactsInit == Init => PoolP!WorkInv /\ BusP!BusInv
  BY ToolInitIsComponents, PoolP!WorkInit, BusP!BusInit, PoolConstants, BusConstants

LEMMA FactsNext ==
  TypeOK /\ StartInv /\ PoolP!WorkInv /\ BusP!BusInv /\ [Next]_vars => PoolP!WorkInv' /\ BusP!BusInv'
  BY ToolNextIsComponents, PoolSame, BusSame, PoolP!WorkNext, BusP!BusNext, PoolConstants,
     BusConstants DEF TypeOK

LEMMA FactsHold == TypeOK /\ PoolP!WorkInv /\ BusP!BusInv => PoolFacts /\ BusFacts
  BY PoolGivesFacts, BusGivesFacts DEF TypeOK

LEMMA AlertsAreFollowed == Safety => [](TypeOK /\ PoolFacts /\ BusFacts /\ FlowInv)
  BY TypeCorrect, StartHolds, FactsInit, FactsNext, FactsHold, FlowInit, FlowNext, PTL DEF Safety

\* Every alert of a check that has returned was stored and published, or has an error to
\* show for it, however often other alerts failed and wherever the shutdown came.
THEOREM NoAlertIsSkipped == Safety => []NoneSkipped
  BY AlertsAreFollowed, FlowIsNoneSkipped, PTL

-------------------------------------------------------------------------------
(* The program implements the alert service *)

\* fate and told, as Flow takes them from the state.
Fate(a) == CASE a \in stored -> "stored"
             [] a \in failed \union skipped -> "lost"
             [] OTHER -> "pending"

Told(a) == {o \in Observer : call[a][o] \in {"running", "returned"}}

LEMMA ServiceInit == Init => Flow!Init
<1> SUFFICES ASSUME Init PROVE Flow!Init
  OBVIOUS
<1>1. \A a \in Alert : Fate(a) = "pending" /\ Told(a) = {}
  BY DEF Init, Bus!Init, Fate, Told
<1> QED
  BY <1>1 DEF Init, Flow!Init, Fate, Told

LEMMA ServiceStutters ==
  ASSUME UNCHANGED <<stored, failed, skipped, dbOpen>>,
         \A a \in Alert : Told(a)' = Told(a)
  PROVE  UNCHANGED Flow!vars
  BY DEF Flow!vars, Told

\* A set of undecided alerts is stored, or lost.
LEMMA ServiceDecides ==
  ASSUME NEW S \in SUBSET Alert, S # {}, S \intersect Decided = {}, NEW outcome,
         \A a \in S : Fate(a)' = outcome,
         \A a \in Alert \ S : Fate(a)' = Fate(a),
         UNCHANGED <<dbOpen, call>>
  PROVE  Flow!Decide(S, outcome)
<1>1. \A a \in S : Fate(a) = "pending"
  BY DEF Fate, Decided
<1> QED
  BY <1>1 DEF Flow!Decide, Fate

\* Storing an alert, losing one, and losing all those of a check.
LEMMA WorkerIsService ==
  ASSUME TypeOK, PoolFacts, FlowInv, NEW w \in Pool!Worker, WorkerStep(w)
  PROVE  [Flow!Next]_(Flow!vars)
<1>1. CASE BeginCheck(w)
  <2> PICK S : S = Range(AlertsOf[Head(taskQueue)])
    OBVIOUS
  <2>1. /\ Head(taskQueue) \in Check
        /\ CheckInv(Head(taskQueue))
        /\ runs[Head(taskQueue)] = 0
        /\ UNCHANGED <<stored, failed, call, dbOpen>>
        /\ skipped' = skipped \union S \/ UNCHANGED skipped
    BY <1>1, TailElements
       DEF BeginCheck, FlowFrame, Pool!Receive, PoolFacts, FlowInv, TypeOK, Pool!TypeOK,
           busVars, toolVars
  <2>2. S \subseteq Alert /\ S \intersect Decided = {}
    BY <2>1, OwnAlerts DEF CheckInv
  <2>3. CASE UNCHANGED skipped \/ S = {}
    BY <2>1, <2>3, ServiceStutters DEF Told
  <2>4. CASE skipped' = skipped \union S /\ S # {}
    <3>1. \A a \in S : Fate(a)' = "lost"
      BY <2>1, <2>2, <2>4 DEF Fate, Decided
    <3>2. \A a \in Alert \ S : Fate(a)' = Fate(a)
      BY <2>1, <2>4 DEF Fate
    <3>3. Flow!Decide(S, "lost")
      BY <2>1, <2>2, <2>4, <3>1, <3>2, ServiceDecides
    <3> QED
      BY <2>2, <3>3 DEF Flow!Next, Flow!Lose
  <2> QED
    BY <2>1, <2>3, <2>4
<1>2. CASE CreateOk(w) \/ CreateFails(w)
  <2> PICK a : a = Head(work[holds[w]])
    OBVIOUS
  <2>1. a \in Alert /\ a \notin Decided /\ {a} \intersect Decided = {}
    BY <1>2, AtCheck DEF CreateOk, CreateFails, At, Decided
  <2>2. UNCHANGED <<skipped, call, dbOpen>>
    BY <1>2 DEF CreateOk, CreateFails, busVars, toolVars
  <2>3. CASE CreateOk(w)
    <3>1. dbOpen /\ stored' = stored \union {a} /\ UNCHANGED failed
      BY <2>3 DEF CreateOk
    <3>2. Fate(a)' = "stored" /\ \A b \in Alert \ {a} : Fate(b)' = Fate(b)
      BY <2>1, <2>2, <3>1 DEF Fate, Decided
    <3>3. Flow!Decide({a}, "stored")
      BY <2>1, <2>2, <3>2, ServiceDecides
    <3> QED
      BY <2>1, <3>1, <3>3 DEF Flow!Next, Flow!Store
  <2>4. CASE CreateFails(w)
    <3>1. failed' = failed \union {a} /\ UNCHANGED stored
      BY <2>4 DEF CreateFails
    <3>2. Fate(a)' = "lost" /\ \A b \in Alert \ {a} : Fate(b)' = Fate(b)
      BY <2>1, <2>2, <3>1 DEF Fate, Decided
    <3>3. Flow!Decide({a}, "lost")
      BY <2>1, <2>2, <3>2, ServiceDecides
    <3> QED
      BY <2>1, <3>3 DEF Flow!Next, Flow!Lose
  <2> QED
    BY <1>2, <2>3, <2>4
<1>3. CASE Publish(w) \/ EndCheck(w) \/ QuitWorker(w)
  <2>1. UNCHANGED <<stored, failed, skipped, dbOpen, call>>
    BY <1>3
       DEF Publish, EndCheck, QuitWorker, FlowFrame, Bus!PublishSent, Bus!PublishDropped,
           Bus!PublishVia, flowVars, toolVars, busVars
  <2> QED
    BY <2>1, ServiceStutters DEF Told
<1> QED
  BY <1>1, <1>2, <1>3 DEF WorkerStep

\* Telling an observer, which only the beginning of its OnAlert does: the dispatcher
\* spawns a goroutine for an observer that has none yet.
LEMMA BusIsService ==
  ASSUME TypeOK, BusFacts, FlowInv, BusStep
  PROVE  [Flow!Next]_(Flow!vars)
<1>1. UNCHANGED <<stored, failed, skipped, dbOpen>>
  BY DEF BusStep, flowVars, toolVars
<1>2. call \in [Alert -> [Observer -> {"none", "spawned", "running", "returned"}]]
  BY DEF TypeOK, Bus!TypeOK
<1>3. CASE Bus!TakeEvent \/ Bus!NotifyDone \/ Bus!Quit
  <2>1. UNCHANGED call
    BY <1>3 DEF Bus!TakeEvent, Bus!NotifyDone, Bus!Quit
  <2> QED
    BY <1>1, <2>1, ServiceStutters DEF Told
<1>4. CASE Bus!SpawnNotify
  <2> PICK o : o = Head(pending)
    OBVIOUS
  <2>1. /\ call' = [call EXCEPT ![current][o] = "spawned"]
        /\ current \in Alert
        /\ o \in Observer
        /\ call[current][o] = "none"
    BY <1>4, TailElements DEF Bus!SpawnNotify, BusFacts, TypeOK, Bus!TypeOK
  <2>2. \A a \in Alert : Told(a)' = Told(a)
    BY <1>2, <2>1 DEF Told
  <2> QED
    BY <1>1, <2>2, ServiceStutters
<1>5. ASSUME NEW a \in Alert, NEW o \in Observer, Bus!BeginOnAlert(a, o) PROVE Flow!Next
  <2>1. call[a][o] = "spawned" /\ call' = [call EXCEPT ![a][o] = "running"]
    BY <1>5 DEF Bus!BeginOnAlert, Bus!CallVia
  <2>2. Fate(a) = "stored"
    BY <2>1 DEF BusFacts, FlowInv, Fate
  <2>3. /\ o \notin Told(a)
        /\ Told(a)' = Told(a) \union {o}
        /\ \A b \in Alert \ {a} : Told(b)' = Told(b)
    BY <1>2, <2>1 DEF Told
  <2>4. \A b \in Alert : Fate(b)' = Fate(b)
    BY <1>1 DEF Fate
  <2>5. Flow!Tell(a, o)
    BY <1>1, <2>2, <2>3, <2>4 DEF Flow!Tell, Told, Fate
  <2> QED
    BY <2>5 DEF Flow!Next
<1>6. ASSUME NEW a \in Alert, NEW o \in Observer, Bus!ReturnOnAlert(a, o)
      PROVE  [Flow!Next]_(Flow!vars)
  <2>1. call[a][o] = "running" /\ call' = [call EXCEPT ![a][o] = "returned"]
    BY <1>6 DEF Bus!ReturnOnAlert, Bus!CallVia
  <2>2. \A b \in Alert : Told(b)' = Told(b)
    BY <1>2, <2>1 DEF Told
  <2> QED
    BY <1>1, <2>2, ServiceStutters
<1> QED
  BY <1>3, <1>4, <1>5, <1>6 DEF BusStep, Bus!DispatcherStep

LEMMA ServiceNext ==
  TypeOK /\ PoolFacts /\ BusFacts /\ FlowInv /\ [Next]_vars => [Flow!Next]_(Flow!vars)
<1> SUFFICES ASSUME TypeOK, PoolFacts, BusFacts, FlowInv, [Next]_vars
             PROVE  [Flow!Next]_(Flow!vars)
  OBVIOUS
<1>1. CASE MainStep
  <2>1. UNCHANGED <<stored, failed, skipped, call>>
    BY <1>1, MainLeavesAlerts DEF flowVars
  <2>2. \A a \in Alert : Told(a)' = Told(a)
    BY <2>1 DEF Told
  <2>3. CASE UNCHANGED dbOpen
    BY <2>1, <2>2, <2>3, ServiceStutters
  <2>4. CASE CloseDatabase
    BY <2>1, <2>4 DEF CloseDatabase, Flow!Next, Flow!Close
  <2>5. CloseDatabase \/ UNCHANGED dbOpen
    BY <1>1
       DEF MainStep, StartBus, SubscribeHub, SubscribeEmail, StartPool, Signal, Drained,
           AppCancel, StopPool, StopBus, StartWatcher, TellWatcher, WatcherStopped, MainVia
  <2> QED
    BY <2>3, <2>4, <2>5
<1>2. ASSUME NEW k \in Kind, LeaveLoop(k) PROVE [Flow!Next]_(Flow!vars)
  BY <1>2, ServiceStutters DEF LeaveLoop, flowVars, busVars, Told
<1>3. ASSUME NEW c \in Check, Submit(c) PROVE [Flow!Next]_(Flow!vars)
  BY <1>3, ServiceStutters DEF Submit, flowVars, toolVars, busVars, Told
<1>4. ASSUME NEW w \in Pool!Worker, WorkerStep(w) PROVE [Flow!Next]_(Flow!vars)
  BY <1>4, WorkerIsService
<1>5. ASSUME NEW r \in Request, Arrive(r) \/ Answer(r) PROVE [Flow!Next]_(Flow!vars)
  BY <1>5, ServiceStutters DEF Arrive, Answer, RequestVia, flowVars, busVars, Told
<1>6. CASE BusStep
  BY <1>6, BusIsService
<1>7. CASE UNCHANGED vars
  BY <1>7, ServiceStutters DEF vars, flowVars, toolVars, busVars, Told
<1> QED
  BY <1>1, <1>2, <1>3, <1>4, <1>5, <1>6, <1>7 DEF Next

\* Through the watchers, the pool, the workers and the bus every alert takes one of the
\* ways the alert service has for it: it is decided on once, nobody is told of an alert
\* that was not stored or told of it twice, and a closed database stores nothing.
THEOREM ProgramIsAService == Safety => ImplementsFlow
  BY AlertsAreFollowed, ServiceInit, ServiceNext, PTL DEF Safety, ImplementsFlow, Flow!Spec

=================================================================================
