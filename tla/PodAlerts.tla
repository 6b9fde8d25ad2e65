------------------------------- MODULE PodAlerts -------------------------------
(***************************************************************************)
(* The life of one pod, and the alerts the program stores of it: the       *)
(* kubelet starts, kills, backs off and restarts its containers, every     *)
(* status the watch delivers is evaluated by processEvent, and a watch     *)
(* that is opened again delivers a status a second time.                   *)
(***************************************************************************)
EXTENDS AlertRules, FiniteSets

CONSTANTS
  ContainerCount,  \* the containers of the pod
  MaxRestarts,     \* bound on the restarts of a container
  MaxEvents        \* bound on the deliveries of one status

ASSUME PodAssumption ==
  ContainerCount \in Nat \ {0} /\ MaxRestarts \in Nat /\ MaxEvents \in Nat \ {0}

VARIABLES
  containers,  \* the status of the containers
  evicted,     \* the pod has failed
  nodeLost,    \* its node does not answer
  overdue,     \* it was created longer than pendingTimeout ago
  events,      \* how often the present status has been delivered
  stored,      \* the alerts created for the present status
  died,        \* what each container died of most recently
  recent,      \* the restarts of the last five minutes
  reported     \* the most restarts any alert has reported

podVars  == <<containers, evicted, nodeLost, overdue>>
evalVars == <<events, stored, reported>>
vars == <<podVars, evalVars, died, recent>>

Container == 1 .. ContainerCount
Reason == {"OOMKilled", "Error"}
NotStarted == {"Creating", "ErrImagePull"}

Phase ==
  CASE evicted  -> "Failed"
    [] nodeLost /\ ~evicted -> "Unknown"
    [] ~nodeLost /\ ~evicted ->
         IF \E i \in Container : containers[i].state \in NotStarted
         THEN "Pending" ELSE "Running"

Pod == [phase |-> Phase, overdue |-> overdue, containers |-> containers]

Init ==
  /\ containers = [i \in Container |-> [restarts |-> 0, state |-> "Creating", last |-> "none"]]
  /\ evicted = FALSE
  /\ nodeLost = FALSE
  /\ overdue = FALSE
  /\ events = 0
  /\ stored = <<>>
  /\ died = [i \in Container |-> "none"]
  /\ recent = 0
  /\ reported = 0

-------------------------------------------------------------------------------
(* The cluster *)

\* The status changes, and the new one has not been delivered yet.
Changes == events' = 0 /\ stored' = <<>> /\ UNCHANGED reported

ContainerVia(i, from, to) ==
  /\ ~evicted
  /\ containers[i].state = from
  /\ containers' = [containers EXCEPT ![i] = to]
  /\ Changes
  /\ UNCHANGED <<evicted, nodeLost, overdue>>

PullFails(i) ==
  /\ ContainerVia(i, "Creating", [containers[i] EXCEPT !.state = "ErrImagePull"])
  /\ UNCHANGED <<died, recent>>

Run(i) ==
  /\ \E from \in NotStarted : ContainerVia(i, from, [containers[i] EXCEPT !.state = "Running"])
  /\ UNCHANGED <<died, recent>>

Die(i, reason) ==
  /\ ContainerVia(i, "Running", [containers[i] EXCEPT !.state = "Terminated"])
  /\ died' = [died EXCEPT ![i] = reason]
  /\ UNCHANGED recent

\* The state of the dead container becomes its lastState.
BackOff(i) ==
  /\ ContainerVia(i, "Terminated",
       [containers[i] EXCEPT !.state = "CrashLoopBackOff", !.last = died[i]])
  /\ UNCHANGED <<died, recent>>

Restart(i) ==
  /\ containers[i].restarts < MaxRestarts
  /\ \E from \in {"Terminated", "CrashLoopBackOff"} :
       ContainerVia(i, from, [restarts |-> containers[i].restarts + 1,
                              state |-> "Running", last |-> died[i]])
  /\ recent' = recent + 1
  /\ UNCHANGED died

\* The pod has failed for good; its containers keep the status they have.
Evict ==
  /\ ~evicted
  /\ evicted' = TRUE
  /\ Changes
  /\ UNCHANGED <<containers, nodeLost, overdue, died, recent>>

LoseOrFindNode ==
  /\ nodeLost' = ~nodeLost
  /\ Changes
  /\ UNCHANGED <<containers, evicted, overdue, died, recent>>

\* Time passes, which changes no status: five minutes without a restart.
FiveMinutes ==
  /\ overdue' = TRUE
  /\ recent' = 0
  /\ UNCHANGED <<containers, evicted, nodeLost, evalVars, died>>

-------------------------------------------------------------------------------
\* processEvent of the status as it is: each of its alerts is created, also when
\* an earlier event created the same.
Event ==
  LET alerts == EvaluatePodConditions(Pod) IN
  /\ events < MaxEvents
  /\ events' = events + 1
  /\ stored' = stored \o alerts
  /\ reported' = Max({reported} \union
       {alerts[j].value : j \in {k \in DOMAIN alerts : alerts[k].type = "pod_restart_threshold"}})
  /\ UNCHANGED <<podVars, died, recent>>

Next ==
  \/ Evict \/ LoseOrFindNode \/ FiveMinutes \/ Event
  \/ \E i \in Container : PullFails(i) \/ Run(i) \/ BackOff(i) \/ Restart(i)
  \/ \E i \in Container, reason \in Reason : Die(i, reason)

Spec == Init /\ [][Next]_vars

-------------------------------------------------------------------------------
(* What the rules guarantee *)

TypeOK ==
  /\ containers \in [Container ->
       [restarts : 0 .. MaxRestarts,
        state : NotStarted \union {"Running", "Terminated", "CrashLoopBackOff"},
        last : Reason \union {"none"}]]
  /\ {evicted, nodeLost, overdue} \subseteq BOOLEAN
  /\ events \in 0 .. MaxEvents
  /\ stored \in Seq([type : DOMAIN PodSeverity, severity : {"critical", "high", "medium"},
                     value : Nat, container : {Unknown} \union Container])
  /\ died \in [Container -> Reason \union {"none"}]
  /\ recent \in Nat
  /\ reported \in Nat

Stored(type) == {j \in DOMAIN stored : stored[j].type = type}

\* Each event stores an alert for every container in trouble, whatever trouble the
\* other containers, the pod and its node are in (pod_collector.go:219).
NoneMasked ==
  /\ Cardinality(Stored("pod_crash_loop")) =
       events * Cardinality({i \in Container : containers[i].state = "CrashLoopBackOff"})
  /\ Cardinality(Stored("pod_image_pull")) =
       events * Cardinality({i \in Container : containers[i].state = "ErrImagePull"})

\* A container that was killed for memory is reported although it is running again
\* or waiting by the time of the event, until it dies of something else
\* (pod_collector.go:223).
OOMSurvivesRestart ==
  LET killed == {i \in Container : died[i] = "OOMKilled" /\ containers[i].state # "Terminated"}
  IN Cardinality(Stored("pod_oom_killed")) >= events * Cardinality(killed)

\* The containers an alert of this type can be about.
InTrouble(type) ==
  {i \in Container :
     CASE type = "pod_oom_killed" -> OOMKilled(containers[i])
       [] type = "pod_crash_loop" -> CrashLooping(containers[i])
       [] type = "pod_image_pull" -> ImagePullFails(containers[i])}

\* No alert blames a container that does not have the trouble it reports, although the
\* rule and the builder each look through the pod for themselves; and where one
\* container alone has the trouble, the alert is about that one in both: it names it
\* and carries its restarts (pod_collector.go:224, alert_builder.go:57).  Where several
\* have the same trouble, the alerts of all of them name the first, so that no more can be
\* said than that the named one has it.
NamesOneInTrouble ==
  \A j \in DOMAIN stored :
    LET type == stored[j].type
        i    == stored[j].container
    IN
    CASE type \in {"pod_oom_killed", "pod_crash_loop"} ->
           /\ i \in InTrouble(type)
           /\ InTrouble(type) = {i} => stored[j].value = containers[i].restarts
      [] type = "pod_image_pull" -> i \in InTrouble(type)
      [] type = "pod_restart_threshold" ->
           i \in Container /\ \A k \in Container : containers[k].restarts <= containers[i].restarts
      [] OTHER -> i = Unknown

\* configs/config.yaml:40, "Trigger alert after N restarts in 5 minutes".
RestartsAreRecent ==
  [][reported' > reported => recent >= RestartThreshold]_vars
===============================================================================
