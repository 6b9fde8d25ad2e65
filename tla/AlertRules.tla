------------------------------- MODULE AlertRules -------------------------------
(***************************************************************************)
(* The rules of internal/collector: which alerts the status of a pod or of *)
(* a node gives rise to, in which order, how severe each one is and which  *)
(* container it names.  The wording of messages is left out.               *)
(*                                                                         *)
(* A pod is a record of its phase, of overdue, which is TRUE when it was   *)
(* created longer ago than pendingTimeout, and of the status of its        *)
(* containers: how often it restarted, its state (a reason when it is      *)
(* waiting), and the reason of its last termination.  A node is the list   *)
(* of its conditions, each of a type and "True", "False" or "Unknown".     *)
(***************************************************************************)
EXTENDS Integers, Sequences, SequencesExt, FiniteSetsExt

CONSTANT RestartThreshold  \* alert_rules.pod_restart_threshold

ASSUME ThresholdAssumption == RestartThreshold \in Nat

\* The name an alert has for the container, when there is none to name.
Unknown == 0

When(condition, alert) == IF condition THEN <<alert>> ELSE <<>>

-------------------------------------------------------------------------------
(* Pods *)

\* A faulty variant: the state the container is in now, not the one before it.
OOMKilledNow(cs) == cs.state = "Terminated" /\ cs.last = "OOMKilled"

OOMKilled(cs)      == cs.last = "OOMKilled"
CrashLooping(cs)   == cs.state = "CrashLoopBackOff"
ImagePullFails(cs) == cs.state \in {"ImagePullBackOff", "ErrImagePull"}

\* The first of a set of containers, given by their numbers.
FirstContainer(S) == IF S = {} THEN Unknown ELSE Min(S)

\* The first of those that restarted most, among those that restarted at all.
HighestRestartContainer(pod) ==
  LET most == Max({0} \union {pod.containers[i].restarts : i \in DOMAIN pod.containers})
  IN FirstContainer({i \in DOMAIN pod.containers : most > 0 /\ pod.containers[i].restarts = most})

TotalRestarts(pod) == FoldLeft(LAMBDA n, cs : n + cs.restarts, 0, pod.containers)

PodSeverity ==
  [pod_failed            |-> "critical",
   pod_unknown           |-> "critical",
   pod_oom_killed        |-> "critical",
   pod_crash_loop        |-> "high",
   pod_image_pull        |-> "high",
   pod_restart_threshold |-> "high",
   pod_pending           |-> "medium"]

\* A faulty variant: the second look is for a container that is dead now.
NamedByState(pod, type) ==
  LET cs == pod.containers IN
  CASE type = "pod_oom_killed"        -> FirstContainer({i \in DOMAIN cs : cs[i].state = "Terminated"})
    [] type = "pod_crash_loop"        -> FirstContainer({i \in DOMAIN cs : CrashLooping(cs[i])})
    [] type = "pod_image_pull"        -> FirstContainer({i \in DOMAIN cs : ImagePullFails(cs[i])})
    [] type = "pod_restart_threshold" -> HighestRestartContainer(pod)
    [] OTHER                          -> Unknown

\* The container is looked up in the pod again, not taken from the caller's loop: of
\* several in the same trouble the alert of each names the first.
NamedContainer(pod, type) ==
  LET cs == pod.containers IN
  CASE type = "pod_oom_killed"        -> FirstContainer({i \in DOMAIN cs : OOMKilled(cs[i])})
    [] type = "pod_crash_loop"        -> FirstContainer({i \in DOMAIN cs : CrashLooping(cs[i])})
    [] type = "pod_image_pull"        -> FirstContainer({i \in DOMAIN cs : ImagePullFails(cs[i])})
    [] type = "pod_restart_threshold" -> HighestRestartContainer(pod)
    [] OTHER                          -> Unknown

\* A faulty variant: a type its switch forgets leaves the severity empty.
BuildWithoutDefault(pod, type, value) ==
  [type |-> type, severity |-> IF type = "pod_pending" THEN "" ELSE PodSeverity[type],
   value |-> value, container |-> NamedContainer(pod, type)]

BuildPodAlert(pod, type, value) ==
  [type |-> type, severity |-> PodSeverity[type], value |-> value,
   container |-> NamedContainer(pod, type)]

\* A faulty variant: else if.
FirstTroubleOnly(pod, cs) ==
  IF OOMKilled(cs) THEN <<BuildPodAlert(pod, "pod_oom_killed", cs.restarts)>>
  ELSE IF CrashLooping(cs) THEN <<BuildPodAlert(pod, "pod_crash_loop", cs.restarts)>>
  ELSE When(ImagePullFails(cs), BuildPodAlert(pod, "pod_image_pull", 1))

ContainerAlerts(pod, cs) ==
  When(OOMKilled(cs), BuildPodAlert(pod, "pod_oom_killed", cs.restarts))
  \o When(CrashLooping(cs), BuildPodAlert(pod, "pod_crash_loop", cs.restarts))
  \o When(ImagePullFails(cs), BuildPodAlert(pod, "pod_image_pull", 1))

EvaluatePodConditions(pod) ==
  When(pod.phase = "Failed", BuildPodAlert(pod, "pod_failed", 1))
  \o When(pod.phase = "Unknown", BuildPodAlert(pod, "pod_unknown", 1))
  \o FlattenSeq([i \in DOMAIN pod.containers |-> ContainerAlerts(pod, pod.containers[i])])
  \o When(TotalRestarts(pod) > RestartThreshold,
          BuildPodAlert(pod, "pod_restart_threshold", TotalRestarts(pod)))
  \o When(pod.phase = "Pending" /\ pod.overdue, BuildPodAlert(pod, "pod_pending", 1))

-------------------------------------------------------------------------------
(* Nodes *)

ConditionType == {"Ready", "MemoryPressure", "DiskPressure", "PIDPressure"}

NodeSeverity ==
  [Ready          |-> "critical",
   MemoryPressure |-> "high",
   DiskPressure   |-> "high",
   PIDPressure    |-> "medium"]

\* A faulty variant: whatever is not as it should be.
NotAsItShouldBe(type, status) ==
  IF type = "Ready" THEN status # "True" ELSE type \in ConditionType /\ status # "False"

\* A condition of another type raises nothing.
Alarming(type, status) ==
  IF type = "Ready" THEN status # "True" ELSE type \in ConditionType /\ status = "True"

\* One alert for each alarming condition, in the order of the node's list.
EvaluateNodeConditions(list) ==
  FlattenSeq([i \in DOMAIN list |->
    When(Alarming(list[i].type, list[i].status),
         [type |-> list[i].type, severity |-> NodeSeverity[list[i].type]])])
===============================================================================
