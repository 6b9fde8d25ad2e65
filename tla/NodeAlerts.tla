------------------------------- MODULE NodeAlerts -------------------------------
(***************************************************************************)
(* The life of one node, and the alerts its status gives rise to: its      *)
(* kubelet sets its conditions, the node controller sets them to Unknown   *)
(* when the kubelet is silent, and processEvent evaluates every status the *)
(* watch delivers.                                                         *)
(***************************************************************************)
EXTENDS AlertRules

CONSTANT MaxEvents  \* bound on the deliveries of one status

VARIABLES
  conditions,  \* the list of conditions in the node's status
  silent,      \* the kubelet does not report
  events,      \* how often the present status has been delivered
  stored       \* the alerts created for the present status

vars == <<conditions, silent, events, stored>>

\* The order of the list is that of the kubelet, behind what a network plug-in adds.
Types == <<"NetworkUnavailable", "MemoryPressure", "DiskPressure", "PIDPressure", "Ready">>

Init ==
  /\ conditions = [i \in DOMAIN Types |->
       [type |-> Types[i], status |-> IF Types[i] = "Ready" THEN "True" ELSE "False"]]
  /\ silent = FALSE
  /\ events = 0
  /\ stored = <<>>

ChangeTo(list) ==
  /\ conditions' = list
  /\ events' = 0
  /\ stored' = <<>>

SetCondition(i, status) ==
  /\ ~silent
  /\ conditions[i].status # status
  /\ ChangeTo([conditions EXCEPT ![i].status = status])
  /\ UNCHANGED silent

\* The node controller knows the four conditions of the kubelet.
FallSilent ==
  /\ ~silent
  /\ silent' = TRUE
  /\ ChangeTo([i \in DOMAIN conditions |->
       IF conditions[i].type \in ConditionType
       THEN [conditions[i] EXCEPT !.status = "Unknown"] ELSE conditions[i]])

ReportAgain ==
  /\ silent
  /\ silent' = FALSE
  /\ \E status \in [ConditionType -> {"True", "False"}] :
       ChangeTo([i \in DOMAIN conditions |->
         IF conditions[i].type \in ConditionType
         THEN [conditions[i] EXCEPT !.status = status[Types[i]]] ELSE conditions[i]])

\* processEvent creates every alert anew.
Event ==
  /\ events < MaxEvents
  /\ events' = events + 1
  /\ stored' = stored \o EvaluateNodeConditions(conditions)
  /\ UNCHANGED <<conditions, silent>>

Next ==
  \/ FallSilent \/ ReportAgain \/ Event
  \/ \E i \in DOMAIN Types, status \in {"True", "False"} : SetCondition(i, status)

Spec == Init /\ [][Next]_vars

-------------------------------------------------------------------------------
TypeOK ==
  /\ conditions \in Seq([type : ConditionType \union {"NetworkUnavailable"},
                         status : {"True", "False", "Unknown"}])
  /\ silent \in BOOLEAN
  /\ events \in 0 .. MaxEvents
  /\ stored \in Seq([type : ConditionType, severity : {"critical", "high", "medium"}])

\* A node that has stopped reporting is one critical alert with each event, and not
\* a pressure alert for every condition nobody knows (node_collector.go:194).
SilenceIsOneAlert ==
  silent => /\ Len(stored) = events
            /\ \A j \in DOMAIN stored : stored[j] = [type |-> "Ready", severity |-> "critical"]
===============================================================================
