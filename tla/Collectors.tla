------------------------------- MODULE Collectors -------------------------------
(***************************************************************************)
(* The evaluations of the three collectors side by side: of a pod          *)
(* (PodAlerts), of a node (NodeAlerts) and of the metrics (LoadChecks).    *)
(* They run on the same workers and share no variable, so a behaviour of   *)
(* all three is made of one of each; it is enough to let one run and keep  *)
(* the others where they start.                                            *)
(***************************************************************************)
EXTENDS PodAlerts

CONSTANTS
  ResourceCount, Shape, FileThreshold, EnvThreshold, MaxChanges  \* of LoadChecks

\* The thresholds are in the range Load!RoundsUp is right for.
ASSUME LoadAssumption ==
  /\ {ResourceCount, MaxChanges} \subseteq Nat
  /\ FileThreshold \in 0 .. 12799 /\ EnvThreshold \in 0 .. 12799

VARIABLES
  collector,  \* the collector that runs
  conditions, silent, nodeEvents, nodeStored,                        \* of the node
  kind, env, cluster, check, todo, usage, metrics, alerts, processed,
  changes, disturbed                                                 \* of the check

nodeVars == <<conditions, silent, nodeEvents, nodeStored>>
loadVars == <<kind, env, cluster, check, todo, usage, metrics, alerts, processed,
              changes, disturbed>>

Node == INSTANCE NodeAlerts WITH events <- nodeEvents, stored <- nodeStored
Load == INSTANCE LoadChecks

CollectorsInit ==
  /\ collector \in {"pods", "nodes", "metrics"}
  /\ Init
  /\ Node!Init
  /\ Load!Init
  /\ collector # "metrics" =>
       /\ kind = "pods"
       /\ \A m \in Load!Metric : env[m] = <<>>
       /\ \A n \in Load!Name : cluster[n] = <<>>

CollectorsNext ==
  \/ collector = "pods"    /\ Next      /\ UNCHANGED <<collector, nodeVars, loadVars>>
  \/ collector = "nodes"   /\ Node!Next /\ UNCHANGED <<collector, vars, loadVars>>
  \/ collector = "metrics" /\ Load!Next /\ UNCHANGED <<collector, vars, nodeVars>>

CollectorsSpec == CollectorsInit /\ [][CollectorsNext]_<<collector, vars, nodeVars, loadVars>>

-------------------------------------------------------------------------------
\* The types of the three modules.
CollectorsTypeOK == TypeOK /\ Node!TypeOK /\ Load!TypeOK

\* NodeAlerts: a silent node is one alert with each event (node_collector.go:194).
SilenceIsOneAlert == Node!SilenceIsOneAlert

\* LoadChecks: what could be read is reported for exactly the metrics its load is over
\* the threshold of (metrics_client.go:154).
StableLoadsReported == Load!StableLoadsReported
===============================================================================
