--------------------------- MODULE MCMonitoringTool ---------------------------
(***************************************************************************)
(* Small instances of MonitoringTool: a check of a pod, which may find two *)
(* conditions, and a check of metrics, which may find one.                 *)
(***************************************************************************)
EXTENDS MonitoringTool

MCOwner == [c \in Check |-> IF c = "podCheck" THEN "pods" ELSE "metrics"]

MCFound == [podCheck |-> <<"oom", "restarts">>, metricsCheck |-> <<"cpu">>]

MCAlertsOf == [c \in Check |-> SelectSeq(MCFound[c], LAMBDA a : a \in Alert)]
===============================================================================
