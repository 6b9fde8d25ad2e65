------------------------------- MODULE LoadChecks -------------------------------
(***************************************************************************)
(* One check of the metrics watcher, of the pods or of the nodes: it lists *)
(* what the metrics server knows, reads the usage and then the requests or *)
(* capacity of each resource with a call of its own, and only then raises  *)
(* the alerts, while the cluster changes and calls fail.                   *)
(*                                                                         *)
(* A resource is a list of parts, each with what it uses and what it is    *)
(* measured against, for either metric: a pod has one part for each of its *)
(* containers, a node has one.                                             *)
(***************************************************************************)
EXTENDS Integers, Sequences, SequencesExt, FiniteSets

CONSTANTS
  ResourceCount,  \* the names a pod or node of the cluster can have
  Shape,          \* the parts a resource can have
  FileThreshold,  \* the percentage config.yaml sets as threshold
  EnvThreshold,   \* the percentage an environment variable sets
  MaxChanges      \* bound on the changes of the cluster during a check

VARIABLES
  kind,       \* what the check is about
  env,        \* for each metric the number its variable holds: none, or one
  cluster,    \* the parts of each resource, <<>> when there is none
  check,      \* how far the check is
  todo,       \* the resources to read
  usage,      \* what the first of them uses, when that has been read
  metrics,    \* what has been read
  alerts,     \* the alerts to process
  processed,  \* those processed
  changes,    \* the changes during the check
  disturbed   \* the resources that changed, or that could not be read

readVars == <<todo, usage, metrics>>
evalVars == <<alerts, processed>>
vars == <<kind, env, cluster, check, readVars, evalVars, changes, disturbed>>

Metric == {"cpu", "memory"}
Name == 1 .. ResourceCount

Init ==
  /\ kind \in {"pods", "nodes"}
  /\ env \in [Metric -> {<<>>, <<EnvThreshold>>}]
  /\ cluster \in [Name -> Shape \union {<<>>}]
  /\ check = "due"
  /\ todo = <<>>
  /\ usage = <<>>
  /\ metrics = <<>>
  /\ alerts = <<>>
  /\ processed = {}
  /\ changes = 0
  /\ disturbed = {}

-------------------------------------------------------------------------------
(* The rule *)

\* The file sets it, and the environment instead when what is there is a number.
Threshold(metric) == IF env[metric] = <<>> THEN FileThreshold ELSE Head(env[metric])

Total(parts, field) ==
  [m \in Metric |-> FoldLeft(LAMBDA n, part : n + part[m][field], 0, parts)]

\* 2^k modulo 100, for k at least 2: it repeats every twenty powers.
PowerOfTwo(k) == (2^(2 + ((k - 2) % 20))) % 100

\* float64(t)/100*100 > t, for a threshold t below 12800.  A power of two changes no
\* mantissa, so let t be scaled to between 100 and 200.  The quotient, of 53 bits, is
\* the nearest multiple of 2^-52: with a remainder above 50 it has gone up by 100 less
\* the remainder.  The product is the nearest multiple of 64 such units when t is
\* below 128, and goes up too if that was more than 32 of them; from 128 on it is one
\* of 128 units, and never does.
RoundsUp(t) ==
  \E a, b \in 0 .. 7 :
    /\ 100 * 2^b <= t * 2^a /\ t * 2^a < 128 * 2^b
    /\ (t * PowerOfTwo(52 + a - b)) % 100 \in 51 .. 67

\* float64(usage)/float64(base)*100 > threshold.  As long as threshold times base is
\* below 2^51 rounding makes a difference only to a load exactly at the threshold, where
\* usage/base is threshold/100.  Nothing used of nothing is no number and over no
\* threshold; something used of nothing is infinite and over every one.
Over(read, metric) ==
  LET used  == read.usage[metric] * 100
      limit == Threshold(metric) * read.base[metric]
  IN used > limit \/ (used = limit /\ used > 0 /\ RoundsUp(Threshold(metric)))

\* A faulty variant: a pod needs both requests.
MeasurableWithBoth(read) ==
  kind = "pods" => \A m \in Metric : read.base[m] # 0

\* A pod that requests nothing is skipped.
Measurable(read) == kind = "pods" => \E m \in Metric : read.base[m] # 0

\* The percentage of a pod is only looked at when it is of a request.
Raised(read, metric) ==
  /\ Measurable(read)
  /\ kind = "pods" => read.base[metric] > 0
  /\ Over(read, metric)

Alert(read, metric) ==
  [name |-> read.name, metric |-> metric,
   severity |-> IF kind = "pods" THEN "high" ELSE "critical"]

LoadAlerts ==
  FlattenSeq([i \in DOMAIN metrics |->
    LET alert(m) == IF Raised(metrics[i], m) THEN <<Alert(metrics[i], m)>> ELSE <<>>
    IN alert("cpu") \o alert("memory")])

-------------------------------------------------------------------------------
(* The cluster *)

\* A resource is deleted, created again under its name, or used differently; the
\* check does not see what changes after its last read.
Change(n) ==
  /\ check = "reading"
  /\ changes < MaxChanges
  /\ \E parts \in Shape \union {<<>>} :
       parts # cluster[n] /\ cluster' = [cluster EXCEPT ![n] = parts]
  /\ changes' = changes + 1
  /\ disturbed' = disturbed \union {n}
  /\ UNCHANGED <<kind, env, check, readVars, evalVars>>

-------------------------------------------------------------------------------
(* The check *)

CheckVia(from, to) ==
  /\ check = from
  /\ check' = to
  /\ UNCHANGED <<kind, env, cluster, changes>>

List ==
  /\ CheckVia("due", "reading")
  /\ todo' = SetToSeq({n \in Name : cluster[n] # <<>>})
  /\ UNCHANGED <<usage, metrics, evalVars, disturbed>>

ListFails ==
  /\ CheckVia("due", "failed")
  /\ UNCHANGED <<readVars, evalVars, disturbed>>

ReadUsage ==
  /\ CheckVia("reading", "reading")
  /\ todo # <<>> /\ usage = <<>>
  /\ cluster[Head(todo)] # <<>>
  /\ usage' = <<Total(cluster[Head(todo)], "usage")>>
  /\ UNCHANGED <<todo, metrics, evalVars, disturbed>>

ReadBase ==
  /\ CheckVia("reading", "reading")
  /\ usage # <<>>
  /\ cluster[Head(todo)] # <<>>
  /\ metrics' = Append(metrics, [name |-> Head(todo), usage |-> Head(usage),
                                 base |-> Total(cluster[Head(todo)], "base")])
  /\ todo' = Tail(todo)
  /\ usage' = <<>>
  /\ UNCHANGED <<evalVars, disturbed>>

\* Either call fails, as it must when the resource is gone: on to the next one.
ReadFails ==
  /\ CheckVia("reading", "reading")
  /\ todo # <<>>
  /\ disturbed' = disturbed \union {Head(todo)}
  /\ todo' = Tail(todo)
  /\ usage' = <<>>
  /\ UNCHANGED <<metrics, evalVars>>

Evaluate ==
  /\ CheckVia("reading", "alerting")
  /\ todo = <<>>
  /\ alerts' = LoadAlerts
  /\ UNCHANGED <<readVars, processed, disturbed>>

\* ProcessAlert, which may return an error: that of one alert is logged.
Process ==
  /\ CheckVia("alerting", "alerting")
  /\ alerts # <<>>
  /\ \E done \in {"stored", "refused"} :
       processed' = processed \union {[alert |-> Head(alerts), done |-> done]}
  /\ alerts' = Tail(alerts)
  /\ UNCHANGED <<readVars, disturbed>>

Return ==
  /\ CheckVia("alerting", "returned")
  /\ alerts = <<>>
  /\ UNCHANGED <<readVars, evalVars, disturbed>>

Next ==
  \/ List \/ ListFails \/ ReadUsage \/ ReadBase \/ ReadFails
  \/ Evaluate \/ Process \/ Return
  \/ \E n \in Name : Change(n)

Spec == Init /\ [][Next]_vars

-------------------------------------------------------------------------------
TypeOK ==
  /\ kind \in {"pods", "nodes"}
  /\ cluster \in [Name -> Shape \union {<<>>}]
  /\ check \in {"due", "reading", "alerting", "returned", "failed"}
  /\ todo \in Seq(Name)
  /\ Len(usage) <= 1 /\ (usage # <<>> => todo # <<>>)
  /\ \A i \in DOMAIN metrics : metrics[i].name \in Name
  /\ changes \in 0 .. MaxChanges
  /\ disturbed \subseteq Name

\* When a check has returned, every resource that could be read and did not change
\* meanwhile has been reported for exactly the metrics its load is over the configured
\* threshold of, whatever became of the other resources, of the calls for them and of
\* their alerts (metrics_client.go:154, metrics_collector.go:114).  At the threshold
\* itself a load is over it where a float64 rounds the percentage up
\* (metrics_client.go:92).
StableLoadsReported ==
  check = "returned" =>
    \A n \in Name \ disturbed, m \in Metric :
      LET amount(field) == Total(cluster[n], field)[m]
          configured == IF env[m] = <<EnvThreshold>> THEN EnvThreshold ELSE FileThreshold
          used  == amount("usage") * 100
          limit == configured * amount("base")
      IN (\E p \in processed : p.alert.name = n /\ p.alert.metric = m)
           <=> /\ kind = "pods" => amount("base") > 0
               /\ used > limit \/ (used = limit /\ used > 0 /\ RoundsUp(configured))
===============================================================================
