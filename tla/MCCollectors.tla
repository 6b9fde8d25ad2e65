----------------------------- MODULE MCCollectors -----------------------------
(***************************************************************************)
(* A small instance of Collectors: what the resources of the metrics check *)
(* can look like.                                                          *)
(***************************************************************************)
EXTENDS Collectors

Part(cpuUsed, cpuBase, memoryUsed, memoryBase) ==
  [cpu    |-> [usage |-> cpuUsed, base |-> cpuBase],
   memory |-> [usage |-> memoryUsed, base |-> memoryBase]]

\* The thresholds are 55, which a float64 rounds up, and 75, which it does not.
\* Exactly at the one and exactly at the other, which is over the one; without a
\* request, or with a capacity of zero; with a request for one metric; and two
\* containers of which one requests nothing, together between the two.
MCShape ==
  {<<Part(11, 20, 3, 4)>>, <<Part(1, 0, 0, 0)>>, <<Part(3, 2, 1, 0)>>,
   <<Part(11, 20, 0, 1), Part(1, 0, 0, 0)>>}
===============================================================================
