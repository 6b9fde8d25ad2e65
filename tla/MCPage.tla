--------------------------------- MODULE MCPage ---------------------------------
(***************************************************************************)
(* A small instance of Page: two of the severities, one critical alert.    *)
(***************************************************************************)
EXTENDS Page

MCSeverities == <<"critical", "high">>

MCSeverityOf == [a \in Alert |-> IF a = 1 THEN "critical" ELSE "high"]
===============================================================================
