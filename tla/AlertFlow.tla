------------------------------- MODULE AlertFlow -------------------------------
(***************************************************************************)
(* What the program promises of an alert, with no pool, no bus and no      *)
(* goroutines: it is stored or it is lost; once it is stored its observers *)
(* may be told of it, each of them at most once; and nothing is stored     *)
(* when the database is closed.                                            *)
(***************************************************************************)
CONSTANTS Alert, Observer

VARIABLES
  fate,   \* whether the alert was stored
  told,   \* the observers whose OnAlert has been called with it
  open    \* the database connection is open

vars == <<fate, told, open>>

Init ==
  /\ fate = [a \in Alert |-> "pending"]
  /\ told = [a \in Alert |-> {}]
  /\ open = TRUE

Decide(S, outcome) ==
  /\ S # {}
  /\ \A a \in S : fate[a] = "pending"
  /\ fate' = [a \in Alert |-> IF a \in S THEN outcome ELSE fate[a]]
  /\ UNCHANGED <<told, open>>

\* Alerts are stored one by one; those of a check that fails are lost together.
Store(a) == open /\ Decide({a}, "stored")
Lose(S)  == Decide(S, "lost")

Tell(a, o) ==
  /\ fate[a] = "stored"
  /\ o \notin told[a]
  /\ told' = [told EXCEPT ![a] = @ \union {o}]
  /\ UNCHANGED <<fate, open>>

Close ==
  /\ open' = FALSE
  /\ UNCHANGED <<fate, told>>

Next ==
  \/ Close
  \/ \E a \in Alert : Store(a)
  \/ \E S \in SUBSET Alert : Lose(S)
  \/ \E a \in Alert, o \in Observer : Tell(a, o)

Spec == Init /\ [][Next]_vars
===============================================================================
