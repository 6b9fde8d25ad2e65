----------------------------- MODULE TaskService -----------------------------
(***************************************************************************)
(* What internal/pool promises the watchers that submit work to it, with   *)
(* no queue, no workers and no channels: a submitted task is refused or    *)
(* accepted; an accepted one is run at most once; and once the service is  *)
(* closed nothing is running, nothing is accepted and nothing is begun.    *)
(***************************************************************************)
CONSTANT Task      \* one element per call of Submit

VARIABLES phase,   \* how far each task has come
          closed   \* the call of Stop that closes the pool has returned

vars == <<phase, closed>>

Init ==
  /\ phase = [t \in Task |-> "new"]
  /\ closed = FALSE

Move(t, from, to) ==
  /\ phase[t] = from
  /\ phase' = [phase EXCEPT ![t] = to]
  /\ UNCHANGED closed

Refuse(t) == Move(t, "new", "refused")
Accept(t) == ~closed /\ Move(t, "new", "accepted")
Begin(t)  == ~closed /\ Move(t, "accepted", "running")
End(t)    == Move(t, "running", "finished")

Close ==
  /\ \A t \in Task : phase[t] # "running"
  /\ closed' = TRUE
  /\ UNCHANGED phase

Next ==
  \/ \E t \in Task : Refuse(t) \/ Accept(t) \/ Begin(t) \/ End(t)
  \/ Close

\* What is begun is ended: the service never abandons a task half-way.
Fairness == \A t \in Task : WF_vars(End(t))

Safety == Init /\ [][Next]_vars

Spec == Safety /\ Fairness
===============================================================================
