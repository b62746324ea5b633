--------------------------- MODULE MCTeamDispatch ---------------------------
(* TeamDispatch with tasks as interchangeable model values. *)
EXTENDS TeamDispatch, TLC

Symmetry == Permutations(Task)

\* Bound: one fault, a restart with a standing and an exclusive task, or an identity
\* change with a single task.
OneFault ==
    /\ sid + crashes <= 1
    /\ crashes > 0 => standing \notin {{}, Task}
    /\ rebrand \/ sid > 0 => crashes = 0 /\ \E t \in Task : status[t] = "absent"
=============================================================================
