---------------------------- MODULE TaskContract ----------------------------
(***************************************************************************)
(* What a delegated team task promises to the coordinator that sent it,    *)
(* apart from how daemon/teams.mjs and daemon/daemon.mjs keep the promise. *)
(* Instruction 1 is the task prompt, instruction g > 1 a follow-up.  Each  *)
(* one reaches the worker's provider at most once and in the order it was  *)
(* asked; no follow-up is ever skipped (only the task prompt can be lost,  *)
(* when its single transport attempt ended with an uncertain outcome); and *)
(* the task completes only after the newest instruction was received.      *)
(***************************************************************************)
EXTENDS Naturals, Sequences

VARIABLES
    asked,   \* instructions accepted from the coordinator so far
    got,     \* instructions the provider received, in order of arrival
    phase    \* "open", "done" (released) or "dropped" (failed, cancelled)

vars == <<asked, got, phase>>

\* The newest instruction received; 0 before the first one.
Newest(s) == IF s = <<>> THEN 0 ELSE s[Len(s)]

Init == asked = 1 /\ got = <<>> /\ phase = "open"

\* The coordinator adds a follow-up to an open task.
Ask == /\ phase = "open"
       /\ asked' = asked + 1
       /\ UNCHANGED <<got, phase>>

\* The provider receives instruction g, the next one it has not received.
Give(g) == /\ phase # "done"
           /\ g <= asked
           /\ g = Newest(got) + 1 \/ (g = 2 /\ got = <<>>)
           /\ got' = Append(got, g)
           /\ UNCHANGED <<asked, phase>>

\* A release needs the newest instruction received.
Finish == /\ phase = "open"
          /\ Newest(got) = asked
          /\ phase' = "done"
          /\ UNCHANGED <<asked, got>>

Drop == /\ phase = "open"
        /\ phase' = "dropped"
        /\ UNCHANGED <<asked, got>>

Next == Ask \/ (\E g \in 1..asked : Give(g)) \/ Finish \/ Drop

Spec == Init /\ [][Next]_vars
=============================================================================
