------------------------------- MODULE MCTeam -------------------------------
(***************************************************************************)
(* Small instances of three protocols of a team that share no state: a     *)
(* task's cards, its reports and result, and the coordinator's wakes.  The *)
(* initial state selects the one that runs.                                *)
(***************************************************************************)
EXTENDS TaskCards

CONSTANTS Keys, Timers, Runs    \* TeamWakes

VARIABLES
    sel,         \* the protocol that runs
    rStatus, rPolicy, rDecl, rGates, rEnded, rFinals, rReports, rSending, rShown, rCard,
    rResult, rAuto, rAccepted, rFaults,
    wCont, wTurn, wReserved, wTimer, wRun, wTracked, wStop, wHeld, wBoot, wSess, wOwed,
    wUncertain, wStranded, wCount

R == INSTANCE TeamReports WITH MaxReports <- 2, MaxTurns <- 3, MaxFaults <- 1

\* Faults and ended sessions, and restarts.
W == INSTANCE TeamWakes WITH MaxPending <- 1, MaxSeen <- 2, Budget <- 1, MaxOwner <- 1,
        MaxEvents <- 2, MaxFaults <- 1, MaxEnds <- 1, MaxCrashes <- 0
V == INSTANCE TeamWakes WITH MaxPending <- 1, MaxSeen <- 2, Budget <- 1, MaxOwner <- 1,
        MaxEvents <- 2, MaxFaults <- 0, MaxEnds <- 0, MaxCrashes <- 1

cVars == <<status, ver, aud, prompt, shown, ts, post, waiting, edit, calls, mode, fails, crashes>>
rVars == <<rStatus, rPolicy, rDecl, rGates, rEnded, rFinals, rReports, rSending, rShown, rCard,
           rResult, rAuto, rAccepted, rFaults>>
wVars == <<wCont, wTurn, wReserved, wTimer, wRun, wTracked, wStop, wHeld, wBoot, wSess, wOwed,
           wUncertain, wStranded, wCount>>

AllInit ==
    /\ sel \in {"cards", "reports", "wakes", "restarts"}
    /\ Init /\ R!Init /\ W!Init
    /\ sel = "reports" \/ rPolicy = "release"

AllNext ==
    \/ /\ sel = "cards" /\ Next /\ UNCHANGED <<sel, rVars, wVars>>
    \/ /\ sel = "reports" /\ R!Next /\ UNCHANGED <<sel, cVars, wVars>>
    \/ /\ sel = "wakes" /\ W!Next /\ UNCHANGED <<sel, cVars, rVars>>
    \/ /\ sel = "restarts" /\ V!Next /\ UNCHANGED <<sel, cVars, rVars>>

AllSpec == AllInit /\ [][AllNext]_<<sel, cVars, rVars, wVars>>

\* The Fairness of TaskCards, TeamReports and TeamWakes, each stated of the protocol that sel
\* names: TLC then tries an action only where its protocol runs.
CardsFair ==
    LET runs == sel = "cards" IN
    /\ WF_cVars(runs /\ PostStart) /\ WF_cVars(runs /\ RequestEdit) /\ WF_cVars(runs /\ Edits)
    /\ \A c \in Caller : WF_cVars(runs /\ Posts(c))
ReportsFair ==
    LET runs == sel = "reports" IN
    /\ WF_rVars(runs /\ \E t \in R!Turn : R!ReportConfirmed(t))
    /\ WF_rVars(runs /\ R!CardStep)
WakesFair ==
    LET runs == sel \in {"wakes", "restarts"} IN
    /\ \A r \in Runs : WF_wVars(runs /\ W!Probed(r)) /\ WF_wVars(runs /\ W!Injected(r))
    /\ WF_wVars(runs /\ \E r \in Runs : W!TimerFires(r))
    /\ WF_wVars(runs /\ (W!Adopt \/ W!Recover \/ W!Reconciled))

-----------------------------------------------------------------------------
\* The types of the protocols.
TeamTypeOK ==
    /\ TypeOK
    /\ sel = "reports" => R!TypeOK
    /\ sel \in {"wakes", "restarts"} => W!TypeOK

\* The report that answers the completed task outlives every later report, when
\* the bounded journal drops or coalesces others (recordTeamTaskReport).  SAB does
\* not itself release a task whose answering report was touched by a message of
\* another session (the automatic release of a declared completion).
AnswerKept == sel = "reports" => R!AnswerKept /\ R!AutoReleaseUntouched

\* The result card is posted after the reports of the task (the wait of
\* performTeamCompletionDelivery).
ResultAfterReports == sel = "reports" => R!ResultAfterReports

\* The result of an ended task is delivered, across lost posts and restarts
\* (ensureTeamCompletionDelivery, reconcileTeamTasks).
ResultDelivered == ReportsFair => R!ResultDelivered

\* A wake whose delivery a restart made uncertain is not injected again
\* (recoverInterruptedTeamContinuations).
NeverReplayed == sel \in {"wakes", "restarts"} => W!NeverReplayed

\* An owner's turn is neither replaced nor cleared by a continuation
\* (runTeamContinuation and its catch).
OwnerTurnSafe == W!OwnerTurnSafe

\* Every queued event is followed by a wake, a renewal or a notice to the owner,
\* also when the full list was coalesced (queueContinuation, runTeamContinuation).
EventsAreFollowed == WakesFair => W!EventsAreFollowed

\* The cards of a queued task reach its current revision (updateTeamTaskAudit).
CardsCatchUpInTime == sel = "cards" => (CardsFair => CardsCatchUp)
=============================================================================
