----------------------------- MODULE MCServices -----------------------------
(***************************************************************************)
(* Small instances of the services beside the task journal.  They share no *)
(* state: the initial state selects the one that runs, and the others keep *)
(* theirs.                                                                 *)
(***************************************************************************)
EXTENDS Nodes

CONSTANTS
    Stoppers, Recovery,   \* Automation
    Statuses              \* StatusMessages

VARIABLES
    sel,         \* the service that runs
    aRec, aStop, aOps, aStopper, aTerm, aSaved, aMade, aSpawned, aInjected, aCreates, aCrashes,
    pChan, pActive, pSess, pLive, pCur, pTrs, pPending, pRun, pHandoff, pValid, pAlign, pHeld,
    pMoving, pBooted, pGot, pBegun, pSent, pFaults, pCrashes,
    procs, launches, reported, sid, pid, tm, queue, upd, owner, restarting, waking, comp, pend,
    boot, starting, sched, drainAt, batch, backoff, posts, wake, maint, guards, dir, got, ahead,
    stEntry, stJobs, stApi, stChan, stFound, stSpent,
    ttTeam, ttTask, ttTurn, ttBusy, ttStand, ttExcl, ttAcks, ttLive, ttJoin, ttAuto, ttWake,
    ttEvent, ttSlip, ttFaults, ttOps

A == INSTANCE Automation WITH MaxCreates <- 1, MaxCrashes <- 1

\* The liveness of a session's input, without maintenance and /clear.
S == INSTANCE SessionInput WITH MaxMsg <- 2, MaxBindings <- 2, MaxWakes <- 1, Generations <- 5,
        Attempts <- 2, MaxTorn <- 2

\* Two switches with one message, and one with two messages.
P == INSTANCE ProviderSwitch WITH MaxSwitches <- 2, MaxRuns <- 1, MaxMsgs <- 1, MaxFaults <- 1,
        MaxCrashes <- 1, Reruns <- FALSE, Overlap <- FALSE
Q == INSTANCE ProviderSwitch WITH MaxSwitches <- 1, MaxRuns <- 1, MaxMsgs <- 2, MaxFaults <- 1,
        MaxCrashes <- 1, Reruns <- FALSE, Overlap <- FALSE

\* One channel with many calls, one with faults and a restart, and two that share the runner.
CallsOfOne(n) == LET one == CHOOSE s \in Statuses : TRUE
                 IN  [s \in Statuses |-> IF s = one THEN n ELSE 0]
L == INSTANCE StatusMessages WITH MaxCalls <- CallsOfOne(5), MaxSlack <- 0, MaxBoots <- 0
F == INSTANCE StatusMessages WITH MaxCalls <- CallsOfOne(2), MaxSlack <- 1, MaxBoots <- 1
B == INSTANCE StatusMessages WITH MaxCalls <- [s \in Statuses |-> 2], MaxSlack <- 0,
        MaxBoots <- 0

\* The owner's commands alone; automations that create workers; standing tasks with
\* failures; and standing tasks with scheduled wakes.
TeamAlias == [c1 |-> "first", c2 |-> "helper", k1 |-> "helper", k2 |-> "other"]
Owned == INSTANCE TeamTree WITH Channels <- DOMAIN TeamAlias, Present <- {"c1", "c2", "k2"},
        Keys <- {}, Names <- {"n1", "n2", "n3"}, Alias <- TeamAlias, Work <- {"w1"},
        Wakes <- {"r1"}, None <- "none", Actors <- {}, Modes <- {}, MaxOps <- 5,
        Teams <- 1 .. 3, MaxTeams <- 3, MaxMembers <- 3, MaxDepth <- 2, MaxFaults <- 0
Grown == INSTANCE TeamTree WITH Channels <- DOMAIN TeamAlias, Present <- {"c1", "c2"},
        Keys <- {"k1", "k2"}, Names <- {"n1", "n2"}, Alias <- TeamAlias, Work <- {"w1"},
        Wakes <- {"r1"}, None <- "none", Actors <- {"owner"}, Modes <- {}, MaxOps <- 3,
        Teams <- 1 .. 3, MaxTeams <- 2, MaxMembers <- 3, MaxDepth <- 2, MaxFaults <- 1
Tasked == INSTANCE TeamTree WITH Channels <- DOMAIN TeamAlias, Present <- {"c1", "c2"},
        Keys <- {}, Names <- {"n1", "n2"}, Alias <- TeamAlias, Work <- {"w1"},
        Wakes <- {"r1"}, None <- "none", Actors <- {"owner", "none"}, Modes <- {}, MaxOps <- 5,
        Teams <- 1 .. 3, MaxTeams <- 2, MaxMembers <- 3, MaxDepth <- 2, MaxFaults <- 1
Woken == INSTANCE TeamTree WITH Channels <- DOMAIN TeamAlias, Present <- {"c1", "c2"},
        Keys <- {}, Names <- {"n1", "n2"}, Alias <- TeamAlias, Work <- {"w1"},
        Wakes <- {"r1"}, None <- "none", Actors <- {"owner"},
        Modes <- {<<TRUE, FALSE>>, <<FALSE, FALSE>>}, MaxOps <- 5,
        Teams <- 1 .. 3, MaxTeams <- 2, MaxMembers <- 3, MaxDepth <- 2, MaxFaults <- 0

ttVars == <<ttTeam, ttTask, ttTurn, ttBusy, ttStand, ttExcl, ttAcks, ttLive, ttJoin, ttAuto,
            ttWake, ttEvent, ttSlip, ttFaults, ttOps>>
stVars == <<stEntry, stJobs, stApi, stChan, stFound, stSpent>>
aVars == <<aRec, aStop, aOps, aStopper, aTerm, aSaved, aMade, aSpawned, aInjected, aCreates,
           aCrashes>>
pVars == <<pChan, pActive, pSess, pLive, pCur, pTrs, pPending, pRun, pHandoff, pValid, pAlign,
           pHeld, pMoving, pBooted, pGot, pBegun, pSent, pFaults, pCrashes>>
sVars == <<procs, launches, reported, sid, pid, tm, queue, upd, owner, restarting, waking, comp,
           pend, boot, starting, sched, drainAt, batch, backoff, posts, wake, maint, guards, dir,
           got, ahead>>

AllInit ==
    /\ sel \in {"input", "automation", "switches", "messages", "nodes", "line", "faults", "lines",
                "owned", "grown", "tasked", "woken"}
    /\ Init /\ A!Init /\ S!Init /\ L!Init
    /\ IF sel = "owned" THEN Owned!Init ELSE Tasked!Init
    /\ IF sel = "messages" THEN Q!Init ELSE P!Init
    /\ sel = "input" \/ launches = 0
    /\ sel \in {"switches", "messages"} \/ pSess["b"].known

AllNext ==
    \/ /\ sel = "input" /\ S!Next
       /\ UNCHANGED <<sel, sid, maint, aVars, pVars, nVars, stVars, ttVars>>
    \/ /\ sel = "automation" /\ A!Next /\ UNCHANGED <<sel, sVars, pVars, nVars, stVars, ttVars>>
    \/ /\ sel = "switches" /\ P!Next /\ UNCHANGED <<sel, sVars, aVars, nVars, stVars, ttVars>>
    \/ /\ sel = "messages" /\ Q!Next /\ UNCHANGED <<sel, sVars, aVars, nVars, stVars, ttVars>>
    \/ /\ sel = "nodes" /\ Next /\ UNCHANGED <<sel, sVars, aVars, pVars, stVars, ttVars>>
    \/ /\ sel = "line" /\ L!Next /\ UNCHANGED <<sel, sVars, aVars, pVars, nVars, ttVars>>
    \/ /\ sel = "faults" /\ F!Next /\ UNCHANGED <<sel, sVars, aVars, pVars, nVars, ttVars>>
    \/ /\ sel = "lines" /\ B!Next /\ UNCHANGED <<sel, sVars, aVars, pVars, nVars, ttVars>>
    \/ /\ sel = "owned" /\ Owned!Next
       /\ UNCHANGED <<sel, sVars, aVars, pVars, nVars, stVars>>
    \/ /\ sel = "grown" /\ Grown!Next
       /\ UNCHANGED <<sel, sVars, aVars, pVars, nVars, stVars>>
    \/ /\ sel = "tasked" /\ Tasked!Next
       /\ UNCHANGED <<sel, sVars, aVars, pVars, nVars, stVars>>
    \/ /\ sel = "woken" /\ Woken!Next
       /\ UNCHANGED <<sel, sVars, aVars, pVars, nVars, stVars>>

AllSpec == AllInit /\ [][AllNext]_<<sel, nVars, aVars, pVars, sVars, stVars, ttVars>>

-----------------------------------------------------------------------------
\* The types of the services.
ServicesTypeOK ==
    /\ TypeOK
    /\ sel = "input" => S!TypeOK
    /\ sel = "automation" => A!TypeOK
    /\ sel = "switches" => P!TypeOK
    /\ sel = "messages" => Q!TypeOK
    /\ sel \in {"line", "faults", "lines"} => L!TypeOK
    /\ sel = "owned" => Owned!TypeOK
    /\ sel = "grown" => Grown!TypeOK
    /\ sel = "tasked" => Tasked!TypeOK
    /\ sel = "woken" => Woken!TypeOK

\* An automation is launched at most once and its initial prompt is delivered at
\* most once, through failed saves of its steps and restarts (recover, runOnce).
\* Once a stop has succeeded no terminal of it is left behind, save a launch that
\* the stop could not see (stop, terminateAutomation).
AtMostOnceThenQuiet == sel = "automation" => A!AtMostOnce /\ A!StoppedIsQuiet

\* The initial prompt is not handed to a session once its stop was claimed (the
\* stopRequested fence of configure).
StopFencesPrompt == A!StopFencesPrompt

\* Exactly one leg owns a channel, through failed switches and restarts, and the other
\* one runs no process once the switch is over (commitTransition, rollbackTransition,
\* recoverProviderSwitches).  Messages that arrive during a switch are delivered or
\* still queued (enqueueTransitionItem, flushTransitionQueue).
OneLegKeepsMessages ==
    /\ sel = "messages" => Q!OneLeg /\ Q!StandbyQuiet /\ Q!MessagesKept
    /\ sel = "switches" => P!OneLeg /\ P!StandbyQuiet /\ P!MessagesKept

\* A channel at rest shows the one status line its session owns, with the newest text
\* below the newest message, and none after it was cleared (set, bump, clear).
StatusLineTrue == sel \in {"line", "faults", "lines"} => L!StatusLineTrue

\* The open teams form a forest of bounded depth; members, aliases and names stay within
\* their bounds together with what automations reserved; and no coordinator is starved by
\* an exclusive task (createTeam, assertWorkerPlacement, addTeamWorker, reserveTeamWorker
\* and every way out of a team).
TreeSound ==
    /\ sel \in {"owned", "tasked", "woken"} =>
          /\ Owned!Forest /\ Owned!SlotsKept /\ Owned!NoStarvedCoordinator
    /\ sel = "grown" => Grown!Forest /\ Grown!SlotsKept /\ Grown!NoStarvedCoordinator

\* A delegated turn belongs to a coordinator that still holds the standing task it came
\* from, and a wake it registered does not fire after that task (delegatedTeamTurnValid,
\* revokeCancelledTeamTasks, releaseTeamTaskBinding, pruneOrphanedTeamSchedules).
AuthorityFollowsTask == [](Tasked!DelegationFollowsTask) /\ Woken!WakesFollowSource

\* The Fairness of Automation, ProviderSwitch, StatusMessages, TeamTree and SessionInput,
\* each stated of the instance that sel names: TLC then tries an action only where its service runs.
StopFair ==
    LET runs == sel = "automation" IN
    /\ WF_aVars(runs /\ A!Prepare) /\ WF_aVars(runs /\ A!Launch) /\ WF_aVars(runs /\ A!TerminalUp)
    /\ WF_aVars(runs /\ A!Correlates) /\ WF_aVars(runs /\ A!LaunchTimesOut)
    /\ WF_aVars(runs /\ A!ReconcileCorrelates)
    /\ WF_aVars(runs /\ A!Configure) /\ WF_aVars(runs /\ A!TaskSettles)
    /\ \A s \in Stoppers : WF_aVars(runs /\ A!StopGoesOn(s))
    /\ WF_aVars(runs /\ A!Recover)
SwitchFair ==
    LET runs == sel = "switches" IN
    /\ WF_pVars(runs /\ P!GiveUp) /\ WF_pVars(runs /\ \E ok \in BOOLEAN : P!AlignEnds(ok))
    /\ WF_pVars(runs /\ \E r \in P!Run : P!RunStep(r)) /\ WF_pVars(runs /\ P!Recover)
    /\ WF_pVars(runs /\ (P!FlushMoves \/ \E m \in P!Msg : P!FlushDelivers(m)))
LinesFair ==
    LET runs == sel = "lines" IN
    /\ WF_stVars(runs /\ L!Select) /\ WF_stVars(runs /\ L!Start) /\ WF_stVars(runs /\ L!Answer)
    /\ \A s \in Statuses : /\ WF_stVars(runs /\ L!Deliver(s))
                           /\ WF_stVars(runs /\ L!Continue(s))
InputFair ==
    LET runs == sel = "input" IN
    /\ \A m \in S!Msg :
          WF_sVars(runs /\ (S!Noted(m) \/ S!Probe(m) \/ S!Pasted(m) \/ S!PasteFails(m)))
    /\ \A w \in S!Wakes : WF_sVars(runs /\ S!Wake(w))
    /\ WF_sVars(runs /\ S!DrainFires) /\ WF_sVars(runs /\ S!DrainNoticed)
    /\ WF_sVars(runs /\ S!BackoffEnds)
    /\ WF_sVars(runs /\ (S!DrainProbes \/ S!Deliver \/ S!DeliverFails))
    /\ SF_sVars(runs /\ S!DrainProbes) /\ SF_sVars(runs /\ S!Deliver)
    /\ WF_sVars(runs /\ S!RecoverLive)
    /\ \A n \in S!Proc : WF_sVars(runs /\ pid # n /\ S!SessionStart(n))
    /\ WF_sVars(runs /\ \E h \in starting :
                   S!StartupAnnounces(h) \/ S!StartupDone(h) \/ S!StartupFails(h))
    /\ SF_sVars(runs /\ \E h \in starting : S!StartupDone(h))
RepairFair == WF_ttVars(sel = "tasked" /\ Tasked!Repair)

\* What was begun ends: a stop that was accepted, stopped or failed with an error that
\* can be repeated, also across a restart (stop, recover); a switch, committed or rolled
\* back (runProviderSwitch, its timeouts, the preview's expiry and the recovery at boot);
\* every edit, move and removal of a status line (Loop answers what is no longer valid,
\* clear waits for the running mutation); and a session's binding to a task that has ended
\* (reconcileTeamSessionBindings).
ServicesSettle ==
    /\ sel = "automation" => (StopFair => A!StopSettles)
    /\ sel = "switches" => (SwitchFair => P!SwitchSettles)
    /\ sel = "lines" => (LinesFair => L!StatusSettles)
    /\ sel = "tasked" => (RepairFair => Tasked!StaleBindingsHeal)

\* The queue of a session whose provider stays alive is drained.
QueueDrains == sel = "input" => (InputFair => S!LiveQueueDrains)
=============================================================================
