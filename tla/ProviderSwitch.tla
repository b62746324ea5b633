----------------------------- MODULE ProviderSwitch -----------------------------
(***************************************************************************)
(* Switching one channel between two native provider sessions, its legs:   *)
(* the journaled transition, the operations that run it, the queue of      *)
(* owner messages it holds back, rollback and the recovery at boot         *)
(* (src/daemon/lineage.mjs and src/daemon/daemon.mjs).                     *)
(*                                                                         *)
(* A run keeps the transition object it was started with, while the phase  *)
(* helpers, commit and rollback act on the transition the channel has now. *)
(* A step is the code between two awaits, save that the calls which stop   *)
(* a process are one step with the code after them.  The limit of 50       *)
(* queued messages is not reached.                                         *)
(***************************************************************************)
EXTENDS Naturals, Sequences, SequencesExt, FiniteSets

CONSTANTS
    MaxSwitches,  \* bound: transitions begun
    MaxRuns,      \* bound: runs of transitions at once
    MaxMsgs,      \* bound: owner messages
    MaxFaults,    \* bound: processes that die and deliveries that fail
    MaxCrashes,   \* bound: restarts of the daemon
    Reruns,       \* whether a button is pressed again in the half second for which
                  \*   the preview stays open after Continue
    Overlap       \* whether a flush of the held-back queue may start, or Continue be
                  \*   pressed, before the last flush ended, and a switch begin before
                  \*   the runs and proposals of an earlier one have

VARIABLES
    pChan,        \* state.channels[channel], as a leg
    pActive,      \* lineage.activeProvider
    pSess,        \* the session of each leg: known, chan (session.channel is set)
    pLive,        \* where the process of each leg runs: 0 nowhere, the
                  \*   switch that started it, or OwnTmux
    pCur,         \* lineage.transition, 0 for null
    pTrs,         \* the transition objects
    pPending,     \* lineage.pendingDelivery
    pRun,         \* runProviderSwitch calls: at, tr (their transition)
    pHandoff,     \* internalTurns: the run that waits for the handoff, 0 for none
    pValid,       \* targetValidationWaiters: the run that waits, 0 for none
    pAlign,       \* the transition an instruction proposal was begun for
    pHeld,        \* flushTransitionQueue calls that deliver each message
    pMoving,      \* flushTransitionQueue calls that queued theirs once more
    pBooted,      \* recoverProviderSwitches has run
    pGot,         \* history: how often each message was delivered
    pBegun, pSent, pFaults, pCrashes

pCtl == <<pRun, pHandoff, pValid, pAlign>>
pMap == <<pChan, pActive, pSess, pCur, pTrs>>
pFlow == <<pPending, pHeld, pMoving>>
pCount == <<pBegun, pSent, pFaults, pCrashes>>
pVars == <<pMap, pLive, pFlow, pCtl, pBooted, pGot, pCount>>

Leg == {"a", "b"}
Switch == 1..MaxSwitches
Run == 1..MaxRuns
Msg == 1..MaxMsgs
OwnTmux == MaxSwitches + 1
PreTarget == {"preflight", "aligning", "handoff", "handoff_ready"}
Starting == {"target_starting", "target_validating"}

Other(l) == CHOOSE o \in Leg : o # l
NoTr == [phase |-> "none", src |-> "a", tgt |-> "b", tmux |-> FALSE, sid |-> FALSE,
         queued |-> <<>>, asked |-> FALSE, proposed |-> FALSE]
Idle == [at |-> "idle", tr |-> 0]

Init ==
    /\ pChan = "a" /\ pActive = "a"
    /\ \E saved \in BOOLEAN :
           pSess = [l \in Leg |-> [known |-> l = "a" \/ saved, chan |-> l = "a"]]
    /\ pLive = [l \in Leg |-> IF l = "a" THEN OwnTmux ELSE 0]
    /\ pCur = 0 /\ pTrs = [t \in Switch |-> NoTr] /\ pPending = <<>>
    /\ pRun = [r \in Run |-> Idle] /\ pHandoff = 0 /\ pValid = 0 /\ pAlign = 0
    /\ pHeld = [m \in Msg |-> 0] /\ pMoving = 0 /\ pBooted = TRUE
    /\ pGot = [m \in Msg |-> 0]
    /\ pBegun = 0 /\ pSent = 0 /\ pFaults = 0 /\ pCrashes = 0

-----------------------------------------------------------------------------
Tr == pTrs[pCur]
Phase == IF pCur = 0 THEN "none" ELSE Tr.phase
Live(l) == pLive[l] # 0
Flushing == pMoving > 0 \/ \E m \in Msg : pHeld[m] > 0

MayFlush == Overlap \/ ~Flushing

\* setTransitionPhase, of the transition the channel has now.
SetPhase(phase) == [pTrs EXCEPT ![pCur].phase = phase]
At(r, at) == [pRun EXCEPT ![r].at = at]

\* rollbackTransition
RollbackMap ==
    IF pCur = 0 THEN UNCHANGED pMap
    ELSE /\ pChan' = Tr.src /\ pActive' = Tr.src
         /\ pSess' = [pSess EXCEPT ![Tr.src].chan = TRUE,
                                   ![Tr.tgt].chan = IF Tr.sid THEN FALSE ELSE @]
         /\ pCur' = 0
         /\ UNCHANGED pTrs

\* Mutant: rollback forgets the messages the transition held back.
RolledPending_Forgets == pPending
RolledPending == IF pCur = 0 THEN pPending ELSE pPending \o Tr.queued

\* flushTransitionQueue goes on with the head of the list: it is delivered, or
\* queued again while another switch is in progress.
FlushFrom(pending, held, moving) ==
    /\ pPending' = pending
    /\ IF pending = <<>> THEN pHeld' = held /\ pMoving' = moving
       ELSE pHeld' = [held EXCEPT ![Head(pending)] = @ + 1] /\ pMoving' = moving

FlushDelivers(m) ==
    /\ pHeld[m] > 0
    /\ LET done == [pHeld EXCEPT ![m] = @ - 1]
           rest == IF pPending = <<>> THEN <<>> ELSE Tail(pPending)
       IN  IF pCur # 0 /\ rest # <<>>
           THEN /\ pTrs' = [pTrs EXCEPT ![pCur].queued = Append(@, Head(rest))]
                /\ pPending' = rest /\ pHeld' = done /\ pMoving' = pMoving + 1
           ELSE UNCHANGED pTrs /\ FlushFrom(rest, done, pMoving)
    /\ pGot' = [pGot EXCEPT ![m] = @ + 1]
    /\ pLive' = IF Live(pChan) THEN pLive ELSE [pLive EXCEPT ![pChan] = OwnTmux]
    /\ UNCHANGED <<pChan, pActive, pSess, pCur, pCtl, pBooted, pCount>>

FlushMoves ==
    /\ pMoving > 0
    /\ LET rest == IF pPending = <<>> THEN <<>> ELSE Tail(pPending)
       IN  IF pCur # 0 /\ rest # <<>>
           THEN /\ pTrs' = [pTrs EXCEPT ![pCur].queued = Append(@, Head(rest))]
                /\ pPending' = rest /\ UNCHANGED <<pHeld, pMoving>>
           ELSE UNCHANGED pTrs /\ FlushFrom(rest, pHeld, pMoving - 1)
    /\ UNCHANGED <<pChan, pActive, pSess, pCur, pLive, pCtl, pBooted, pGot, pCount>>

\* A delivery that fails ends the flush; the message stays at the head.
FlushFails(m) ==
    /\ pHeld[m] > 0 /\ pFaults < MaxFaults
    /\ pFaults' = pFaults + 1
    /\ pHeld' = [pHeld EXCEPT ![m] = @ - 1]
    /\ UNCHANGED <<pMap, pLive, pPending, pMoving, pCtl, pBooted, pGot, pBegun, pSent, pCrashes>>

\* An owner message: queued during a transition, else delivered to the active
\* leg, which it wakes.
Message ==
    /\ pSent < MaxMsgs
    /\ pSent' = pSent + 1
    /\ IF pCur # 0
       THEN /\ pTrs' = [pTrs EXCEPT ![pCur].queued = Append(@, pSent + 1)]
            /\ UNCHANGED <<pGot, pLive>>
       ELSE /\ pGot' = [pGot EXCEPT ![pSent + 1] = 1]
            /\ pLive' = IF Live(pChan) THEN pLive ELSE [pLive EXCEPT ![pChan] = OwnTmux]
            /\ UNCHANGED pTrs
    /\ UNCHANGED <<pChan, pActive, pSess, pCur, pFlow, pCtl, pBooted, pBegun, pFaults, pCrashes>>

-----------------------------------------------------------------------------
\* beginProviderSwitch; without Overlap no run or proposal of an earlier switch
\* is left.
Begin ==
    /\ pCur = 0 /\ pBegun < MaxSwitches
    /\ Live(pChan) /\ pHandoff = 0 /\ ~Live(Other(pChan))
    /\ Overlap \/ (pAlign = 0 /\ \A r \in Run : pRun[r] = Idle)
    /\ pBegun' = pBegun + 1 /\ pCur' = pBegun + 1
    /\ pTrs' = [pTrs EXCEPT ![pBegun + 1] =
                   [NoTr EXCEPT !.phase = "preflight", !.src = pChan, !.tgt = Other(pChan),
                                !.sid = pSess[Other(pChan)].known]]
    /\ UNCHANGED <<pChan, pActive, pSess, pLive, pFlow, pCtl, pBooted, pGot, pSent, pFaults,
                   pCrashes>>

\* The transition is given up: Cancel is pressed, the preview expires, or the
\* source is seen to have ended before the handoff.
GiveUp ==
    /\ \/ Phase = "preflight"
       \/ Phase = "aligning" /\ ~Live(Tr.src)
    /\ MayFlush
    /\ RollbackMap
    /\ FlushFrom(RolledPending, pHeld, pMoving)
    /\ UNCHANGED <<pLive, pCtl, pBooted, pGot, pCount>>

\* proposeInstructionAlignment; bound: one proposal of each preview.
AlignBegins ==
    /\ Phase = "preflight" /\ pAlign = 0 /\ (Reruns \/ ~Tr.asked) /\ ~Tr.proposed
    /\ pTrs' = [pTrs EXCEPT ![pCur].phase = "aligning", ![pCur].proposed = TRUE]
    /\ pAlign' = pCur
    /\ UNCHANGED <<pChan, pActive, pSess, pCur, pLive, pFlow, pRun, pHandoff, pValid, pBooted,
                   pGot, pCount>>

AlignEnds(ok) ==
    /\ pAlign # 0 /\ MayFlush
    /\ pAlign' = 0
    /\ IF ok /\ pCur # 0
       THEN pTrs' = SetPhase("preflight") /\ UNCHANGED <<pChan, pActive, pSess, pCur, pFlow>>
       ELSE RollbackMap /\ FlushFrom(RolledPending, pHeld, pMoving)
    /\ UNCHANGED <<pLive, pRun, pHandoff, pValid, pBooted, pGot, pCount>>

-----------------------------------------------------------------------------
\* runProviderSwitch.  A run that fails marks the transition and rejects the
\* validation its own transition waits for, then rolls back.

\* Mutant: a failing run leaves its validation registered.
ValidLost_Never(r) == FALSE
ValidLost(r) == pValid # 0 /\ pRun[pValid].tr = pRun[r].tr

Failing(r) ==
    /\ pRun' = [q \in Run |-> IF q = r \/ (ValidLost(r) /\ q = pValid)
                              THEN [pRun[q] EXCEPT !.at = "rolling"] ELSE pRun[q]]
    /\ pValid' = IF ValidLost(r) THEN 0 ELSE pValid
    /\ pTrs' = IF pCur = 0 THEN pTrs ELSE SetPhase("rolling_back")

Blocked(t) == ~Live(pTrs[t].src) \/ pHandoff # 0

\* Continue (or Apply) is pressed; the source is looked at now and again later.
Continue(r) ==
    /\ pRun[r] = Idle /\ Phase = "preflight"
    /\ Reruns \/ ~Tr.asked
    /\ ~Blocked(pCur) /\ MayFlush
    /\ pRun' = [pRun EXCEPT ![r] = [at |-> "checking", tr |-> pCur]]
    /\ pTrs' = [pTrs EXCEPT ![pCur].asked = TRUE]
    /\ UNCHANGED <<pChan, pActive, pSess, pCur, pLive, pFlow, pHandoff, pValid, pAlign, pBooted,
                   pGot, pCount>>

\* A step of run r: it goes on in the given phase, or fails when the channel has
\* no transition left or the step itself fails.
Onward(r, from, ok, phase, to) ==
    /\ pRun[r].at = from
    /\ IF ok /\ pCur # 0
       THEN pTrs' = SetPhase(phase) /\ pRun' = At(r, to) /\ UNCHANGED pValid
       ELSE Failing(r)

RunChecked(r) ==
    /\ Onward(r, "checking", ~Blocked(pRun[r].tr), "handoff", "posting")
    /\ UNCHANGED <<pChan, pActive, pSess, pCur, pLive, pFlow, pHandoff, pAlign, pBooted, pGot,
                   pCount>>

\* capturePrivateTurn: a second waiter for the source replaces the first.
RunCaptures(r) ==
    /\ pRun[r].at = "posting"
    /\ IF Live(pTrs[pRun[r].tr].src)
       THEN pHandoff' = r /\ pRun' = At(r, "capturing") /\ UNCHANGED <<pTrs, pValid>>
       ELSE UNCHANGED pHandoff /\ Failing(r)
    /\ UNCHANGED <<pChan, pActive, pSess, pCur, pLive, pFlow, pAlign, pBooted, pGot, pCount>>

HandoffCaptured(r) ==
    /\ pHandoff = r /\ Live(pTrs[pRun[r].tr].src)
    /\ pHandoff' = 0
    /\ Onward(r, "capturing", TRUE, "handoff_ready", "stopping")
    /\ UNCHANGED <<pChan, pActive, pSess, pCur, pLive, pFlow, pAlign, pBooted, pGot, pCount>>

\* The source is stopped for good before the target is asked for.
SourceStopped(r) ==
    LET t == pRun[r].tr
    IN  /\ pRun[r].at = "stopping"
        /\ pLive' = [pLive EXCEPT ![pTrs[t].src] = 0]
        /\ IF pCur # 0
           THEN /\ pTrs' = [pTrs EXCEPT ![t].tmux = TRUE, ![pCur].phase = "target_starting"]
                /\ pRun' = At(r, "starting") /\ UNCHANGED pValid
           ELSE Failing(r)
        /\ UNCHANGED <<pChan, pActive, pSess, pCur, pFlow, pHandoff, pAlign, pBooted, pGot,
                       pCount>>

TargetSpawned(r) ==
    LET t == pRun[r].tr
    IN  /\ pRun[r].at = "starting"
        /\ pLive' = [pLive EXCEPT ![pTrs[t].tgt] = t]
        /\ pRun' = At(r, "ready")
        /\ UNCHANGED <<pMap, pFlow, pHandoff, pValid, pAlign, pBooted, pGot, pCount>>

\* A hook of the process in the target's terminal claims the target.
TargetClaims ==
    /\ Phase \in Starting /\ Tr.tmux /\ pLive[Tr.tgt] = pCur /\ ~Tr.sid
    /\ pTrs' = [pTrs EXCEPT ![pCur].sid = TRUE]
    /\ pSess' = [pSess EXCEPT ![Tr.tgt].known = TRUE]
    /\ UNCHANGED <<pChan, pActive, pCur, pLive, pFlow, pCtl, pBooted, pGot, pCount>>

TargetReady(r) ==
    /\ pRun[r].at = "ready"
    /\ IF pCur # 0 /\ Live(pTrs[pRun[r].tr].tgt)
       THEN pTrs' = SetPhase("target_validating") /\ pRun' = At(r, "validating") /\ pValid' = r
       ELSE Failing(r)
    /\ UNCHANGED <<pChan, pActive, pSess, pCur, pLive, pFlow, pHandoff, pAlign, pBooted, pGot,
                   pCount>>

\* Mutant: the source session keeps its channel.
CommittedSess_Both == [pSess EXCEPT ![Tr.tgt].chan = TRUE]
CommittedSess == [pSess EXCEPT ![Tr.src].chan = FALSE, ![Tr.tgt].chan = TRUE]

\* The target answered: commitTransition.
Commits(r) ==
    LET t == pRun[r].tr
    IN  /\ pValid = r /\ pRun[r].at = "validating"
        /\ pCur = t /\ Phase \in Starting /\ Tr.sid /\ pLive[Tr.tgt] = t
        /\ pValid' = 0
        /\ pChan' = Tr.tgt /\ pActive' = Tr.tgt
        /\ pSess' = CommittedSess
        /\ pPending' = pPending \o Tr.queued
        /\ pCur' = 0
        /\ pRun' = At(r, "announcing")
        /\ UNCHANGED <<pTrs, pLive, pHeld, pMoving, pHandoff, pAlign, pBooted, pGot, pCount>>

\* Mutant: the wait for the handoff has no timeout.
Bounded_NotHandoff == {"starting", "ready", "validating"}
Bounded == {"capturing", "starting", "ready", "validating"}

\* A timeout, a provider that ended, or a launch or check that fails.
RunFails(r) ==
    /\ pRun[r].at \in Bounded
    /\ pHandoff' = IF pRun[r].at = "capturing" THEN 0 ELSE pHandoff
    /\ Failing(r)
    /\ UNCHANGED <<pChan, pActive, pSess, pCur, pLive, pFlow, pAlign, pBooted, pGot, pCount>>

\* rollbackProviderSwitch: the target of the run is ended, the transition the
\* channel has now is rolled back.
RollsBack(r) ==
    LET tr == pTrs[pRun[r].tr]
        killed(l) == (tr.tmux /\ pLive[l] = pRun[r].tr) \/ (tr.sid /\ l = tr.tgt)
        sess == IF tr.sid THEN [pSess EXCEPT ![tr.tgt].chan = FALSE] ELSE pSess
    IN  /\ pRun[r].at = "rolling"
        /\ pLive' = [l \in Leg |-> IF killed(l) THEN 0 ELSE pLive[l]]
        /\ IF pCur = 0
           THEN pSess' = sess /\ UNCHANGED <<pChan, pActive, pCur, pTrs, pPending>>
           ELSE RollbackMap /\ pPending' = RolledPending
        /\ pRun' = At(r, IF pCur = 0 THEN "announcing" ELSE "resuming")
        /\ UNCHANGED <<pHeld, pMoving, pHandoff, pValid, pAlign, pBooted, pGot, pCount>>

\* After the notice: the queue is flushed, else the source is resumed.
RunEnds(r) ==
    /\ pRun[r].at \in {"announcing", "resuming"} /\ MayFlush
    /\ pRun' = [pRun EXCEPT ![r] = Idle]
    /\ FlushFrom(pPending, pHeld, pMoving)
    /\ LET src == pTrs[pRun[r].tr].src
       IN  pLive' = IF pRun[r].at = "resuming" /\ pPending = <<>> /\ ~Live(src)
                    THEN [pLive EXCEPT ![src] = OwnTmux] ELSE pLive
    /\ UNCHANGED <<pMap, pHandoff, pValid, pAlign, pBooted, pGot, pCount>>

-----------------------------------------------------------------------------
\* A process ends by itself.
Dies(l) ==
    /\ Live(l) /\ pFaults < MaxFaults
    /\ pFaults' = pFaults + 1
    /\ pLive' = [pLive EXCEPT ![l] = 0]
    /\ UNCHANGED <<pMap, pFlow, pCtl, pBooted, pGot, pBegun, pSent, pCrashes>>

\* A restart ends every operation; a call to stop or start a process may have
\* had its effect.
Crash ==
    /\ pCrashes < MaxCrashes
    /\ pCrashes' = pCrashes + 1
    /\ pRun' = [r \in Run |-> Idle] /\ pHandoff' = 0 /\ pValid' = 0 /\ pAlign' = 0
    /\ pHeld' = [m \in Msg |-> 0] /\ pMoving' = 0 /\ pBooted' = FALSE
    /\ \/ UNCHANGED pLive
       \/ \E r \in Run : /\ pRun[r].at = "stopping"
                         /\ pLive' = [pLive EXCEPT ![pTrs[pRun[r].tr].src] = 0]
       \/ \E r \in Run : /\ pRun[r].at = "starting"
                         /\ pLive' = [pLive EXCEPT ![pTrs[pRun[r].tr].tgt] = pRun[r].tr]
    /\ \E got \in {m \in Msg : pHeld[m] > 0} \cup {0} :
           pGot' = [m \in Msg |-> IF m = got THEN pGot[m] + 1 ELSE pGot[m]]
    /\ UNCHANGED <<pMap, pPending, pBegun, pSent, pFaults>>

\* Mutant: recovery ends no provisional target.
Reaped_Never(t) == FALSE
\* recoveryDecision: the provisional target is ended once it may exist.
Reaped(t) == t.phase \notin PreTarget /\ t.tmux

\* recoverProviderSwitches, which runs after the daemon takes requests again.
Recover ==
    /\ ~pBooted /\ MayFlush
    /\ pBooted' = TRUE
    /\ IF pCur = 0 THEN UNCHANGED <<pMap, pLive>>
       ELSE LET kept == [l \in Leg |-> IF Reaped(Tr) /\ pLive[l] = pCur THEN 0 ELSE pLive[l]]
            IN  /\ pLive' = IF RolledPending = <<>> /\ kept[Tr.src] = 0 /\ Tr.phase \notin PreTarget
                            THEN [kept EXCEPT ![Tr.src] = OwnTmux] ELSE kept
                /\ RollbackMap
    /\ FlushFrom(RolledPending, pHeld, pMoving)
    /\ UNCHANGED <<pCtl, pGot, pCount>>

-----------------------------------------------------------------------------
RunStep(r) ==
    \/ RunChecked(r) \/ RunCaptures(r) \/ HandoffCaptured(r) \/ SourceStopped(r) \/ TargetSpawned(r)
    \/ TargetReady(r) \/ Commits(r) \/ RunFails(r) \/ RollsBack(r) \/ RunEnds(r)

Next ==
    \/ Message \/ Begin \/ GiveUp \/ AlignBegins \/ \E ok \in BOOLEAN : AlignEnds(ok)
    \/ \E r \in Run : Continue(r) \/ RunStep(r)
    \/ \E m \in Msg : FlushDelivers(m) \/ FlushFails(m)
    \/ FlushMoves \/ TargetClaims \/ \E l \in Leg : Dies(l)
    \/ Crash \/ Recover

Spec == Init /\ [][Next]_pVars

\* A preview expires, an instruction proposal and every wait of a run end within
\* their timeouts, a delivery returns, and recovery runs at boot.
Fairness ==
    /\ WF_pVars(GiveUp) /\ WF_pVars(\E ok \in BOOLEAN : AlignEnds(ok))
    /\ WF_pVars(\E r \in Run : RunStep(r)) /\ WF_pVars(Recover)
    /\ WF_pVars(FlushMoves \/ \E m \in Msg : FlushDelivers(m))

LiveSpec == Spec /\ Fairness

-----------------------------------------------------------------------------
Phases == PreTarget \cup Starting \cup {"none", "committing", "rolling_back"}

TypeOK ==
    /\ pChan \in Leg /\ pActive \in Leg
    /\ pSess \in [Leg -> [known : BOOLEAN, chan : BOOLEAN]]
    /\ pLive \in [Leg -> 0..OwnTmux]
    /\ pCur \in 0..MaxSwitches
    /\ pTrs \in [Switch -> [phase : Phases, src : Leg, tgt : Leg, tmux : BOOLEAN, sid : BOOLEAN,
                            queued : Seq(Msg), asked : BOOLEAN, proposed : BOOLEAN]]
    /\ pPending \in Seq(Msg)
    /\ pRun \in [Run -> [at : {"idle", "checking", "posting", "capturing", "stopping", "starting",
                               "ready", "validating", "announcing", "rolling", "resuming"},
                         tr : 0..MaxSwitches]]
    /\ pHandoff \in 0..MaxRuns /\ pValid \in 0..MaxRuns /\ pAlign \in 0..MaxSwitches
    /\ pValid # 0 => pRun[pValid].at = "validating"
    /\ pHeld \in [Msg -> Nat] /\ pMoving \in Nat /\ pBooted \in BOOLEAN
    /\ pGot \in [Msg -> Nat]
    /\ pBegun \in 0..MaxSwitches /\ pSent \in 0..MaxMsgs /\ pFaults \in 0..MaxFaults
    /\ pCrashes \in 0..MaxCrashes

\* Exactly one leg owns the channel, and the channel's mapping, the sessions and
\* the lineage agree which, through every failure, rollback and restart
\* (commitTransition, rollbackTransition, recoverProviderSwitches).
OneLeg == pActive = pChan /\ \A l \in Leg : pSess[l].chan <=> l = pChan

\* Once a switch is over, by commit, rollback or recovery, the other leg runs no
\* process (runProviderSwitch, rollbackProviderSwitch, recoverProviderSwitches).
StandbyQuiet ==
    (pCur = 0 /\ pBooted /\ \A r \in Run : pRun[r].at \in {"idle", "announcing"})
        => ~Live(Other(pChan))

\* An owner message sent during a switch is delivered, or still waits in the
\* transition or in the list to be delivered, and is delivered twice only when a
\* restart cut its delivery short (enqueueTransitionItem, flushTransitionQueue).
MessagesKept ==
    /\ \A m \in 1..pSent : \/ pGot[m] > 0
                           \/ \E i \in DOMAIN pPending : pPending[i] = m
                           \/ pCur # 0 /\ \E i \in DOMAIN Tr.queued : Tr.queued[i] = m
    /\ \A m \in Msg : pGot[m] <= 1 + pCrashes

\* Every switch ends.
SwitchSettles == (pCur # 0) ~> (pCur = 0)
=============================================================================
