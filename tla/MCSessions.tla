----------------------------- MODULE MCSessions -----------------------------
(***************************************************************************)
(* Small instances of protocols around one session that share no state:    *)
(* the handover to another account, the dispatch of one task to an idle    *)
(* worker, the managed runs of Pi, the turns that messages of other        *)
(* sessions reach, and the requests around one task.  The initial state    *)
(* selects the one that runs.                                              *)
(***************************************************************************)
EXTENDS AccountHandover

CONSTANTS First, Tasks, Prompts    \* the sessions' account at first; TeamDispatch; ManagedRun

VARIABLES
    sel,         \* the protocol that runs
    status, standing, tsid, visible, posting, calls, inj, got, excl, stand, resv, polled, proof,
    sid, member, alive, turn, hooks, rebrand, boot, old, crashes,
    mRun, mLeg, mCtl, mTurn, mSup, mReq, mNudge, mArmed, mBoot, mRoute, mEntry, mAsk, mPrompt,
    mSeen, mStarved, mRepairs, mCrashes,
    ptLog, ptTurn, ptInbox, ptHooks, ptStops, ptSess, ptSent, ptLive, ptReports,
    rqMem, rqDisk, rqEdge, rqCall, rqOp, rqUp, rqTold, rqFaults, rqCrashes

D == INSTANCE TeamDispatch WITH Task <- Tasks, MaxRename <- 1, MaxCrash <- 1

\* The owner waits for the end of what was paused, and sends one prompt.
M == INSTANCE ManagedRun WITH Reviews <- 2, Agents <- 4, Turns <- 3, MaxRuns <- 1,
        MaxCrashes <- 1, Late <- FALSE

\* Two turns with a tool call each, and three turns with a second prompt.
T == INSTANCE PeerTurns WITH MaxTurns <- 2, MaxPeers <- 2, MaxGen <- 1, MaxTools <- 1,
        Overtake <- FALSE
U == INSTANCE PeerTurns WITH MaxTurns <- 3, MaxPeers <- 2, MaxGen <- 2, MaxTools <- 0,
        Overtake <- FALSE

\* A reply with a file, also beside checkpoints, and a task with a file under every control.
Ids == {"i1", "i2"}
Replying == {<<"send", "i1">>, <<"reply", "i1">>}
Reporting == Replying \cup {<<"raise", "i1">>, <<"clear", "i2">>}
Controlling ==
    {<<kind, "i1">> : kind \in {"send", "reply", "complete", "cancel", "release"}} \cup
    {<<kind, "i2">> : kind \in {"message", "replace", "cancel", "release"}}
R == INSTANCE TeamRequests WITH None <- "none", Asked <- Replying, Files <- {"i1"},
        MaxReplies <- 2, MaxControls <- 1, MaxFaults <- 1, MaxCrashes <- 1
Q == INSTANCE TeamRequests WITH None <- "none", Asked <- Reporting, Files <- {"i1"},
        MaxReplies <- 2, MaxControls <- 1, MaxFaults <- 1, MaxCrashes <- 0
C == INSTANCE TeamRequests WITH None <- "none", Asked <- Controlling, Files <- {"task"},
        MaxReplies <- 2, MaxControls <- 1, MaxFaults <- 1, MaxCrashes <- 1

rqVars == <<rqMem, rqDisk, rqEdge, rqCall, rqOp, rqUp, rqTold, rqFaults, rqCrashes>>
ptVars == <<ptLog, ptTurn, ptInbox, ptHooks, ptStops, ptSess, ptSent, ptLive, ptReports>>
dVars == <<status, standing, tsid, visible, posting, calls, inj, got, excl, stand, resv, polled,
           proof, sid, member, alive, turn, hooks, rebrand, boot, old, crashes>>
mVars == <<mRun, mLeg, mCtl, mTurn, mSup, mReq, mNudge, mArmed, mBoot, mRoute, mEntry, mAsk,
           mPrompt, mSeen, mStarved, mRepairs, mCrashes>>

AllInit ==
    /\ sel \in {"handover", "dispatch", "managed", "peers", "turns", "replies", "reports",
                "control"}
    /\ Init /\ D!Init /\ M!Init /\ T!Init /\ R!Init
    /\ \A c \in Channels : xSess[c].acct = First
    /\ sel = "handover" \/ \A c \in Channels : xTask[c].st = "none"
    /\ sel = "dispatch" \/ standing = {}

AllNext ==
    \/ /\ sel = "handover" /\ Next /\ UNCHANGED <<sel, dVars, mVars, ptVars, rqVars>>
    \/ /\ sel = "dispatch" /\ D!Next /\ UNCHANGED <<sel, vars, mVars, ptVars, rqVars>>
    \/ /\ sel = "managed" /\ M!Next /\ UNCHANGED <<sel, vars, dVars, ptVars, rqVars>>
    \/ /\ sel = "peers" /\ T!Next /\ UNCHANGED <<sel, vars, dVars, mVars, rqVars>>
    \/ /\ sel = "turns" /\ U!Next /\ UNCHANGED <<sel, vars, dVars, mVars, rqVars>>
    \/ /\ sel = "replies" /\ R!Next /\ UNCHANGED <<sel, vars, dVars, mVars, ptVars>>
    \/ /\ sel = "reports" /\ Q!Next /\ UNCHANGED <<sel, vars, dVars, mVars, ptVars>>
    \/ /\ sel = "control" /\ C!Next /\ UNCHANGED <<sel, vars, dVars, mVars, ptVars>>

AllSpec == AllInit /\ [][AllNext]_<<sel, vars, dVars, mVars, ptVars, rqVars>>

-----------------------------------------------------------------------------
\* The types of the protocols.
SessionsTypeOK ==
    /\ sel = "handover" => TypeOK
    /\ sel = "dispatch" => D!TypeOK
    /\ sel = "managed" => M!TypeOK
    /\ sel = "peers" => T!TypeOK
    /\ sel = "turns" => U!TypeOK
    /\ sel \in {"replies", "reports", "control"} => R!TypeOK

\* R!Fairness, stated of the one protocol whose states it is about.
RepliesFair == \A i \in Ids : WF_rqVars(sel = "replies" /\ R!Delivering(i))

\* Every handover settles or is recorded as uncertain (switchAccount, recover); the
\* dispatch of a task to an idle worker is settled (reconcileTeamTasks); a prompt that is
\* routed gets its decision, through restarts (completeRouting); and a durable reply
\* reaches the coordinator's channel, its files too unless their failure is reported there
\* (performTeamReplyDelivery).
SessionsSettle ==
    /\ sel = "handover" => (Fairness => HandoverEnds)
    /\ sel = "dispatch" => (D!Fairness => D!DispatchSettles)
    /\ sel = "managed" => (M!Fairness => M!PromptSettles)
    /\ sel = "replies" => (RepliesFair => R!RepliesSettle)

\* What a caller was told is accepted is durable; an id stands for one request; files
\* reach Slack at most once; and a worker can always clear its gates (teamService,
\* performTeamReplyDelivery, performTeamTaskFileDelivery, appendTeamTaskReply).
RequestsSound ==
    sel \in {"replies", "reports", "control"} =>
        R!ConfirmedIsDurable /\ R!OneReceipt /\ R!FilesOnce /\ R!WorkerCanFinish

\* A managed run completes only after a review that saw all its work, and no review
\* lacks its subagent (review, onAgentSettled, subagentBudgetReason).  An active run
\* always has a leg, a turn or a timer that drives it on (resume, onSessionStart).
ReviewedAndDriven == sel = "managed" => M!ReviewedComplete /\ M!Driven

\* The mark of another session's message stays until the turn that read it has ended,
\* and a report without the flag quotes no turn that such a message reached
\* (takePeerTurn, beforePeerStartedTurn, finishTeamTaskForSession).
PeerTurnsKept == sel \in {"peers", "turns"} => T!MarkHeld /\ T!UnflaggedIsOwn

\* A managed run that is over stays so (terminal and the guards of its legs).
RunOverStays == M!OverStays
=============================================================================
