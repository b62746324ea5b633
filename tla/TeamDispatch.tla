---------------------------- MODULE TeamDispatch ----------------------------
(***************************************************************************)
(* Several delegated tasks for one worker session, from the coordinator's  *)
(* request to the end of each task (daemon/teams.mjs, daemon/team-audit.mjs*)
(* and the dispatcher and reconciler of daemon/daemon.mjs).                *)
(*                                                                         *)
(* dispatchTeamTask runs at the same time for every request and for the    *)
(* reconciler's sweep; each run awaits Slack and tmux between its reads of *)
(* the journal and the claim.  An action is the code between two awaits.   *)
(* The follow-ups of a bound task are the subject of TaskFollowUp; here a  *)
(* reported task may be released as soon as the coordinator decides.       *)
(***************************************************************************)
EXTENDS Naturals

CONSTANTS
    Task,        \* the tasks the coordinator sends to this worker
    None,        \* no task
    MaxRename,   \* bound: native identity changes of the worker (/clear)
    MaxCrash     \* bound: daemon crashes

ASSUME DispatchAssumption ==
    /\ None \notin Task
    /\ MaxRename \in Nat /\ MaxCrash \in Nat

VARIABLES
    status,      \* task.status
    standing,    \* tasks with reservation 'standing'
    tsid,        \* task.targetSessionId: the worker identity that claimed it
    visible,     \* tasks whose two cards exist
    posting,     \* tasks with dispatch calls inside ensureTeamTaskAudit
    calls,       \* tasks with dispatch calls awaiting the worker's readiness
    inj,         \* the claimed task's own delivery, up to the transport's return
    got,         \* ghost: times the provider received the task's prompt
    excl, stand, \* session.teamActiveTaskId, session.teamStandingTaskId
    resv,        \* session.teamInputReservation: "none", "provider", "standing"
    polled,      \* a turn poller runs for the session
    proof,       \* teamTurnProof has the session
    sid,         \* session.id, counted
    member,      \* the worker is a member of the team
    alive, turn, \* the provider process and what it works on
    hooks,       \* prompts whose UserPromptSubmit hook is due
    rebrand,     \* an identity change awaits the failure of the old task
    boot,        \* readoptStatus has not visited this session yet
    old,         \* tasks claimed before the last restart
    crashes

journal == <<status, standing, tsid>>
cards == <<visible, posting>>
session == <<excl, stand, resv, sid>>
memory == <<polled, proof, boot, old, rebrand>>
provider == <<alive, turn, hooks>>
vars == <<journal, cards, calls, inj, got, session, memory, provider, member, crashes>>

BoundStates == {"dispatching", "running", "awaiting_release"}
Terminal == {"completed", "failed", "cancelled"}
Bound(t) == status[t] \in BoundStates
Active(t) == status[t] = "queued" \/ Bound(t)

\* boundTeamTaskIdFor
Projection(t) == IF t \in standing THEN stand ELSE excl

\* The session record is the exact one the task was claimed for.
Exact(t) == tsid[t] = sid

\* teamTargetBusy
Busy == \/ \E t \in Task : Bound(t)
        \/ excl # None
        \/ resv # "none"
        \/ polled

\* Live evidence of a turn; it is read only for tasks from before a restart.
Proven == crashes > 0

\* The slip of a terminal state the journal does not know.
Fail_Expired(t) == status' = [status EXCEPT ![t] = IF Active(t) THEN "expired" ELSE @]

\* failTeamTask
Fail(t) == status' = [status EXCEPT ![t] = IF Active(t) THEN "failed" ELSE @]

\* releaseTeamTaskBinding
ReleaseBinding(t) ==
    /\ excl' = IF t \notin standing /\ excl = t THEN None ELSE excl
    /\ stand' = IF t \in standing /\ stand = t THEN None ELSE stand

Init ==
    /\ status = [t \in Task |-> "absent"]
    /\ standing \in SUBSET Task
    /\ tsid = [t \in Task |-> 0]
    /\ visible = {} /\ posting = {} /\ calls = {}
    /\ inj = [t \in Task |-> "none"]
    /\ got = [t \in Task |-> 0]
    /\ excl = None /\ stand = None /\ resv = "none" /\ sid = 0
    /\ polled = FALSE /\ proof = FALSE /\ boot = FALSE
    /\ old = {} /\ rebrand = FALSE
    /\ alive = TRUE /\ turn = None /\ hooks = {}
    /\ member = TRUE
    /\ crashes = 0

-----------------------------------------------------------------------------
(* The request and the visible cards. *)

\* createTeamTask, then the request's own ensureTeamTaskAudit
Create(t) ==
    /\ status[t] = "absent" /\ member
    /\ t \in standing => \A u \in standing : ~Active(u)
    /\ status' = [status EXCEPT ![t] = "queued"]
    /\ posting' = posting \cup {t}
    /\ UNCHANGED <<standing, tsid, visible, calls, inj, got,
                   session, memory, provider, member, crashes>>

\* The sweep meets the queued task before the request finished posting.
EnsureAudit(t) ==
    /\ ~boot /\ status[t] = "queued" /\ t \notin visible
    /\ posting' = posting \cup {t}
    /\ UNCHANGED <<journal, visible, calls, inj, got,
                   session, memory, provider, member, crashes>>

\* A call found or posted both cards (TaskCards).
AuditPosted(t) ==
    /\ t \in posting
    /\ posting' \in {posting, posting \ {t}}      \* another call of t may go on
    /\ visible' = visible \cup {t}
    /\ UNCHANGED <<journal, calls, inj, got, session, memory, provider, member, crashes>>

\* A post of this call failed: it fails the task, whatever another call that
\* posted the same cards has made of it meanwhile.
AuditFails(t) ==
    /\ t \in posting
    /\ posting' \in {posting, posting \ {t}}      \* another call of t may go on
    /\ Fail(t)
    /\ UNCHANGED <<standing, tsid, visible, calls, inj, got,
                   session, memory, provider, member, crashes>>

-----------------------------------------------------------------------------
(* dispatchTeamTask. *)

\* The checks before the readiness awaits (files, the process, tmux); the
\* revisions they capture are the subject of TaskCards.
DispatchCall(t) ==
    /\ status[t] = "queued" /\ t \in visible
    /\ calls' = calls \cup {t}
    /\ UNCHANGED <<journal, cards, inj, got, session, memory, provider, member, crashes>>

\* The slip of trusting the status read before the awaits.
MayClaim_NoRecheck(t) ==
    /\ t \in calls
    /\ Active(t)
    /\ alive /\ \A u \in Task \ {t} : ~Bound(u)

\* The slip of looking only at the session's own projection.
MayClaim_ProjectionOnly(t) ==
    /\ t \in calls
    /\ status[t] = "queued"
    /\ alive /\ resv = "none" /\ ~polled
    /\ excl = None

\* claimTeamTaskForSession and the busy check just before it, with no await
\* between them.
MayClaim(t) ==
    /\ t \in calls
    /\ status[t] = "queued"
    /\ alive /\ ~Busy
    /\ stand = None

Claim(t) ==
    /\ MayClaim(t)
    /\ status' = [status EXCEPT ![t] = "dispatching"]
    /\ tsid' = [tsid EXCEPT ![t] = sid]
    /\ calls' \in {calls, calls \ {t}}          \* another call of t may be waiting
    /\ inj' = [inj EXCEPT ![t] = "audit"]
    /\ IF t \in standing
       THEN stand' = t /\ resv' = "standing" /\ UNCHANGED excl
       ELSE excl' = t /\ UNCHANGED <<stand, resv>>
    /\ UNCHANGED <<standing, cards, got, sid, memory, provider, member, crashes>>

\* Not ready, or overtaken by a cancellation, a replacement or drain mode.
CallEnds(t) ==
    /\ t \in calls
    /\ calls' = calls \ {t}
    /\ UNCHANGED <<journal, cards, inj, got, session, memory, provider, member, crashes>>

\* assertExpectedBinding holds after the card update: the write begins.
InjectStart(t) ==
    /\ inj[t] = "audit"
    /\ alive /\ Exact(t) /\ Projection(t) = t
    /\ inj' = [inj EXCEPT ![t] = "sending"]
    /\ UNCHANGED <<journal, cards, calls, got, session, memory, provider, member, crashes>>

\* A known rejection: authority lost, a busy surface, or tmux refused before
\* any paste.  The projection is cleared whichever task it names.
InjectRefused(t) ==
    /\ inj[t] \in {"audit", "sending"}
    /\ inj' = [inj EXCEPT ![t] = "none"]
    /\ IF t \in standing
       THEN stand' = None /\ resv' = "none" /\ UNCHANGED excl
       ELSE excl' = None /\ UNCHANGED <<stand, resv>>
    /\ Fail(t)
    /\ UNCHANGED <<standing, tsid, cards, calls, got, sid,
                   memory, provider, member, crashes>>

\* Enter reached the provider.
Land(t) ==
    /\ inj[t] = "sending" /\ alive
    /\ inj' = [inj EXCEPT ![t] = "landed"]
    /\ got' = [got EXCEPT ![t] = @ + 1]
    /\ turn' = t
    /\ hooks' = hooks \cup {t}
    /\ UNCHANGED <<journal, cards, calls, session, memory, alive, member, crashes>>

\* injectText returned; Codex starts its poller at once.
InjectAccepted(t) ==
    /\ inj[t] = "landed"
    /\ inj' = [inj EXCEPT ![t] = "none"]
    /\ polled' \in {polled, TRUE}
    /\ UNCHANGED <<journal, cards, calls, got, session,
                   proof, boot, old, rebrand, provider, member, crashes>>

\* uncertainTeamProviderInput: the claim stands and nothing is retried.
InjectUncertain(t) ==
    /\ inj[t] \in {"sending", "landed"}
    /\ inj' = [inj EXCEPT ![t] = "none"]
    /\ UNCHANGED <<journal, cards, calls, got, session, memory, provider, member, crashes>>

-----------------------------------------------------------------------------
(* The worker: its hooks, its calls and its turns. *)

\* failTeamTaskForSession of the exclusive task the session names
FailBoundTask ==
    /\ excl' = None
    /\ IF excl \in Task THEN Fail(excl) ELSE UNCHANGED status

\* handlePromptSubmit for a delegated prompt
PromptHook(t) ==
    /\ t \in hooks
    /\ hooks' = hooks \ {t}
    /\ polled' \in {polled, TRUE}
    /\ \/ /\ t \notin standing /\ excl = t /\ Exact(t)     \* acknowledged
          /\ status' = [status EXCEPT ![t] = IF @ = "dispatching" THEN "running" ELSE @]
          /\ proof' = IF status[t] \in {"dispatching", "running"} THEN Proven ELSE proof
          /\ UNCHANGED excl
       \/ /\ t \in standing /\ stand = t /\ Bound(t) /\ Exact(t)
          /\ status' = [status EXCEPT ![t] = IF @ = "dispatching" THEN "running" ELSE @]
          /\ UNCHANGED <<proof, excl>>
       \/ /\ ~(t \in standing /\ stand = t /\ Bound(t) /\ Exact(t))
          /\ excl \notin {None, t}                          \* another task's prompt
          /\ FailBoundTask
          /\ proof' = FALSE
       \/ /\ ~(t \in standing /\ stand = t /\ Bound(t) /\ Exact(t))
          /\ excl = None \/ (excl = t /\ ~Exact(t))
          /\ UNCHANGED <<status, proof, excl>>
    /\ UNCHANGED <<standing, tsid, cards, calls, inj, got, stand, resv, sid,
                   boot, old, rebrand, alive, turn, member, crashes>>

\* The provider never sends the hook, or it is fenced.
HookLost(t) ==
    /\ t \in hooks
    /\ hooks' = hooks \ {t}
    /\ UNCHANGED <<journal, cards, calls, inj, got, session, memory,
                   alive, turn, member, crashes>>

\* The owner types in the worker's terminal.
LocalPrompt ==
    /\ alive
    /\ turn' = None /\ polled' = TRUE
    /\ resv' = IF resv = "none" THEN "provider" ELSE resv
    /\ IF excl = None THEN UNCHANGED <<status, excl, proof>>
                      ELSE FailBoundTask /\ proof' = FALSE
    /\ UNCHANGED <<standing, tsid, cards, calls, inj, got, stand, sid,
                   boot, old, rebrand, alive, hooks, member, crashes>>

\* appendTeamTaskReply by the exact worker
WorkerReply(t) ==
    /\ alive /\ got[t] > 0 /\ Bound(t) /\ Exact(t) /\ Projection(t) = t
    /\ status' = [status EXCEPT ![t] = IF @ = "dispatching" THEN "running" ELSE @]
    /\ proof' = IF t \in standing THEN proof ELSE Proven
    /\ UNCHANGED <<standing, tsid, cards, calls, inj, got, session,
                   polled, boot, old, rebrand, provider, member, crashes>>

\* A turn ends: the final of the bound exclusive task is its report, or its
\* failure; any other final reports nothing.
TurnEnds ==
    /\ alive
    /\ turn # None \/ polled
    /\ turn' = None /\ polled' = FALSE
    /\ resv' \in IF excl \in {None, turn} THEN {"none"} ELSE {"none", resv}
    /\ IF turn # None /\ excl = turn /\ Bound(turn) /\ Exact(turn)
       THEN /\ proof' = FALSE
            /\ \/ status' = [status EXCEPT ![turn] = "awaiting_release"] /\ UNCHANGED excl
               \/ FailBoundTask
       ELSE UNCHANGED <<status, excl, proof>>
    /\ UNCHANGED <<standing, tsid, cards, calls, inj, got, stand, sid,
                   boot, old, rebrand, alive, hooks, member, crashes>>

\* requestTeamTaskCompletion of a standing task
StandingDeclared(t) ==
    /\ alive /\ t \in standing /\ status[t] = "running" /\ Exact(t) /\ stand = t
    /\ status' = [status EXCEPT ![t] = "awaiting_release"]
    /\ UNCHANGED <<standing, tsid, cards, calls, inj, got, session, memory,
                   provider, member, crashes>>

-----------------------------------------------------------------------------
(* The coordinator and the owner. *)

\* releaseTeamTask and its binding
Release(t) ==
    /\ status[t] = "awaiting_release" /\ Exact(t) /\ Projection(t) = t
    /\ status' = [status EXCEPT ![t] = "completed"]
    /\ ReleaseBinding(t)
    /\ UNCHANGED <<standing, tsid, cards, calls, inj, got, resv, sid,
                   memory, provider, member, crashes>>

\* cancelQueuedTeamTask: queued work, or a standing task at any time
Cancel(t) ==
    /\ status[t] = "queued" \/ (t \in standing /\ Bound(t))
    /\ status' = [status EXCEPT ![t] = "cancelled"]
    /\ ReleaseBinding(t)
    /\ UNCHANGED <<standing, tsid, cards, calls, inj, got, resv, sid,
                   memory, provider, member, crashes>>

\* removeTeamWorker and revokeCancelledTeamTasks
RemoveWorker ==
    /\ member
    /\ member' = FALSE
    /\ status' = [t \in Task |-> IF Active(t) THEN "cancelled" ELSE status[t]]
    /\ stand' = IF stand \in Task /\ Active(stand) THEN None ELSE stand
    /\ IF excl \in Task /\ Active(excl)
       THEN excl' = None /\ resv' = "none" /\ proof' = FALSE
       ELSE UNCHANGED <<excl, resv, proof>>
    /\ UNCHANGED <<standing, tsid, cards, calls, inj, got, sid,
                   polled, boot, old, rebrand, provider, crashes>>

AddWorker ==
    /\ ~member /\ member' = TRUE
    /\ UNCHANGED <<journal, cards, calls, inj, got, session, memory, provider, crashes>>

-----------------------------------------------------------------------------
(* The worker's process and its native identity. *)

\* SessionEnd: a reported task keeps its reservation.
SessionEnds ==
    /\ alive /\ alive' = FALSE /\ turn' = None
    /\ polled' = FALSE /\ resv' = "none" /\ proof' = FALSE
    /\ IF excl \in Task /\ status[excl] = "awaiting_release" /\ Exact(excl)
       THEN UNCHANGED <<status, excl>>
       ELSE FailBoundTask
    /\ UNCHANGED <<standing, tsid, cards, calls, inj, got, stand, sid,
                   boot, old, rebrand, hooks, member, crashes>>

\* The process disappears without a hook.
ProviderDies ==
    /\ alive /\ alive' = FALSE /\ turn' = None
    /\ UNCHANGED <<journal, cards, calls, inj, got, session, memory, hooks, member, crashes>>

Resume ==
    /\ ~alive /\ alive' = TRUE
    /\ UNCHANGED <<journal, cards, calls, inj, got, session, memory, turn, hooks, member, crashes>>

\* onHook with a new native id in the same terminal (/clear): the exclusive
\* task fails first, and Slack is awaited before the session is renamed.
RebrandFails ==
    /\ alive /\ ~rebrand /\ sid < MaxRename
    /\ rebrand' = TRUE /\ turn' = None
    /\ FailBoundTask
    /\ proof' = IF excl = None THEN proof ELSE FALSE
    /\ UNCHANGED <<standing, tsid, cards, calls, inj, got, stand, resv, sid,
                   polled, boot, old, alive, hooks, member, crashes>>

RebrandRenames ==
    /\ rebrand /\ rebrand' = FALSE
    /\ sid < MaxRename /\ sid' = sid + 1
    /\ UNCHANGED <<journal, cards, calls, inj, got, excl, stand, resv,
                   polled, proof, boot, old, provider, member, crashes>>

-----------------------------------------------------------------------------
(* reconcileTeamTasks and restarts. *)

BoundExact(S) == {t \in S : Bound(t) /\ Exact(t)}

\* reconcileBindingProjection: a stale name is cleared, the only bound task of
\* the exact session is restored, a conflict is left alone.
Repaired(name, S) ==
    LET kept == IF name \in BoundExact(S) THEN name ELSE None
        only == {t \in S : BoundExact(S) = {t}}
    IN  IF kept = None /\ only # {} THEN CHOOSE t \in only : TRUE ELSE kept

Repair ==
    /\ excl' = Repaired(excl, Task \ standing)
    /\ stand' = Repaired(stand, standing)
    /\ proof' \in IF excl' \notin {None, excl} /\ polled THEN {Proven, proof} ELSE {proof}

\* repairDurableTeamBindings, at the start of every sweep
Sweep ==
    /\ ~boot
    /\ Repair
    /\ UNCHANGED <<journal, cards, calls, inj, got, resv, sid,
                   polled, boot, old, rebrand, provider, member, crashes>>

BindingLost(t) == ~Exact(t) \/ Projection(t) # t

\* The worker lost exact authority, or an unreported exclusive worker is gone.
\* A sweep meets a missing projection only when it was cleared after that
\* sweep's repair.
AuthorityLost(t) ==
    /\ ~boot /\ Bound(t)
    /\ \/ ~Exact(t)
       \/ Projection(t) # t
       \/ t \notin standing /\ ~alive /\ status[t] # "awaiting_release"
    /\ Fail(t)
    /\ IF Exact(t) THEN ReleaseBinding(t) ELSE UNCHANGED <<excl, stand>>
    /\ UNCHANGED <<standing, tsid, cards, calls, inj, got, resv, sid,
                   memory, provider, member, crashes>>

\* The slip of leaving an exclusive claim to its worker.
DispatchTimeout_StandingOnly(t) ==
    /\ ~boot /\ status[t] = "dispatching" /\ ~BindingLost(t)
    /\ t \in standing
    /\ ~polled /\ inj[t] \in {"none", "audit"}
    /\ Fail(t) /\ ReleaseBinding(t)
    /\ resv' = IF t \in standing /\ resv = "standing" THEN "none" ELSE resv
    /\ UNCHANGED <<standing, tsid, cards, calls, inj, got, sid,
                   memory, provider, member, crashes>>

\* No acknowledgement for five minutes, longer than any write, and no poller.
DispatchTimeout(t) ==
    /\ ~boot /\ status[t] = "dispatching" /\ ~BindingLost(t)
    /\ alive \/ t \in standing
    /\ ~polled /\ inj[t] \in {"none", "audit"}
    /\ Fail(t) /\ ReleaseBinding(t)
    /\ resv' = IF t \in standing /\ resv = "standing" THEN "none" ELSE resv
    /\ UNCHANGED <<standing, tsid, cards, calls, inj, got, sid,
                   memory, provider, member, crashes>>

\* Running since before the restart, and no live proof came back in time.
RestartUnproved(t) ==
    /\ ~boot /\ t \in old \ standing /\ status[t] = "running" /\ ~BindingLost(t)
    /\ alive /\ ~proof
    /\ Fail(t) /\ excl' = None /\ resv' = "none" /\ polled' = FALSE
    /\ UNCHANGED <<standing, tsid, cards, calls, inj, got, stand, sid,
                   proof, boot, old, rebrand, provider, member, crashes>>

\* The seven-day or thirty-day lifetime ended.
Expire(t) ==
    /\ ~boot /\ Active(t)
    /\ Fail(t)
    /\ IF Bound(t) /\ Exact(t) THEN ReleaseBinding(t) ELSE UNCHANGED <<excl, stand>>
    /\ IF Bound(t) /\ Exact(t) /\ t \notin standing
       THEN resv' = "none" /\ proof' = FALSE
       ELSE UNCHANGED <<resv, proof>>
    /\ UNCHANGED <<standing, tsid, cards, calls, inj, got, sid,
                   polled, boot, old, rebrand, provider, member, crashes>>

\* The daemon restarts; repairDurableTeamBindings runs before any ingress.
Crash ==
    /\ crashes < MaxCrash /\ crashes' = crashes + 1
    /\ posting' = {}
    /\ calls' = {}
    /\ inj' = [t \in Task |-> "none"]
    /\ excl' = Repaired(excl, Task \ standing)
    /\ stand' = Repaired(stand, standing)
    /\ polled' = FALSE /\ proof' = FALSE /\ rebrand' = FALSE
    /\ boot' = TRUE
    /\ old' = {t \in Task : Bound(t)}
    /\ UNCHANGED <<journal, visible, got, resv, sid, provider, member>>

\* readoptStatus: a working surface regains its poller and proof; an idle one
\* fails the unreported task, unless a hook proved a turn meanwhile.
Readopt ==
    /\ boot /\ boot' = FALSE
    /\ \/ ~alive /\ resv' = "none" /\ UNCHANGED <<status, excl, polled, proof>>
       \/ /\ alive /\ turn # None
          /\ polled' = TRUE /\ proof' = (proof \/ excl # None)
          /\ UNCHANGED <<status, excl, resv>>
       \/ /\ alive /\ turn = None /\ ~proof /\ ~polled
          /\ resv' = "none"
          /\ IF excl \in Task /\ status[excl] = "awaiting_release"
             THEN UNCHANGED <<status, excl>> ELSE FailBoundTask
          /\ UNCHANGED <<polled, proof>>
       \/ alive /\ turn = None /\ (proof \/ polled) /\ UNCHANGED <<status, excl, resv, polled, proof>>
    /\ UNCHANGED <<standing, tsid, cards, calls, inj, got, stand, sid,
                   old, rebrand, provider, member, crashes>>

-----------------------------------------------------------------------------
Auditing(t) ==
    EnsureAudit(t) \/ AuditPosted(t) \/ AuditFails(t)

Dispatch(t) ==
    \/ DispatchCall(t)
    \/ Claim(t) \/ CallEnds(t)
    \/ InjectStart(t) \/ InjectRefused(t) \/ Land(t)
    \/ InjectAccepted(t) \/ InjectUncertain(t)

WorkerStep(t) ==
    PromptHook(t) \/ HookLost(t) \/ WorkerReply(t) \/ StandingDeclared(t)

Control(t) == Create(t) \/ Release(t) \/ Cancel(t)

Reconcile(t) ==
    AuthorityLost(t) \/ DispatchTimeout(t) \/ RestartUnproved(t) \/ Expire(t)

Next ==
    \/ \E t \in Task : Control(t) \/ Auditing(t) \/ Dispatch(t) \/ WorkerStep(t) \/ Reconcile(t)
    \/ LocalPrompt \/ TurnEnds
    \/ RemoveWorker \/ AddWorker
    \/ SessionEnds \/ ProviderDies \/ Resume \/ RebrandFails \/ RebrandRenames
    \/ Sweep \/ Crash \/ Readopt

Spec == Init /\ [][Next]_vars

\* Every sweep visits every task, and decides between the two; subprocesses
\* and Slack calls have time limits.
Visit(t) == AuthorityLost(t) \/ DispatchTimeout(t)

Fairness ==
    /\ WF_vars(Readopt)
    /\ \A t \in Task : WF_vars(Visit(t)) /\ WF_vars(InjectUncertain(t))

LiveSpec == Spec /\ Fairness

-----------------------------------------------------------------------------
TypeOK ==
    /\ status \in [Task -> {"absent", "queued"} \cup BoundStates \cup Terminal]
    /\ standing \in SUBSET Task
    /\ tsid \in [Task -> 0..MaxRename] /\ sid \in 0..MaxRename
    /\ visible \in SUBSET Task /\ calls \in SUBSET Task
    /\ posting \in SUBSET Task
    /\ inj \in [Task -> {"none", "audit", "sending", "landed"}]
    /\ got \in [Task -> Nat]
    /\ {excl, stand, turn} \subseteq Task \cup {None}
    /\ resv \in {"none", "provider", "standing"}
    /\ {polled, proof, boot, rebrand, alive, member} \subseteq BOOLEAN
    /\ hooks \in SUBSET Task /\ old \in SUBSET Task
    /\ crashes \in 0..MaxCrash

\* The prompt of a task reaches the provider at most once, however many
\* requests and sweeps dispatch it at the same time and whatever restarts.
DispatchedAtMostOnce == \A t \in Task : got[t] <= 1

\* A worker is bound to one task at a time, exclusive or standing, even when
\* the projection of the bound one was lost.
OneBoundTask == \A t, u \in Task : (Bound(t) /\ Bound(u)) => t = u

\* A dispatch claim on an idle worker does not stay claimed for ever.
DispatchSettles ==
    \A t \in Task : status[t] = "dispatching" ~> (status[t] # "dispatching" \/ polled)

\* "Clear the exact session projection of a task that ended"
\* (releaseTeamTaskBinding): a bound task keeps its exact session's
\* projection.  A refused dispatch clears the next task's.
BoundKeepsProjection ==
    \A t \in Task : (Bound(t) /\ Exact(t)) => Projection(t) = t
=============================================================================
