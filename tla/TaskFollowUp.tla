---------------------------- MODULE TaskFollowUp ----------------------------
(***************************************************************************)
(* One delegated task bound to one worker session: its prompt, the         *)
(* coordinator's follow-ups, the worker's checkpoints and completion       *)
(* declaration, the provider's finals, and the release (daemon/teams.mjs,  *)
(* and the delivery code of daemon/daemon.mjs, daemon/prompt-submit.mjs    *)
(* and daemon/team-provider-turn.mjs).                                     *)
(*                                                                         *)
(* The model starts where claimTeamTaskForSession left the task:           *)
(* `dispatching', its prompt on the way.  A coordinator message carries    *)
(* work generation g > 1 and the task prompt generation 1, so a message is *)
(* named by its generation.  The daemon is one event loop: an action is    *)
(* the code between two awaits, and every other action may come between.   *)
(***************************************************************************)
EXTENDS Naturals, Sequences, FiniteSets

CONSTANTS
    MaxGen,      \* bound: instructions the coordinator sends
    MaxClock,    \* bound: observations (turn ends, declarations)
    MaxCrash     \* bound: daemon crashes

ASSUME BoundsAssumption ==
    /\ MaxGen \in Nat \ {0}
    /\ MaxClock \in Nat
    /\ MaxCrash \in Nat

Gen == 1..MaxGen
FollowUp == 2..MaxGen
Clock == 0..MaxClock

VARIABLES
    status,      \* task.status, the terminal failures merged into "ended"
    standing,    \* task.reservation = 'standing'
    workGen,     \* task.workGeneration: instructions accepted
    provGen,     \* task.providerWorkGeneration: newest delivered instruction
    accGen,      \* generation of session.teamProviderTurn, 0 when none
    gates,       \* task.pendingGates is not empty
    decl,        \* task.completionRequest: [at, gen], at = 0 when withdrawn
    msg,         \* delivery state of each coordinator message
    ph,          \* the in-memory delivery operation of each instruction
    pend,        \* generation of session.teamProviderTurnPending, 0 when none
    received,    \* ghost: instructions the provider received, in order
    hooks,       \* received prompts whose UserPromptSubmit hook is still due
    finals,      \* provider finals observed, not yet journaled
    reports,     \* task.reports
    answer,      \* the report whose result the release delivered
    bound,       \* the session projection names this task
    alive,       \* the worker's provider process runs
    clk,         \* provider and daemon observation time
    crashes      \* daemon crashes so far

task == <<status, standing, workGen, provGen, gates, decl, msg, reports, answer>>
session == <<accGen, pend, bound>>
provider == <<received, hooks, alive>>
vars == <<task, session, provider, ph, finals, clk, crashes>>

Final == [gen : Gen, at : Clock, saw : 0..MaxGen, kept : BOOLEAN]
NoFinal == [gen |-> 1, at |-> 0, saw |-> 0, kept |-> FALSE]
NoDecl == [at |-> 0, gen |-> 0]

-----------------------------------------------------------------------------
(* What the handlers read. *)

\* isWorkerBoundTeamTask
Bound == status \in {"dispatching", "running", "awaiting_release"}

\* unresolvedCoordinatorMessages
Unresolved == \E g \in FollowUp : msg[g] \notin {"none", "delivered"}

\* undeliveredTeamMessagePredecessor
PredecessorsDelivered(g) == \A h \in 2..(g - 1) : msg[h] = "delivered"

\* teamMessageDeliveryTails: one message operation of a task at a time.  The
\* dispatch is not in that chain, but its two card updates are queued in both
\* channels before any message can be posted there, and a channel's queue
\* leaves 1100 ms between two calls (slackout.mjs), longer than the paste.
TailIdle == \A g \in Gen : ph[g] = "idle"

\* coordinatorTaskMessageTargetMatches
TargetMatches == Bound /\ bound /\ alive

\* The newest instruction the provider received.
Newest == IF received = <<>> THEN 0 ELSE received[Len(received)]

\* The slip of adding generations up instead of keeping the newest.
Max2_Sum(a, b) == a + b

\* The generation advances monotonically.
Max2(a, b) == IF a >= b THEN a ELSE b

\* invalidateCompletionRequest, when the task was awaiting its release
WithdrawIfAwaiting == decl' = IF status = "awaiting_release" THEN NoDecl ELSE decl

\* The slip of trusting journal order instead of the observation time.
Covers_AnyTime(f) == decl.at > 0 /\ f.gen = workGen

\* reportCoversCompletion
Covers(f) == decl.at > 0 /\ f.gen = workGen /\ f.at >= decl.at

\* completionReport: the first turn to end after the declaration.
IsAnswer(f) == Covers(f) /\ \A o \in reports : Covers(o) => f.at <= o.at

\* teamTaskReleaseReady and the checks of releaseTeamTask
ReleaseReady ==
    /\ status = "awaiting_release"
    /\ decl.at > 0
    /\ ~gates
    /\ ~Unresolved
    /\ provGen = workGen
    /\ decl.gen = workGen
    /\ standing \/ \E f \in reports : Covers(f)

-----------------------------------------------------------------------------
Init ==
    /\ status = "dispatching"
    /\ standing \in BOOLEAN
    /\ workGen = 1 /\ provGen = 1
    /\ accGen = 0
    /\ gates = FALSE
    /\ decl = NoDecl
    /\ msg = [g \in Gen |-> "none"]
    /\ ph = [g \in Gen |-> IF g = 1 THEN "sending" ELSE "idle"]
    /\ pend = IF standing THEN 0 ELSE 1
    /\ received = <<>> /\ hooks = {}
    /\ finals = {} /\ reports = {} /\ answer = NoFinal
    /\ bound = TRUE /\ alive = TRUE
    /\ clk = 0 /\ crashes = 0

-----------------------------------------------------------------------------
(* The transport: tmuxPaste, or Pi's input stream. *)

\* Enter reached the provider: it received the instruction.
Land(g) ==
    /\ ph[g] = "sending" /\ alive
    /\ ph' = [ph EXCEPT ![g] = "landed"]
    /\ received' = Append(received, g)
    /\ hooks' = hooks \cup {g}
    /\ UNCHANGED <<task, session, alive, finals, clk, crashes>>

\* injectText returned: acceptExpectedTeamTurn promotes the staged turn.
DispatchAccepted ==
    /\ ph[1] = "landed"
    /\ ph' = [ph EXCEPT ![1] = "idle"]
    /\ accGen' = IF standing THEN accGen ELSE Max2(accGen, 1)
    /\ pend' = IF pend = 1 THEN 0 ELSE pend
    /\ UNCHANGED <<task, bound, provider, finals, clk, crashes>>

\* uncertainTeamProviderInput: the reservation is retained, nothing is retried.
DispatchUncertain ==
    /\ ph[1] \in {"sending", "landed"}
    /\ ph' = [ph EXCEPT ![1] = "idle"]
    /\ UNCHANGED <<task, session, provider, finals, clk, crashes>>

-----------------------------------------------------------------------------
(* Coordinator follow-ups. *)

\* appendCoordinatorTaskMessage
AppendMessage ==
    /\ Bound
    /\ workGen < MaxGen
    /\ workGen' = workGen + 1
    /\ msg' = [msg EXCEPT ![workGen + 1] = "pending"]
    /\ decl' = NoDecl
    /\ UNCHANGED <<status, standing, provGen, gates, reports, answer,
                   session, provider, ph, finals, clk, crashes>>

\* The slip of retrying a message whose outcome is uncertain.
OpenDelivery_Uncertain(g) ==
    /\ Bound
    /\ msg[g] \in {"pending", "failed", "uncertain"}
    /\ TailIdle
    /\ PredecessorsDelivered(g)
    /\ ph' = [ph EXCEPT ![g] = "audit"]
    /\ UNCHANGED <<task, session, provider, finals, clk, crashes>>

\* The request or the reconciler starts the operation; the two Slack copies
\* and the checks of the live process are awaited in phase "audit".
OpenDelivery(g) ==
    /\ Bound
    /\ msg[g] \in {"pending", "failed"}
    /\ TailIdle
    /\ PredecessorsDelivered(g)
    /\ ph' = [ph EXCEPT ![g] = "audit"]
    /\ UNCHANGED <<task, session, provider, finals, clk, crashes>>

\* A Slack post failed, or a dormant or busy worker keeps its message: the
\* journal is unchanged and a later sweep tries again.
Postpone(g) ==
    /\ ph[g] = "audit"
    /\ ph' = [ph EXCEPT ![g] = "idle"]
    /\ UNCHANGED <<task, session, provider, finals, clk, crashes>>

\* validateCoordinatorTaskMessageTarget failed (a dead process, a question, a
\* permission, maintenance, a lost binding) and no durable target remains.
AuthorityLost(g) ==
    /\ ph[g] = "audit"
    /\ ~(bound /\ (standing \/ status = "awaiting_release"))
    /\ ph' = [ph EXCEPT ![g] = "idle"]
    /\ msg' = [msg EXCEPT ![g] = "failed"]
    /\ UNCHANGED <<status, standing, workGen, provGen, gates, decl, reports, answer,
                   session, provider, finals, clk, crashes>>

\* beginCoordinatorTaskMessageDelivery, and stageTeamProviderTurn for an
\* exclusive task, in one write before the provider sees the input.
BeginDelivery(g) ==
    /\ ph[g] = "audit" /\ TargetMatches
    /\ ph' = [ph EXCEPT ![g] = "sending"]
    /\ msg' = [msg EXCEPT ![g] = "delivering"]
    /\ pend' = IF standing THEN pend ELSE g
    /\ WithdrawIfAwaiting
    /\ UNCHANGED <<status, standing, workGen, provGen, gates, reports, answer,
                   accGen, bound, provider, finals, clk, crashes>>

\* A known rejection before the write: pending again, the stage discarded
\* together with a final retained behind it.
KnownUndelivered(g) ==
    /\ ph[g] = "sending" /\ g \in FollowUp
    /\ ph' = [ph EXCEPT ![g] = "idle"]
    /\ msg' = [msg EXCEPT ![g] = "pending"]
    /\ pend' = IF pend = g THEN 0 ELSE pend
    /\ finals' = {f \in finals : ~(f.kept /\ f.gen = g /\ pend = g)}
    /\ UNCHANGED <<status, standing, workGen, provGen, gates, decl, reports, answer,
                   accGen, bound, provider, clk, crashes>>

\* completeCoordinatorTaskMessageDelivery of a message not yet delivered
Complete(g) ==
    /\ WithdrawIfAwaiting
    /\ provGen' = Max2(provGen, g)
    /\ msg' = [msg EXCEPT ![g] = "delivered"]
    /\ status' = "running"

\* The transport returned: activateSubmittedTurn, then the completion, which
\* changes nothing when the prompt hook completed the message first.
Accepted(g) ==
    /\ ph[g] = "landed" /\ g \in FollowUp
    /\ standing \/ TargetMatches
    /\ msg[g] = "delivered" \/ Bound
    /\ ph' = [ph EXCEPT ![g] = "idle"]
    /\ accGen' = IF standing THEN accGen ELSE Max2(accGen, g)
    /\ pend' = IF pend = g THEN 0 ELSE pend
    /\ IF msg[g] = "delivered"
       THEN UNCHANGED <<status, provGen, decl, msg>>
       ELSE Complete(g)
    /\ UNCHANGED <<standing, workGen, gates, reports, answer,
                   bound, provider, finals, clk, crashes>>

\* The outcome is uncertain: the transport failed after the paste began, or
\* the worker changed meanwhile, or the task ended.  A message the hook
\* completed stays delivered.
DeliveryUncertain(g) ==
    /\ ph[g] \in {"sending", "landed"} /\ g \in FollowUp
    /\ ph' = [ph EXCEPT ![g] = "idle"]
    /\ msg' = [msg EXCEPT ![g] = IF @ = "delivered" THEN @ ELSE "uncertain"]
    /\ UNCHANGED <<status, standing, workGen, provGen, gates, decl, reports, answer,
                   session, provider, finals, clk, crashes>>

\* recoverInterruptedTeamMessage, after a restart
InterruptedRecovered(g) ==
    /\ Bound
    /\ msg[g] = "delivering" /\ TailIdle
    /\ PredecessorsDelivered(g)
    /\ msg' = [msg EXCEPT ![g] = "uncertain"]
    /\ UNCHANGED <<status, standing, workGen, provGen, gates, decl, reports, answer,
                   session, provider, ph, finals, clk, crashes>>

\* The slip of settling only the messages that never left the journal.
EndedBeforeDelivery_Pending(g) ==
    /\ ~Bound
    /\ msg[g] = "pending"
    /\ msg' = [msg EXCEPT ![g] = "failed"]
    /\ UNCHANGED <<status, standing, workGen, provGen, gates, decl, reports, answer,
                   session, provider, ph, finals, clk, crashes>>

\* reconcileTeamTasks: the task ended before the message was delivered.
EndedBeforeDelivery(g) ==
    /\ ~Bound
    /\ msg[g] \in {"pending", "delivering"}
    /\ msg' = [msg EXCEPT ![g] = "failed"]
    /\ UNCHANGED <<status, standing, workGen, provGen, gates, decl, reports, answer,
                   session, provider, ph, finals, clk, crashes>>

-----------------------------------------------------------------------------
(* The prompt hook (handlePromptSubmit). *)

\* providerPromptAcknowledgesTask: the staged generation; or, once nothing is
\* staged for it, the current one.
Acknowledges(g) == pend = g \/ (provGen = g /\ accGen >= g)

\* The slip of settling the newest message, whichever prompt the hook carried.
Acknowledge_Newest(g) ==
    IF workGen > 1 /\ msg[workGen] \in {"delivering", "uncertain"} /\ Bound
    THEN Complete(workGen)
    ELSE UNCHANGED <<status, provGen, decl, msg>>

\* acknowledgeCoordinatorTaskMessageDelivery, or markTeamTaskRunning for the
\* task prompt.
Acknowledge(g) ==
    IF g > 1
    THEN IF msg[g] \in {"delivering", "uncertain"} /\ Bound
         THEN Complete(g)
         ELSE UNCHANGED <<status, provGen, decl, msg>>
    ELSE /\ status' = IF status = "dispatching" THEN "running" ELSE status
         /\ UNCHANGED <<provGen, decl, msg>>

\* The hook of an exclusive task's prompt, matched with the staged turn or
\* with the accepted one.
ExclusiveHook(g) ==
    /\ g \in hooks /\ ~standing
    /\ bound /\ Acknowledges(g)
    /\ hooks' = hooks \ {g}
    /\ accGen' = Max2(accGen, g)
    /\ pend' = IF pend = g THEN 0 ELSE pend
    /\ Acknowledge(g)
    /\ UNCHANGED <<standing, workGen, gates, reports, answer,
                   bound, received, alive, ph, finals, clk, crashes>>

\* standingTeamPromptAcknowledgement: the journaled digest of a delivery that
\* is still pending.
StandingHook(g) ==
    /\ g \in hooks /\ standing /\ bound
    /\ hooks' = hooks \ {g}
    /\ Acknowledge(g)
    /\ UNCHANGED <<standing, workGen, gates, reports, answer,
                   session, received, alive, ph, finals, clk, crashes>>

\* A hook that matches nothing is ignored: an older generation, a binding
\* that is gone, or an observation time before the recorded acceptance.  The
\* provider may also never send it.
HookIgnored(g) ==
    /\ g \in hooks
    /\ standing \/ ~bound \/ pend # g
    /\ hooks' = hooks \ {g}
    /\ UNCHANGED <<task, session, received, alive, ph, finals, clk, crashes>>

-----------------------------------------------------------------------------
(* The worker's own calls, and the provider's finals. *)

\* recordTeamWorkerProof: a call of the exact worker proves only the initial
\* dispatch.
WorkerProof ==
    IF ~standing /\ provGen = 1 /\ pend = 1
    THEN accGen' = Max2(accGen, 1) /\ pend' = 0
    ELSE UNCHANGED <<accGen, pend>>

\* appendTeamTaskReply; a checkpoint also replaces the pending gates and
\* withdraws the declaration.
Reply ==
    /\ bound /\ alive /\ Bound /\ received # <<>>
    /\ \/ UNCHANGED <<gates, decl>>
       \/ gates' \in BOOLEAN /\ decl' = NoDecl
    /\ status' = IF \/ status = "dispatching"
                    \/ standing /\ status = "awaiting_release" /\ decl'.at = 0
                 THEN "running" ELSE status
    /\ WorkerProof
    /\ UNCHANGED <<standing, workGen, provGen, msg, reports, answer,
                   bound, provider, ph, finals, clk, crashes>>

\* The slip of checking only the generation and the gates.
MayDeclare_IgnoresMessages(g) ==
    /\ g \in {received[i] : i \in 1..Len(received)}
    /\ provGen = g
    /\ decl.at = 0
    /\ ~gates

\* The checks of requestTeamTaskCompletion; the worker states the generation
\* of a prompt it has received.
MayDeclare(g) ==
    /\ g \in {received[i] : i \in 1..Len(received)}
    /\ provGen = g
    /\ ~Unresolved
    /\ decl.at = 0
    /\ ~gates

\* requestTeamTaskCompletion
Declare(g) ==
    /\ bound /\ alive /\ Bound
    /\ MayDeclare(g)
    /\ clk < MaxClock /\ clk' = clk + 1
    /\ decl' = [at |-> clk + 1, gen |-> provGen]
    /\ status' = IF standing THEN "awaiting_release"
                 ELSE IF status = "dispatching" THEN "running" ELSE status
    /\ WorkerProof
    /\ UNCHANGED <<standing, workGen, provGen, gates, msg, reports, answer,
                   bound, provider, ph, finals, crashes>>

\* A provider turn ends and its final belongs to the accepted generation.
TurnEnds ==
    /\ ~standing /\ alive /\ received # <<>> /\ accGen > 0
    /\ clk < MaxClock /\ clk' = clk + 1
    /\ finals' = finals \cup
         {[gen |-> accGen, at |-> clk + 1, saw |-> Newest, kept |-> FALSE]}
    /\ UNCHANGED <<task, session, provider, ph, crashes>>

\* deferPendingTeamProviderFinal: a final that overtakes the settlement of a
\* staged input is retained behind that generation.  With no accepted turn
\* yet, the first generation also takes a final the prompt did not start.
FinalDeferred ==
    /\ ~standing /\ alive
    /\ pend # 0
    /\ pend = Newest \/ (pend = 1 /\ accGen = 0)
    /\ \A f \in finals : f.kept => f.gen = pend
    /\ clk < MaxClock /\ clk' = clk + 1
    /\ finals' = {f \in finals : ~f.kept} \cup
         {[gen |-> pend, at |-> clk + 1, saw |-> Newest, kept |-> TRUE]}
    /\ UNCHANGED <<task, session, provider, ph, crashes>>

\* currentTeamTaskProviderTurn, and the checks of finishTeamTaskForSession
Reportable(f) == /\ bound /\ Bound
                 /\ f.gen = provGen
                 /\ f.kept => (pend # f.gen /\ accGen >= f.gen)

\* finishTeamTaskForSession -> reportTeamTaskTurn
ReportTurn(f) ==
    /\ f \in finals /\ Reportable(f)
    /\ finals' = finals \ {f}
    /\ reports' = reports \cup {f}
    /\ status' = "awaiting_release"
    /\ UNCHANGED <<standing, workGen, provGen, gates, decl, msg, answer,
                   session, provider, ph, clk, crashes>>

\* A stale final is ignored; a retained one is cleared once it is superseded.
DropFinal(f) ==
    /\ f \in finals
    /\ ~(bound /\ Bound) \/ f.gen # provGen
    /\ f.kept => pend # f.gen
    /\ finals' = finals \ {f}
    /\ UNCHANGED <<task, session, provider, ph, clk, crashes>>

-----------------------------------------------------------------------------
(* The end of the task, and what surrounds it. *)

\* releaseTeamTask and releaseTeamTaskBinding, by the coordinator or by
\* autoReleaseTeamTask
Release ==
    /\ bound
    /\ ReleaseReady
    /\ status' = "completed"
    /\ IF standing THEN answer' = answer
       ELSE \E f \in reports : IsAnswer(f) /\ answer' = f
    /\ bound' = FALSE
    /\ UNCHANGED <<standing, workGen, provGen, gates, decl, msg, reports,
                   accGen, pend, provider, ph, finals, clk, crashes>>

\* Every path of failTeamTask: a local prompt, cancellation, expiry, a failed
\* turn, lost authority, an unproved restart.
EndTask ==
    /\ Bound
    /\ status' = "ended"
    /\ bound' = FALSE
    /\ UNCHANGED <<standing, workGen, provGen, gates, decl, msg, reports, answer,
                   accGen, pend, provider, ph, finals, clk, crashes>>

Dies == /\ alive
        /\ alive' = FALSE
        /\ UNCHANGED <<task, session, received, hooks, ph, finals, clk, crashes>>

Resume == /\ ~alive
          /\ alive' = TRUE
          /\ UNCHANGED <<task, session, received, hooks, ph, finals, clk, crashes>>

\* A rebrand or a failed dispatch takes the projection away ...
LoseBinding == /\ bound
               /\ bound' = FALSE
               /\ UNCHANGED <<task, accGen, pend, provider, ph, finals, clk, crashes>>

\* ... and repairDurableTeamBindings restores it from the task.
RepairBinding == /\ ~bound /\ Bound
                 /\ bound' = TRUE
                 /\ UNCHANGED <<task, accGen, pend, provider, ph, finals, clk, crashes>>

\* The daemon dies and restarts: operations in memory and finals that were
\* not retained are gone, everything else is in state.json.
Crash ==
    /\ crashes < MaxCrash
    /\ crashes' = crashes + 1
    /\ ph' = [g \in Gen |-> "idle"]
    /\ finals' = {f \in finals : f.kept}
    /\ UNCHANGED <<task, session, provider, clk>>

-----------------------------------------------------------------------------
Dispatching == DispatchAccepted \/ DispatchUncertain

Delivering(g) ==
    \/ OpenDelivery(g) \/ Postpone(g) \/ AuthorityLost(g)
    \/ BeginDelivery(g) \/ KnownUndelivered(g)
    \/ Accepted(g) \/ DeliveryUncertain(g)
    \/ InterruptedRecovered(g) \/ EndedBeforeDelivery(g)

Hook(g) == ExclusiveHook(g) \/ StandingHook(g) \/ HookIgnored(g)

Surroundings == Dies \/ Resume \/ LoseBinding \/ RepairBinding \/ Crash

Next ==
    \/ Dispatching
    \/ AppendMessage
    \/ \E g \in Gen : Land(g) \/ Hook(g) \/ Declare(g)
    \/ \E g \in FollowUp : Delivering(g)
    \/ Reply \/ TurnEnds \/ FinalDeferred
    \/ \E f \in finals : ReportTurn(f) \/ DropFinal(f)
    \/ Release \/ EndTask
    \/ Surroundings

Spec == Init /\ [][Next]_vars

\* An operation started in this process ends: subprocesses and Slack calls
\* have time limits.  The reconciler visits every task every few seconds, and
\* skips a message of a reported or standing task whose worker is dormant.
OperationEnds(g) == Postpone(g) \/ AuthorityLost(g) \/ DeliveryUncertain(g)
SweepRecovers(g) == /\ alive \/ ~(standing \/ status = "awaiting_release")
                    /\ InterruptedRecovered(g)

Fairness ==
    /\ WF_vars(DispatchUncertain)
    /\ \A g \in FollowUp : /\ WF_vars(OperationEnds(g))
                           /\ WF_vars(SweepRecovers(g))
                           /\ WF_vars(EndedBeforeDelivery(g))

LiveSpec == Spec /\ Fairness

-----------------------------------------------------------------------------
TypeOK ==
    /\ status \in {"dispatching", "running", "awaiting_release", "completed", "ended"}
    /\ standing \in BOOLEAN
    /\ workGen \in Gen /\ provGen \in Gen
    /\ accGen \in 0..MaxGen /\ pend \in 0..MaxGen
    /\ gates \in BOOLEAN
    /\ decl \in [at : Clock, gen : 0..MaxGen]
    /\ msg \in [Gen -> {"none", "pending", "delivering", "delivered", "uncertain", "failed"}]
    /\ ph \in [Gen -> {"idle", "audit", "sending", "landed"}]
    /\ received \in Seq(Gen)
    /\ hooks \in SUBSET Gen
    /\ finals \in SUBSET Final /\ reports \in SUBSET Final
    /\ answer \in Final
    /\ bound \in BOOLEAN /\ alive \in BOOLEAN
    /\ clk \in Clock
    /\ crashes \in 0..MaxCrash

\* A released exclusive task returns the result of a provider turn that had
\* received the newest follow-up, and that ended after the declaration: no
\* delayed final of an earlier turn, no final deferred across a restart and no
\* follow-up accepted meanwhile lets an older answer through
\* (completionReport, releaseTeamTask).
ReleasedAnswerIsCurrent ==
    (status = "completed" /\ ~standing) =>
        answer.saw = workGen /\ answer.gen = workGen

\* While a declaration stands, nothing the coordinator sent is on its way and
\* no gate is pending, whatever arrived between the declaration and now
\* (invalidateCompletionRequest is called on every path that could break it).
DeclarationCurrent ==
    (Bound /\ decl.at > 0) =>
        /\ decl.gen = workGen /\ provGen = workGen
        /\ ~Unresolved
        /\ ~gates

\* A message is journaled as delivered only when the provider has received
\* it, through the transport's return, a late hook, or both.
DeliveredWasReceived ==
    \A g \in FollowUp : msg[g] = "delivered" => \E i \in 1..Len(received) : received[i] = g

\* The follow-up protocol implements the contract: at most once, in order, no
\* follow-up skipped, and no release before the newest one was received.
Contract == INSTANCE TaskContract WITH
    asked <- workGen,
    got <- received,
    phase <- IF Bound THEN "open" ELSE IF status = "completed" THEN "done" ELSE "dropped"

ImplementsContract == Contract!Spec

\* An attempt that a restart or a lost binding interrupts does not stay in
\* flight: its message settles, unless its dormant worker never returns.
DeliverySettles ==
    \A g \in FollowUp : msg[g] = "delivering" ~> (msg[g] # "delivering" \/ ~alive)

\* docs/session-teams.md: a task `remains dispatching until the provider
\* acknowledges the immutable task marker or that exact process journals a
\* task-bound sab team reply'.  The completion of a follow-up's delivery moves
\* it to running without either.
DispatchingUntilAcknowledged ==
    [][(status = "dispatching" /\ status' = "running") =>
         \/ Reply
         \/ \E g \in Gen : ExclusiveHook(g) \/ StandingHook(g) \/ Declare(g)]_vars
=============================================================================
