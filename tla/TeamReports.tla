------------------------------ MODULE TeamReports ------------------------------
(***************************************************************************)
(* The report journal of one bound exclusive task: how provider finals     *)
(* become reports, how the bounded journal ages them out, how each report  *)
(* and the final result reach the coordinator's channel, and how the task  *)
(* is released (src/daemon/teams.mjs, src/daemon/daemon.mjs).              *)
(*                                                                         *)
(* Time is the number of provider turns that have ended: turn t ends at    *)
(* time t, and a declaration made at time d is covered by turns after d.   *)
(* A step is the code between two awaits.  Slack accepts a message once    *)
(* per client_msg_id, so what is visible is a set.  Follow-ups and their   *)
(* generations are in TaskFollowUp.                                        *)
(***************************************************************************)
EXTENDS Naturals, Sequences, SequencesExt, FiniteSetsExt

CONSTANTS
    MaxReports,   \* TEAM_MAX_REPORTS, the journal's limit; at least two
    MaxTurns,     \* bound: provider turns of the task
    MaxFaults     \* bound: failed Slack calls and restarts of the daemon

VARIABLES
    rStatus,      \* task.status
    rPolicy,      \* task.completionPolicy: "release" or "final" (legacy)
    rDecl,        \* when the standing declaration was made, or NoDecl
    rGates,       \* whether a gate is pending
    rEnded,       \* provider turns that have ended
    rFinals,      \* ended turns whose final is still to be handled
    rReports,     \* task.reports
    rSending,     \* teamReportDeliveries: reports being delivered
    rShown,       \* worker turn reports visible in the coordinator's channel
    rCard,        \* [st |-> completionDeliveryStatus, at |-> where its delivery
                  \*   stands, wait |-> the report it awaits, shown |-> visible]
    rResult,      \* the turn whose answer the task returned, 0 for none
    rAuto,        \* whether auto-release performed the release
    rAccepted,    \* history: turns journaled as reports
    rFaults

rVars == <<rStatus, rPolicy, rDecl, rGates, rEnded, rFinals, rReports, rSending, rShown,
           rCard, rResult, rAuto, rAccepted, rFaults>>

Turn == 1..MaxTurns
NoDecl == MaxTurns + 1
Idle == [st |-> "none", at |-> "idle", wait |-> 0, shown |-> FALSE]

\* The session projection of the task ends with it.
WorkerBound == rStatus \in {"running", "awaiting_release"}
Terminal(s) == s \in {"completed", "failed"}

Journal(rs) == {rs[i].turn : i \in DOMAIN rs}
Covering(rs, decl) == {i \in DOMAIN rs : rs[i].turn > decl}

\* The first turn to end after the declaration, as an index; 0 for none.
CompletionReport(rs, decl) ==
    IF Covering(rs, decl) = {} THEN 0
    ELSE CHOOSE i \in Covering(rs, decl) : \A j \in Covering(rs, decl) : rs[i].turn <= rs[j].turn

ReleaseReady ==
    /\ rStatus = "awaiting_release" /\ rDecl # NoDecl /\ ~rGates
    /\ Covering(rReports, rDecl) # {}

PeerCovers == \E i \in Covering(rReports, rDecl) : rReports[i].peer

\* Mutant: the answer is not recognised and ages out as any other report.
Aged_AnswerToo(rs, answer) ==
    LET out == {i \in DOMAIN rs : rs[i].st = "delivered"}
    IN  IF Len(rs) < MaxReports \/ out = {} THEN rs ELSE RemoveAt(rs, Min(out))
\* Reports age out of the journal oldest delivered first, but the answer a
\* release will deliver stays; a full journal of undelivered reports gives up
\* its last one, or the one before when the last is the answer.
Aged(rs, answer) ==
    LET out == {i \in DOMAIN rs : rs[i].st = "delivered" /\ i # answer}
    IN  IF Len(rs) < MaxReports \/ out = {} THEN rs ELSE RemoveAt(rs, Min(out))

\* Mutant: the journal is taken to be full only beyond its limit.
Displace_Late(rs, kept) ==
    IF Len(rs) <= MaxReports THEN rs ELSE RemoveAt(rs, Len(rs))
Displace(rs, kept) ==
    LET last == Len(rs)
    IN  IF last < MaxReports THEN rs
        ELSE RemoveAt(rs, IF rs[last].turn = kept THEN last - 1 ELSE last)

Journaled(rs, decl, report) ==
    LET i == CompletionReport(rs, decl)
        kept == IF i = 0 THEN 0 ELSE rs[i].turn
    IN  Append(Displace(Aged(rs, i), kept), report)

SetStatus(rs, t, st) == [i \in DOMAIN rs |-> IF rs[i].turn = t THEN [rs[i] EXCEPT !.st = st] ELSE rs[i]]

-----------------------------------------------------------------------------
Init ==
    /\ rStatus = "running" /\ rPolicy \in {"release", "final"}
    /\ rDecl = NoDecl /\ rGates = FALSE
    /\ rEnded = 0 /\ rFinals = {} /\ rReports = <<>> /\ rSending = {} /\ rShown = {}
    /\ rCard = Idle /\ rResult = 0
    /\ rAuto = FALSE /\ rAccepted = {}
    /\ rFaults = 0

\* Entering a terminal state stages the completion card; its delivery starts in
\* the same step and first awaits the reports that are not delivered yet.
\* Finals still to come find no task in the session and are dropped.
Ends(status, result) ==
    /\ rStatus' = status
    /\ rResult' = result
    /\ rCard' = [rCard EXCEPT !.st = "pending", !.at = "reports"]
    /\ rFinals' = {}

StartDelivery(t) ==
    /\ rSending' = rSending \cup {t}
    /\ rReports' = SetStatus(rReports, t, "delivering")

-----------------------------------------------------------------------------
\* The worker and its provider.
TurnEnds ==
    /\ WorkerBound /\ rEnded < MaxTurns
    /\ rEnded' = rEnded + 1
    /\ rFinals' = rFinals \cup {rEnded + 1}
    /\ UNCHANGED <<rStatus, rPolicy, rDecl, rGates, rReports, rSending, rShown, rCard, rResult,
                   rAuto, rAccepted, rFaults>>

Declare ==
    /\ WorkerBound /\ rPolicy = "release"
    /\ rDecl = NoDecl /\ ~rGates
    /\ rDecl' = rEnded
    /\ UNCHANGED <<rStatus, rPolicy, rGates, rEnded, rFinals, rReports, rSending, rShown, rCard,
                   rResult, rAuto, rAccepted, rFaults>>

\* A checkpoint replaces the gates and withdraws the declaration.
Checkpoint ==
    /\ WorkerBound
    /\ \E g \in BOOLEAN : rGates' = g
    /\ rDecl' = NoDecl
    /\ UNCHANGED <<rStatus, rPolicy, rEnded, rFinals, rReports, rSending, rShown, rCard, rResult,
                   rAuto, rAccepted, rFaults>>

\* The Stop hook, the poller and the App Server may all hand over the same
\* final: it is handled once more, or not.
Again(t) == rFinals' \in {rFinals, rFinals \ {t}}

\* A final the task takes nothing from: a handover holds it, the session
\* no longer holds the task, the turn was started by another session's
\* message, or its report is in the journal already.
FinalIgnored(t) ==
    /\ t \in rFinals
    /\ rFinals' = rFinals \ {t}
    /\ UNCHANGED <<rStatus, rPolicy, rDecl, rGates, rEnded, rReports, rSending, rShown, rCard,
                   rResult, rAuto, rAccepted, rFaults>>

\* A turn that failed fails the task, unless another session's message reached
\* it; a legacy task completes or fails with its first final.
FinalEnds(t) ==
    /\ t \in rFinals /\ WorkerBound
    /\ \/ Ends("failed", 0)
       \/ rPolicy = "final" /\ rStatus = "running" /\ Ends("completed", t)
    /\ UNCHANGED <<rPolicy, rDecl, rGates, rEnded, rReports, rSending, rShown, rAuto, rAccepted,
                   rFaults>>

\* reportTeamTaskTurn: a new report, with the mark of a message that joined the
\* turn, and the start of its delivery.
FinalReported(t, peer) ==
    /\ t \in rFinals /\ WorkerBound /\ rPolicy = "release"
    /\ t \notin Journal(rReports)
    /\ Again(t)
    /\ rReports' = Journaled(rReports, rDecl, [turn |-> t, peer |-> peer, st |-> "delivering"])
    /\ rSending' = rSending \cup {t}
    /\ rStatus' = "awaiting_release"
    /\ rAccepted' = rAccepted \cup {t}
    /\ UNCHANGED <<rPolicy, rDecl, rGates, rEnded, rShown, rCard, rResult, rAuto, rFaults>>

\* The task expires or its worker loses authority.
TaskFails ==
    /\ WorkerBound
    /\ Ends("failed", 0)
    /\ UNCHANGED <<rPolicy, rDecl, rGates, rEnded, rReports, rSending, rShown, rAuto, rAccepted,
                   rFaults>>

-----------------------------------------------------------------------------
\* Release by the coordinator, and by SAB for a team that opted in.
Released(auto) ==
    /\ ReleaseReady
    /\ Ends("completed", rReports[CompletionReport(rReports, rDecl)].turn)
    /\ rAuto' = auto
    /\ UNCHANGED <<rPolicy, rDecl, rGates, rEnded, rReports, rSending, rShown, rAccepted,
                   rFaults>>

Release == Released(FALSE)

\* Mutant: auto-release does not ask whether a message reached the answer.
MayAutoRelease_Always == TRUE
MayAutoRelease == ~PeerCovers

AutoRelease == MayAutoRelease /\ Released(TRUE)

-----------------------------------------------------------------------------
\* Delivery of a report: started by the final, by the reconciler or by the
\* completion card; one operation per report.
Redeliver(t) ==
    /\ \E i \in DOMAIN rReports : rReports[i].turn = t /\ rReports[i].st # "delivered"
    /\ t \notin rSending
    /\ StartDelivery(t)
    /\ UNCHANGED <<rStatus, rPolicy, rDecl, rGates, rEnded, rFinals, rShown, rCard, rResult,
                   rAuto, rAccepted, rFaults>>

ReportConfirmed(t) ==
    /\ t \in rSending
    /\ rShown' = rShown \cup {t}
    /\ rReports' = SetStatus(rReports, t, "delivered")
    /\ rSending' = rSending \ {t}
    /\ rCard' = IF rCard.wait = t THEN [rCard EXCEPT !.wait = 0] ELSE rCard
    /\ UNCHANGED <<rStatus, rPolicy, rDecl, rGates, rEnded, rFinals, rResult, rAuto, rAccepted,
                   rFaults>>

\* Slack refuses the report, or its answer is lost: the report is pending
\* again, and a completion card that awaited it gives up.
ReportRefused(t) ==
    /\ t \in rSending /\ rFaults < MaxFaults
    /\ rFaults' = rFaults + 1
    /\ rShown' \in {rShown, rShown \cup {t}}
    /\ rReports' = SetStatus(rReports, t, "pending")
    /\ rSending' = rSending \ {t}
    /\ rCard' = IF rCard.wait = t THEN [rCard EXCEPT !.at = "idle", !.wait = 0] ELSE rCard
    /\ UNCHANGED <<rStatus, rPolicy, rDecl, rGates, rEnded, rFinals, rResult, rAuto, rAccepted>>

-----------------------------------------------------------------------------
\* Delivery of the result (performTeamCompletionDelivery).
Undelivered == {i \in DOMAIN rReports : rReports[i].st # "delivered"}

\* Mutant: a delivery that a restart cut short is not started again.
CardDue_Pending == rCard.st = "pending"
CardDue == rCard.st # "delivered"

\* The reconciler starts the delivery again.
CardRetry ==
    /\ Terminal(rStatus)
    /\ CardDue /\ rCard.at = "idle"
    /\ rCard' = [rCard EXCEPT !.at = "reports"]
    /\ UNCHANGED <<rStatus, rPolicy, rDecl, rGates, rEnded, rFinals, rReports, rSending, rShown,
                   rResult, rAuto, rAccepted, rFaults>>

CardAwaits ==
    /\ rCard.at = "reports" /\ rCard.wait = 0 /\ Undelivered # {}
    /\ LET t == rReports[Min(Undelivered)].turn
       IN  /\ StartDelivery(t)
           /\ rCard' = [rCard EXCEPT !.wait = t]
    /\ UNCHANGED <<rStatus, rPolicy, rDecl, rGates, rEnded, rFinals, rShown, rResult, rAuto,
                   rAccepted, rFaults>>

\* Mutant: the result is posted without waiting for the reports before it.
CardMayPost_AtOnce == TRUE
CardMayPost == Undelivered = {}

CardPosts ==
    /\ rCard.at = "reports" /\ rCard.wait = 0 /\ CardMayPost
    /\ rCard' = [rCard EXCEPT !.st = "delivering", !.at = "posting"]
    /\ UNCHANGED <<rStatus, rPolicy, rDecl, rGates, rEnded, rFinals, rReports, rSending, rShown,
                   rResult, rAuto, rAccepted, rFaults>>

CardConfirmed ==
    /\ rCard.at = "posting"
    /\ rCard' = [rCard EXCEPT !.st = "delivered", !.at = "idle", !.shown = TRUE]
    /\ UNCHANGED <<rStatus, rPolicy, rDecl, rGates, rEnded, rFinals, rReports, rSending, rShown,
                   rResult, rAuto, rAccepted, rFaults>>

CardRefused ==
    /\ rCard.at = "posting" /\ rFaults < MaxFaults
    /\ rFaults' = rFaults + 1
    /\ \E seen \in {rCard.shown, TRUE} :
           rCard' = [rCard EXCEPT !.st = "pending", !.at = "idle", !.shown = seen]
    /\ UNCHANGED <<rStatus, rPolicy, rDecl, rGates, rEnded, rFinals, rReports, rSending, rShown,
                   rResult, rAuto, rAccepted>>

\* A restart ends every operation in progress; the journal is on disk.
Crash ==
    /\ rFaults < MaxFaults
    /\ rFaults' = rFaults + 1
    /\ rSending' = {}
    /\ \E seen \in SUBSET rSending : rShown' = rShown \cup seen
    /\ \E seen \in {rCard.shown, rCard.shown \/ rCard.at = "posting"} :
           rCard' = [rCard EXCEPT !.at = "idle", !.wait = 0, !.shown = seen]
    /\ UNCHANGED <<rStatus, rPolicy, rDecl, rGates, rEnded, rFinals, rReports, rResult, rAuto,
                   rAccepted>>

-----------------------------------------------------------------------------
Next ==
    \/ TurnEnds \/ Declare \/ Checkpoint \/ TaskFails
    \/ \E t \in rFinals : \/ FinalIgnored(t) \/ FinalEnds(t)
                          \/ \E peer \in BOOLEAN : FinalReported(t, peer)
    \/ Release \/ AutoRelease
    \/ \E t \in Turn : \/ Redeliver(t) \/ ReportConfirmed(t) \/ ReportRefused(t)
    \/ CardRetry \/ CardAwaits \/ CardPosts \/ CardConfirmed \/ CardRefused
    \/ Crash

Spec == Init /\ [][Next]_rVars

\* Slack answers every call, and the delivery of the result, one operation at a
\* time, goes on or is started again by the reconciler.
CardStep == CardRetry \/ CardAwaits \/ CardPosts \/ CardConfirmed

Fairness == WF_rVars(\E t \in Turn : ReportConfirmed(t)) /\ WF_rVars(CardStep)

LiveSpec == Spec /\ Fairness

-----------------------------------------------------------------------------
ReportStatus == {"pending", "delivering", "delivered"}
Report == [turn : Turn, peer : BOOLEAN, st : ReportStatus]

CardStatus == {"none", "pending", "delivering", "delivered"}
CardPlace == {"idle", "reports", "posting"}
ResultCard == [st : CardStatus, at : CardPlace, wait : 0..MaxTurns, shown : BOOLEAN]

TypeOK ==
    /\ rStatus \in {"running", "awaiting_release", "completed", "failed"}
    /\ rPolicy \in {"release", "final"}
    /\ rDecl \in 0..NoDecl /\ rGates \in BOOLEAN
    /\ rEnded \in 0..MaxTurns /\ rFinals \subseteq Turn
    /\ rReports \in Seq(Report) /\ Len(rReports) <= MaxReports
    /\ rSending \subseteq Turn /\ rShown \subseteq Turn
    /\ rCard \in ResultCard
    /\ rResult \in 0..MaxTurns /\ rAuto \in BOOLEAN
    /\ rAccepted \subseteq Turn
    /\ rFaults \in 0..MaxFaults

\* The worker's answer, the first journaled turn to end after the declaration,
\* survives every report that follows it at the journal's limit, in whatever
\* order the finals arrive; and it is the answer a release returns
\* (reportTeamTaskTurn, completionReport, releaseTeamTask).
AnswerKept ==
    LET covering == {t \in rAccepted : t > rDecl}
    IN  (rPolicy = "release" /\ covering # {}) =>
            /\ WorkerBound => Min(covering) \in Journal(rReports)
            /\ rStatus = "completed" => rResult = Min(covering)

\* SAB never releases by itself an answer that a message of another session
\* reached: that is left to the coordinator (autoReleaseTeamTask).
AutoReleaseUntouched ==
    rAuto => \A i \in DOMAIN rReports : rReports[i].turn = rResult => ~rReports[i].peer

\* The result of a task is posted only after every report its journal still
\* holds, whatever failed, crashed or was retried in between
\* (performTeamCompletionDelivery).
ResultAfterReports == rCard.shown => Journal(rReports) \subseteq rShown

\* A task that ended shows its result, although Slack refuses some calls and the
\* daemon restarts (reconcileTeamTask, deliverTeamTaskCompletion).
ResultDelivered == Terminal(rStatus) ~> rCard.st = "delivered"
=============================================================================
