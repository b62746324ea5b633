------------------------------ MODULE TaskCards ------------------------------
(***************************************************************************)
(* The two Slack cards that show a queued task's instruction, and the      *)
(* claim that may follow only when both show the revision being dispatched *)
(* (daemon/team-audit.mjs; ensureTeamTaskAudit, updateTeamTaskPayloadAudit *)
(* and dispatchTeamTask of daemon/daemon.mjs; the claim of teams.mjs).     *)
(*                                                                         *)
(* The request and the reconciler's sweep post and edit the same cards at  *)
(* the same time, while the coordinator replaces the instruction.  An      *)
(* action is the code between two awaits; Slack accepts a call before its  *)
(* response comes back, and may accept one that the daemon sees fail.      *)
(***************************************************************************)
EXTENDS Naturals

CONSTANTS
    MaxVer,      \* bound: revisions of the instruction
    MaxFail,     \* bound: Slack calls that fail
    MaxCrash     \* bound: daemon crashes

ASSUME CardsAssumption ==
    MaxVer \in Nat \ {0} /\ MaxFail \in Nat /\ MaxCrash \in Nat

VARIABLES
    status,      \* task.status: "queued", "claimed" (bound), "ended"
    ver,         \* task.instructionVersion
    aud,         \* task.payloadAuditInstructionVersion; a missing one reads as 1
    prompt,      \* ghost: the revision in the claimed prompt, 0 before
    shown,       \* Slack: the revision each card shows, 0 before it exists
    ts,          \* the cards whose Slack timestamp the task records
    post,        \* each ensureTeamTaskAudit call: the card it posts and the
                 \* revision in flight, 0 once Slack has it
    waiting,     \* an updater run waits behind the current one
    edit,        \* the updater run: its card, the revision it records, the
                 \* revision rendered for the card, and no failure so far
    calls,       \* revisions captured by dispatch calls awaiting readiness
    mode,        \* team.dispatchMode
    fails, crashes

journal == <<status, ver, aud, prompt>>
vars == <<journal, shown, ts, post, waiting, edit, calls, mode, fails, crashes>>

Ver == 1..MaxVer
Side == {"source", "target"}
Caller == {"request", "sweep"}
Post == [side : Side \cup {"none"}, rev : 0..MaxVer]
Edit == [side : Side \cup {"none"}, rev : 0..MaxVer, text : 0..MaxVer, ok : BOOLEAN]
NoPost == [side |-> "none", rev |-> 0]
NoEdit == [side |-> "none", rev |-> 0, text |-> 0, ok |-> TRUE]

\* postSlackMessage of one card, rendered now
Posting(s) == [side |-> s, rev |-> ver]

Init ==
    /\ status = "queued" /\ ver = 1 /\ aud = 1 /\ prompt = 0
    /\ shown = [s \in Side |-> 0] /\ ts = {}
    /\ post = [c \in Caller |-> IF c = "request" THEN Posting("source") ELSE NoPost]
    /\ waiting = FALSE /\ edit = NoEdit
    /\ calls = {} /\ mode = "active"
    /\ fails = 0 /\ crashes = 0

-----------------------------------------------------------------------------
(* ensureTeamTaskAudit *)

\* The sweep meets a queued task without both cards.
PostStart ==
    /\ status = "queued" /\ ts # Side /\ post["sweep"] = NoPost
    /\ post' = [post EXCEPT !["sweep"] =
                   Posting(IF "source" \in ts THEN "target" ELSE "source")]
    /\ UNCHANGED <<journal, shown, ts, waiting, edit, calls, mode, fails, crashes>>

\* Slack creates one message for a client_msg_id: a second post of the same
\* card is the first one's message.
PostLands(c) ==
    /\ post[c].rev # 0
    /\ shown' = [shown EXCEPT ![post[c].side] = IF @ = 0 THEN post[c].rev ELSE @]
    /\ post' = [post EXCEPT ![c].rev = 0]
    /\ UNCHANGED <<journal, ts, waiting, edit, calls, mode, fails, crashes>>

\* The response arrives, after the status card was re-anchored, and the same
\* call goes on with the target's card.
PostReturns(c) ==
    /\ post[c].side # "none" /\ post[c].rev = 0
    /\ ts' = ts \cup {post[c].side}
    /\ post' = [post EXCEPT ![c] = IF "target" \in ts' THEN NoPost ELSE Posting("target")]
    /\ UNCHANGED <<journal, shown, waiting, edit, calls, mode, fails, crashes>>

\* A post failed as seen by the daemon: its task fails, even one that another
\* call has dispatched meanwhile.
PostFails(c) ==
    /\ post[c].side # "none" /\ fails < MaxFail
    /\ fails' = fails + 1
    /\ post' = [post EXCEPT ![c] = NoPost]
    /\ status' = "ended"
    /\ UNCHANGED <<ver, aud, prompt, shown, ts, waiting, edit, calls, mode, crashes>>

-----------------------------------------------------------------------------
(* createPayloadAuditUpdater, one run at a time *)

\* The reconciler, or a dispatch call, finds the recorded revision stale.
RequestEdit ==
    /\ ts = Side /\ aud # ver /\ ~waiting
    /\ waiting' = TRUE
    /\ UNCHANGED <<journal, shown, ts, post, edit, calls, mode, fails, crashes>>

\* A run captures the revision it will record and renders the first card.
EditStart ==
    /\ waiting /\ edit = NoEdit
    /\ waiting' = FALSE
    /\ edit' = [side |-> "source", rev |-> ver, text |-> ver, ok |-> TRUE]
    /\ UNCHANGED <<journal, shown, ts, post, calls, mode, fails, crashes>>

\* The slip of recording the revision that is current at the end of the run.
CardDone_Latest(ok) ==
    IF edit.side = "source"
    THEN /\ edit' = [edit EXCEPT !.side = "target", !.text = ver, !.ok = ok]
         /\ UNCHANGED aud
    ELSE /\ edit' = NoEdit
         /\ aud' = IF ok THEN ver ELSE aud

\* The slip of abandoning the run's record when the last card succeeds.
CardDone_Stuck(ok) ==
    /\ edit' = IF edit.side = "source"
               THEN [edit EXCEPT !.side = "target", !.text = ver, !.ok = ok] ELSE NoEdit
    /\ UNCHANGED aud

\* The slip of forgetting the recorded revision when a run fails.
CardDone_Clears(ok) ==
    IF edit.side = "source"
    THEN /\ edit' = [edit EXCEPT !.side = "target", !.text = ver, !.ok = ok]
         /\ UNCHANGED aud
    ELSE /\ edit' = NoEdit
         /\ aud' = IF ok THEN edit.rev ELSE 0

\* The outcome of one card: the other card is rendered from the instruction
\* of that later moment, and only a run without a failure records anything.
CardDone(ok) ==
    IF edit.side = "source"
    THEN /\ edit' = [edit EXCEPT !.side = "target", !.text = ver, !.ok = ok]
         /\ UNCHANGED aud
    ELSE /\ edit' = NoEdit
         /\ aud' = IF ok THEN edit.rev ELSE aud

EditLands ==
    /\ edit.side \in ts
    /\ shown' = [shown EXCEPT ![edit.side] = edit.text]
    /\ CardDone(edit.ok)
    /\ UNCHANGED <<status, ver, prompt, ts, post, waiting, calls, mode, fails, crashes>>

\* The edit fails for the daemon; Slack may have applied it all the same.
EditFails ==
    /\ edit.side \in ts /\ fails < MaxFail
    /\ fails' = fails + 1
    /\ \E applied \in BOOLEAN :
         shown' = [shown EXCEPT ![edit.side] = IF applied THEN edit.text ELSE @]
    /\ CardDone(FALSE)
    /\ UNCHANGED <<status, ver, prompt, ts, post, waiting, calls, mode, crashes>>

\* "The ... task instruction card does not exist yet."
EditMissing ==
    /\ edit.side \in Side \ ts
    /\ CardDone(FALSE)
    /\ UNCHANGED <<status, ver, prompt, shown, ts, post, waiting, calls, mode, fails, crashes>>

-----------------------------------------------------------------------------
(* The coordinator, the dispatcher and the end of the task *)

\* replaceQueuedTeamTask and the service's own update of the cards
Replace ==
    /\ status = "queued" /\ ver < MaxVer
    /\ ver' = ver + 1
    /\ waiting' = TRUE
    /\ UNCHANGED <<status, aud, prompt, shown, ts, post, edit, calls, mode, fails, crashes>>

\* dispatchTeamTask up to its readiness awaits: files, the process, tmux.  A
\* call that captures a stale recorded revision can never claim and is left out.
DispatchCall ==
    /\ status = "queued" /\ ts = Side /\ aud = ver /\ mode = "active"
    /\ calls' = calls \cup {ver}
    /\ UNCHANGED <<journal, shown, ts, post, waiting, edit, mode, fails, crashes>>

\* The slip of trusting the checks made before the awaits.
MayClaim_NoRecheck(v) ==
    /\ v \in calls
    /\ status = "queued" /\ mode = "active"

\* claimTeamTaskForSession: the captured revision is still the task's and
\* still the recorded one.
MayClaim(v) ==
    /\ v \in calls
    /\ status = "queued" /\ mode = "active"
    /\ ver = v /\ aud = v

\* The worker is ready (TeamDispatch): the prompt carries the current text.
Claim(v) ==
    /\ MayClaim(v)
    /\ status' = "claimed" /\ prompt' = ver
    /\ calls' = calls \ {v}
    /\ UNCHANGED <<ver, aud, shown, ts, post, waiting, edit, mode, fails, crashes>>

CallEnds(v) ==
    /\ v \in calls
    /\ calls' = calls \ {v}
    /\ UNCHANGED <<journal, shown, ts, post, waiting, edit, mode, fails, crashes>>

SetMode ==
    /\ mode' = IF mode = "active" THEN "draining" ELSE "active"
    /\ UNCHANGED <<journal, shown, ts, post, waiting, edit, calls, fails, crashes>>

\* Cancelled, expired, failed, or released after its work
End ==
    /\ status # "ended" /\ status' = "ended"
    /\ UNCHANGED <<ver, aud, prompt, shown, ts, post, waiting, edit, calls, mode, fails, crashes>>

Crash ==
    /\ crashes < MaxCrash /\ crashes' = crashes + 1
    /\ post' = [c \in Caller |-> NoPost]
    /\ waiting' = FALSE /\ edit' = NoEdit /\ calls' = {}
    /\ UNCHANGED <<journal, shown, ts, mode, fails>>

-----------------------------------------------------------------------------
Posts(c) == PostLands(c) \/ PostReturns(c)
Edits == EditStart \/ EditLands \/ EditMissing

Next ==
    \/ PostStart \/ \E c \in Caller : Posts(c) \/ PostFails(c)
    \/ RequestEdit \/ Edits \/ EditFails
    \/ Replace \/ DispatchCall \/ (\E v \in Ver : Claim(v) \/ CallEnds(v))
    \/ SetMode \/ End \/ Crash

Spec == Init /\ [][Next]_vars

\* Every sweep asks for missing cards and for stale ones, and a Slack call
\* that does not fail returns.
Fairness ==
    /\ WF_vars(PostStart) /\ WF_vars(RequestEdit) /\ WF_vars(Edits)
    /\ \A c \in Caller : WF_vars(Posts(c))

LiveSpec == Spec /\ Fairness

-----------------------------------------------------------------------------
TypeOK ==
    /\ status \in {"queued", "claimed", "ended"}
    /\ ver \in Ver /\ aud \in Ver /\ prompt \in 0..MaxVer
    /\ shown \in [Side -> 0..MaxVer] /\ ts \in SUBSET Side
    /\ post \in [Caller -> Post]
    /\ waiting \in BOOLEAN
    /\ edit \in Edit
    /\ calls \in SUBSET Ver
    /\ mode \in {"active", "draining"}
    /\ fails \in 0..MaxFail /\ crashes \in 0..MaxCrash

\* When the recorded revision is the task's own, both cards show it: "dispatch
\* cannot cross a mixed-card intermediate state".
AuditHonest ==
    (ts = Side /\ aud = ver) => \A s \in Side : shown[s] = ver

\* The revision in a dispatched prompt is the one both cards show, from the
\* claim on and for ever.
PromptIsOnCards ==
    prompt # 0 => \A s \in Side : shown[s] = prompt

\* The cards of a task that stays queued catch up with its last revision,
\* after failures, lost responses and restarts.
CardsCatchUp ==
    status = "queued" ~> (status # "queued" \/ (ts = Side /\ aud = ver))
=============================================================================
