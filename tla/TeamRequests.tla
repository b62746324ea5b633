----------------------------- MODULE TeamRequests -----------------------------
(***************************************************************************)
(* The requests of the team API around one delegated task: what is         *)
(* accepted, when it is durable, what the caller is told, and how replies  *)
(* and files reach Slack, with saves that fail, answers that are lost,     *)
(* retries and restarts (teamService and the file and reply deliveries of  *)
(* src/daemon/daemon.mjs, the journal operations of src/daemon/teams.mjs). *)
(*                                                                         *)
(* The journal in memory may be ahead of the one on disk; every save, of   *)
(* whatever part of the daemon, writes all of it.  A step is the code      *)
(* between two awaits.  Which turn answers a task is the subject of        *)
(* TaskFollowUp, its cards that of TaskCards, its claim that of            *)
(* TeamDispatch.                                                           *)
(***************************************************************************)
EXTENDS Naturals, FiniteSets

CONSTANTS
    Ids,          \* request ids; a reply has the id of its request
    None,
    Asked,        \* the <<kind, id>> that the callers may request, again and again
    Files,        \* the replies that carry a file, and "task" if the task does
    MaxReplies,   \* TEAM_MAX_REPLIES
    MaxControls,  \* TEAM_TASK_CONTROL_MAX
    MaxFaults,    \* bound: saves and Slack calls that fail
    MaxCrashes    \* bound: restarts of the daemon

VARIABLES
    rqMem,        \* the task in state.teamTasks; its fields are those of NoTask
    rqDisk,       \* the same in the state file
    rqEdge,       \* the worker's membership: "files", "text" or "gone"
    rqCall,       \* accepted requests whose handler runs: <<kind, id, where it waits>>
    rqOp,         \* teamReplyDeliveries and teamTaskFileDeliveries: what each awaits
    rqUp,         \* uploads of each item that Slack took
    rqTold,       \* requests whose acceptance was confirmed to the caller
    rqFaults, rqCrashes

rqVars == <<rqMem, rqDisk, rqEdge, rqCall, rqOp, rqUp, rqTold, rqFaults, rqCrashes>>

Items == Ids \cup {"task"}
WorkerKinds == {"reply", "raise", "clear", "complete"}
Kinds == WorkerKinds \cup {"send", "message", "replace", "cancel", "release"}
FileStates == {"none", "pending", "uploading", "uploaded", "failed"}

NoTask ==
    [st |-> "none",                          \* "queued", "bound", "ready", "cancelled", "ended"
     sent |-> None,                          \* requestId
     gates |-> FALSE,                        \* pendingGates has members
     declared |-> None, former |-> {},       \* completionRequest, completionRequestHistory
     open |-> FALSE,                         \* a coordinator message is not delivered
     reply |-> [i \in Ids |-> "none"],       \* replies, by request: its kind
     control |-> [i \in Ids |-> "none"],     \* controlRequests
     last |-> <<"none", None>>,              \* terminalRequest
     text |-> {},                            \* replies with textSlackTs
     file |-> [i \in Items |-> "none"],      \* fileDeliveryStatus
     noted |-> {}]                           \* replies with fileDeliveryNotifiedAt

NewFile(i) == IF i \in Files THEN "pending" ELSE "none"
Bound(m) == m.st \in {"bound", "ready"}
Active(m) == Bound(m) \/ m.st = "queued"
Replies(m) == {i \in Ids : m.reply[i] # "none"}
Declarations(m) == m.former \cup ({m.declared} \ {None})
Withdrawn(m) == [m EXCEPT !.declared = None, !.former = Declarations(m)]

\* teamMutationForRequest: the kinds of accepted requests that an id of the worker, or of
\* the coordinator, stands for.
Receipts(m, i, worker) ==
    IF worker THEN ({m.reply[i]} \cup {"complete" : j \in Declarations(m) \cap {i}}) \ {"none"}
    ELSE ({m.control[i]} \cup {"send" : j \in {m.sent} \cap {i}}
              \cup {m.last[1] : j \in {m.last[2]} \cap {i}}) \ {"none"}
Recorded(m, kind, i) == kind \in Receipts(m, i, kind \in WorkerKinds)

Init ==
    /\ rqMem = NoTask /\ rqDisk = NoTask /\ rqEdge = "files"
    /\ rqCall = {} /\ rqOp = [i \in Items |-> "idle"] /\ rqUp = [i \in Items |-> 0]
    /\ rqTold = {} /\ rqFaults = 0 /\ rqCrashes = 0

-----------------------------------------------------------------------------
\* saveStateNow: m is in memory; it is on disk too unless the write fails, which leaves d.
Write(m, d, ok) ==
    /\ rqMem' = m
    /\ IF ok THEN rqDisk' = m /\ UNCHANGED rqFaults
       ELSE rqDisk' = d /\ rqFaults < MaxFaults /\ rqFaults' = rqFaults + 1
Keep(m, ok) == Write(m, rqDisk, ok)

\* An accepted request: its handler goes on once its journal entry is saved.
Accept(kind, i, m, ok, at) ==
    /\ <<kind, i>> \in Asked
    /\ Keep(m, ok)
    /\ rqCall' = IF ok THEN rqCall \cup {<<kind, i, at>>} ELSE rqCall
    /\ UNCHANGED <<rqEdge, rqOp, rqUp, rqTold, rqCrashes>>

\* Mutant: it is confirmed from the journal in memory.
Reconfirm_NoSave(kind, i, ok) ==
    /\ <<kind, i>> \in Asked /\ Recorded(rqMem, kind, i)
    /\ rqTold' = rqTold \cup {<<kind, i>>}
    /\ UNCHANGED <<rqMem, rqDisk, rqFaults, rqEdge, rqCall, rqOp, rqUp, rqCrashes>>
\* A request that was accepted before is confirmed at once, after another save.
Reconfirm(kind, i, ok) ==
    /\ <<kind, i>> \in Asked /\ Recorded(rqMem, kind, i)
    /\ Keep(rqMem, ok)
    /\ rqTold' = IF ok THEN rqTold \cup {<<kind, i>>} ELSE rqTold
    /\ UNCHANGED <<rqEdge, rqCall, rqOp, rqUp, rqCrashes>>

\* The end of a handler: acceptedTeamMutation.
Confirm(c, ok) ==
    /\ c \in rqCall /\ c[3] = "answer" /\ Recorded(rqMem, c[1], c[2])
    /\ Keep(rqMem, ok)
    /\ rqTold' = IF ok THEN rqTold \cup {<<c[1], c[2]>>} ELSE rqTold
    /\ rqCall' = rqCall \ {c}
    /\ UNCHANGED <<rqEdge, rqOp, rqUp, rqCrashes>>

\* An audit, a delivery or a dispatch that the handler awaits throws.
HandlerFails(c) ==
    /\ c \in rqCall /\ c[3] = "answer" /\ rqFaults < MaxFaults
    /\ rqFaults' = rqFaults + 1 /\ rqCall' = rqCall \ {c}
    /\ UNCHANGED <<rqMem, rqDisk, rqEdge, rqOp, rqUp, rqTold, rqCrashes>>

-----------------------------------------------------------------------------
\* Requests of the coordinator.

\* send, and its retry: the worker is resolved before the journal is asked.
Send(i, ok) ==
    /\ rqEdge # "gone" /\ rqMem.st = "none"
    /\ Accept("send", i, [NoTask EXCEPT !.st = "queued", !.sent = i, !.file["task"] = NewFile("task")],
              ok, "answer")
SendAgain(i, ok) == rqEdge # "gone" /\ Reconfirm("send", i, ok)

\* Mutant: the id that created the task is not compared.
Free_Sent(i, kind) == rqMem.control[i] \in {"none", kind}
\* taskControlRequest: an id that created the task or made another operation is refused.
Free(i, kind) == rqMem.sent # i /\ rqMem.control[i] \in {"none", kind}
Room == Cardinality({i \in Ids : rqMem.control[i] # "none"}) < MaxControls
Remember(m, i, kind) == [m EXCEPT !.control[i] = kind]

\* appendCoordinatorTaskMessage
Message(i, ok) ==
    /\ Free(i, "message")
    /\ \/ rqMem.control[i] = "message" /\ Accept("message", i, rqMem, ok, "answer")
       \/ /\ rqMem.control[i] = "none" /\ Bound(rqMem) /\ Room
          /\ Accept("message", i, [Withdrawn(Remember(rqMem, i, "message")) EXCEPT !.open = TRUE],
                    ok, "answer")

\* replaceQueuedTeamTask
Replace(i, ok) ==
    /\ Free(i, "replace")
    /\ \/ rqMem.control[i] = "replace" /\ Accept("replace", i, rqMem, ok, "answer")
       \/ /\ rqMem.control[i] = "none" /\ rqMem.st = "queued" /\ Room
          /\ Accept("replace", i, Remember(rqMem, i, "replace"), ok, "answer")

\* cancelQueuedTeamTask: the one that ends the task needs no room in the journal.
Cancel(i, ok) ==
    LET noted == IF Room THEN Remember(rqMem, i, "cancel") ELSE rqMem
    IN  /\ Free(i, "cancel")
        /\ \/ /\ rqMem.control[i] = "cancel" \/ rqMem.last = <<"cancel", i>>
              /\ Accept("cancel", i, rqMem, ok, "answer")
           \/ /\ rqMem.control[i] = "none" /\ rqMem.last # <<"cancel", i>>
              /\ \/ rqMem.st = "queued" /\ Accept("cancel", i, [noted EXCEPT !.st = "cancelled",
                                                       !.last = <<"cancel", i>>], ok, "answer")
                 \/ rqMem.st = "cancelled" /\ Room /\ Accept("cancel", i, noted, ok, "answer")

\* releaseTeamTask, which needs no room either; and its retry.
Release(i, ok) ==
    LET noted == IF Room THEN Remember(rqMem, i, "release") ELSE rqMem
    IN  /\ Free(i, "release") /\ ~Recorded(rqMem, "release", i)
        /\ rqMem.st = "ready" /\ rqMem.declared # None /\ ~rqMem.gates /\ ~rqMem.open
        /\ Accept("release", i, [noted EXCEPT !.st = "ended", !.last = <<"release", i>>],
                  ok, "answer")
ReleaseAgain(i, ok) == Reconfirm("release", i, ok)

-----------------------------------------------------------------------------
\* Requests of the worker.

\* Mutant: every kind of reply may take the last slot.
HasSlot_NoReserve(kind) == Cardinality(Replies(rqMem)) < MaxReplies
\* appendTeamTaskReply: the last slot is kept for the checkpoint that clears the gates.
HasSlot(kind) ==
    Cardinality(Replies(rqMem)) <
        IF kind = "clear" /\ rqMem.gates THEN MaxReplies ELSE MaxReplies - 1

Appended(i, kind) ==
    LET m == [rqMem EXCEPT !.reply[i] = kind, !.file[i] = IF kind = "reply" THEN NewFile(i) ELSE @]
    IN  IF kind = "reply" THEN m ELSE [Withdrawn(m) EXCEPT !.gates = (kind = "raise")]

Reply(kind, i, ok) ==
    /\ rqEdge # "gone"
    /\ \/ rqMem.reply[i] = kind /\ Accept(kind, i, rqMem, ok, "begin")
       \/ /\ rqMem.reply[i] = "none" /\ Bound(rqMem)
          /\ i \notin Declarations(rqMem) /\ HasSlot(kind)
          /\ kind = "reply" /\ i \in Files => rqEdge = "files"
          /\ Accept(kind, i, Appended(i, kind), ok, "begin")

\* requestTeamTaskCompletion
Complete(i, ok) ==
    /\ rqEdge # "gone"
    /\ \/ i \in Declarations(rqMem) /\ Accept("complete", i, rqMem, ok, "answer")
       \/ /\ i \notin Declarations(rqMem) /\ rqMem.reply[i] = "none"
          /\ Bound(rqMem) /\ rqMem.declared = None /\ ~rqMem.gates /\ ~rqMem.open
          /\ Accept("complete", i, [rqMem EXCEPT !.declared = i], ok, "answer")

\* The lookup of a request whose answer was lost.
Lookup(kind, i, ok) == (kind \in WorkerKinds => rqEdge # "gone") /\ Reconfirm(kind, i, ok)

-----------------------------------------------------------------------------
\* What else happens to the task: its message is delivered, its turn is reported, it fails,
\* its worker may send files or not, or is removed.
Changed(m) == /\ Keep(m, TRUE)
              /\ UNCHANGED <<rqCall, rqOp, rqUp, rqTold, rqCrashes>>
MessageDelivered == /\ rqMem.open /\ Bound(rqMem)
                    /\ Changed([rqMem EXCEPT !.open = FALSE, !.st = "bound"]) /\ UNCHANGED rqEdge
Reported == /\ rqMem.st = "bound" /\ ~rqMem.open
            /\ Changed([rqMem EXCEPT !.st = "ready"]) /\ UNCHANGED rqEdge
Fails == Bound(rqMem) /\ Changed([rqMem EXCEPT !.st = "ended"]) /\ UNCHANGED rqEdge
Permit(to) == rqEdge # "gone" /\ rqEdge' = to /\ to # rqEdge /\ Changed(rqMem)
Remove == /\ rqEdge # "gone" /\ rqEdge' = "gone"
          /\ Changed(IF Active(rqMem) THEN [rqMem EXCEPT !.st = "cancelled"] ELSE rqMem)

\* Any other save of the daemon.
OtherSave == /\ rqMem # rqDisk /\ Keep(rqMem, TRUE)
             /\ UNCHANGED <<rqEdge, rqCall, rqOp, rqUp, rqTold, rqCrashes>>

Crash ==
    /\ rqCrashes < MaxCrashes /\ rqCrashes' = rqCrashes + 1
    /\ rqMem' = rqDisk /\ rqCall' = {} /\ rqOp' = [i \in Items |-> "idle"]
    /\ UNCHANGED <<rqDisk, rqEdge, rqUp, rqTold, rqFaults>>

-----------------------------------------------------------------------------
\* Delivery of a reply.  Of the handlers in calls, those that wait for it go on or fail.
Finish(i, good, calls) ==
    LET waiting == {c \in calls : c[2] = i /\ c[3] = "wait"}
    IN  /\ rqOp' = [rqOp EXCEPT ![i] = "idle"]
        /\ rqCall' = (calls \ waiting) \cup
                     IF good THEN {<<c[1], c[2], "answer">> : c \in waiting} ELSE {}
Await(i, what, calls) == rqOp' = [rqOp EXCEPT ![i] = what] /\ rqCall' = calls

\* performTeamReplyDelivery after the text, from journal m with d on disk.
FileStep(i, m, d, calls, ok) ==
    \/ /\ m.file[i] \in {"none", "uploaded"} /\ ok
       /\ rqMem' = m /\ rqDisk' = d /\ UNCHANGED rqFaults /\ Finish(i, TRUE, calls)
    \/ /\ m.file[i] = "failed" /\ ok
       /\ rqMem' = m /\ rqDisk' = d /\ UNCHANGED rqFaults
       /\ IF i \in m.noted THEN Finish(i, FALSE, calls) ELSE Await(i, "notify", calls)
    \/ /\ m.file[i] = "uploading" \/ (m.file[i] = "pending" /\ rqEdge # "files")
       /\ Write([m EXCEPT !.file[i] = "failed"], d, ok)
       /\ IF ok THEN Await(i, "notify", calls) ELSE Finish(i, FALSE, calls)
    \/ /\ m.file[i] = "pending" /\ rqEdge = "files"
       /\ Write([m EXCEPT !.file[i] = "uploading"], d, ok)
       /\ IF ok THEN Await(i, "upload", calls) ELSE Finish(i, FALSE, calls)

Begin(i, calls, ok) ==
    /\ i \in Replies(rqMem) /\ rqOp[i] = "idle"
    /\ IF i \in rqMem.text THEN FileStep(i, rqMem, rqDisk, calls, ok)
       ELSE /\ ok /\ Await(i, "post", calls) /\ UNCHANGED <<rqMem, rqDisk, rqFaults>>

\* A handler joins the delivery of its reply or starts it.
Deliver(c, ok) ==
    LET waiting == (rqCall \ {c}) \cup {<<c[1], c[2], "wait">>}
    IN  /\ c \in rqCall /\ c[3] = "begin"
        /\ IF rqOp[c[2]] # "idle"
           THEN ok /\ rqCall' = waiting /\ UNCHANGED <<rqMem, rqDisk, rqOp, rqFaults>>
           ELSE Begin(c[2], waiting, ok)
        /\ UNCHANGED <<rqEdge, rqUp, rqTold, rqCrashes>>

\* The reconciler takes up what is not settled.
Unsettled(m, i) == /\ i \in Replies(m)
                   /\ \/ i \notin m.text \/ m.file[i] \in {"pending", "uploading"}
                      \/ m.file[i] = "failed" /\ i \notin m.noted
\* Mutant: it only looks for replies without a text.
Sweep_TextOnly(i, ok) == /\ i \in Replies(rqMem) \ rqMem.text /\ Begin(i, rqCall, ok)
                         /\ UNCHANGED <<rqEdge, rqUp, rqTold, rqCrashes>>
Sweep(i, ok) == /\ Unsettled(rqMem, i) /\ Begin(i, rqCall, ok)
                /\ UNCHANGED <<rqEdge, rqUp, rqTold, rqCrashes>>

Posted(i, saved, ok) ==
    LET m == [rqMem EXCEPT !.text = @ \cup {i}]
    IN  /\ rqOp[i] = "post"
        /\ IF saved THEN FileStep(i, m, m, rqCall, ok)
           ELSE ok /\ Write(m, rqDisk, FALSE) /\ Finish(i, FALSE, rqCall)
        /\ UNCHANGED <<rqEdge, rqUp, rqTold, rqCrashes>>

\* Slack refuses a post of the delivery.
PostFails(i) ==
    /\ rqOp[i] \in {"post", "notify"} /\ rqFaults < MaxFaults /\ rqFaults' = rqFaults + 1
    /\ Finish(i, FALSE, rqCall)
    /\ UNCHANGED <<rqMem, rqDisk, rqEdge, rqUp, rqTold, rqCrashes>>

\* filesUploadV2: Slack takes the files; whether the daemon learns of it is another matter.
SlackTakes(i) ==
    /\ rqOp[i] = "upload" /\ rqUp' = [rqUp EXCEPT ![i] = @ + 1]
    /\ rqOp' = [rqOp EXCEPT ![i] = "taken"]
    /\ UNCHANGED <<rqMem, rqDisk, rqEdge, rqCall, rqTold, rqFaults, rqCrashes>>

Uploaded(i) ==
    /\ rqOp[i] = "taken"
    /\ Keep([rqMem EXCEPT !.file[i] = "uploaded"], TRUE) /\ Finish(i, TRUE, rqCall)
    /\ UNCHANGED <<rqEdge, rqUp, rqTold, rqCrashes>>

\* Mutant: an upload that may have happened is pending again.
UploadFails_Retry(i, ok) ==
    LET m == [rqMem EXCEPT !.file[i] = "pending"]
    IN  /\ rqOp[i] \in {"upload", "taken"} /\ rqFaults < MaxFaults
        /\ rqMem' = m /\ rqFaults' = rqFaults + 1
        /\ IF ok THEN rqDisk' = m ELSE UNCHANGED rqDisk
        /\ Finish(i, FALSE, rqCall)
        /\ UNCHANGED <<rqEdge, rqUp, rqTold, rqCrashes>>
\* The upload fails, or the save of its success does.
UploadFails(i, ok) ==
    LET m == [rqMem EXCEPT !.file[i] = "failed"]
        failed == IF i = "task" /\ Active(m) THEN [m EXCEPT !.st = "ended"] ELSE m
    IN  /\ rqOp[i] \in {"upload", "taken"} /\ rqFaults < MaxFaults
        /\ rqMem' = failed /\ rqFaults' = rqFaults + 1
        /\ IF ok THEN rqDisk' = failed ELSE UNCHANGED rqDisk
        /\ IF ok /\ i # "task" THEN Await(i, "notify", rqCall) ELSE Finish(i, FALSE, rqCall)
        /\ UNCHANGED <<rqEdge, rqUp, rqTold, rqCrashes>>

\* notifyTeamReplyFileFailure
Notified(i, ok) ==
    /\ rqOp[i] = "notify"
    /\ Keep([rqMem EXCEPT !.noted = @ \cup {i}], ok) /\ Finish(i, FALSE, rqCall)
    /\ UNCHANGED <<rqEdge, rqUp, rqTold, rqCrashes>>

-----------------------------------------------------------------------------
\* Dispatch of the task: its files first (performTeamTaskFileDelivery), then the claim.
TaskFiles(ok) ==
    /\ rqMem.st = "queued" /\ rqOp["task"] = "idle"
    /\ LET failed == [rqMem EXCEPT !.file["task"] = "failed", !.st = "ended"]
       IN  \/ /\ rqMem.file["task"] = "uploading"
                    \/ (rqMem.file["task"] = "pending" /\ rqEdge # "files")
              /\ Keep(failed, ok) /\ UNCHANGED rqOp
           \/ /\ rqMem.file["task"] = "pending" /\ rqEdge = "files"
              /\ Keep([rqMem EXCEPT !.file["task"] = "uploading"], ok)
              /\ rqOp' = [rqOp EXCEPT !["task"] = IF ok THEN "upload" ELSE @]
    /\ UNCHANGED <<rqEdge, rqCall, rqUp, rqTold, rqCrashes>>

Claim(ok) ==
    /\ rqMem.st = "queued" /\ rqOp["task"] = "idle"
    /\ rqMem.file["task"] \in {"none", "uploaded"} /\ rqEdge # "gone"
    /\ Keep([rqMem EXCEPT !.st = "bound"], ok)
    /\ UNCHANGED <<rqEdge, rqCall, rqOp, rqUp, rqTold, rqCrashes>>

-----------------------------------------------------------------------------
Delivering(i) ==
    \/ \E ok \in BOOLEAN : Sweep(i, ok) \/ Notified(i, ok) \/ UploadFails(i, ok)
    \/ \E saved, ok \in BOOLEAN : Posted(i, saved, ok)
    \/ PostFails(i) \/ SlackTakes(i) \/ Uploaded(i)

Next ==
    \/ \E i \in Ids, ok \in BOOLEAN :
          \/ Send(i, ok) \/ SendAgain(i, ok) \/ Message(i, ok) \/ Replace(i, ok)
          \/ Cancel(i, ok) \/ Release(i, ok) \/ ReleaseAgain(i, ok) \/ Complete(i, ok)
          \/ \E kind \in {"reply", "raise", "clear"} : Reply(kind, i, ok)
          \/ \E kind \in Kinds : Lookup(kind, i, ok)
    \/ \E c \in rqCall : HandlerFails(c) \/ \E ok \in BOOLEAN : Confirm(c, ok) \/ Deliver(c, ok)
    \/ \E i \in Items : Delivering(i)
    \/ \E ok \in BOOLEAN : TaskFiles(ok) \/ Claim(ok)
    \/ MessageDelivered \/ Reported \/ Fails \/ Remove \/ OtherSave \/ Crash
    \/ \E to \in {"files", "text"} : Permit(to)

\* The reconciler runs on a timer, and Slack answers.
Fairness == \A i \in Ids : WF_rqVars(Delivering(i))
Spec == Init /\ [][Next]_rqVars /\ Fairness

-----------------------------------------------------------------------------
\* The types of the variables.
TaskType == [st : {"none", "queued", "bound", "ready", "cancelled", "ended"},
             sent : Ids \cup {None}, gates : BOOLEAN, declared : Ids \cup {None},
             former : SUBSET Ids, open : BOOLEAN,
             reply : [Ids -> {"none", "reply", "raise", "clear"}],
             control : [Ids -> {"none", "message", "replace", "cancel", "release"}],
             last : {"none", "cancel", "release"} \X (Ids \cup {None}),
             text : SUBSET Ids, file : [Items -> FileStates], noted : SUBSET Ids]
TypeOK ==
    /\ rqMem \in TaskType /\ rqDisk \in TaskType /\ rqEdge \in {"files", "text", "gone"}
    /\ rqCall \subseteq Kinds \X Ids \X {"begin", "wait", "answer"}
    /\ rqOp \in [Items -> {"idle", "post", "upload", "taken", "notify"}]
    /\ rqUp \in [Items -> Nat] /\ rqTold \subseteq Kinds \X Ids
    /\ rqFaults \in 0 .. MaxFaults /\ rqCrashes \in 0 .. MaxCrashes

\* What a caller was told is accepted is on disk, also when the save of its first attempt
\* failed and the answer comes from a retry or a lookup (acceptedTeamMutation).
ConfirmedIsDurable == \A r \in rqTold : Recorded(rqDisk, r[1], r[2])

\* An id that a caller used once stands for one accepted request, whatever it was used for
\* later (taskControlRequest, appendTeamTaskReply, requestTeamTaskCompletion).
OneReceipt == \A i \in Ids, worker \in BOOLEAN : Cardinality(Receipts(rqMem, i, worker)) <= 1

\* Slack takes the files of a task or reply at most once, through failed saves, retries and
\* restarts; and what the journal says of them is true: an upload that is still to come has
\* not happened, and one that is recorded has (performTeamTaskFileDelivery,
\* performTeamReplyDelivery).
FilesOnce ==
    \A i \in Items :
        /\ rqUp[i] <= 1
        /\ rqDisk.file[i] \in {"none", "pending"} => rqUp[i] = 0
        /\ rqMem.file[i] = "uploaded" => rqUp[i] = 1

\* A worker that holds a task has its files, and pending gates can always be cleared: the
\* journal of replies is never full while there are any.
WorkerCanFinish ==
    /\ Bound(rqMem) => rqMem.file["task"] \in {"none", "uploaded"}
    /\ rqMem.gates => Cardinality(Replies(rqMem)) < MaxReplies

\* A durable reply reaches the coordinator's channel, and its files do or their failure is
\* reported there, also across a restart (reconcileTeamTasks).
RepliesSettle ==
    \A i \in Ids : rqDisk.reply[i] # "none" ~> ~Unsettled(rqMem, i) /\ rqOp[i] = "idle"
=============================================================================
