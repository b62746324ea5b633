--------------------------- MODULE StatusMessages ---------------------------
(***************************************************************************)
(* The live status line of each session in Slack: createStatusMessages of  *)
(* src/daemon/status.mjs over the channel queue of slackout.mjs, with the  *)
(* re-adoption after a restart of the daemon.                              *)
(*                                                                         *)
(* A timestamp cannot be moved, so a line is edited in place, or moved by  *)
(* posting a copy and deleting the old one.  The mutations of a session    *)
(* are a promise chain (stJobs); every Slack call of every session goes    *)
(* through one workspace-wide runner with a priority and a normal queue    *)
(* (stApi), and a post also through the queue of its channel, behind the   *)
(* other messages.  Between the last validity check of a call and its      *)
(* answer anything may happen.  A text is named by the revision that set   *)
(* it.                                                                     *)
(***************************************************************************)
EXTENDS Integers, Sequences

CONSTANTS
    Statuses,      \* the sessions, each with a channel of its own
    MaxCalls,      \* bound of each session: its sets, clears and messages
    MaxSlack,      \* bound: Slack calls that fail and lines deleted by hand
    MaxBoots       \* bound: restarts of the daemon

VARIABLES
    stEntry,    \* entries: the owned timestamp, its text, the wanted text, revision, epoch
    stJobs,     \* each session's chain of mutations; the first one runs
    stApi,      \* apiQueues and their runner: sessions whose mutation waits for a call
    stChan,     \* the channel: its lines and newest timestamp, the daemon's queue of posts
    stFound,    \* the re-adoption after a restart: what findStatusContext returned
    stSpent     \* what the bounds have used

stVars == <<stEntry, stJobs, stApi, stChan, stFound, stSpent>>

Adopted == -1     \* the session needs no (further) re-adoption
Unread == -2      \* readoptStatus has not read the channel yet
NoEntry == [ts |-> 0, text |-> 0, desired |-> 0, rev |-> 0, epoch |-> 0]
IdleApi == [pc |-> "idle", sid |-> CHOOSE s \in Statuses : TRUE, pri |-> <<>>, normal |-> <<>>]

\* news: messages whose bump was not yet asked for; after: the newest one it was asked for.
\* stray: lines that a failed call or a restart left without owner.
NoLines == [shown |-> {}, clock |-> 0, queue |-> <<>>, news |-> {}, after |-> 0, stray |-> {}]

Init ==
    /\ stEntry = [s \in Statuses |-> NoEntry]
    /\ stJobs = [s \in Statuses |-> <<>>]
    /\ stApi = IdleApi
    /\ stChan = [s \in Statuses |-> NoLines]
    /\ stFound = [s \in Statuses |-> Adopted]
    /\ stSpent = [calls |-> [s \in Statuses |-> 0], slack |-> 0, boots |-> 0]

-----------------------------------------------------------------------------
(* Mutations and their validity.                                           *)

Job(kind, rev, epoch, after) ==
    [kind |-> kind, rev |-> rev, epoch |-> epoch, after |-> after,
     at |-> "start", res |-> "none", old |-> 0, new |-> 0]
Queued(s, job) == [stJobs EXCEPT ![s] = Append(@, job)]

\* The mutation of s that runs, and the chain with its result or with it done.
Running(s) == stJobs[s][1]
Answered(jobs, s, res) == [jobs EXCEPT ![s][1].res = res]
Done(s) == [stJobs EXCEPT ![s] = Tail(@)]

\* valid() of set and of bump; a rollback and a clear have none.
ValidNow(s) ==
    LET j == Running(s)
        e == stEntry[s]
    IN  CASE j.kind = "set" -> e.rev = j.rev /\ e.desired = j.rev
          [] j.kind = "bump" /\ j.at # "delNew" ->
                 e.epoch = j.epoch /\ e.ts = j.old /\ e.desired # 0
          [] OTHER -> TRUE

\* The continuation of a settled promise that has not run yet: it runs before any timer.
Due(s) == stJobs[s] # <<>> /\ (Running(s).at = "start" \/ Running(s).res # "none")

-----------------------------------------------------------------------------
(* Calls of the pollers, the finals and the messages.                      *)

Called(s) ==
    /\ stSpent.calls[s] < MaxCalls[s]
    /\ stSpent' = [stSpent EXCEPT !.calls[s] = @ + 1]

\* A poller's tick with a new line.
Set(s) ==
    /\ Called(s)
    /\ LET rev == stEntry[s].rev + 1
       IN  /\ stEntry' = [stEntry EXCEPT ![s].desired = rev, ![s].rev = rev]
           /\ stJobs' = Queued(s, Job("set", rev, 0, 0))
    /\ UNCHANGED <<stApi, stChan, stFound>>

\* What clear invalidates at once; the deletion waits for the earlier mutations.
ClearedEntry(e) == [e EXCEPT !.desired = 0, !.rev = @ + 1, !.epoch = @ + 1]
ClearJob == Job("clear", 0, 0, 0)
Clear(s) ==
    /\ Called(s)
    /\ stEntry' = [stEntry EXCEPT ![s] = ClearedEntry(@)]
    /\ stJobs' = Queued(s, ClearJob)
    /\ UNCHANGED <<stApi, stChan, stFound>>

\* Someone writes in the channel, or the daemon posts through the channel's queue.
Write(s) ==
    /\ Called(s)
    /\ stChan' = [stChan EXCEPT ![s].clock = @ + 1, ![s].news = @ \cup {stChan[s].clock + 1}]
    /\ UNCHANGED <<stEntry, stJobs, stApi, stFound>>
Post(s) ==
    /\ Called(s)
    /\ stChan' = [stChan EXCEPT ![s].queue = Append(@, "post")]
    /\ UNCHANGED <<stEntry, stJobs, stApi, stFound>>

\* The event or the answer reaches the daemon, which asks for a bump.
Bump(s) ==
    /\ \E ts \in stChan[s].news :
         /\ stChan' = [stChan EXCEPT ![s].news = @ \ {ts},
                                     ![s].after = IF ts > @ THEN ts ELSE @]
         /\ stJobs' = Queued(s, Job("bump", 0, stEntry[s].epoch, ts))
    /\ UNCHANGED <<stEntry, stApi, stFound, stSpent>>

-----------------------------------------------------------------------------
(* The workspace-wide runner and the channel's queue.                      *)

\* The mutation waits for the call at; a deletion has priority.
Schedule(s, at, old, priority) ==
    /\ stJobs' = [stJobs EXCEPT ![s][1] = [@ EXCEPT !.at = at, !.res = "none", !.old = old]]
    /\ stApi' = [stApi EXCEPT !.pri = IF priority THEN Append(@, s) ELSE @,
                              !.normal = IF priority THEN @ ELSE Append(@, s),
                              !.pc = IF @ = "idle" THEN "yield" ELSE @]

\* Mutant: the invalid calls are dropped from the queue without an answer.
Loop_DropSilently(jobs, api) ==
    /\ stJobs' = jobs
    /\ stApi' = [api EXCEPT !.normal = SelectSeq(@, ValidNow),
                            !.pc = IF api.pri \o api.normal = <<>> THEN "idle" ELSE "yield"]
\* The top of the runner's loop: the invalid calls of the normal queue are answered at
\* once, then the runner yields, or ends when the queues were empty.
Loop(jobs, api) ==
    LET stale == {s \in Statuses : (\E i \in 1..Len(api.normal) : api.normal[i] = s) /\ ~ValidNow(s)}
    IN  /\ stJobs' = [s \in Statuses |-> IF s \in stale THEN Answered(jobs, s, "skipped")[s]
                                                        ELSE jobs[s]]
        /\ stApi' = [api EXCEPT !.normal = SelectSeq(@, ValidNow),
                                !.pc = IF api.pri \o api.normal = <<>> THEN "idle" ELSE "yield"]
Resolve(s, res, api) == Loop(Answered(stJobs, s, res), api)

\* After the yield, when every continuation has run: the next call, cleanup first.
Select ==
    /\ stApi.pc = "yield" /\ \A s \in Statuses : ~Due(s)
    /\ IF stApi.pri \o stApi.normal = <<>> THEN Loop(stJobs, stApi)
       ELSE LET lane == IF stApi.pri # <<>> THEN "pri" ELSE "normal"
                s == stApi[lane][1]
                api == [stApi EXCEPT ![lane] = Tail(@)]
            IN  IF ValidNow(s) THEN /\ stApi' = [api EXCEPT !.pc = "wait", !.sid = s]
                                    /\ UNCHANGED stJobs
                               ELSE Resolve(s, "skipped", api)
    /\ UNCHANGED <<stEntry, stChan, stFound, stSpent>>

\* The interval is over: the call is made, a post through the channel's queue.
Start ==
    /\ stApi.pc = "wait"
    /\ LET s == stApi.sid
       IN  IF ~ValidNow(s) THEN Resolve(s, "skipped", stApi) /\ UNCHANGED stChan
           ELSE /\ IF Running(s).at = "post"
                   THEN /\ stApi' = [stApi EXCEPT !.pc = "chain"]
                        /\ stChan' = [stChan EXCEPT ![s].queue = Append(@, "status")]
                   ELSE stApi' = [stApi EXCEPT !.pc = "call"] /\ UNCHANGED stChan
                /\ stJobs' = [stJobs EXCEPT ![s][1].old =
                                 IF Running(s).at = "update" THEN stEntry[s].ts ELSE @]
    /\ UNCHANGED <<stEntry, stFound, stSpent>>

\* The head of the channel's queue reaches Slack, a status only when it is still valid.
Deliver(s) ==
    /\ stChan[s].queue # <<>>
    /\ LET head == stChan[s].queue[1]
           rest == [stChan EXCEPT ![s].queue = Tail(@)]
           ts == stChan[s].clock + 1
       IN  \/ /\ head = "post"
              /\ stChan' = [rest EXCEPT ![s].clock = ts, ![s].news = @ \cup {ts}]
              /\ UNCHANGED <<stJobs, stApi>>
           \/ /\ head = "status" /\ ValidNow(s)
              /\ stChan' = [stChan EXCEPT ![s].queue[1] = "sent"]
              /\ stApi' = [stApi EXCEPT !.pc = "call"] /\ UNCHANGED stJobs
           \/ /\ head = "status" /\ ~ValidNow(s)
              /\ stChan' = rest /\ Resolve(s, "void", stApi)
    /\ UNCHANGED <<stEntry, stFound, stSpent>>

\* What the call in flight does in the channel c of s, once Slack has it.
Target(s) == IF Running(s).at = "delNew" THEN Running(s).new ELSE Running(s).old
Applied(s, c) ==
    LET j == Running(s)
        others == {m \in c.shown : m.ts # Target(s)}
        text == IF j.kind = "set" THEN j.rev ELSE stEntry[s].text
    IN  CASE j.at = "post" -> [c EXCEPT !.clock = @ + 1,
                                        !.shown = @ \cup {[ts |-> c.clock + 1, text |-> text]}]
          [] j.at = "update" -> [c EXCEPT !.shown = others \cup {[ts |-> Target(s), text |-> text]}]
          [] OTHER -> [c EXCEPT !.shown = others]

\* The line a failed call leaves without an owner.
Leaves(s, c) ==
    CASE Running(s).at = "post" -> {c.clock + 1}
      [] Running(s).at \in {"delNew", "delete"} -> {Target(s)}
      [] OTHER -> {}

\* Slack answers the call: done, message_not_found, or an error before or after its effect.
Answer ==
    /\ stApi.pc = "call"
    /\ LET s == stApi.sid
           j == Running(s)
           c == IF j.at = "post" THEN [stChan[s] EXCEPT !.queue = Tail(@)] ELSE stChan[s]
           there == j.at = "post" \/ \E m \in c.shown : m.ts = Target(s)
       IN  \/ /\ there
              /\ stChan' = [stChan EXCEPT ![s] = Applied(s, c)]
              /\ Loop([Answered(stJobs, s, "ok") EXCEPT ![s][1].new =
                          IF j.at = "post" THEN c.clock + 1 ELSE @], stApi)
              /\ UNCHANGED stSpent
           \/ /\ ~there
              /\ Resolve(s, "gone", stApi)
              /\ UNCHANGED <<stChan, stSpent>>
           \/ /\ stSpent.slack < MaxSlack
              /\ \E effect \in BOOLEAN :
                    stChan' = [stChan EXCEPT ![s] =
                                 [(IF effect /\ there THEN Applied(s, c) ELSE c)
                                    EXCEPT !.stray = @ \cup Leaves(s, c)]]
              /\ Resolve(s, "failed", stApi)
              /\ stSpent' = [stSpent EXCEPT !.slack = @ + 1]
    /\ UNCHANGED <<stEntry, stFound>>

-----------------------------------------------------------------------------
(* The continuations of the mutations.                                     *)

Finish(s, entry) ==
    /\ stJobs' = Done(s)
    /\ stEntry' = [stEntry EXCEPT ![s] = entry]
    /\ UNCHANGED stApi

\* A line adopted while the call was in flight is forgotten: it is stray.
SetStep(s) ==
    LET j == Running(s)
        e == stEntry[s]
    IN  CASE j.at = "start" /\ ~ValidNow(s) -> Finish(s, e) /\ UNCHANGED stChan
          [] j.at = "start" /\ ValidNow(s) ->
                 /\ Schedule(s, IF e.ts # 0 THEN "update" ELSE "post", 0, FALSE)
                 /\ UNCHANGED <<stEntry, stChan>>
          [] j.res = "ok" /\ j.at = "update" ->
                 Finish(s, [e EXCEPT !.text = j.rev]) /\ UNCHANGED stChan
          [] j.res = "ok" /\ j.at = "post" ->
                 /\ Finish(s, [e EXCEPT !.ts = j.new, !.text = j.rev])
                 /\ stChan' = [stChan EXCEPT ![s].stray = @ \cup ({e.ts} \ {0})]
          [] j.res = "gone" ->
                 /\ Finish(s, [e EXCEPT !.ts = 0])
                 /\ stChan' = [stChan EXCEPT ![s].stray = @ \cup ({e.ts} \ {0, j.old})]
          [] OTHER -> Finish(s, e) /\ UNCHANGED stChan

\* Mutant: a message right after the line does not move it.
Needless_LooseOrder(s) ==
    LET j == Running(s)
        e == stEntry[s]
    IN  e.epoch # j.epoch \/ e.desired = 0 \/ e.ts = 0 \/ e.text = 0 \/ e.ts + 1 >= j.after
\* bump's early returns.
Needless(s) ==
    LET j == Running(s)
        e == stEntry[s]
    IN  e.epoch # j.epoch \/ e.desired = 0 \/ e.ts = 0 \/ e.text = 0 \/ e.ts >= j.after

\* Mutant: a move that was invalidated leaves its copy.
RollBack_KeepCopy(s) == Finish(s, stEntry[s])
\* A copy that must not become the line is deleted.
RollBack(s) == Schedule(s, "delNew", Running(s).old, TRUE) /\ UNCHANGED stEntry

BumpStep(s) ==
    LET j == Running(s)
        e == stEntry[s]
    IN  /\ CASE j.at = "start" ->
                   IF Needless(s) THEN Finish(s, e)
                   ELSE Schedule(s, "post", e.ts, FALSE) /\ UNCHANGED stEntry
             [] j.at = "post" /\ j.res = "ok" ->
                   IF ValidNow(s) THEN Schedule(s, "delOld", j.old, TRUE) /\ UNCHANGED stEntry
                   ELSE RollBack(s)
             [] j.at = "delOld" ->
                   IF j.res \in {"ok", "gone"} /\ ValidNow(s)
                   THEN Finish(s, [e EXCEPT !.ts = j.new]) ELSE RollBack(s)
             [] OTHER -> Finish(s, e)
        /\ UNCHANGED stChan

ClearStep(s) ==
    LET j == Running(s)
        e == stEntry[s]
        empty == [e EXCEPT !.ts = 0, !.text = 0]
    IN  /\ IF j.at = "start" /\ e.ts # 0
           THEN Schedule(s, "delete", e.ts, TRUE) /\ stEntry' = [stEntry EXCEPT ![s] = empty]
           ELSE Finish(s, IF j.at = "start" THEN empty ELSE e)
        /\ UNCHANGED stChan

Continue(s) ==
    /\ Due(s)
    /\ CASE Running(s).kind = "set" -> SetStep(s)
         [] Running(s).kind = "bump" -> BumpStep(s)
         [] OTHER -> ClearStep(s)
    /\ UNCHANGED <<stFound, stSpent>>

-----------------------------------------------------------------------------
(* Faults, restart and re-adoption.                                        *)

\* Someone deletes a line in Slack.
DeleteByHand(s) ==
    /\ stSpent.slack < MaxSlack /\ stSpent' = [stSpent EXCEPT !.slack = @ + 1]
    /\ \E m \in stChan[s].shown : stChan' = [stChan EXCEPT ![s].shown = @ \ {m}]
    /\ UNCHANGED <<stEntry, stJobs, stApi, stFound>>

\* The daemon restarts: entries, queues and pollers are lost; a call in flight may have had
\* its effect.  Until it is adopted, no line has an owner.
Restart ==
    /\ stSpent.boots < MaxBoots /\ stSpent' = [stSpent EXCEPT !.boots = @ + 1]
    /\ \E effect \in BOOLEAN :
         LET left(s) == IF effect /\ stApi.pc = "call" /\ stApi.sid = s
                        THEN Applied(s, stChan[s]) ELSE stChan[s]
         IN  stChan' = [s \in Statuses |->
                          [left(s) EXCEPT !.queue = <<>>, !.news = {},
                                          !.stray = {m.ts : m \in left(s).shown}]]
    /\ stEntry' = [s \in Statuses |-> NoEntry]
    /\ stJobs' = [s \in Statuses |-> <<>>]
    /\ stApi' = IdleApi
    /\ stFound' = [s \in Statuses |-> Unread]

\* readoptStatus: the newest line of the channel; a history that cannot be read finds none.
FindStatusContext(s) ==
    /\ stFound[s] = Unread
    /\ stFound' = [stFound EXCEPT ![s] =
                     IF stChan[s].shown = {} THEN 0
                     ELSE (CHOOSE m \in stChan[s].shown :
                             \A n \in stChan[s].shown : n.ts <= m.ts).ts]
    /\ UNCHANGED <<stEntry, stJobs, stApi, stChan, stSpent>>

\* A live turn takes the line over, an idle Codex session clears it through its entry, an
\* idle one of the others deletes it.
Readopt(s) ==
    /\ stFound[s] >= 0
    /\ LET ts == stFound[s]
           e == IF ts = 0 THEN stEntry[s] ELSE [stEntry[s] EXCEPT !.ts = ts]
           stray == (stChan[s].stray \ {ts}) \cup
                      (IF ts = 0 THEN {} ELSE {stEntry[s].ts} \ {0, ts})
       IN  \/ /\ stEntry' = [stEntry EXCEPT ![s] = e]
              /\ stChan' = [stChan EXCEPT ![s].stray = stray]
              /\ UNCHANGED stJobs
           \/ /\ stEntry' = [stEntry EXCEPT ![s] = ClearedEntry(e)]
              /\ stChan' = [stChan EXCEPT ![s].stray = stray]
              /\ stJobs' = Queued(s, ClearJob)
           \/ /\ ts # 0
              /\ stChan' = [stChan EXCEPT ![s].shown = {m \in @ : m.ts # ts}]
              /\ UNCHANGED <<stEntry, stJobs>>
    /\ stFound' = [stFound EXCEPT ![s] = Adopted]
    /\ UNCHANGED <<stApi, stSpent>>

-----------------------------------------------------------------------------
Next ==
    \/ \E s \in Statuses :
          \/ Set(s) \/ Clear(s) \/ Write(s) \/ Post(s) \/ Bump(s)
          \/ Deliver(s) \/ Continue(s) \/ DeleteByHand(s)
          \/ FindStatusContext(s) \/ Readopt(s)
    \/ Select \/ Start \/ Answer \/ Restart

\* Promises run, timers fire and Slack answers.
Fairness ==
    /\ WF_stVars(Select) /\ WF_stVars(Start) /\ WF_stVars(Answer)
    /\ \A s \in Statuses : WF_stVars(Deliver(s)) /\ WF_stVars(Continue(s))

Spec == Init /\ [][Next]_stVars /\ Fairness

-----------------------------------------------------------------------------
TypeOK ==
    /\ stEntry \in [Statuses -> [ts : Nat, text : Nat, desired : Nat, rev : Nat, epoch : Nat]]
    /\ \A s \in Statuses : \A i \in 1..Len(stJobs[s]) :
         /\ stJobs[s][i].kind \in {"set", "bump", "clear"}
         /\ stJobs[s][i].at \in {"start", "update", "post", "delOld", "delNew", "delete"}
         /\ stJobs[s][i].res \in {"none", "ok", "gone", "failed", "skipped", "void"}
    /\ stApi.pc \in {"idle", "yield", "wait", "chain", "call"} /\ stApi.sid \in Statuses
    /\ stApi.pri \in Seq(Statuses) /\ stApi.normal \in Seq(Statuses)
    /\ \A s \in Statuses : stFound[s] >= Unread

AtRest(s) == stJobs[s] = <<>> /\ stFound[s] = Adopted /\ stChan[s].news = {}

\* At rest a channel shows no status line but the one its session owns, whatever was set,
\* moved and cleared at the same time (bump's rollbacks, clear behind the running
\* mutation), and none after a clear with no later set.  When no call failed, a working
\* session shows its newest text, below every message that asked for a bump.
StatusLineTrue == \A s \in Statuses : AtRest(s) =>
    LET e == stEntry[s]
        c == stChan[s]
    IN  /\ {m.ts : m \in c.shown} \ c.stray \subseteq {e.ts}
        /\ (e.desired = 0 /\ stSpent.boots = 0) => e.ts = 0
        /\ (e.desired # 0 /\ stSpent.slack = 0 /\ stSpent.boots = 0) =>
              c.shown = {[ts |-> e.ts, text |-> e.desired]} /\ e.ts > c.after

\* Every mutation ends: no clear, move or edit waits for another one for ever (clear is
\* enqueued only after the session's prior mutation, invalid calls are answered).
StatusSettles == \A s \in Statuses : stJobs[s] # <<>> ~> stJobs[s] = <<>>
=============================================================================
