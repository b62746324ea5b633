---------------------------- MODULE SessionInput ----------------------------
(***************************************************************************)
(* The owner's messages on their way to one provider session               *)
(* (daemon/session-update.mjs and the input, wake, startup and maintenance *)
(* parts of daemon/daemon.mjs).                                            *)
(*                                                                         *)
(* A message goes straight to the terminal of a live idle session.  While  *)
(* the session is being restarted, or older input is still queued, it is   *)
(* queued, and one drain pastes the queue in order.  A fence with an owner *)
(* generation keeps direct input out until the drain has finished; stale   *)
(* failures must not release the fence of a newer operation.  Meanwhile    *)
(* the provider may die, be woken, be updated, and change its own session  *)
(* id (/clear).  An action is the code between two awaits.                 *)
(***************************************************************************)
EXTENDS Naturals, Sequences, FiniteSets, SequencesExt

CONSTANTS
    MaxMsg,      \* bound: messages of the owner
    MaxBindings, \* bound: launches times native session ids
    MaxWakes,    \* bound: wakes under way at the same time
    Generations, \* bound: fence owners some handler still holds
    Attempts,    \* launches of one wake
    MaxTorn      \* bound: a write that fails may have reached a provider that
                 \* received fewer messages than this

ASSUME InputAssumption ==
    /\ MaxMsg \in Nat \ {0} /\ MaxBindings \in Nat \ {0}
    /\ MaxWakes \in Nat \ {0} /\ Generations \in Nat \ {0} /\ Attempts \in Nat \ {0}
    /\ MaxTorn \in Nat

Msg == 1 .. MaxMsg
Sid == 1 .. MaxBindings
Proc == 1 .. MaxBindings
Gen == 1 .. Generations
Wakes == 1 .. MaxWakes

VARIABLES
    procs,       \* live provider processes, each in the terminal of its launch
    launches,    \* launches so far
    reported,    \* processes whose first SessionStart was handled
    sid,         \* session.id, counted
    pid, tm,     \* session.pid and session.tmux, by launch; 0 is null
    queue,       \* pendingBySid for session.id
    upd, owner,  \* updatingSessions and sessionInputFenceOwners; 0 is no owner
    restarting,  \* restarting has session.id
    waking,      \* resurrectInFlight: 0 absent, 1 recent, 2 older than 90 s
    comp, pend,  \* completed- and pendingSessionStartTmux of session.id
    boot,        \* the boot claim of the binding found at daemon start
    starting,    \* startup handlers: [sid, tm, ph, own]
    sched,       \* the reserved drain: [ph, own, at]
    drainAt,     \* the id in drainingSessionInput; 0 is none
    batch,       \* what the drain took from the queue and has not delivered
    backoff,     \* sessionInputRecoveryAfter is in the future
    posts,       \* posts to the session's channel, served one by one
    wake,        \* resurrect calls under way
    maint,       \* the update and restart under way
    guards,      \* owners with an update guard timer
    dir,         \* injectText calls: [ph, via, alive, busy, at]
    got,         \* ghost: what the provider received, in order
    ahead        \* ghost: the queued input when a message was accepted

provider == <<procs, launches, reported>>
binding == <<sid, pid, tm>>
fence == <<upd, owner>>
marks == <<restarting, waking>>
startup == <<comp, pend, boot, starting>>
drain == <<sched, drainAt, batch, backoff>>
ops == <<wake, maint, guards>>
msgs == <<dir, got, ahead>>
vars == <<provider, binding, queue, fence, marks, startup, drain, ops, msgs, posts>>

\* A post of a message's call, a wake, a startup handler (by id and terminal),
\* the drain or the maintenance.
PostOf(k, a, b) == [k |-> k, a |-> a, b |-> b]
Enqueue(p) == posts' = Append(posts, p)
AtHead(p) == posts # <<>> /\ Head(posts) = p
Served(p) == AtHead(p) /\ posts' = Tail(posts)

Alive == pid \in procs
Draining == drainAt = sid
Reserved == sched.ph # "none"
\* Mutant: input that only waits in the queue fences nothing.
Fenced_NotByQueue == upd \/ Draining

Fenced == upd \/ Draining \/ queue # <<>>

NoDrain == [ph |-> "none", own |-> 0, at |-> 0]
NoWake == [ph |-> "none", at |-> 0, att |-> 0]
NoMaint == [ph |-> "none", own |-> 0, at |-> 0, w |-> 0]
NewCall == [ph |-> "new", via |-> "none", alive |-> FALSE, busy |-> FALSE, at |-> 0]
Returned(call) == [NewCall EXCEPT !.ph = "done", !.via = call.via]

\* A session that runs, one that survived a daemon restart and is known only
\* by its boot claim, or a dormant one.
Init ==
    /\ \E runs, known \in BOOLEAN :
         /\ procs = (IF runs THEN {1} ELSE {})
         /\ launches = (IF runs THEN 1 ELSE 0)
         /\ reported = procs
         /\ pid = launches /\ tm = launches
         /\ comp = (IF known THEN launches ELSE 0)
         /\ boot = (runs /\ ~known)
    /\ sid = 1 /\ pend = 0
    /\ queue = <<>> /\ upd = FALSE /\ owner = 0
    /\ restarting = FALSE /\ waking = 0
    /\ starting = {} /\ sched = NoDrain /\ drainAt = 0 /\ batch = <<>>
    /\ backoff = FALSE /\ posts = <<>>
    /\ wake = [w \in Wakes |-> NoWake] /\ maint = NoMaint /\ guards = {}
    /\ dir = [m \in Msg |-> NewCall]
    /\ got = <<>> /\ ahead = [m \in Msg |-> {}]

-----------------------------------------------------------------------------
(* The fence.  The code counts generations up; only equality with one that *)
(* is still held matters, so a generation nobody holds is as good as new.  *)

Held == {owner, sched.own, maint.own} \cup guards \cup {h.own : h \in starting}

FreshOwner == CHOOSE o \in Gen \ Held : TRUE

\* Mutant: a fence without an owner.
BeginFence_NoOwner == upd' = TRUE /\ owner' = 0

\* beginSessionInputFence
BeginFence ==
    /\ Gen \ Held # {}
    /\ upd' = TRUE /\ owner' = FreshOwner

\* ensureSessionInputFence
EnsureFence == IF upd /\ owner # 0 THEN UNCHANGED fence ELSE BeginFence

\* Mutant: a failure opens its fence under the drain that took it over.
RecoverFence_UnderDrain(o, draining) ==
    IF owner = o THEN upd' = FALSE /\ owner' = 0 ELSE UNCHANGED fence

\* Mutant: a failure leaves its fence closed.
RecoverFence_Never(o, draining) == UNCHANGED fence

\* recoverSessionInputFence of an expected owner
RecoverFence(o, draining) ==
    IF owner = o /\ ~draining
    THEN upd' = FALSE /\ owner' = 0
    ELSE UNCHANGED fence

\* restarting and the fence of one owner, unless a newer operation has it
ReleaseOwner(o) ==
    IF owner = o
    THEN restarting' = FALSE /\ RecoverFence(o, Draining)
    ELSE UNCHANGED <<restarting, fence>>

\* releaseSessionMaintenance, after any failure of the maintenance
ReleaseMaintenance == ReleaseOwner(maint.own) /\ maint' = NoMaint

\* the reservation of scheduleSessionInputDrain, for the owner of the fence
Reserve == sched' = [ph |-> "timer", own |-> owner', at |-> tm]

-----------------------------------------------------------------------------
(* resurrect *)

FreeWake(w) == wake[w].ph = "none" /\ \A v \in Wakes : v < w => wake[v].ph # "none"

\* A wake of the last 90 seconds is left to finish; a new one announces
\* itself after the given posts.
BeginWake(before) ==
    IF waking = 1 THEN posts' = before /\ UNCHANGED <<waking, wake>>
    ELSE /\ waking' = 1
         /\ \E w \in Wakes :
              /\ FreeWake(w)
              /\ wake' = [wake EXCEPT ![w] = [ph |-> "notice", at |-> 0, att |-> 0]]
              /\ posts' = Append(before, PostOf("wake", w, 0))

CalledByMaint(w) == maint.ph = "wait" /\ maint.w = w

\* The wake returns; the maintenance that called it goes on.
EndWake(w) ==
    /\ wake' = [wake EXCEPT ![w] = NoWake]
    /\ maint' = IF CalledByMaint(w) THEN [maint EXCEPT !.ph = "check"] ELSE maint

\* One launch: session.tmux names its terminal before the process exists.
Launch(w) ==
    /\ (launches + 1) * sid <= MaxBindings
    /\ launches' = launches + 1 /\ tm' = launches + 1
    /\ wake' = [wake EXCEPT ![w] = [ph |-> "spawn", at |-> launches + 1, att |-> @.att + 1]]

WakePosted(w) ==
    /\ wake[w].ph = "notice" /\ Served(PostOf("wake", w, 0))
    /\ Launch(w)
    /\ UNCHANGED <<procs, reported, sid, pid, queue, fence, marks, startup, drain, maint, guards, msgs>>

\* A wake without another launch is over once that is posted.
WakeGivesUp(w) ==
    /\ wake[w].ph = "lost" /\ Served(PostOf("wake", w, 0))
    /\ waking' = 0 /\ EndWake(w)
    /\ UNCHANGED <<provider, binding, queue, fence, restarting, startup, drain, guards, msgs>>

\* The notices of a wake are not guarded: their failure ends it.
WakeNoticeFails(w) ==
    /\ wake[w].ph \in {"notice", "lost"} /\ Served(PostOf("wake", w, 0))
    /\ waking' = 0
    /\ wake' = [wake EXCEPT ![w] = NoWake]
    /\ IF CalledByMaint(w) THEN ReleaseMaintenance
       ELSE UNCHANGED <<maint, restarting, fence>>
    /\ UNCHANGED <<provider, binding, queue, startup, drain, guards, msgs>>

Spawned(w) ==
    /\ wake[w].ph = "spawn"
    /\ procs' = procs \cup {wake[w].at}
    /\ wake' = [wake EXCEPT ![w].ph = "ready"]
    /\ UNCHANGED <<launches, reported, binding, queue, fence, marks, startup, drain, maint, guards, msgs, posts>>

\* waitForClaudeResumeClaim returns: the hook bound this very process.
Claimed(w) == tm = wake[w].at /\ pid = wake[w].at /\ Alive

WakeReady(w) ==
    /\ wake[w].ph = "ready" /\ Claimed(w)
    /\ EndWake(w)
    /\ UNCHANGED <<provider, binding, queue, fence, marks, startup, drain, guards, msgs, posts>>

\* A launch failed, or its terminal exited or was never claimed: the
\* terminal is killed and the wake tries once more or gives up.
LaunchFails(w) ==
    /\ wake[w].ph \in {"spawn", "ready"}
    /\ wake[w].ph = "ready" => ~Claimed(w)
    /\ procs' = procs \ {wake[w].at}
    /\ LET n == wake[w].at
           dropped == IF wake[w].ph = "ready" /\ tm = n THEN 0 ELSE pid
       IN \/ /\ wake[w].att < Attempts
             /\ Launch(w) /\ pid' = dropped
             /\ UNCHANGED posts
          \/ /\ wake[w].att = Attempts \/ (launches + 1) * sid > MaxBindings
             /\ tm' = IF tm = n THEN 0 ELSE tm
             /\ pid' = IF tm = n THEN 0 ELSE dropped
             /\ wake' = [wake EXCEPT ![w].ph = "lost"]
             /\ Enqueue(PostOf("wake", w, 0))
             /\ UNCHANGED launches
    /\ UNCHANGED <<reported, sid, queue, fence, marks, startup, drain, maint, guards, msgs>>

\* Ninety seconds pass over a wake.
WakeAges ==
    /\ waking = 1 /\ waking' = 2
    /\ UNCHANGED <<provider, binding, queue, fence, restarting, startup, drain, ops, msgs, posts>>

-----------------------------------------------------------------------------
(* injectText for one message of the owner *)

Turn(m) == dir[m].ph = "new" /\ \A k \in Msg : k < m => dir[k].ph # "new"

Call(m, call) ==
    /\ dir' = [dir EXCEPT ![m] = call]
    /\ ahead' = [ahead EXCEPT ![m] = ToSet(queue) \cup ToSet(batch)]

\* The message waits behind maintenance or older input.
AcceptFenced(m) ==
    /\ Turn(m) /\ Fenced
    /\ queue' = Append(queue, m)
    /\ Call(m, [ph |-> "note", via |-> "queue", alive |-> Alive,
               busy |-> upd \/ Draining, at |-> 0])
    /\ Enqueue(PostOf("note", m, 0))
    /\ UNCHANGED <<provider, binding, fence, marks, startup, drain, ops, got>>

\* Nothing runs: the message is queued and wakes the session.
AcceptDormant(m) ==
    /\ Turn(m) /\ ~Fenced /\ ~Alive
    /\ queue' = Append(queue, m)
    /\ Call(m, [NewCall EXCEPT !.ph = "done", !.via = "queue"])
    /\ BeginWake(posts)
    /\ UNCHANGED <<provider, binding, fence, restarting, startup, drain, maint, guards, got>>

\* A live session: its terminal is probed before the paste.
AcceptDirect(m) ==
    /\ Turn(m) /\ ~Fenced /\ Alive
    /\ Call(m, [NewCall EXCEPT !.ph = "probe", !.via = "direct", !.at = tm])
    /\ UNCHANGED <<provider, binding, queue, fence, marks, startup, drain, ops, got, posts>>

\* A wake is retried only when the reads taken before the notice found
\* nothing in charge of the queue and no wake runs now.
RetryWake(m) == ~dir[m].alive /\ ~dir[m].busy /\ waking = 0

\* The notice of a queued message is posted and the wake retried, or nothing
\* follows: the notice failed, or the retry is not due.  The recovery of a
\* live provider that it starts is the sweep's RecoverLive.
Noted(m) ==
    /\ dir[m].ph = "note" /\ AtHead(PostOf("note", m, 0))
    /\ dir' = [dir EXCEPT ![m] = Returned(@)]
    /\ \/ RetryWake(m) /\ BeginWake(Tail(posts))
       \/ posts' = Tail(posts) /\ UNCHANGED <<waking, wake>>
    /\ UNCHANGED <<provider, binding, queue, fence, restarting, startup, drain,
                   maint, guards, got, ahead>>

\* The paste failed: a channel event is tried, then the queue.
FallBack(m, received) ==
    /\ dir' = [dir EXCEPT ![m] = Returned(@)]
    /\ \/ Alive /\ got' = Append(received, m) /\ queue' = queue
       \/ got' = received /\ queue' = Append(queue, m)

Probe(m) ==
    /\ dir[m].ph = "probe"
    /\ IF dir[m].at \in procs
       THEN /\ dir' = [dir EXCEPT ![m].ph = "paste", ![m].at = tm]
            /\ UNCHANGED <<queue, got>>
       ELSE FallBack(m, got)
    /\ UNCHANGED <<provider, binding, fence, marks, startup, drain, ops, ahead, posts>>

Pasted(m) ==
    /\ dir[m].ph = "paste" /\ dir[m].at \in procs
    /\ got' = Append(got, m)
    /\ dir' = [dir EXCEPT ![m] = Returned(@)]
    /\ UNCHANGED <<provider, binding, queue, fence, marks, startup, drain, ops, ahead, posts>>

PasteFails(m) ==
    /\ dir[m].ph = "paste"
    /\ \/ FallBack(m, got)
       \/ Len(got) < MaxTorn /\ dir[m].at \in procs /\ FallBack(m, Append(got, m))
    /\ UNCHANGED <<provider, binding, fence, marks, startup, drain, ops, ahead, posts>>

-----------------------------------------------------------------------------
(* scheduleSessionInputDrain and drainSessionInputQueue *)

\* The reservation ends only after the failure notice.
DrainFailed ==
    /\ sched' = [NoDrain EXCEPT !.ph = "notice"] /\ backoff' = TRUE
    /\ Enqueue(PostOf("drain", 0, 0))

\* The top of the drain's loop, with nothing of a batch left: take the
\* queue under the current id, or finish and release the fence.
NextBatch ==
    IF queue # <<>>
    THEN /\ batch' = queue /\ queue' = <<>>
         /\ drainAt' = sid
         /\ sched' = [sched EXCEPT !.ph = "run"]
         /\ UNCHANGED <<fence, backoff, posts>>
    ELSE /\ batch' = <<>> /\ drainAt' = 0 /\ UNCHANGED queue
         /\ IF owner = sched.own
            THEN /\ upd' = FALSE /\ owner' = 0
                 /\ sched' = NoDrain /\ backoff' = FALSE /\ UNCHANGED posts
            ELSE /\ DrainFailed
                 /\ UNCHANGED fence

DrainFires ==
    /\ sched.ph = "timer"
    /\ IF upd /\ owner = sched.own
       THEN NextBatch
       ELSE sched' = NoDrain /\ UNCHANGED <<queue, fence, drainAt, batch, backoff, posts>>
    /\ UNCHANGED <<provider, binding, marks, startup, ops, msgs>>

\* The terminal of the reservation is still the session's and takes input.
DrainProbes ==
    /\ sched.ph = "run" /\ tm = sched.at /\ sched.at \in procs
    /\ sched' = [sched EXCEPT !.ph = "paste"]
    /\ UNCHANGED <<provider, binding, queue, fence, marks, startup, drainAt,
                   batch, backoff, ops, msgs, posts>>

Deliver ==
    /\ sched.ph = "paste" /\ sched.at \in procs
    /\ got' = Append(got, Head(batch))
    /\ IF Len(batch) > 1
       THEN /\ batch' = Tail(batch) /\ sched' = [sched EXCEPT !.ph = "run"]
            /\ UNCHANGED <<queue, fence, drainAt, backoff, posts>>
       ELSE NextBatch
    /\ UNCHANGED <<provider, binding, marks, startup, ops, dir, ahead>>

\* Mutant: the item whose paste failed is not put back.
Requeue_Drops == Tail(batch) \o queue

\* Mutant: the rest goes behind what arrived meanwhile.
Requeue_Behind == queue \o batch

\* The undelivered rest goes back in front of what arrived meanwhile.
Requeue == batch \o queue

DeliverFails ==
    /\ sched.ph \in {"run", "paste"}
    /\ \/ UNCHANGED got
       \/ /\ sched.ph = "paste" /\ sched.at \in procs /\ Len(got) < MaxTorn
          /\ got' = Append(got, Head(batch))
    /\ queue' = Requeue /\ batch' = <<>> /\ drainAt' = 0
    /\ DrainFailed
    /\ RecoverFence(sched.own, FALSE)
    /\ UNCHANGED <<provider, binding, marks, startup, ops, dir, ahead>>

DrainNoticed ==
    /\ sched.ph = "notice" /\ Served(PostOf("drain", 0, 0))
    /\ sched' = NoDrain
    /\ UNCHANGED <<provider, binding, queue, fence, marks, startup, drainAt,
                   batch, backoff, ops, msgs>>

BackoffEnds ==
    /\ backoff /\ backoff' = FALSE
    /\ UNCHANGED <<provider, binding, queue, fence, marks, startup, sched,
                   drainAt, batch, ops, msgs, posts>>

\* recoverLiveSessionInputQueue: all it read before its awaits is read
\* again before the reservation, except the boot claim it consumes.
RecoverLive ==
    /\ queue # <<>> /\ Alive /\ pid = tm
    /\ waking = 0 /\ ~restarting /\ ~upd /\ ~Draining /\ ~Reserved
    /\ pend = 0 /\ ~backoff
    /\ comp = tm \/ (boot /\ sid = 1 /\ tm = 1)
    /\ comp' = tm /\ boot' = (boot /\ comp = tm)
    /\ BeginFence /\ Reserve
    /\ UNCHANGED <<provider, binding, queue, marks, pend, starting, drainAt,
                   batch, backoff, ops, msgs, posts>>

-----------------------------------------------------------------------------
(* SessionStart hooks and completeAuthoritativeSessionStart *)

\* The synchronous part, for the id and terminal the hook established and
\* the completion and pending marks of that id.  A resume and a /clear are
\* announced in the channel, a first start and a compaction are not.
BeginStartup(s, t, c, p, announced) ==
    /\ boot' = FALSE /\ comp' = c
    /\ IF c = t \/ p = t
       THEN pend' = p /\ UNCHANGED <<starting, fence>>
       ELSE /\ pend' = t
            /\ IF upd \/ queue # <<>> THEN EnsureFence ELSE UNCHANGED fence
            /\ starting' = starting \cup
                 {[sid |-> s, tm |-> t, ph |-> IF announced THEN "topic" ELSE "last",
                   own |-> IF upd \/ queue # <<>> THEN owner' ELSE 0]}

\* A new process reports, or the bound one again (compaction).
SessionStart(n) ==
    /\ n \in procs /\ (n \in reported => n = pid)
    /\ reported' = reported \cup {n}
    /\ pid' = n /\ tm' = n
    /\ restarting' = FALSE /\ waking' = 0
    /\ BeginStartup(sid, n, comp, pend, pid # n)
    /\ UNCHANGED <<procs, launches, sid, queue, drain, ops, msgs, posts>>

\* /clear: the same process has a new id.  rebindSessionRuntimeState carries
\* queue, fence and marks over; the startup marks and the drain's own mark
\* stay with the old id.
ClearSession ==
    /\ Alive /\ pid = tm /\ launches * (sid + 1) <= MaxBindings
    /\ sid' = sid + 1
    /\ restarting' = FALSE /\ waking' = 0
    /\ BeginStartup(sid + 1, tm, 0, 0, TRUE)
    /\ UNCHANGED <<provider, pid, tm, queue, drain, ops, msgs, posts>>

Exact(h) == sid = h.sid /\ tm = h.tm

\* The topic is up to date; the announcement joins the channel's posts.
StartupAnnounces(h) ==
    /\ h \in starting /\ h.ph = "topic"
    /\ starting' = (starting \ {h}) \cup {[h EXCEPT !.ph = "post"]}
    /\ Enqueue(PostOf("start", h.sid, h.tm))
    /\ UNCHANGED <<provider, binding, queue, fence, marks, comp, pend, boot, drain, ops, msgs>>

\* The last await of the handler returns.
StartupReturns(h) ==
    /\ h \in starting /\ starting' = starting \ {h}
    /\ \/ h.ph = "last" /\ UNCHANGED posts
       \/ h.ph = "post" /\ Served(PostOf("start", h.sid, h.tm))

StartupDone(h) ==
    /\ StartupReturns(h) /\ Exact(h)
    /\ comp' = h.tm /\ pend' = IF pend = h.tm THEN 0 ELSE pend
    /\ IF upd /\ ~Reserved THEN EnsureFence /\ Reserve ELSE UNCHANGED <<fence, sched>>
    /\ UNCHANGED <<provider, binding, queue, marks, boot, drainAt, batch, backoff, ops, msgs>>

\* The announcement fails, or the session changed under the handler.
StartupFails(h) ==
    /\ StartupReturns(h) /\ (h.ph = "post" \/ ~Exact(h))
    /\ comp' = IF sid = h.sid /\ comp = h.tm THEN 0 ELSE comp
    /\ pend' = IF sid = h.sid /\ pend = h.tm THEN 0 ELSE pend
    /\ IF Exact(h) /\ h.own # 0 THEN RecoverFence(h.own, Draining) ELSE UNCHANGED fence
    /\ UNCHANGED <<provider, binding, queue, marks, boot, drain, ops, msgs>>

-----------------------------------------------------------------------------
(* updateAndRestart *)

\* reserveSessionMaintenance; the notice of the stop comes first.
ReserveMaintenance ==
    /\ maint = NoMaint
    /\ ~restarting /\ ~upd /\ waking = 0
    /\ restarting' = TRUE /\ BeginFence
    /\ maint' = [ph |-> "stop", own |-> owner', at |-> sid, w |-> 0]
    /\ Enqueue(PostOf("stop", 0, 0))
    /\ UNCHANGED <<provider, binding, queue, waking, startup, drain, wake, guards, msgs>>

\* stopReservedSession
StopProvider ==
    /\ maint.ph = "stop" /\ Served(PostOf("stop", 0, 0))
    /\ sid = maint.at
    /\ procs' = procs \ {tm, pid} /\ pid' = 0
    /\ maint' = [maint EXCEPT !.ph = "update"]
    /\ UNCHANGED <<launches, reported, sid, tm, queue, fence, marks, startup, drain, wake, guards, msgs>>

\* The provider is updated, or the update failed and is reported.
Updated ==
    /\ maint.ph = "update" /\ sid = maint.at
    /\ maint' = [maint EXCEPT !.ph = "resume"]
    /\ Enqueue(PostOf("resume", 0, 0))
    /\ UNCHANGED <<provider, binding, queue, fence, marks, startup, drain, wake, guards, msgs>>

\* resumeUpdatedSession up to its wake
ResumeProvider ==
    /\ maint.ph = "resume" /\ AtHead(PostOf("resume", 0, 0))
    /\ sid = maint.at
    /\ BeginWake(Tail(posts))
    /\ maint' = IF waking = 1 THEN [maint EXCEPT !.ph = "check"]
                ELSE [maint EXCEPT !.ph = "wait", !.w = CHOOSE w \in Wakes : FreeWake(w)]
    /\ UNCHANGED <<provider, binding, queue, fence, restarting, startup, drain, guards, msgs>>

\* The session changed during a notice or the update.
AbortMaintenance ==
    /\ sid # maint.at
    /\ \/ maint.ph = "stop" /\ Served(PostOf("stop", 0, 0))
       \/ maint.ph = "update" /\ UNCHANGED posts
       \/ maint.ph = "resume" /\ Served(PostOf("resume", 0, 0))
    /\ ReleaseMaintenance
    /\ UNCHANGED <<provider, binding, queue, waking, startup, drain, wake, guards, msgs>>

\* The wake returned: the guard timer starts if the terminal is active.
CheckResumed ==
    /\ maint.ph = "check"
    /\ IF tm \in procs
       THEN guards' = guards \cup {maint.own} /\ maint' = NoMaint
            /\ UNCHANGED <<restarting, fence>>
       ELSE ReleaseMaintenance /\ UNCHANGED guards
    /\ UNCHANGED <<provider, binding, queue, waking, startup, drain, wake, msgs, posts>>

\* scheduleUpdateGuardCleanup
GuardExpires(o) ==
    /\ o \in guards
    /\ guards' = guards \ {o}
    /\ ReleaseOwner(o)
    /\ UNCHANGED <<provider, binding, queue, waking, startup, drain, wake, maint, msgs, posts>>

-----------------------------------------------------------------------------
\* A provider process exits.
ProviderDies(n) ==
    /\ n \in procs
    /\ procs' = procs \ {n}
    /\ UNCHANGED <<launches, reported, binding, queue, fence, marks, startup, drain, ops, msgs, posts>>

Message(m) == \/ AcceptFenced(m) \/ AcceptDormant(m) \/ AcceptDirect(m)
              \/ Noted(m) \/ Probe(m) \/ Pasted(m) \/ PasteFails(m)

Wake(w) == \/ WakePosted(w) \/ WakeGivesUp(w) \/ WakeNoticeFails(w) \/ Spawned(w)
           \/ WakeReady(w) \/ LaunchFails(w)

Drain == \/ DrainFires \/ DrainProbes \/ Deliver \/ DeliverFails
         \/ DrainNoticed \/ BackoffEnds \/ RecoverLive

Startup == \/ \E n \in Proc : SessionStart(n)
           \/ ClearSession
           \/ \E h \in starting : StartupAnnounces(h) \/ StartupDone(h) \/ StartupFails(h)

Maintenance == \/ ReserveMaintenance \/ StopProvider \/ Updated \/ ResumeProvider
               \/ AbortMaintenance \/ CheckResumed
               \/ \E o \in Gen : GuardExpires(o)

Next == \/ \E m \in Msg : Message(m)
        \/ \E w \in Wakes : Wake(w)
        \/ WakeAges
        \/ Drain
        \/ Startup
        \/ Maintenance
        \/ \E n \in Proc : ProviderDies(n)

Spec == Init /\ [][Next]_vars

-----------------------------------------------------------------------------
(* Fairness: handlers, timers and sweeps run.  A process that started      *)
(* reports itself, and a terminal that keeps being tried takes a paste.    *)

Fairness ==
    /\ \A m \in Msg : WF_vars(Noted(m) \/ Probe(m) \/ Pasted(m) \/ PasteFails(m))
    /\ \A w \in Wakes : WF_vars(Wake(w))
    /\ WF_vars(DrainFires) /\ WF_vars(DrainNoticed) /\ WF_vars(BackoffEnds)
    /\ WF_vars(DrainProbes \/ Deliver \/ DeliverFails)
    /\ SF_vars(DrainProbes) /\ SF_vars(Deliver) /\ WF_vars(RecoverLive)
    /\ \A n \in Proc : WF_vars(pid # n /\ SessionStart(n))
    /\ WF_vars(\E h \in starting : StartupAnnounces(h) \/ StartupDone(h) \/ StartupFails(h))
    /\ SF_vars(\E h \in starting : StartupDone(h))

\* Liveness is asked of a session without maintenance and /clear.
LiveSpec == Init /\ [][Next /\ UNCHANGED <<sid, maint>>]_vars /\ Fairness

-----------------------------------------------------------------------------
Handlers == [sid : Sid, tm : Proc, ph : {"topic", "post", "last"}, own : Gen \cup {0}]
Drains == [ph : {"none", "timer", "run", "paste", "notice"}, own : Gen \cup {0},
           at : Proc \cup {0}]
WakeCalls == {c \in [ph : {"none", "notice", "spawn", "ready", "lost"}, at : Proc \cup {0},
                    att : 0 .. Attempts] :
                 /\ c.ph = "notice" => c.att = 0
                 /\ c.ph \in {"spawn", "ready"} => c.at # 0}
Maintenances == {o \in [ph : {"none", "stop", "update", "resume", "wait", "check"},
                        own : Gen \cup {0}, at : Sid \cup {0}, w : Wakes \cup {0}] :
                    o.ph # "none" => o.own # 0}
Posts == [k : {"note", "wake", "start", "drain", "stop", "resume"}, a : Nat, b : Nat]
Calls == [ph : {"new", "note", "probe", "paste", "done"}, via : {"none", "queue", "direct"},
          alive : BOOLEAN, busy : BOOLEAN, at : Proc \cup {0}]

TypeOK ==
    /\ procs \subseteq Proc /\ reported \subseteq Proc /\ launches \in 0 .. MaxBindings
    /\ sid \in Sid /\ pid \in Proc \cup {0} /\ tm \in Proc \cup {0}
    /\ queue \in Seq(Msg) /\ batch \in Seq(Msg) /\ got \in Seq(Msg)
    /\ upd \in BOOLEAN /\ owner \in Gen \cup {0}
    /\ restarting \in BOOLEAN /\ waking \in {0, 1, 2}
    /\ comp \in Proc \cup {0} /\ pend \in Proc \cup {0} /\ boot \in BOOLEAN
    /\ starting \subseteq Handlers /\ guards \subseteq Gen
    /\ sched \in Drains /\ drainAt \in Sid \cup {0} /\ backoff \in BOOLEAN
    /\ wake \in [Wakes -> WakeCalls] /\ maint \in Maintenances
    /\ posts \in Seq(Posts)
    /\ dir \in [Msg -> Calls] /\ ahead \in [Msg -> SUBSET Msg]

\* How often a message is in a sequence.
Occurs(s, m) == Cardinality({i \in DOMAIN s : s[i] = m})
InFlight(m) == IF dir[m].ph \in {"probe", "paste"} THEN 1 ELSE 0

\* Every accepted message is at exactly one place: a call that is writing it,
\* the queue, the drain's batch, or the provider.  None is lost or doubled by
\* failures, wakes, restarts and identity changes, as long as a failed write
\* reached nobody.
Conserved ==
    \A m \in Msg : Occurs(queue, m) + Occurs(batch, m) + Occurs(got, m) + InFlight(m)
                   = IF dir[m].ph = "new" THEN 0 ELSE 1

\* Whatever was queued when m was accepted reaches the provider before m.
Behind(m) ==
    \A i \in DOMAIN got : got[i] = m =>
        \A a \in ahead[m] : \E j \in 1 .. i - 1 : got[j] = a

\* Direct input does not overtake queued input, as long as the session keeps
\* its id: after a /clear the drain's mark is at the old id, and a failed
\* startup or a guard timer opens the fence under a running drain.
DirectBehindQueue == sid = 1 => \A m \in Msg : dir[m].via = "direct" => Behind(m)

\* Queued input is delivered in the order of acceptance, whatever fails.
QueuedInOrder ==
    /\ \A m \in Msg : dir[m].via = "queue" => Behind(m)
    /\ DirectBehindQueue

\* While a drain holds a batch of the current session, the fence is the
\* drain's own: no timer, startup failure or aborted update took it away.
DrainHoldsFence == sid = 1 => (Draining => upd /\ owner = sched.own)

\* A wake starts only when no provider process is bound to the session.
\* The retry after a queued message's notice uses what it read before the
\* notice, so the code does not guarantee it.
WakesOnlyDormant == [][waking' = 1 /\ waking # 1 => ~Alive]_vars

\* Queued input does not go to the process an update is about to stop.  A
\* startup handler that ends during the update takes the update's fence for
\* its own, so the code does not guarantee it.
QueueSparesReplaced == [][Deliver => maint.ph # "stop"]_vars

\* The queue of a session whose provider stays alive and completed its start
\* is drained, whatever fails meanwhile.  The premise excludes a start that
\* overlaps a reserved drain: it takes a fence of its own, finds the drain
\* reserved, and leaves a fence nobody opens.
LiveQueueDrains ==
    [](Reserved => starting = {}) => []<>(queue = <<>> \/ ~Alive \/ comp # tm)
=============================================================================
