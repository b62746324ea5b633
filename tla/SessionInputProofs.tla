------------------------- MODULE SessionInputProofs -------------------------
(***************************************************************************)
(* For any number of messages, launches, wakes and fence owners: a drain   *)
(* of the session keeps its fence, every variable keeps its type, queued   *)
(* input is delivered in order, and no input is lost or doubled.           *)
(*                                                                         *)
(* The order rests on one sequence, the line of input: what the provider   *)
(* received, then the drain's batch, then the queue.  The drain and its    *)
(* failures only move the boundaries in it (Deliver, Requeue, NextBatch);  *)
(* queued input joins its end, direct input joins behind what was          *)
(* received.                                                               *)
(***************************************************************************)
EXTENDS SessionInput, SequenceTheorems, FiniteSetTheorems, TLAPS

\* A session counts its identities up, a drain has a mark exactly while it
\* delivers, and only an owner reserves one.
DrainShape ==
    /\ sid \in Nat \ {0} /\ drainAt \in Nat /\ drainAt <= sid
    /\ owner \in Nat
    /\ sched = [ph |-> sched.ph, own |-> sched.own, at |-> sched.at]
    /\ drainAt # 0 <=> sched.ph \in {"run", "paste"}
    /\ sched.ph \in {"timer", "run", "paste"} => sched.own # 0

FenceInv == DrainShape /\ DrainHoldsFence

fenceVars == <<sid, upd, owner, sched, drainAt>>

-----------------------------------------------------------------------------
\* beginSessionInputFence returns a generation that is not null.
LEMMA FreshOwnerIsOne ==
    ASSUME Gen \ Held # {}
    PROVE  FreshOwner \in Nat /\ FreshOwner # 0
<1>1. FreshOwner \in Gen
  BY DEF FreshOwner
<1> QED
  BY <1>1, InputAssumption DEF Gen

\* A step that changes neither fence nor drain keeps the invariant.
LEMMA Frame ==
    ASSUME FenceInv, UNCHANGED fenceVars
    PROVE  FenceInv'
BY DEF FenceInv, DrainShape, DrainHoldsFence, Draining, fenceVars

\* Releasing one owner's fence spares a running drain (recoverSessionInputFence).
LEMMA RecoveryKeeps ==
    ASSUME FenceInv, NEW o, RecoverFence(o, Draining), UNCHANGED <<sid, drain>>
    PROVE  FenceInv'
BY DEF FenceInv, DrainShape, DrainHoldsFence, Draining, RecoverFence, drain, fence

\* So does the release of a maintenance operation or guard timer.
LEMMA ReleaseKeeps ==
    ASSUME FenceInv, NEW o, ReleaseOwner(o), UNCHANGED <<sid, drain>>
    PROVE  FenceInv'
<1>1. CASE owner = o
  BY <1>1, RecoveryKeeps DEF ReleaseOwner
<1>2. CASE owner # o
  BY <1>2, Frame DEF ReleaseOwner, fenceVars, fence, drain
<1> QED
  BY <1>1, <1>2

\* A new fence where the present session is not draining.
LEMMA BeginKeeps ==
    ASSUME FenceInv, BeginFence, ~(sid = 1 /\ Draining), UNCHANGED <<sid, drain>>
    PROVE  FenceInv'
BY FreshOwnerIsOne DEF FenceInv, DrainShape, DrainHoldsFence, Draining, BeginFence, drain

\* ensureSessionInputFence: a drain of the present session has the fence.
LEMMA EnsureKeeps ==
    ASSUME FenceInv, EnsureFence, UNCHANGED <<sid, drain>>
    PROVE  FenceInv'
<1>1. CASE upd /\ owner # 0
  BY <1>1, Frame DEF EnsureFence, fenceVars, fence, drain
<1>2. CASE ~(upd /\ owner # 0)
  <2>1. BeginFence
    BY <1>2 DEF EnsureFence
  <2>2. ~(sid = 1 /\ Draining)
    BY <1>2 DEF FenceInv, DrainShape, DrainHoldsFence, Draining
  <2> QED
    BY <2>1, <2>2, BeginKeeps
<1> QED
  BY <1>1, <1>2

\* A reservation, for the owner of the fence, where there is none.
LEMMA ReserveKeeps ==
    ASSUME FenceInv, EnsureFence \/ BeginFence, Reserve, ~Reserved,
           UNCHANGED <<sid, drainAt>>
    PROVE  FenceInv'
<1>1. owner' \in Nat /\ owner' # 0
  BY FreshOwnerIsOne DEF EnsureFence, BeginFence, fence, FenceInv, DrainShape
<1>2. sched'.ph = "timer" /\ sched'.own = owner' /\ sched' = [ph |-> "timer", own |-> owner', at |-> tm]
  BY DEF Reserve
<1>3. drainAt = 0
  BY DEF FenceInv, DrainShape, Reserved
<1> QED
  BY <1>1, <1>2, <1>3 DEF FenceInv, DrainShape, DrainHoldsFence, Draining

\* The drain takes the next batch under its own fence, or ends.
LEMMA NextBatchKeeps ==
    ASSUME FenceInv, NextBatch, sched.ph \in {"timer", "paste"},
           sid = 1 => upd /\ owner = sched.own, UNCHANGED sid
    PROVE  FenceInv'
<1>1. CASE queue # <<>>
  <2>1. sched' = [ph |-> "run", own |-> sched.own, at |-> sched.at]
    BY <1>1 DEF NextBatch, FenceInv, DrainShape
  <2>2. drainAt' = sid /\ upd' = upd /\ owner' = owner
    BY <1>1 DEF NextBatch, fence
  <2> QED
    BY <2>1, <2>2 DEF FenceInv, DrainShape, DrainHoldsFence, Draining
<1>2. CASE queue = <<>>
  <2>1. drainAt' = 0 /\ owner' \in {owner, 0}
    BY <1>2 DEF NextBatch, fence
  <2>2. \/ sched' = [ph |-> "none", own |-> 0, at |-> 0]
        \/ sched' = [ph |-> "notice", own |-> 0, at |-> 0]
    BY <1>2 DEF NextBatch, DrainFailed, NoDrain
  <2> QED
    BY <2>1, <2>2 DEF FenceInv, DrainShape, DrainHoldsFence, Draining
<1> QED
  BY <1>1, <1>2

-----------------------------------------------------------------------------
\* The invariant holds initially.
LEMMA FenceInit == Init => FenceInv
BY DEF Init, FenceInv, DrainShape, DrainHoldsFence, Draining, NoDrain

\* No step of an owner's message touches fence or drain.
LEMMA MessageStep == ASSUME FenceInv, NEW m \in Msg, Message(m) PROVE FenceInv'
<1>1. UNCHANGED fenceVars
  BY DEF Message, AcceptFenced, AcceptDormant, AcceptDirect, Noted, Probe, Pasted,
         PasteFails, fenceVars, binding, fence, drain
<1> QED
  BY <1>1, Frame

\* A wake touches the fence only when it fails for a maintenance operation.
LEMMA WakeStep == ASSUME FenceInv, NEW w \in Wakes, Wake(w) PROVE FenceInv'
<1>1. CASE WakePosted(w) \/ WakeGivesUp(w) \/ Spawned(w) \/ WakeReady(w) \/ LaunchFails(w)
  <2>1. UNCHANGED fenceVars
    BY <1>1 DEF WakePosted, WakeGivesUp, Launch, Spawned, WakeReady, EndWake, LaunchFails,
                fenceVars, binding, fence, drain
  <2> QED
    BY <2>1, Frame
<1>2. CASE WakeNoticeFails(w)
  <2>1. UNCHANGED <<sid, drain>>
    BY <1>2 DEF WakeNoticeFails, binding
  <2>2. CASE CalledByMaint(w)
    BY <1>2, <2>1, <2>2, ReleaseKeeps DEF WakeNoticeFails, ReleaseMaintenance
  <2>3. CASE ~CalledByMaint(w)
    BY <1>2, <2>1, <2>3, Frame DEF WakeNoticeFails, fenceVars, fence, drain
  <2> QED
    BY <2>2, <2>3
<1> QED
  BY <1>1, <1>2 DEF Wake

\* A drain takes over only the fence it was reserved for.
LEMMA DrainStep == ASSUME FenceInv, Drain PROVE FenceInv'
<1>1. CASE DrainFires
  <2>1. CASE upd /\ owner = sched.own
    BY <1>1, <2>1, NextBatchKeeps DEF DrainFires, binding
  <2>2. CASE ~(upd /\ owner = sched.own)
    <3>1. UNCHANGED <<sid, upd, owner, drainAt>> /\ sched' = [ph |-> "none", own |-> 0, at |-> 0]
      BY <1>1, <2>2 DEF DrainFires, binding, fence, NoDrain
    <3>2. drainAt = 0
      BY <1>1 DEF DrainFires, FenceInv, DrainShape
    <3> QED
      BY <3>1, <3>2 DEF FenceInv, DrainShape, DrainHoldsFence, Draining
  <2> QED
    BY <2>1, <2>2
<1>2. CASE Deliver
  <2>1. CASE Len(batch) > 1
    <3>1. sched.ph = "paste" /\ UNCHANGED <<sid, upd, owner, drainAt>>
      BY <1>2, <2>1 DEF Deliver, fence, binding
    <3>2. sched' = [ph |-> "run", own |-> sched.own, at |-> sched.at]
      BY <1>2, <2>1 DEF Deliver, FenceInv, DrainShape
    <3> QED
      BY <3>1, <3>2 DEF FenceInv, DrainShape, DrainHoldsFence, Draining
  <2>2. CASE ~(Len(batch) > 1)
    <3>1. sched.ph = "paste" /\ drainAt # 0
      BY <1>2 DEF Deliver, FenceInv, DrainShape
    <3>2. sid = 1 => upd /\ owner = sched.own
      BY <3>1 DEF FenceInv, DrainShape, DrainHoldsFence, Draining
    <3> QED
      BY <1>2, <2>2, <3>1, <3>2, NextBatchKeeps DEF Deliver, binding
  <2> QED
    BY <2>1, <2>2
<1>3. CASE DeliverFails
  <2>1. UNCHANGED sid /\ drainAt' = 0 /\ owner' \in {owner, 0}
    BY <1>3 DEF DeliverFails, binding, RecoverFence, fence
  <2>2. sched' = [ph |-> "notice", own |-> 0, at |-> 0]
    BY <1>3 DEF DeliverFails, DrainFailed, NoDrain
  <2> QED
    BY <2>1, <2>2 DEF FenceInv, DrainShape, DrainHoldsFence, Draining
<1>4. CASE DrainNoticed
  <2>1. UNCHANGED <<sid, upd, owner, drainAt>> /\ sched' = [ph |-> "none", own |-> 0, at |-> 0]
    BY <1>4 DEF DrainNoticed, binding, fence, NoDrain
  <2>2. drainAt = 0
    BY <1>4 DEF DrainNoticed, FenceInv, DrainShape
  <2> QED
    BY <2>1, <2>2 DEF FenceInv, DrainShape, DrainHoldsFence, Draining
<1>5. CASE BackoffEnds
  BY <1>5, Frame DEF BackoffEnds, fenceVars, fence, binding
<1>6. CASE RecoverLive
  BY <1>6, ReserveKeeps DEF RecoverLive, binding
<1>7. CASE DrainProbes
  <2>1. sched.ph = "run" /\ UNCHANGED <<sid, upd, owner, drainAt>>
    BY <1>7 DEF DrainProbes, fence, binding
  <2>2. sched' = [ph |-> "paste", own |-> sched.own, at |-> sched.at]
    BY <1>7 DEF DrainProbes, FenceInv, DrainShape
  <2> QED
    BY <2>1, <2>2 DEF FenceInv, DrainShape, DrainHoldsFence, Draining
<1> QED
  BY <1>1, <1>2, <1>3, <1>4, <1>5, <1>6, <1>7 DEF Drain

\* The synchronous part of a session start ensures a fence or leaves it.
LEMMA BeginStartupFence ==
    ASSUME NEW s, NEW t, NEW c, NEW p, NEW a, BeginStartup(s, t, c, p, a)
    PROVE  EnsureFence \/ UNCHANGED fence
BY DEF BeginStartup

\* Session starts, /clear and the ends of startup handlers.
LEMMA StartupStep == ASSUME FenceInv, Startup PROVE FenceInv'
<1>1. CASE \E n \in Proc : SessionStart(n)
  <2>1. PICK n \in Proc : SessionStart(n)
    BY <1>1
  <2>2. EnsureFence \/ UNCHANGED fence
    BY <2>1, BeginStartupFence DEF SessionStart
  <2>3. UNCHANGED <<sid, drain>>
    BY <2>1 DEF SessionStart
  <2> QED
    BY <2>2, <2>3, EnsureKeeps, Frame DEF fenceVars, fence, drain
<1>2. CASE ClearSession
  <2>1. sid' = sid + 1 /\ UNCHANGED <<sched, drainAt>>
    BY <1>2 DEF ClearSession, drain
  <2>2. EnsureFence \/ UNCHANGED fence
    BY <1>2, BeginStartupFence DEF ClearSession
  <2>3. owner' \in Nat
    BY <2>2, FreshOwnerIsOne DEF EnsureFence, BeginFence, fence, FenceInv, DrainShape
  <2> QED
    BY <2>1, <2>3 DEF FenceInv, DrainShape, DrainHoldsFence
<1>3. ASSUME NEW h \in starting, StartupAnnounces(h) PROVE FenceInv'
  BY <1>3, Frame DEF StartupAnnounces, fenceVars, fence, binding, drain
<1>4. ASSUME NEW h \in starting, StartupDone(h) PROVE FenceInv'
  <2>1. UNCHANGED <<sid, drainAt>>
    BY <1>4 DEF StartupDone, binding
  <2>2. CASE upd /\ ~Reserved
    BY <1>4, <2>1, <2>2, ReserveKeeps DEF StartupDone
  <2>3. CASE ~(upd /\ ~Reserved)
    BY <1>4, <2>1, <2>3, Frame DEF StartupDone, fenceVars, fence
  <2> QED
    BY <2>2, <2>3
<1>5. ASSUME NEW h \in starting, StartupFails(h) PROVE FenceInv'
  <2>1. UNCHANGED <<sid, drain>>
    BY <1>5 DEF StartupFails, binding
  <2>2. RecoverFence(h.own, Draining) \/ UNCHANGED fence
    BY <1>5 DEF StartupFails
  <2> QED
    BY <2>1, <2>2, RecoveryKeeps, Frame DEF fenceVars, fence, drain
<1> QED
  BY <1>1, <1>2, <1>3, <1>4, <1>5 DEF Startup

\* Maintenance takes a free fence and releases only its own.
LEMMA MaintenanceStep == ASSUME FenceInv, Maintenance PROVE FenceInv'
<1>1. CASE ReserveMaintenance
  <2>1. ~(sid = 1 /\ Draining)
    BY <1>1 DEF ReserveMaintenance, FenceInv, DrainHoldsFence
  <2> QED
    BY <1>1, <2>1, BeginKeeps DEF ReserveMaintenance, binding
<1>2. CASE StopProvider \/ Updated \/ ResumeProvider
  <2>1. UNCHANGED fenceVars
    BY <1>2 DEF StopProvider, Updated, ResumeProvider, fenceVars, fence, binding, drain
  <2> QED
    BY <2>1, Frame
<1>3. CASE AbortMaintenance
  BY <1>3, ReleaseKeeps DEF AbortMaintenance, ReleaseMaintenance, binding
<1>4. CASE CheckResumed
  <2>1. UNCHANGED <<sid, drain>>
    BY <1>4 DEF CheckResumed, binding
  <2>2. CASE tm \in procs
    BY <1>4, <2>1, <2>2, Frame DEF CheckResumed, fenceVars, fence, drain
  <2>3. CASE tm \notin procs
    BY <1>4, <2>1, <2>3, ReleaseKeeps DEF CheckResumed, ReleaseMaintenance
  <2> QED
    BY <2>2, <2>3
<1>5. ASSUME NEW o \in Gen, GuardExpires(o) PROVE FenceInv'
  BY <1>5, ReleaseKeeps DEF GuardExpires, binding
<1> QED
  BY <1>1, <1>2, <1>3, <1>4, <1>5 DEF Maintenance

\* Every step keeps the invariant.
LEMMA FenceStep == FenceInv /\ [Next]_vars => FenceInv'
<1> SUFFICES ASSUME FenceInv, [Next]_vars PROVE FenceInv'
  OBVIOUS
<1>1. CASE UNCHANGED vars
  BY <1>1, Frame DEF vars, fenceVars, binding, fence, drain
<1>2. CASE WakeAges
  BY <1>2, Frame DEF WakeAges, fenceVars, binding, fence, drain
<1>3. ASSUME NEW n \in Proc, ProviderDies(n) PROVE FenceInv'
  BY <1>3, Frame DEF ProviderDies, fenceVars, binding, fence, drain
<1> QED
  BY <1>1, <1>2, <1>3, MessageStep, WakeStep, DrainStep, StartupStep, MaintenanceStep DEF Next

\* While a drain delivers to a session that kept its identity, the fence is
\* the drain's own: no timer, failed start or aborted update opens it.
THEOREM DrainKeepsFence == Spec => []DrainHoldsFence
<1>1. FenceInv => DrainHoldsFence
  BY DEF FenceInv
<1> QED
  BY <1>1, FenceInit, FenceStep, PTL DEF Spec

-----------------------------------------------------------------------------
(* Types, in the parts that the groups of actions change.                   *)

ProviderTypes == procs \subseteq Proc /\ reported \subseteq Proc /\ launches \in 0 .. MaxBindings
BindingTypes == sid \in Sid /\ pid \in Proc \cup {0} /\ tm \in Proc \cup {0}
FenceTypes == upd \in BOOLEAN /\ owner \in Gen \cup {0}
MarkTypes == restarting \in BOOLEAN /\ waking \in {0, 1, 2}
StartupTypes == /\ comp \in Proc \cup {0} /\ pend \in Proc \cup {0} /\ boot \in BOOLEAN
                /\ starting \subseteq Handlers
DrainTypes == /\ sched \in Drains /\ drainAt \in Sid \cup {0} /\ batch \in Seq(Msg)
              /\ backoff \in BOOLEAN
OpTypes == wake \in [Wakes -> WakeCalls] /\ maint \in Maintenances /\ guards \subseteq Gen
InputTypes == queue \in Seq(Msg) /\ got \in Seq(Msg) /\ ahead \in [Msg -> SUBSET Msg]
CallTypes == dir \in [Msg -> Calls]
PostTypes == posts \in Seq(Posts)

\* A drain that delivers has something to deliver.
BatchShape == batch # <<>> <=> drainAt # 0

\* A process and a wake's terminal were launched.
Launched == procs \subseteq 1 .. launches /\ \A w \in Wakes : wake[w].at \in 0 .. launches

\* The parts are all of the type invariant, now and after a step.
LEMMA TypeParts ==
    /\ TypeOK <=> /\ ProviderTypes /\ BindingTypes /\ FenceTypes /\ MarkTypes /\ StartupTypes
                  /\ DrainTypes /\ OpTypes /\ InputTypes /\ CallTypes /\ PostTypes
    /\ TypeOK' <=> /\ ProviderTypes' /\ BindingTypes' /\ FenceTypes' /\ MarkTypes'
                   /\ StartupTypes' /\ DrainTypes' /\ OpTypes' /\ InputTypes' /\ CallTypes'
                   /\ PostTypes'
BY DEF TypeOK, ProviderTypes, BindingTypes, FenceTypes, MarkTypes, StartupTypes, DrainTypes,
       OpTypes, InputTypes, CallTypes, PostTypes

\* A step that leaves a part's variables alone leaves its types.
LEMMA TypeFrames ==
    /\ ProviderTypes /\ UNCHANGED provider => ProviderTypes'
    /\ BindingTypes /\ UNCHANGED binding => BindingTypes'
    /\ FenceTypes /\ UNCHANGED fence => FenceTypes'
    /\ MarkTypes /\ UNCHANGED marks => MarkTypes'
    /\ StartupTypes /\ UNCHANGED startup => StartupTypes'
    /\ DrainTypes /\ UNCHANGED drain => DrainTypes'
    /\ OpTypes /\ UNCHANGED ops => OpTypes'
    /\ InputTypes /\ UNCHANGED <<queue, got, ahead>> => InputTypes'
    /\ CallTypes /\ UNCHANGED dir => CallTypes'
    /\ PostTypes /\ UNCHANGED posts => PostTypes'
BY DEF ProviderTypes, BindingTypes, FenceTypes, MarkTypes, StartupTypes, DrainTypes,
       OpTypes, InputTypes, CallTypes, PostTypes, provider, binding, fence, marks, startup,
       drain, ops

\* A post joins the channel's posts, or the first is served.
LEMMA Posting ==
    ASSUME PostTypes,
           NEW k \in {"note", "wake", "start", "drain", "stop", "resume"},
           NEW a \in Nat, NEW b \in Nat
    PROVE  /\ PostOf(k, a, b) \in Posts
           /\ \A s \in Seq(Posts) : Append(s, PostOf(k, a, b)) \in Seq(Posts)
           /\ AtHead(PostOf(k, a, b)) => Tail(posts) \in Seq(Posts)
<1>1. PostOf(k, a, b) \in Posts
  BY DEF PostOf, Posts
<1>2. \A s \in Seq(Posts) : Append(s, PostOf(k, a, b)) \in Seq(Posts)
  BY <1>1, AppendProperties
<1>3. AtHead(PostOf(k, a, b)) => Tail(posts) \in Seq(Posts)
  BY HeadTailProperties DEF AtHead, PostTypes
<1> QED
  BY <1>1, <1>2, <1>3

\* A launch stays within the bound on processes.
LEMMA LaunchNumber ==
    ASSUME ProviderTypes, BindingTypes, (launches + 1) * sid <= MaxBindings
    PROVE  launches + 1 \in Proc
<1>1. \A n, k \in Nat : n + 1 <= (n + 1) * (k + 1)
  <2> TAKE n, k \in Nat
  <2>1. (n + 1) * (k + 1) = (n + 1) + (n + 1) * k
    OBVIOUS
  <2>2. (n + 1) * k >= 0
    OBVIOUS
  <2> QED
    BY <2>1, <2>2
<1>2. launches \in Nat /\ sid - 1 \in Nat /\ (sid - 1) + 1 = sid
  BY InputAssumption DEF ProviderTypes, BindingTypes, Sid
<1>3. launches + 1 <= (launches + 1) * sid
  BY <1>1, <1>2
<1> QED
  BY <1>2, <1>3, InputAssumption DEF Proc, BindingTypes, Sid

\* beginSessionInputFence, ensureSessionInputFence, recoverSessionInputFence.
LEMMA FenceOperations ==
    /\ BeginFence => FenceTypes'
    /\ FenceTypes /\ EnsureFence => FenceTypes'
    /\ \A o, d : FenceTypes /\ RecoverFence(o, d) => FenceTypes'
<1>1. BeginFence => FenceTypes'
  BY DEF BeginFence, FenceTypes, FreshOwner
<1> QED
  BY <1>1 DEF FenceTypes, EnsureFence, RecoverFence, fence

\* The release of an owner.
LEMMA ReleaseTypes ==
    ASSUME FenceTypes, NEW o, restarting \in BOOLEAN, ReleaseOwner(o)
    PROVE  FenceTypes' /\ restarting' \in BOOLEAN
BY FenceOperations DEF ReleaseOwner, FenceTypes, fence

\* A wake begins, after the posts before it.
LEMMA BeginWakeTypes ==
    ASSUME OpTypes, MarkTypes, PostTypes, NEW before \in Seq(Posts), BeginWake(before)
    PROVE  posts' \in Seq(Posts) /\ waking' \in {0, 1, 2} /\ wake' \in [Wakes -> WakeCalls]
<1>1. CASE waking = 1
  BY <1>1 DEF BeginWake, OpTypes, MarkTypes
<1>2. CASE waking # 1
  <2>1. PICK w \in Wakes : /\ wake' = [wake EXCEPT ![w] = [ph |-> "notice", at |-> 0, att |-> 0]]
                           /\ posts' = Append(before, PostOf("wake", w, 0))
    BY <1>2 DEF BeginWake
  <2>2. [ph |-> "notice", at |-> 0, att |-> 0] \in WakeCalls
    BY InputAssumption DEF WakeCalls
  <2>3. w \in Nat
    BY DEF Wakes
  <2>4. posts' \in Seq(Posts)
    BY <2>1, <2>3, Posting
  <2>5. waking' = 1
    BY <1>2 DEF BeginWake
  <2> QED
    BY <2>1, <2>2, <2>4, <2>5 DEF OpTypes
<1> QED
  BY <1>1, <1>2

-----------------------------------------------------------------------------
\* The records of operations that are not under way.
LEMMA IdleRecords ==
    NoDrain \in Drains /\ NoWake \in WakeCalls /\ NoMaint \in Maintenances /\ NewCall \in Calls
<1>1. NoDrain \in Drains
  BY DEF NoDrain, Drains
<1>2. NoWake \in WakeCalls
  BY InputAssumption DEF NoWake, WakeCalls
<1>3. NoMaint \in Maintenances
  BY DEF NoMaint, Maintenances
<1>4. NewCall \in Calls
  BY DEF NewCall, Calls
<1> QED
  BY <1>1, <1>2, <1>3, <1>4

\* The types hold initially.
LEMMA InitTypes == Init => TypeOK
<1> SUFFICES ASSUME Init PROVE TypeOK
  OBVIOUS
<1>1. ProviderTypes /\ BindingTypes
  BY InputAssumption DEF Init, ProviderTypes, BindingTypes, Proc, Sid
<1>5. FenceTypes /\ MarkTypes
  BY DEF Init, FenceTypes, MarkTypes
<1>6. StartupTypes
  <2>1. boot \in BOOLEAN
    BY DEF Init
  <2>2. comp \in Proc \cup {0} /\ pend = 0 /\ starting = {}
    BY InputAssumption DEF Init, Proc
  <2> QED
    BY <2>1, <2>2 DEF StartupTypes
<1>2. DrainTypes
  BY IdleRecords, EmptySeq DEF Init, DrainTypes
<1>3. OpTypes
  BY IdleRecords DEF Init, OpTypes
<1>4. InputTypes /\ CallTypes /\ PostTypes
  BY DEF Init, InputTypes, CallTypes, PostTypes, NewCall, Calls
<1> QED
  BY <1>1, <1>2, <1>3, <1>4, <1>5, <1>6, TypeParts

\* injectText: calls, queue, posts and a wake it may begin.
LEMMA MessageTypes == ASSUME TypeOK, NEW m \in Msg, Message(m) PROVE TypeOK'
<1> USE TypeParts
<1>0. m \in Nat /\ tm \in Proc \cup {0} /\ Alive \in BOOLEAN /\ Draining \in BOOLEAN /\ upd \in BOOLEAN
  BY DEF Msg, BindingTypes, Alive, Draining, FenceTypes
<1>1. UNCHANGED <<provider, binding, fence, startup, drain, restarting, maint, guards>>
  BY DEF Message, AcceptFenced, AcceptDormant, AcceptDirect, Noted, Probe, Pasted, PasteFails,
         marks, ops
<1>2. \A s \in Seq(Msg) : Append(s, m) \in Seq(Msg)
  BY AppendProperties
<1>3. \A r \in Seq(Msg) : FallBack(m, r) => queue' \in Seq(Msg) /\ got' \in Seq(Msg)
  BY <1>2 DEF FallBack, InputTypes
<1>4. Returned(dir[m]) \in Calls
  BY DEF Returned, NewCall, Calls, CallTypes
<1>5. InputTypes'
  <2>1. \A c : Call(m, c) => ahead' \in [Msg -> SUBSET Msg]
    <3>1. ToSet(queue) \cup ToSet(batch) \in SUBSET Msg
      BY DEF InputTypes, DrainTypes, ToSet
    <3> QED
      BY <3>1 DEF Call, InputTypes
  <2>2. CASE AcceptFenced(m) \/ AcceptDormant(m) \/ AcceptDirect(m)
    BY <2>1, <2>2, <1>2 DEF AcceptFenced, AcceptDormant, AcceptDirect, InputTypes
  <2>3. CASE Noted(m)
    BY <2>3 DEF Noted, InputTypes
  <2>4. CASE Probe(m) \/ Pasted(m) \/ PasteFails(m)
    BY <2>4, <1>2, <1>3 DEF Probe, Pasted, PasteFails, InputTypes
  <2> QED
    BY <2>2, <2>3, <2>4 DEF Message
<1>6. CallTypes'
  <2>1. CASE AcceptFenced(m)
    <3>1. dir' = [dir EXCEPT ![m] = [ph |-> "note", via |-> "queue", alive |-> Alive,
                                     busy |-> upd \/ Draining, at |-> 0]]
      BY <2>1 DEF AcceptFenced, Call
    <3>2. [ph |-> "note", via |-> "queue", alive |-> Alive,
           busy |-> upd \/ Draining, at |-> 0] \in Calls
      BY <1>0 DEF Calls
    <3> QED
      BY <3>1, <3>2 DEF CallTypes
  <2>2. CASE AcceptDormant(m)
    <3>1. dir' = [dir EXCEPT ![m] = [NewCall EXCEPT !.ph = "done", !.via = "queue"]]
      BY <2>2 DEF AcceptDormant, Call
    <3>2. [NewCall EXCEPT !.ph = "done", !.via = "queue"] \in Calls
      BY DEF Calls, NewCall
    <3> QED
      BY <3>1, <3>2 DEF CallTypes
  <2>3. CASE AcceptDirect(m)
    <3>1. dir' = [dir EXCEPT ![m] = [NewCall EXCEPT !.ph = "probe", !.via = "direct", !.at = tm]]
      BY <2>3 DEF AcceptDirect, Call
    <3>2. [NewCall EXCEPT !.ph = "probe", !.via = "direct", !.at = tm] \in Calls
      BY <1>0 DEF Calls, NewCall
    <3> QED
      BY <3>1, <3>2 DEF CallTypes
  <2>4. CASE Noted(m) \/ Pasted(m) \/ PasteFails(m)
    <3>1. dir' = [dir EXCEPT ![m] = Returned(dir[m])]
      BY <2>4 DEF Noted, Pasted, PasteFails, FallBack, CallTypes
    <3> QED
      BY <3>1, <1>4 DEF CallTypes
  <2>5. CASE Probe(m)
    <3>1. \/ dir' = [dir EXCEPT ![m] = Returned(dir[m])]
          \/ dir' = [dir EXCEPT ![m] = [dir[m] EXCEPT !.ph = "paste", !.at = tm]]
      BY <2>5 DEF Probe, FallBack, CallTypes
    <3>2. [dir[m] EXCEPT !.ph = "paste", !.at = tm] \in Calls
      BY <1>0 DEF Calls, CallTypes
    <3> QED
      BY <3>1, <3>2, <1>4 DEF CallTypes
  <2> QED
    BY <2>1, <2>2, <2>3, <2>4, <2>5 DEF Message
<1>7. PostTypes' /\ waking' \in {0, 1, 2} /\ wake' \in [Wakes -> WakeCalls]
  <2>1. CASE AcceptFenced(m)
    <3>1. posts' = Append(posts, PostOf("note", m, 0)) /\ UNCHANGED <<waking, wake>>
      BY <2>1 DEF AcceptFenced, Enqueue, marks, ops
    <3> QED
      BY <3>1, <1>0, Posting DEF PostTypes, MarkTypes, OpTypes
  <2>2. CASE AcceptDormant(m)
    BY <2>2, BeginWakeTypes DEF AcceptDormant, PostTypes
  <2>3. CASE AcceptDirect(m) \/ Probe(m) \/ Pasted(m) \/ PasteFails(m)
    BY <2>3 DEF AcceptDirect, Probe, Pasted, PasteFails, PostTypes, MarkTypes, OpTypes, marks, ops
  <2>4. CASE Noted(m)
    <3>1. Tail(posts) \in Seq(Posts)
      BY <2>4, <1>0, Posting DEF Noted
    <3> QED
      BY <2>4, <3>1, BeginWakeTypes DEF Noted, PostTypes, MarkTypes, OpTypes
  <2> QED
    BY <2>1, <2>2, <2>3, <2>4 DEF Message
<1>8. MarkTypes' /\ OpTypes'
  BY <1>1, <1>7 DEF MarkTypes, OpTypes
<1> QED
  BY <1>1, <1>5, <1>6, <1>7, <1>8, TypeFrames

\* resurrect: launches, terminals and the maintenance that waits for it.
LEMMA WakeTypes == ASSUME TypeOK, NEW w \in Wakes, Wake(w) PROVE TypeOK'
<1> USE TypeParts
<1>0. /\ w \in Nat /\ wake[w] \in WakeCalls /\ wake[w].at \in Proc \cup {0}
      /\ wake[w].att \in 0 .. Attempts
  BY DEF Wakes, OpTypes, WakeCalls
<1>1. UNCHANGED <<reported, sid, queue, startup, drain, guards, msgs>>
  BY DEF Wake, WakePosted, WakeGivesUp, WakeNoticeFails, Spawned, WakeReady, EndWake,
         LaunchFails, Launch, provider, binding, drain, startup, msgs
<1>2. ASSUME NEW c \in WakeCalls PROVE [wake EXCEPT ![w] = c] \in [Wakes -> WakeCalls]
  BY DEF OpTypes
<1>3. CalledByMaint(w) => [maint EXCEPT !.ph = "check"] \in Maintenances
  BY DEF CalledByMaint, OpTypes, Maintenances
<1>4. EndWake(w) => wake' \in [Wakes -> WakeCalls] /\ maint' \in Maintenances
  BY <1>2, <1>3, IdleRecords DEF EndWake, OpTypes
<1>5. PostTypes'
  <2>1. CASE WakePosted(w) \/ WakeGivesUp(w) \/ WakeNoticeFails(w)
    <3>1. posts' = Tail(posts) /\ AtHead(PostOf("wake", w, 0))
      BY <2>1 DEF WakePosted, WakeGivesUp, WakeNoticeFails, Served
    <3> QED
      BY <3>1, <1>0, Posting DEF PostTypes
  <2>2. CASE Spawned(w) \/ WakeReady(w)
    BY <2>2, TypeFrames DEF Spawned, WakeReady
  <2>3. CASE LaunchFails(w)
    BY <2>3, <1>0, Posting DEF LaunchFails, Enqueue, PostTypes
  <2> QED
    BY <2>1, <2>2, <2>3 DEF Wake
<1>6. ASSUME Launch(w), wake[w].ph = "notice" \/ wake[w].att < Attempts
      PROVE  /\ launches' \in 0 .. MaxBindings /\ tm' \in Proc
             /\ wake' \in [Wakes -> WakeCalls]
  <2>1. launches + 1 \in Proc
    BY <1>6, LaunchNumber DEF Launch
  <2>2. launches' \in 0 .. MaxBindings /\ tm' \in Proc
    BY <1>6, <2>1, InputAssumption DEF Launch, Proc
  <2> DEFINE c == [ph |-> "spawn", at |-> launches + 1, att |-> wake[w].att + 1]
  <2>3. wake' = [wake EXCEPT ![w] = c]
    BY <1>6 DEF Launch, OpTypes
  <2>4. c \in WakeCalls
    <3>1. launches + 1 # 0 /\ wake[w].att + 1 \in 0 .. Attempts
      BY <1>6, <1>0, <2>1, InputAssumption DEF Proc, WakeCalls
    <3> QED
      BY <3>1, <2>1 DEF WakeCalls
  <2> QED
    BY <2>2, <2>3, <2>4, <1>2
<1>7. ProviderTypes' /\ BindingTypes' /\ OpTypes'
  <2>1. CASE WakePosted(w)
    BY <2>1, <1>1, <1>6 DEF WakePosted, ProviderTypes, BindingTypes, OpTypes
  <2>2. CASE WakeGivesUp(w) \/ WakeReady(w)
    BY <2>2, <1>1, <1>4, TypeFrames DEF WakeGivesUp, WakeReady, OpTypes
  <2>3. CASE WakeNoticeFails(w)
    BY <2>3, <1>1, <1>2, IdleRecords, TypeFrames DEF WakeNoticeFails, ReleaseMaintenance, OpTypes
  <2>4. CASE Spawned(w)
    <3>1. wake' = [wake EXCEPT ![w] = [wake[w] EXCEPT !.ph = "ready"]]
      BY <2>4 DEF Spawned, OpTypes
    <3>2. [wake[w] EXCEPT !.ph = "ready"] \in WakeCalls
      BY <2>4, <1>0 DEF Spawned, WakeCalls
    <3>3. OpTypes'
      BY <2>4, <3>1, <3>2, <1>1, <1>2 DEF Spawned, OpTypes
    <3>4. ProviderTypes'
      BY <2>4, <1>0 DEF Spawned, ProviderTypes, WakeCalls
    <3> QED
      BY <2>4, <3>3, <3>4, TypeFrames DEF Spawned
  <2>5. CASE LaunchFails(w)
    <3>1. ProviderTypes' \/ (procs' \subseteq Proc /\ reported' \subseteq Proc)
      BY <2>5, <1>1 DEF LaunchFails, ProviderTypes
    <3>2. pid' \in Proc \cup {0}
      BY <2>5 DEF LaunchFails, BindingTypes
    <3>3. CASE Launch(w) /\ wake[w].att < Attempts
      BY <3>3, <3>2, <2>5, <1>1, <1>6 DEF LaunchFails, ProviderTypes, BindingTypes, OpTypes
    <3>4. CASE wake' = [wake EXCEPT ![w].ph = "lost"] /\ UNCHANGED launches
               /\ tm' \in {tm, 0}
      <4>1. wake' = [wake EXCEPT ![w] = [wake[w] EXCEPT !.ph = "lost"]]
        BY <3>4 DEF OpTypes
      <4>2. [wake[w] EXCEPT !.ph = "lost"] \in WakeCalls
        BY <1>0 DEF WakeCalls
      <4> QED
        BY <4>1, <4>2, <3>2, <3>4, <2>5, <1>1, <1>2
           DEF LaunchFails, ProviderTypes, BindingTypes, OpTypes
    <3> QED
      BY <3>3, <3>4, <2>5 DEF LaunchFails
  <2> QED
    BY <2>1, <2>2, <2>3, <2>4, <2>5 DEF Wake
<1>8. FenceTypes' /\ MarkTypes'
  <2>1. CASE WakeNoticeFails(w)
    BY <2>1, ReleaseTypes DEF WakeNoticeFails, ReleaseMaintenance, MarkTypes, FenceTypes, fence
  <2>2. CASE ~WakeNoticeFails(w)
    BY <2>2, TypeFrames DEF Wake, WakePosted, WakeGivesUp, Spawned, WakeReady, LaunchFails,
                            MarkTypes, marks
  <2> QED
    BY <2>1, <2>2
<1> QED
  BY <1>1, <1>5, <1>7, <1>8, TypeFrames DEF msgs

\* The drain has a batch exactly while it delivers.
LEMMA DrainTypesStep ==
    ASSUME TypeOK, DrainShape, BatchShape, Drain PROVE TypeOK' /\ BatchShape'
<1> USE TypeParts
<1>0. /\ sched \in Drains /\ sched.own \in Gen \cup {0} /\ batch \in Seq(Msg)
      /\ queue \in Seq(Msg) /\ sid \in Sid \cup {0} /\ got \in Seq(Msg)
      /\ drainAt \in Sid \cup {0} /\ sid # 0
  BY DEF DrainTypes, Drains, InputTypes, BindingTypes, DrainShape
<1>1. UNCHANGED <<provider, binding, marks, starting, pend, ops, dir, ahead>>
  BY DEF Drain, DrainFires, DrainProbes, Deliver, DeliverFails, DrainNoticed, BackoffEnds,
         RecoverLive, startup, msgs
<1>2. \A p \in {"run", "paste", "notice"} : [sched EXCEPT !.ph = p] \in Drains
  BY <1>0 DEF Drains
<1>3. [NoDrain EXCEPT !.ph = "notice"] \in Drains
  BY DEF NoDrain, Drains
<1>4. DrainFailed => sched' \in Drains /\ backoff' = TRUE /\ PostTypes'
  <2>1. posts \in Seq(Posts) /\ PostOf("drain", 0, 0) \in Posts
    BY Posting DEF PostTypes
  <2>2. Append(posts, PostOf("drain", 0, 0)) \in Seq(Posts)
    BY <2>1, AppendProperties
  <2> QED
    BY <1>3, <2>2 DEF DrainFailed, Enqueue, PostTypes
<1>5. NextBatch => DrainTypes' /\ BatchShape' /\ queue' \in Seq(Msg) /\ PostTypes' /\ FenceTypes'
  <2> SUFFICES ASSUME NextBatch
               PROVE  DrainTypes' /\ BatchShape' /\ queue' \in Seq(Msg) /\ PostTypes' /\ FenceTypes'
    OBVIOUS
  <2>1. CASE queue # <<>>
    <3>1. sched' \in Drains
      BY <2>1, <1>2 DEF NextBatch
    <3>2. batch' = queue /\ queue' = <<>> /\ drainAt' = sid
      BY <2>1 DEF NextBatch
    <3>3. DrainTypes' /\ BatchShape'
      BY <2>1, <1>0, <3>1, <3>2 DEF NextBatch, DrainTypes, BatchShape
    <3> QED
      BY <2>1, <3>2, <3>3, EmptySeq, TypeFrames DEF NextBatch
  <2>2. CASE queue = <<>>
    BY <2>2, <1>0, <1>4, IdleRecords, EmptySeq, TypeFrames
       DEF NextBatch, DrainTypes, FenceTypes, fence, BatchShape
  <2> QED
    BY <2>1, <2>2
<1>6. CASE DrainFires
  <2>1. CASE upd /\ owner = sched.own
    BY <1>1, <1>5, <1>6, <2>1, TypeFrames DEF DrainFires, startup, msgs, InputTypes
  <2>2. CASE ~(upd /\ owner = sched.own)
    <3>1. DrainTypes' /\ BatchShape'
      BY <1>6, <2>2, IdleRecords DEF DrainFires, DrainTypes, BatchShape
    <3> QED
      BY <1>1, <1>6, <2>2, <3>1, TypeFrames DEF DrainFires, startup, msgs
  <2> QED
    BY <2>1, <2>2
<1>7. CASE DrainProbes \/ DrainNoticed \/ BackoffEnds
  <2>1. DrainTypes' /\ BatchShape'
    BY <1>0, <1>2, <1>7, IdleRecords
       DEF DrainProbes, DrainNoticed, BackoffEnds, DrainTypes, BatchShape
  <2>2. PostTypes'
    BY <1>7, Posting, TypeFrames DEF DrainProbes, DrainNoticed, BackoffEnds, Served, PostTypes
  <2> QED
    BY <1>1, <1>7, <2>1, <2>2, TypeFrames
       DEF DrainProbes, DrainNoticed, BackoffEnds, startup, msgs
<1>8. CASE Deliver
  <2>1. batch # <<>>
    BY <1>8 DEF Deliver, DrainShape, BatchShape
  <2>2. Head(batch) \in Msg /\ Tail(batch) \in Seq(Msg) /\ Len(Tail(batch)) = Len(batch) - 1
    BY <1>0, <2>1, HeadTailProperties
  <2>3. got' \in Seq(Msg)
    BY <1>0, <1>8, <2>2, AppendProperties DEF Deliver
  <2>4. CASE Len(batch) > 1
    <3>1. Tail(batch) # <<>>
      <4>1. Len(batch) \in Nat
        BY <1>0, LenProperties
      <4>2. \A n \in Nat : n > 1 => n - 1 # 0
        OBVIOUS
      <4> QED
        BY <2>2, <2>4, <4>1, <4>2, EmptySeq, Zenon
    <3>2. DrainTypes' /\ BatchShape'
      BY <1>0, <1>2, <1>8, <2>1, <2>2, <2>4, <3>1 DEF Deliver, DrainTypes, BatchShape
    <3> QED
      BY <1>1, <1>8, <2>3, <2>4, <3>2, TypeFrames DEF Deliver, startup, InputTypes
  <2>5. CASE ~(Len(batch) > 1)
    BY <1>1, <1>5, <1>8, <2>3, <2>5, TypeFrames DEF Deliver, startup, InputTypes
  <2> QED
    BY <2>4, <2>5
<1>9. CASE DeliverFails
  <2>1. batch # <<>>
    BY <1>9 DEF DeliverFails, DrainShape, BatchShape
  <2>2. Head(batch) \in Msg
    BY <1>0, <2>1, HeadTailProperties
  <2>3. got' \in Seq(Msg)
    <3>1. got' = got \/ got' = Append(got, Head(batch))
      BY <1>9 DEF DeliverFails
    <3> QED
      BY <1>0, <2>2, <3>1, AppendProperties
  <2>4. queue' \in Seq(Msg)
    BY <1>0, <1>9, ConcatProperties DEF DeliverFails, Requeue
  <2>5. DrainTypes' /\ BatchShape' /\ PostTypes'
    BY <1>0, <1>4, <1>9, EmptySeq DEF DeliverFails, DrainTypes, BatchShape
  <2> QED
    BY <1>1, <1>9, <2>3, <2>4, <2>5, FenceOperations, TypeFrames
       DEF DeliverFails, startup, InputTypes
<1>10. CASE RecoverLive
  <2>1. FenceTypes'
    BY <1>10, FenceOperations DEF RecoverLive
  <2>2. sched' \in Drains
    BY <1>10, <2>1 DEF RecoverLive, Reserve, FenceTypes, Drains, BindingTypes
  <2>3. StartupTypes' /\ DrainTypes' /\ BatchShape'
    BY <1>1, <1>10, <2>2 DEF RecoverLive, StartupTypes, DrainTypes, BatchShape, BindingTypes
  <2> QED
    BY <1>1, <1>10, <2>1, <2>3, TypeFrames DEF RecoverLive, msgs
<1> QED
  BY <1>6, <1>7, <1>8, <1>9, <1>10 DEF Drain

\* Session starts and their handlers.
LEMMA StartupTypesStep == ASSUME TypeOK, DrainShape, Launched, Startup PROVE TypeOK'
<1> USE TypeParts
<1>1. ASSUME NEW s \in Sid, NEW t \in Proc, NEW c \in Proc \cup {0}, NEW p \in Proc \cup {0},
             NEW a \in BOOLEAN, BeginStartup(s, t, c, p, a)
      PROVE  StartupTypes' /\ FenceTypes'
  <2>1. FenceTypes'
    BY <1>1, FenceOperations, TypeFrames DEF BeginStartup
  <2> DEFINE h == [sid |-> s, tm |-> t, ph |-> IF a THEN "topic" ELSE "last",
                   own |-> IF upd \/ queue # <<>> THEN owner' ELSE 0]
  <2>2. h \in Handlers
    BY <2>1 DEF Handlers, FenceTypes
  <2>3. comp' = c /\ pend' \in {p, t} /\ boot' = FALSE
    BY <1>1 DEF BeginStartup
  <2>4. starting' = starting \/ starting' = starting \cup {h}
    BY <1>1 DEF BeginStartup
  <2> QED
    BY <2>1, <2>2, <2>3, <2>4 DEF StartupTypes
<1>2. CASE \E n \in Proc : SessionStart(n)
  <2>1. PICK n \in Proc : SessionStart(n)
    BY <1>2
  <2>2. StartupTypes' /\ FenceTypes'
    <3>1. BeginStartup(sid, n, comp, pend, pid # n)
      BY <2>1 DEF SessionStart
    <3> QED
      BY <3>1, <1>1 DEF BindingTypes, StartupTypes
  <2>3. ProviderTypes' /\ BindingTypes' /\ MarkTypes'
    BY <2>1 DEF SessionStart, ProviderTypes, BindingTypes, MarkTypes
  <2> QED
    BY <2>1, <2>2, <2>3, TypeFrames DEF SessionStart, msgs
<1>3. CASE ClearSession
  <2>1. sid + 1 \in Sid
    <3>1. \A n, k \in Nat : k + 1 <= (n + 1) * (k + 1)
      <4> TAKE n, k \in Nat
      <4>1. (n + 1) * (k + 1) = (k + 1) + n * (k + 1)
        OBVIOUS
      <4>2. n * (k + 1) >= 0
        OBVIOUS
      <4> QED
        BY <4>1, <4>2
    <3>2. pid \in procs /\ launches \in Nat /\ launches >= 1
      BY <1>3 DEF ClearSession, Alive, Launched, ProviderTypes
    <3>3. launches - 1 \in Nat /\ (launches - 1) + 1 = launches /\ sid \in Nat
      BY <3>2, InputAssumption DEF BindingTypes, Sid
    <3>4. sid + 1 <= launches * (sid + 1)
      BY <3>1, <3>3
    <3> QED
      BY <1>3, <3>3, <3>4, InputAssumption DEF ClearSession, Sid
  <2>2. tm \in Proc
    BY <1>3 DEF ClearSession, Alive, ProviderTypes
  <2>3. StartupTypes' /\ FenceTypes'
    <3>1. BeginStartup(sid + 1, tm, 0, 0, TRUE)
      BY <1>3 DEF ClearSession
    <3> QED
      BY <2>1, <2>2, <3>1, <1>1
  <2>4. BindingTypes' /\ MarkTypes'
    BY <1>3, <2>1 DEF ClearSession, BindingTypes, MarkTypes
  <2> QED
    BY <1>3, <2>3, <2>4, TypeFrames DEF ClearSession, msgs
<1>4. ASSUME NEW h \in starting, StartupAnnounces(h) PROVE TypeOK'
  <2>1. h \in Handlers /\ h.sid \in Nat /\ h.tm \in Nat
    BY DEF StartupTypes, Handlers, Sid, Proc
  <2>2. [h EXCEPT !.ph = "post"] \in Handlers
    BY <2>1 DEF Handlers
  <2>3. StartupTypes'
    BY <1>4, <2>2 DEF StartupAnnounces, StartupTypes
  <2>4. PostTypes'
    BY <1>4, <2>1, Posting DEF StartupAnnounces, Enqueue, PostTypes
  <2> QED
    BY <1>4, <2>3, <2>4, TypeFrames DEF StartupAnnounces, msgs
<1>5. ASSUME NEW h \in starting, StartupReturns(h) PROVE PostTypes' /\ starting' \subseteq Handlers
  <2>1. h \in Handlers /\ h.sid \in Nat /\ h.tm \in Nat
    BY DEF StartupTypes, Handlers, Sid, Proc
  <2> QED
    BY <1>5, <2>1, Posting DEF StartupReturns, Served, PostTypes, StartupTypes
<1>6. ASSUME NEW h \in starting, StartupDone(h) PROVE TypeOK'
  <2>1. PostTypes' /\ starting' \subseteq Handlers /\ h.tm \in Proc
    BY <1>5, <1>6 DEF StartupDone, StartupTypes, Handlers
  <2>2. StartupTypes'
    BY <1>6, <2>1 DEF StartupDone, StartupTypes
  <2>3. FenceTypes' /\ sched' \in Drains
    <3>1. CASE upd /\ ~Reserved
      <4>1. EnsureFence /\ Reserve
        BY <1>6, <3>1 DEF StartupDone
      <4>2. FenceTypes'
        BY <4>1, FenceOperations
      <4> QED
        BY <4>1, <4>2 DEF Reserve, FenceTypes, Drains, BindingTypes
    <3>2. CASE ~(upd /\ ~Reserved)
      BY <1>6, <3>2, TypeFrames DEF StartupDone, DrainTypes
    <3> QED
      BY <3>1, <3>2
  <2>4. DrainTypes'
    BY <1>6, <2>3 DEF StartupDone, DrainTypes
  <2> QED
    BY <1>6, <2>1, <2>2, <2>3, <2>4, TypeFrames DEF StartupDone, msgs
<1>7. ASSUME NEW h \in starting, StartupFails(h) PROVE TypeOK'
  <2>1. PostTypes' /\ starting' \subseteq Handlers
    BY <1>5, <1>7 DEF StartupFails
  <2>2. StartupTypes'
    BY <1>7, <2>1 DEF StartupFails, StartupTypes
  <2>3. FenceTypes'
    BY <1>7, FenceOperations, TypeFrames DEF StartupFails
  <2> QED
    BY <1>7, <2>1, <2>2, <2>3, TypeFrames DEF StartupFails, msgs
<1> QED
  BY <1>2, <1>3, <1>4, <1>6, <1>7 DEF Startup

\* updateAndRestart and its guard timers.
LEMMA MaintenanceTypes == ASSUME TypeOK, Maintenance PROVE TypeOK'
<1> USE TypeParts
<1>1. ReleaseMaintenance => FenceTypes' /\ restarting' \in BOOLEAN /\ maint' \in Maintenances
  BY ReleaseTypes, IdleRecords DEF ReleaseMaintenance, MarkTypes
<1>2. ASSUME NEW p \in {"update", "resume", "check"}, maint.ph # "none"
      PROVE  [maint EXCEPT !.ph = p] \in Maintenances
  BY <1>2 DEF OpTypes, Maintenances
<1>3. CASE ReserveMaintenance
  <2>1. FenceTypes'
    BY <1>3, FenceOperations DEF ReserveMaintenance
  <2>2. maint' \in Maintenances
    <3>1. owner' # 0 /\ maint' = [ph |-> "stop", own |-> owner', at |-> sid, w |-> 0]
      BY <1>3, FreshOwnerIsOne DEF ReserveMaintenance, BeginFence
    <3> QED
      BY <2>1, <3>1 DEF FenceTypes, Maintenances, BindingTypes
  <2>3. PostTypes'
    BY <1>3, Posting DEF ReserveMaintenance, Enqueue, PostTypes
  <2> QED
    BY <1>3, <2>1, <2>2, <2>3, TypeFrames DEF ReserveMaintenance, msgs, OpTypes, MarkTypes
<1>4. CASE StopProvider
  <2>1. PostTypes'
    BY <1>4, Posting DEF StopProvider, Served, PostTypes
  <2>2. ProviderTypes' /\ BindingTypes' /\ OpTypes'
    BY <1>2, <1>4 DEF StopProvider, ProviderTypes, BindingTypes, OpTypes
  <2> QED
    BY <1>4, <2>1, <2>2, TypeFrames DEF StopProvider, msgs
<1>5. CASE Updated
  <2>1. PostTypes'
    BY <1>5, Posting DEF Updated, Enqueue, PostTypes
  <2>2. OpTypes'
    BY <1>2, <1>5 DEF Updated, OpTypes
  <2> QED
    BY <1>5, <2>1, <2>2, TypeFrames DEF Updated, msgs
<1>6. CASE ResumeProvider
  <2>1. Tail(posts) \in Seq(Posts)
    BY <1>6, Posting DEF ResumeProvider
  <2>2. posts' \in Seq(Posts) /\ waking' \in {0, 1, 2} /\ wake' \in [Wakes -> WakeCalls]
    BY <1>6, <2>1, BeginWakeTypes DEF ResumeProvider
  <2>3. maint' \in Maintenances
    <3>1. CASE waking = 1
      BY <1>2, <1>6, <3>1 DEF ResumeProvider
    <3>2. CASE waking # 1
      <4>1. \E w \in Wakes : FreeWake(w)
        BY <1>6, <3>2 DEF ResumeProvider, BeginWake
      <4>2. (CHOOSE w \in Wakes : FreeWake(w)) \in Wakes
        BY <4>1
      <4>3. maint' = [maint EXCEPT !.ph = "wait", !.w = CHOOSE w \in Wakes : FreeWake(w)]
        BY <1>6, <3>2 DEF ResumeProvider
      <4> QED
        BY <1>6, <4>2, <4>3 DEF ResumeProvider, OpTypes, Maintenances
    <3> QED
      BY <3>1, <3>2
  <2>4. MarkTypes' /\ OpTypes' /\ PostTypes'
    BY <1>6, <2>2, <2>3 DEF ResumeProvider, MarkTypes, OpTypes, PostTypes
  <2> QED
    BY <1>6, <2>4, TypeFrames DEF ResumeProvider, msgs
<1>7. CASE AbortMaintenance
  <2>1. PostTypes'
    BY <1>7, Posting, TypeFrames DEF AbortMaintenance, Served, PostTypes
  <2>2. FenceTypes' /\ MarkTypes' /\ OpTypes'
    BY <1>1, <1>7 DEF AbortMaintenance, MarkTypes, OpTypes
  <2> QED
    BY <1>7, <2>1, <2>2, TypeFrames DEF AbortMaintenance, msgs
<1>8. CASE CheckResumed
  <2>1. guards' \subseteq Gen /\ maint' \in Maintenances /\ restarting' \in BOOLEAN /\ FenceTypes'
    <3>1. CASE tm \in procs
      <4>1. maint.own \in Gen
        BY <1>8 DEF CheckResumed, OpTypes, Maintenances
      <4> QED
        BY <1>8, <3>1, <4>1, IdleRecords, TypeFrames DEF CheckResumed, OpTypes, MarkTypes
    <3>2. CASE tm \notin procs
      BY <1>1, <1>8, <3>2 DEF CheckResumed, OpTypes
    <3> QED
      BY <3>1, <3>2
  <2> QED
    BY <1>8, <2>1, TypeFrames DEF CheckResumed, msgs, OpTypes, MarkTypes
<1>9. ASSUME NEW o \in Gen, GuardExpires(o) PROVE TypeOK'
  <2>1. FenceTypes' /\ MarkTypes' /\ OpTypes'
    BY <1>9, ReleaseTypes DEF GuardExpires, MarkTypes, OpTypes
  <2> QED
    BY <1>9, <2>1, TypeFrames DEF GuardExpires, msgs
<1> QED
  BY <1>3, <1>4, <1>5, <1>6, <1>7, <1>8, <1>9 DEF Maintenance

\* Only launches make processes and terminals.
LEMMA LaunchedStep == ASSUME TypeOK, Launched, [Next]_vars PROVE Launched'
<1> USE TypeParts
<1>0. launches \in Nat /\ wake \in [Wakes -> WakeCalls]
  BY DEF ProviderTypes, OpTypes
<1>1. ASSUME procs' \subseteq procs, launches' = launches,
             \A v \in Wakes : wake'[v].at \in {wake[v].at, 0}
      PROVE  Launched'
  BY <1>0, <1>1 DEF Launched
<1>2. ASSUME NEW before, BeginWake(before) PROVE \A v \in Wakes : wake'[v].at \in {wake[v].at, 0}
  BY <1>0, <1>2 DEF BeginWake
<1>3. ASSUME NEW m \in Msg, Message(m) PROVE Launched'
  <2>1. UNCHANGED <<procs, launches>> /\ (UNCHANGED wake \/ \E before : BeginWake(before))
    BY <1>3 DEF Message, AcceptFenced, AcceptDormant, AcceptDirect, Noted, Probe, Pasted,
                PasteFails, provider, ops
  <2> QED
    BY <2>1, <1>1, <1>2
<1>4. ASSUME NEW w \in Wakes, WakeGivesUp(w) \/ WakeNoticeFails(w) \/ Spawned(w) \/ WakeReady(w)
      PROVE  Launched'
  <2>1. \A v \in Wakes : wake'[v].at \in {wake[v].at, 0}
    BY <1>0, <1>4 DEF WakeGivesUp, WakeNoticeFails, Spawned, WakeReady, EndWake, NoWake, WakeCalls
  <2>2. launches' = launches /\ procs' \subseteq procs \cup {wake[w].at}
    BY <1>4 DEF WakeGivesUp, WakeNoticeFails, Spawned, WakeReady, provider
  <2>3. CASE Spawned(w)
    <3>1. wake[w].at \in 1 .. launches
      BY <1>0, <2>3 DEF Spawned, WakeCalls, Launched
    <3> QED
      BY <1>0, <2>1, <2>2, <3>1 DEF Launched
  <2>4. CASE ~Spawned(w)
    BY <1>1, <1>4, <2>1, <2>2, <2>4 DEF WakeGivesUp, WakeNoticeFails, WakeReady, provider
  <2> QED
    BY <2>3, <2>4
<1>5. ASSUME NEW w \in Wakes, WakePosted(w) \/ LaunchFails(w) PROVE Launched'
  <2>1. procs' \subseteq procs
    BY <1>5 DEF WakePosted, LaunchFails
  <2>2. CASE Launch(w)
    <3>1. launches' = launches + 1 /\ \A v \in Wakes : wake'[v].at \in {wake[v].at, launches + 1}
      BY <1>0, <2>2 DEF Launch, WakeCalls
    <3> QED
      BY <1>0, <2>1, <3>1 DEF Launched
  <2>3. CASE ~Launch(w)
    BY <1>0, <1>1, <1>5, <2>1, <2>3 DEF WakePosted, LaunchFails, WakeCalls
  <2> QED
    BY <2>2, <2>3
<1>6. ASSUME Maintenance PROVE Launched'
  <2>1. procs' \subseteq procs /\ UNCHANGED launches
    BY <1>6 DEF Maintenance, ReserveMaintenance, StopProvider, Updated, ResumeProvider,
                AbortMaintenance, CheckResumed, GuardExpires, provider
  <2>2. UNCHANGED wake \/ \E before : BeginWake(before)
    BY <1>6 DEF Maintenance, ReserveMaintenance, StopProvider, Updated, ResumeProvider,
                AbortMaintenance, CheckResumed, GuardExpires
  <2> QED
    BY <2>1, <2>2, <1>1, <1>2
<1>7. CASE Drain \/ Startup \/ WakeAges \/ (\E n \in Proc : ProviderDies(n)) \/ UNCHANGED vars
  <2>1. procs' \subseteq procs /\ UNCHANGED <<launches, wake>>
    BY <1>7 DEF Drain, DrainFires, DrainProbes, Deliver, DeliverFails, DrainNoticed, BackoffEnds,
       RecoverLive, Startup, SessionStart, ClearSession, StartupAnnounces, StartupDone,
       StartupFails, WakeAges, ProviderDies, vars, provider, ops
  <2> QED
    BY <2>1, <1>1
<1> QED
  BY <1>3, <1>4, <1>5, <1>6, <1>7 DEF Next, Wake

\* The invariant behind the types.
InputInv == TypeOK /\ FenceInv /\ BatchShape /\ Launched

\* The invariant holds initially.
LEMMA InputInit == Init => InputInv
<1>1. Init => BatchShape
  BY DEF Init, BatchShape
<1>2. Init => Launched
  BY DEF Init, Launched, NoWake
<1> QED
  BY <1>1, <1>2, InitTypes, FenceInit DEF InputInv

\* Every step keeps it.
LEMMA InputStep == InputInv /\ [Next]_vars => InputInv'
<1> SUFFICES ASSUME InputInv, [Next]_vars PROVE InputInv'
  OBVIOUS
<1>1. FenceInv' /\ Launched'
  BY FenceStep, LaunchedStep DEF InputInv
<1>2. TypeOK /\ BatchShape /\ DrainShape /\ Launched
  BY DEF InputInv, FenceInv
<1>3. CASE Drain
  BY <1>1, <1>2, <1>3, DrainTypesStep DEF InputInv
<1>4. CASE ~Drain
  <2>1. UNCHANGED <<batch, drainAt>>
    BY <1>4 DEF Next, Message, AcceptFenced, AcceptDormant, AcceptDirect, Noted, Probe, Pasted,
       PasteFails, Wake, WakePosted, WakeGivesUp, WakeNoticeFails, Spawned, WakeReady,
       LaunchFails, WakeAges, Startup, SessionStart, ClearSession, StartupAnnounces,
       StartupDone, StartupFails, Maintenance, ReserveMaintenance, StopProvider, Updated,
       ResumeProvider, AbortMaintenance, CheckResumed, GuardExpires, ProviderDies, vars, drain
  <2>2. BatchShape'
    BY <1>2, <2>1 DEF BatchShape
  <2>3. ASSUME UNCHANGED vars PROVE TypeOK'
    BY <1>2, <2>3, TypeParts, TypeFrames DEF vars, msgs
  <2>4. ASSUME WakeAges PROVE TypeOK'
    BY <1>2, <2>4, TypeParts, TypeFrames DEF WakeAges, msgs, MarkTypes
  <2>5. ASSUME NEW n \in Proc, ProviderDies(n) PROVE TypeOK'
    BY <1>2, <2>5, TypeParts, TypeFrames DEF ProviderDies, msgs, ProviderTypes
  <2>6. TypeOK'
    BY <1>2, <1>4, <2>3, <2>4, <2>5, MessageTypes, WakeTypes, StartupTypesStep, MaintenanceTypes
       DEF Next
  <2> QED
    BY <1>1, <2>2, <2>6 DEF InputInv
<1> QED
  BY <1>3, <1>4

\* Every variable keeps its type: processes and terminals are launched ones,
\* fence owners are generations, a maintenance under way owns one.
THEOREM TypeCorrect == Spec => []TypeOK
<1>1. InputInv => TypeOK
  BY DEF InputInv
<1> QED
  BY <1>1, InputInit, InputStep, PTL DEF Spec

-----------------------------------------------------------------------------
(* The line of input: what the provider received, what the drain took and   *)
(* what is queued, one behind the other.                                    *)

Line == got \o batch \o queue

\* Whenever m comes in s, a came before it.
Precedes(s, a, m) == \A i \in DOMAIN s : s[i] = m => \E j \in 1 .. i - 1 : s[j] = a

\* The elements of two sequences, one behind the other.
LEMMA ConcatElements ==
    ASSUME NEW s \in Seq(Msg), NEW t \in Seq(Msg)
    PROVE  ToSet(s \o t) = ToSet(s) \cup ToSet(t)
<1>1. /\ Len(s) \in Nat /\ Len(t) \in Nat /\ DOMAIN s = 1 .. Len(s) /\ DOMAIN t = 1 .. Len(t)
      /\ s \o t \in Seq(Msg) /\ Len(s \o t) = Len(s) + Len(t)
      /\ \A i \in 1 .. Len(s) + Len(t) : (s \o t)[i] = IF i <= Len(s) THEN s[i] ELSE t[i - Len(s)]
  BY ConcatProperties, LenProperties
<1>2. DOMAIN (s \o t) = 1 .. Len(s) + Len(t)
  BY <1>1, LenProperties
<1>3. \A i \in DOMAIN s : i \in DOMAIN (s \o t) /\ (s \o t)[i] = s[i]
  BY <1>1, <1>2
<1>4. \A i \in DOMAIN t : Len(s) + i \in DOMAIN (s \o t) /\ (s \o t)[Len(s) + i] = t[i]
  <2> TAKE i \in DOMAIN t
  <2>1. /\ Len(s) + i \in 1 .. Len(s) + Len(t) /\ ~(Len(s) + i <= Len(s))
        /\ (Len(s) + i) - Len(s) = i
    BY <1>1
  <2> QED
    BY <1>1, <1>2, <2>1
<1>5. ToSet(s) \cup ToSet(t) \subseteq ToSet(s \o t)
  BY <1>3, <1>4 DEF ToSet
<1>6. ASSUME NEW i \in DOMAIN (s \o t) PROVE (s \o t)[i] \in ToSet(s) \cup ToSet(t)
  <2>1. CASE i <= Len(s)
    BY <1>1, <1>2, <2>1 DEF ToSet
  <2>2. CASE ~(i <= Len(s))
    <3>1. i - Len(s) \in DOMAIN t /\ (s \o t)[i] = t[i - Len(s)]
      BY <1>1, <1>2, <2>2
    <3> QED
      BY <3>1 DEF ToSet
  <2> QED
    BY <2>1, <2>2
<1> QED
  BY <1>5, <1>6 DEF ToSet

\* The elements of the line are those of its parts.
LEMMA LineElements ==
    ASSUME NEW g \in Seq(Msg), NEW b \in Seq(Msg), NEW q \in Seq(Msg)
    PROVE  ToSet(g \o b \o q) = ToSet(g) \cup ToSet(b) \cup ToSet(q)
<1>1. g \o b \in Seq(Msg)
  BY ConcatProperties
<1>2. ToSet(g \o b) = ToSet(g) \cup ToSet(b)
  BY ConcatElements
<1>3. ToSet((g \o b) \o q) = ToSet(g \o b) \cup ToSet(q)
  BY <1>1, ConcatElements
<1> QED
  BY <1>2, <1>3

\* One more element between two parts of a line.
LEMMA Insertion ==
    ASSUME NEW s \in Seq(Msg), NEW t \in Seq(Msg), NEW x \in Msg
    PROVE  /\ Append(s, x) \o t \in Seq(Msg)
           /\ ToSet(Append(s, x) \o t) = ToSet(s \o t) \cup {x}
           /\ IsInjective(s \o t) /\ x \notin ToSet(s \o t) => IsInjective(Append(s, x) \o t)
           /\ \A a, m \in Msg : Precedes(s \o t, a, m) /\ (m = x => a \in ToSet(s))
                                => Precedes(Append(s, x) \o t, a, m)
<1> DEFINE old == s \o t
           new == Append(s, x) \o t
           n == Len(s)
<1>1. n \in Nat /\ Len(t) \in Nat /\ DOMAIN s = 1 .. n
  BY LenProperties
<1>2. /\ Append(s, x) \in Seq(Msg) /\ Len(Append(s, x)) = n + 1
      /\ Append(s, x)[n + 1] = x /\ \A i \in 1 .. n : Append(s, x)[i] = s[i]
  BY AppendProperties
<1>3. /\ old \in Seq(Msg) /\ Len(old) = n + Len(t)
      /\ \A i \in 1 .. n + Len(t) : old[i] = IF i <= n THEN s[i] ELSE t[i - n]
  BY ConcatProperties
<1>4. /\ new \in Seq(Msg) /\ Len(new) = n + 1 + Len(t)
      /\ \A i \in 1 .. n + 1 + Len(t) :
            new[i] = IF i <= n + 1 THEN Append(s, x)[i] ELSE t[i - (n + 1)]
  BY <1>2, ConcatProperties
<1>5. DOMAIN old = 1 .. n + Len(t) /\ DOMAIN new = 1 .. n + 1 + Len(t)
  BY <1>3, <1>4, LenProperties
<1>6. \A i \in 1 .. n : new[i] = old[i] /\ old[i] = s[i]
  BY <1>1, <1>2, <1>3, <1>4
<1>7. new[n + 1] = x
  BY <1>1, <1>2, <1>4
<1>8. \A i \in n + 2 .. n + 1 + Len(t) : new[i] = old[i - 1]
  <2> TAKE i \in n + 2 .. n + 1 + Len(t)
  <2>1. new[i] = t[i - (n + 1)]
    BY <1>1, <1>4
  <2>2. i - 1 \in 1 .. n + Len(t) /\ ~(i - 1 <= n) /\ (i - 1) - n = i - (n + 1)
    BY <1>1
  <2> QED
    BY <2>1, <2>2, <1>3
<1> HIDE DEF old, new, n
<1>9. ToSet(new) = ToSet(old) \cup {x}
  <2>1. ASSUME NEW i \in DOMAIN new PROVE new[i] \in ToSet(old) \cup {x}
    <3>1. i \in 1 .. n \/ i = n + 1 \/ i \in n + 2 .. n + 1 + Len(t)
      BY <1>1, <1>5
    <3>2. CASE i \in 1 .. n
      BY <3>2, <1>1, <1>5, <1>6 DEF ToSet
    <3>3. CASE i = n + 1
      BY <3>3, <1>7
    <3>4. CASE i \in n + 2 .. n + 1 + Len(t)
      <4>1. i - 1 \in DOMAIN old /\ new[i] = old[i - 1]
        BY <3>4, <1>1, <1>5, <1>8
      <4> QED
        BY <4>1 DEF ToSet
    <3> QED
      BY <3>1, <3>2, <3>3, <3>4
  <2>2. ASSUME NEW i \in DOMAIN old PROVE old[i] \in ToSet(new)
    <3>1. i \in 1 .. n \/ (i + 1 \in n + 2 .. n + 1 + Len(t) /\ (i + 1) - 1 = i)
      BY <1>1, <1>5
    <3> QED
      BY <3>1, <1>1, <1>5, <1>6, <1>8 DEF ToSet
  <2>3. x \in ToSet(new)
    BY <1>1, <1>5, <1>7 DEF ToSet
  <2> QED
    BY <2>1, <2>2, <2>3 DEF ToSet
<1>10. IsInjective(old) /\ x \notin ToSet(old) => IsInjective(new)
  <2> SUFFICES ASSUME IsInjective(old), x \notin ToSet(old),
                      NEW i \in DOMAIN new, NEW j \in DOMAIN new, i < j, new[i] = new[j]
               PROVE  FALSE
    BY <1>1, <1>5 DEF IsInjective
  <2>1. \A k \in 1 .. n + Len(t) : old[k] # x
    BY <1>5 DEF ToSet
  <2>2. \/ i \in 1 .. n /\ j \in 1 .. n
        \/ i \in 1 .. n /\ j = n + 1
        \/ i \in 1 .. n /\ j \in n + 2 .. n + 1 + Len(t)
        \/ i = n + 1 /\ j \in n + 2 .. n + 1 + Len(t)
        \/ i \in n + 2 .. n + 1 + Len(t) /\ j \in n + 2 .. n + 1 + Len(t)
    BY <1>1, <1>5
  <2>3. CASE i \in 1 .. n /\ j \in 1 .. n
    BY <2>3, <1>1, <1>5, <1>6 DEF IsInjective
  <2>4. CASE i \in 1 .. n /\ j = n + 1
    BY <2>1, <2>4, <1>1, <1>6, <1>7
  <2>5. CASE i \in 1 .. n + 1 /\ j \in n + 2 .. n + 1 + Len(t)
    <3>1. j - 1 \in 1 .. n + Len(t) /\ new[j] = old[j - 1] /\ j - 1 > n
      BY <2>5, <1>1, <1>8
    <3>2. CASE i = n + 1
      BY <3>1, <3>2, <2>1, <1>7
    <3>3. CASE i \in 1 .. n
      BY <3>1, <3>3, <1>1, <1>5, <1>6 DEF IsInjective
    <3> QED
      BY <3>2, <3>3, <2>5, <1>1
  <2>6. CASE i \in n + 2 .. n + 1 + Len(t) /\ j \in n + 2 .. n + 1 + Len(t)
    <3>1. /\ i - 1 \in 1 .. n + Len(t) /\ j - 1 \in 1 .. n + Len(t) /\ i - 1 # j - 1
          /\ old[i - 1] = old[j - 1]
      BY <2>6, <1>1, <1>8
    <3> QED
      BY <3>1, <1>5 DEF IsInjective
  <2> QED
    BY <2>2, <2>3, <2>4, <2>5, <2>6, <1>1
<1>11. ASSUME NEW a \in Msg, NEW m \in Msg, Precedes(old, a, m), m = x => a \in ToSet(s),
              NEW i \in DOMAIN new, new[i] = m
       PROVE  \E j \in 1 .. i - 1 : new[j] = a
  <2>1. CASE i \in 1 .. n
    <3>1. PICK j \in 1 .. i - 1 : old[j] = a
      BY <2>1, <1>1, <1>5, <1>6, <1>11 DEF Precedes
    <3> QED
      BY <3>1, <2>1, <1>1, <1>6
  <2>2. CASE i = n + 1
    <3>1. PICK j \in 1 .. n : s[j] = a
      BY <2>2, <1>1, <1>7, <1>11 DEF ToSet
    <3> QED
      BY <3>1, <2>2, <1>1, <1>6
  <2>3. CASE i \in n + 2 .. n + 1 + Len(t)
    <3>1. PICK j \in 1 .. i - 2 : old[j] = a
      <4>1. i - 1 \in DOMAIN old /\ old[i - 1] = m /\ (i - 1) - 1 = i - 2
        BY <2>3, <1>1, <1>5, <1>8, <1>11
      <4> QED
        BY <4>1, <1>11 DEF Precedes
    <3>2. CASE j \in 1 .. n
      BY <3>1, <3>2, <2>3, <1>1, <1>6
    <3>3. CASE j \notin 1 .. n
      <4>1. j + 1 \in n + 2 .. n + 1 + Len(t) /\ j + 1 \in 1 .. i - 1 /\ (j + 1) - 1 = j
        BY <3>1, <3>3, <2>3, <1>1
      <4> QED
        BY <4>1, <3>1, <1>8
    <3> QED
      BY <3>2, <3>3
  <2> QED
    BY <2>1, <2>2, <2>3, <1>1, <1>5
<1> QED
  BY <1>4, <1>9, <1>10, <1>11 DEF Precedes, old, new
\* What one more m does to a line.
Grows(s, t, m) ==
    /\ t \in Seq(Msg) /\ ToSet(t) = ToSet(s) \cup {m}
    /\ \A a, k \in Msg : k # m /\ Precedes(s, a, k) => Precedes(t, a, k)

\* Two messages more are one more twice.
LEMMA GrowsTwice ==
    ASSUME NEW s, NEW t, NEW u, NEW m, Grows(s, t, m), Grows(t, u, m)
    PROVE  Grows(s, u, m)
BY DEF Grows

\* Insertion keeps the order of what was there.
LEMMA InsertionGrows ==
    ASSUME NEW s \in Seq(Msg), NEW t \in Seq(Msg), NEW x \in Msg
    PROVE  /\ Grows(s \o t, Append(s, x) \o t, x)
           /\ IsInjective(s \o t) /\ x \notin ToSet(s \o t) => IsInjective(Append(s, x) \o t)
<1>1. Append(s, x) \o t \in Seq(Msg) /\ ToSet(Append(s, x) \o t) = ToSet(s \o t) \cup {x}
  BY Insertion
<1>2. ASSUME NEW a \in Msg, NEW k \in Msg, k # x, Precedes(s \o t, a, k)
      PROVE  Precedes(Append(s, x) \o t, a, k)
  BY <1>2, Insertion
<1>3. IsInjective(s \o t) /\ x \notin ToSet(s \o t) => IsInjective(Append(s, x) \o t)
  BY Insertion
<1> QED
  BY <1>1, <1>2, <1>3 DEF Grows

\* An insertion behind a keeps a before what is inserted.
LEMMA InsertionBehind ==
    ASSUME NEW s \in Seq(Msg), NEW t \in Seq(Msg), NEW x \in Msg, NEW a \in Msg,
           Precedes(s \o t, a, x), a \in ToSet(s)
    PROVE  Precedes(Append(s, x) \o t, a, x)
BY Insertion

\* The line's parts, and the places where input enters it.
LEMMA LineParts ==
    ASSUME NEW g \in Seq(Msg), NEW b \in Seq(Msg), NEW q \in Seq(Msg), NEW m \in Msg
    PROVE  /\ g \o b \o q \in Seq(Msg)
           /\ g \o b \o q = g \o (b \o q)
           /\ b \o q \in Seq(Msg)
           /\ g \o b \o Append(q, m) = Append(g \o b \o q, m)
           /\ Append(g \o b \o q, m) = Append(g \o b \o q, m) \o <<>>
           /\ g \o b \o q = (g \o b \o q) \o <<>>
<1>1. g \o b \in Seq(Msg) /\ b \o q \in Seq(Msg) /\ <<m>> \in Seq(Msg)
  BY ConcatProperties
<1>2. g \o b \o q \in Seq(Msg) /\ g \o b \o q = g \o (b \o q)
  BY <1>1, ConcatProperties, ConcatAssociative
<1>3. g \o b \o Append(q, m) = Append(g \o b \o q, m)
  <2>1. Append(q, m) = q \o <<m>> /\ Append(g \o b \o q, m) = (g \o b \o q) \o <<m>>
    BY <1>2, AppendIsConcat
  <2>2. (g \o b \o q) \o <<m>> = (g \o b) \o (q \o <<m>>)
    BY <1>1, ConcatAssociative
  <2> QED
    BY <2>1, <2>2
<1>4. Append(g \o b \o q, m) \in Seq(Msg)
  BY <1>2, AppendProperties
<1> QED
  BY <1>1, <1>2, <1>3, <1>4, ConcatEmptySeq

\* Input written to the terminal enters behind what the provider received,
\* queued input at the end.
LEMMA Written ==
    ASSUME NEW g \in Seq(Msg), NEW b \in Seq(Msg), NEW q \in Seq(Msg), NEW m \in Msg
    PROVE  /\ Grows(g \o b \o q, Append(g, m) \o b \o q, m)
           /\ IsInjective(g \o b \o q) /\ m \notin ToSet(g \o b \o q)
              => IsInjective(Append(g, m) \o b \o q)
<1>1. Append(g, m) \in Seq(Msg) /\ b \o q \in Seq(Msg)
  BY AppendProperties, ConcatProperties
<1>2. g \o b \o q = g \o (b \o q) /\ Append(g, m) \o b \o q = Append(g, m) \o (b \o q)
  BY <1>1, LineParts
<1> QED
  BY <1>1, <1>2, InsertionGrows

\* Input that is queued enters at the end, behind all of the line.
LEMMA Queued ==
    ASSUME NEW g \in Seq(Msg), NEW b \in Seq(Msg), NEW q \in Seq(Msg), NEW m \in Msg
    PROVE  /\ Grows(g \o b \o q, g \o b \o Append(q, m), m)
           /\ IsInjective(g \o b \o q) /\ m \notin ToSet(g \o b \o q)
              => IsInjective(g \o b \o Append(q, m))
           /\ m \notin ToSet(g \o b \o q)
              => \A a \in ToSet(g \o b \o q) : Precedes(g \o b \o Append(q, m), a, m)
<1> DEFINE s == g \o b \o q
<1>1. s \in Seq(Msg) /\ s \o <<>> = s /\ g \o b \o Append(q, m) = Append(s, m) \o <<>>
  BY LineParts
<1>2. <<>> \in Seq(Msg)
  BY EmptySeq
<1>3. ToSet(s) \subseteq Msg
  BY <1>1, LenProperties, ElementOfSeq DEF ToSet
<1>4. m \notin ToSet(s) => \A a \in ToSet(s) : Precedes(s, a, m)
  BY DEF ToSet, Precedes
<1> HIDE DEF s
<1>5. /\ Grows(s \o <<>>, Append(s, m) \o <<>>, m)
      /\ IsInjective(s \o <<>>) /\ m \notin ToSet(s \o <<>>)
         => IsInjective(Append(s, m) \o <<>>)
  BY <1>1, <1>2, InsertionGrows
<1>6. ASSUME m \notin ToSet(s), NEW a \in ToSet(s)
      PROVE  Precedes(Append(s, m) \o <<>>, a, m)
  <2>1. Precedes(s \o <<>>, a, m) /\ a \in Msg
    BY <1>1, <1>3, <1>4, <1>6
  <2> QED
    BY <1>1, <1>2, <2>1, InsertionBehind
<1> QED
  BY <1>1, <1>5, <1>6 DEF s

-----------------------------------------------------------------------------
\* The line and what is known of the messages in it.
LineInv ==
    \A m \in Msg :
        /\ dir[m].ph \in {"probe", "paste"} => dir[m].via = "direct"
        /\ m \in ToSet(Line) => dir[m].ph # "new"
        /\ dir[m].ph \in {"note", "done"} => m \in ToSet(Line)
        /\ dir[m].via = "queue" => \A a \in ahead[m] : Precedes(Line, a, m)
        /\ sid = 1 /\ dir[m].via = "direct" => ahead[m] = {}

\* No message is in the line twice, or in the line and with its call.
OnceInv == /\ IsInjective(Line)
           /\ \A m \in Msg : dir[m].ph \in {"probe", "paste"} => m \notin ToSet(Line)

OrderInv == InputInv /\ LineInv /\ (MaxTorn = 0 => OnceInv)

\* A step that moves nothing in the line.
LEMMA LineFrame ==
    ASSUME LineInv, Line' = Line, UNCHANGED <<dir, ahead>>, sid' = 1 => sid = 1
    PROVE  LineInv' /\ (OnceInv => OnceInv')
BY DEF LineInv, OnceInv

\* A call returns, or goes on, without a change of the line.
LEMMA CallGoesOn ==
    ASSUME TypeOK, LineInv, NEW m \in Msg, NEW c,
           Line' = Line, UNCHANGED <<sid, ahead>>, dir' = [dir EXCEPT ![m] = c],
           c.via = dir[m].via,
           \/ dir[m].ph = "note" /\ c.ph = "done"
           \/ dir[m].ph = "probe" /\ c.ph = "paste"
    PROVE  LineInv' /\ (OnceInv => OnceInv')
BY DEF LineInv, OnceInv, TypeOK

\* A returned call remembers which way it went.
LEMMA ReturnedCall ==
    ASSUME NEW c
    PROVE  Returned(c).ph = "done" /\ Returned(c).via = c.via
BY DEF Returned, NewCall

\* A call puts its message into the line, or twice where the write was torn.
LEMMA CallWrites ==
    ASSUME TypeOK, LineInv, NEW m \in Msg, dir[m].ph \in {"probe", "paste"},
           Grows(Line, Line', m), sid' = sid, ahead' = ahead,
           dir' = [dir EXCEPT ![m] = Returned(dir[m])]
    PROVE  LineInv' /\ (OnceInv /\ IsInjective(Line') => OnceInv')
<1>1. \A k \in Msg : k # m => dir'[k] = dir[k]
  BY DEF TypeOK
<1>2. dir'[m].ph = "done" /\ dir'[m].via = "direct"
  BY ReturnedCall DEF TypeOK, LineInv
<1>3. ahead \in [Msg -> SUBSET Msg]
  BY DEF TypeOK
<1>4. LineInv'
  <2> SUFFICES ASSUME NEW k \in Msg
               PROVE  (/\ dir[k].ph \in {"probe", "paste"} => dir[k].via = "direct"
                       /\ k \in ToSet(Line) => dir[k].ph # "new"
                       /\ dir[k].ph \in {"note", "done"} => k \in ToSet(Line)
                       /\ dir[k].via = "queue" => \A a \in ahead[k] : Precedes(Line, a, k)
                       /\ sid = 1 /\ dir[k].via = "direct" => ahead[k] = {})'
    BY DEF LineInv
  <2>1. CASE k = m
    BY <1>2, <2>1 DEF Grows, LineInv
  <2>2. CASE k # m
    BY <1>1, <1>3, <2>2 DEF Grows, LineInv
  <2> QED
    BY <2>1, <2>2
<1>5. OnceInv /\ IsInjective(Line') => OnceInv'
  BY <1>1, <1>2 DEF OnceInv, Grows
<1> QED
  BY <1>4, <1>5

\* A message joins the queue.
LEMMA CallEnters ==
    ASSUME TypeOK, LineInv, NEW m \in Msg, dir[m].ph = "new",
           Grows(Line, Line', m), \A a \in ToSet(Line) : Precedes(Line', a, m),
           sid' = sid, \A k \in Msg \ {m} : dir'[k] = dir[k] /\ ahead'[k] = ahead[k],
           dir'[m].via = "queue", dir'[m].ph \in {"note", "done"}, ahead'[m] \subseteq ToSet(Line)
    PROVE  LineInv' /\ (OnceInv /\ IsInjective(Line') => OnceInv')
<1>3. ahead \in [Msg -> SUBSET Msg]
  BY DEF TypeOK
<1>4. LineInv'
  <2> SUFFICES ASSUME NEW k \in Msg
               PROVE  (/\ dir[k].ph \in {"probe", "paste"} => dir[k].via = "direct"
                       /\ k \in ToSet(Line) => dir[k].ph # "new"
                       /\ dir[k].ph \in {"note", "done"} => k \in ToSet(Line)
                       /\ dir[k].via = "queue" => \A a \in ahead[k] : Precedes(Line, a, k)
                       /\ sid = 1 /\ dir[k].via = "direct" => ahead[k] = {})'
    BY DEF LineInv
  <2>1. CASE k = m
    BY <2>1 DEF Grows
  <2>2. CASE k # m
    BY <1>3, <2>2 DEF Grows, LineInv
  <2> QED
    BY <2>1, <2>2
<1>5. OnceInv /\ IsInjective(Line') => OnceInv'
  BY DEF OnceInv, Grows
<1> QED
  BY <1>4, <1>5

\* A failed paste falls back to the channel event or the queue.
LEMMA FallBackGrows ==
    ASSUME TypeOK, NEW m \in Msg, NEW r \in Seq(Msg), FallBack(m, r), UNCHANGED batch
    PROVE  /\ Grows(r \o batch \o queue, Line', m)
           /\ IsInjective(r \o batch \o queue) /\ m \notin ToSet(r \o batch \o queue)
              => IsInjective(Line')
<1>1. batch \in Seq(Msg) /\ queue \in Seq(Msg)
  BY DEF TypeOK
<1>2. \/ got' = Append(r, m) /\ queue' = queue
      \/ got' = r /\ queue' = Append(queue, m)
  BY DEF FallBack
<1>3. CASE got' = Append(r, m) /\ queue' = queue
  BY <1>1, <1>3, Written DEF Line
<1>4. CASE got' = r /\ queue' = Append(queue, m)
  BY <1>1, <1>4, Queued DEF Line
<1> QED
  BY <1>2, <1>3, <1>4

\* So a failed paste that reached nobody keeps the line's invariant.
LEMMA FallsBack ==
    ASSUME TypeOK, LineInv, NEW m \in Msg, dir[m].ph \in {"probe", "paste"},
           FallBack(m, got), UNCHANGED <<sid, batch, ahead>>
    PROVE  LineInv' /\ (OnceInv => OnceInv')
<1>1. got \in Seq(Msg)
  BY DEF TypeOK
<1>2. /\ Grows(Line, Line', m)
      /\ IsInjective(Line) /\ m \notin ToSet(Line) => IsInjective(Line')
  BY <1>1, FallBackGrows DEF Line
<1>3. OnceInv => IsInjective(Line')
  BY <1>2 DEF OnceInv
<1>4. dir' = [dir EXCEPT ![m] = Returned(dir[m])]
  BY DEF FallBack, TypeOK
<1> QED
  BY <1>2, <1>3, <1>4, CallWrites

\* The paste reached the provider although it failed.
LEMMA TornFallsBack ==
    ASSUME TypeOK, LineInv, NEW m \in Msg, dir[m].ph \in {"probe", "paste"},
           FallBack(m, Append(got, m)), UNCHANGED <<sid, batch, ahead>>
    PROVE  LineInv'
<1>1. /\ got \in Seq(Msg) /\ batch \in Seq(Msg) /\ queue \in Seq(Msg)
      /\ Append(got, m) \in Seq(Msg)
  BY AppendProperties DEF TypeOK
<1>2. Grows(Line, Append(got, m) \o batch \o queue, m)
  BY <1>1, Written DEF Line
<1>3. Grows(Append(got, m) \o batch \o queue, Line', m)
  BY <1>1, FallBackGrows
<1>4. Grows(Line, Line', m)
  BY <1>2, <1>3, GrowsTwice
<1>5. dir' = [dir EXCEPT ![m] = Returned(dir[m])]
  BY DEF FallBack, TypeOK
<1> QED
  BY <1>4, <1>5, CallWrites

\* injectText, action by action.
LEMMA OrderMessage ==
    ASSUME OrderInv, NEW m \in Msg, Message(m)
    PROVE  LineInv' /\ (MaxTorn = 0 => OnceInv')
<1>0. /\ TypeOK /\ LineInv /\ (MaxTorn = 0 => OnceInv)
      /\ got \in Seq(Msg) /\ batch \in Seq(Msg) /\ queue \in Seq(Msg)
      /\ dir \in [Msg -> Calls] /\ ahead \in [Msg -> SUBSET Msg]
  BY DEF OrderInv, InputInv, TypeOK
<1>1. UNCHANGED <<sid, batch>>
  BY DEF Message, AcceptFenced, AcceptDormant, AcceptDirect, Noted, Probe, Pasted, PasteFails,
         binding, drain
<1>2. ASSUME AcceptFenced(m) \/ AcceptDormant(m) PROVE LineInv' /\ (MaxTorn = 0 => OnceInv')
  <2>1. dir[m].ph = "new" /\ got' = got /\ queue' = Append(queue, m)
    BY <1>2 DEF AcceptFenced, AcceptDormant, Turn
  <2>2. PICK c : /\ dir' = [dir EXCEPT ![m] = c] /\ c.via = "queue" /\ c.ph \in {"note", "done"}
                 /\ ahead' = [ahead EXCEPT ![m] = ToSet(queue) \cup ToSet(batch)]
    BY <1>2 DEF AcceptFenced, AcceptDormant, Call, NewCall
  <2>3. m \notin ToSet(Line)
    BY <1>0, <2>1 DEF LineInv
  <2>4. ToSet(queue) \cup ToSet(batch) \subseteq ToSet(Line)
    BY <1>0, LineElements DEF Line
  <2>5. /\ Grows(Line, Line', m) /\ (IsInjective(Line) => IsInjective(Line'))
        /\ \A a \in ToSet(Line) : Precedes(Line', a, m)
    BY <1>0, <1>1, <2>1, <2>3, Queued DEF Line
  <2>6. /\ \A k \in Msg \ {m} : dir'[k] = dir[k] /\ ahead'[k] = ahead[k]
        /\ dir'[m] = c /\ ahead'[m] = ToSet(queue) \cup ToSet(batch)
    BY <1>0, <2>2
  <2>7. LineInv' /\ (OnceInv /\ IsInjective(Line') => OnceInv')
    BY <1>0, <1>1, <2>1, <2>2, <2>4, <2>5, <2>6, CallEnters
  <2> QED
    BY <1>0, <2>5, <2>7 DEF OnceInv
<1>3. CASE AcceptDirect(m)
  <2>1. dir[m].ph = "new" /\ Line' = Line
    BY <1>1, <1>3 DEF AcceptDirect, Turn, Line
  <2>2. PICK c : /\ dir' = [dir EXCEPT ![m] = c] /\ c.via = "direct" /\ c.ph = "probe"
                 /\ ahead' = [ahead EXCEPT ![m] = ToSet(queue) \cup ToSet(batch)]
    BY <1>3 DEF AcceptDirect, Call, NewCall
  <2>3. sid = 1 => queue = <<>> /\ batch = <<>>
    <3>1. queue = <<>> /\ (sid = 1 => drainAt = 0)
      BY <1>3 DEF AcceptDirect, Fenced, Draining, OrderInv, InputInv, FenceInv, DrainShape
    <3> QED
      BY <3>1 DEF OrderInv, InputInv, BatchShape
  <2>4. sid = 1 => ToSet(queue) \cup ToSet(batch) = {}
    BY <2>3 DEF ToSet
  <2> QED
    BY <1>0, <1>1, <2>1, <2>2, <2>4 DEF LineInv, OnceInv
<1>4. CASE Noted(m)
  <2>1. /\ dir[m].ph = "note" /\ dir' = [dir EXCEPT ![m] = Returned(dir[m])]
        /\ UNCHANGED ahead /\ Line' = Line
    BY <1>0, <1>1, <1>4 DEF Noted, Line
  <2> QED
    BY <1>0, <1>1, <2>1, ReturnedCall, CallGoesOn
<1>5. CASE Probe(m)
  <2>1. CASE dir[m].at \in procs
    <3>1. /\ dir[m].ph = "probe" /\ UNCHANGED ahead /\ Line' = Line
          /\ dir' = [dir EXCEPT ![m] = [dir[m] EXCEPT !.ph = "paste", !.at = tm]]
      BY <1>0, <1>1, <1>5, <2>1 DEF Probe, Line
    <3>2. /\ [dir[m] EXCEPT !.ph = "paste", !.at = tm].ph = "paste"
          /\ [dir[m] EXCEPT !.ph = "paste", !.at = tm].via = dir[m].via
      BY <1>0 DEF Calls
    <3> QED
      BY <1>0, <1>1, <3>1, <3>2, CallGoesOn
  <2>2. CASE dir[m].at \notin procs
    <3>1. dir[m].ph = "probe" /\ UNCHANGED ahead /\ FallBack(m, got)
      BY <1>5, <2>2 DEF Probe
    <3> QED
      BY <1>0, <1>1, <3>1, FallsBack
  <2> QED
    BY <2>1, <2>2
<1>6. CASE Pasted(m)
  <2>1. /\ dir[m].ph = "paste" /\ dir' = [dir EXCEPT ![m] = Returned(dir[m])]
        /\ UNCHANGED <<ahead, queue>> /\ got' = Append(got, m)
    BY <1>0, <1>6 DEF Pasted
  <2>2. /\ Grows(Line, Line', m)
        /\ IsInjective(Line) /\ m \notin ToSet(Line) => IsInjective(Line')
    BY <1>0, <1>1, <2>1, Written DEF Line
  <2>3. OnceInv => IsInjective(Line')
    BY <2>1, <2>2 DEF OnceInv
  <2> QED
    BY <1>0, <1>1, <2>1, <2>2, <2>3, CallWrites
<1>7. CASE PasteFails(m)
  <2>1. dir[m].ph = "paste" /\ UNCHANGED ahead
    BY <1>7 DEF PasteFails
  <2>2. CASE FallBack(m, got)
    BY <1>0, <1>1, <2>1, <2>2, FallsBack
  <2>3. CASE MaxTorn # 0 /\ FallBack(m, Append(got, m))
    BY <1>0, <1>1, <2>1, <2>3, TornFallsBack
  <2>4. Len(got) < MaxTorn => MaxTorn # 0
    BY <1>0, LenProperties, InputAssumption
  <2> QED
    BY <1>7, <2>2, <2>3, <2>4 DEF PasteFails
<1> QED
  BY <1>2, <1>3, <1>4, <1>5, <1>6, <1>7 DEF Message

\* A batch is its first message and the rest.
LEMMA HeadThenTail ==
    ASSUME NEW s \in Seq(Msg), s # <<>>
    PROVE  Head(s) \in Msg /\ Tail(s) \in Seq(Msg) /\ s = <<Head(s)>> \o Tail(s)
BY HeadTailProperties

\* Concatenation is associative.
LEMMA Regroup ==
    ASSUME NEW g \in Seq(Msg), NEW b \in Seq(Msg), NEW q \in Seq(Msg)
    PROVE  (g \o b) \o q = g \o (b \o q)
BY ConcatAssociative

\* The first of a batch stands behind what the provider received.
LEMMA HeadPlace ==
    ASSUME NEW g \in Seq(Msg), NEW b \in Seq(Msg), NEW q \in Seq(Msg), b # <<>>
    PROVE  /\ Head(b) \in ToSet(g \o b \o q)
           /\ \A a \in Msg : Precedes(g \o b \o q, a, Head(b)) => a \in ToSet(g)
<1> DEFINE l == g \o (b \o q)
           n == Len(g)
<1>1. /\ g \o b \o q = l /\ b \o q \in Seq(Msg) /\ n \in Nat /\ DOMAIN g = 1 .. n
      /\ Len(b) \in Nat \ {0} /\ Len(q) \in Nat
  <2>1. Head(b) \in Msg
    BY HeadTailProperties
  <2> QED
    BY <2>1, LineParts, LenProperties, EmptySeq
<1>2. /\ Len(b \o q) = Len(b) + Len(q)
      /\ \A i \in 1 .. Len(b) + Len(q) : (b \o q)[i] = IF i <= Len(b) THEN b[i] ELSE q[i - Len(b)]
  BY ConcatProperties
<1>3. /\ l \in Seq(Msg) /\ Len(l) = n + Len(b \o q)
      /\ \A i \in 1 .. n + Len(b \o q) : l[i] = IF i <= n THEN g[i] ELSE (b \o q)[i - n]
  BY <1>1, ConcatProperties
<1>4. (b \o q)[1] = Head(b)
  BY <1>1, <1>2
<1>5. n + 1 \in DOMAIN l /\ l[n + 1] = Head(b)
  <2>1. n + 1 \in 1 .. n + Len(b \o q) /\ ~(n + 1 <= n) /\ (n + 1) - n = 1
    BY <1>1, <1>2
  <2> QED
    BY <1>3, <1>4, <2>1, LenProperties
<1>6. \A i \in 1 .. n : l[i] = g[i]
  BY <1>1, <1>2, <1>3
<1> HIDE DEF l, n
<1>7. ASSUME NEW a \in Msg, Precedes(l, a, Head(b)) PROVE a \in ToSet(g)
  <2>1. PICK j \in 1 .. (n + 1) - 1 : l[j] = a
    BY <1>5, <1>7 DEF Precedes
  <2>2. j \in DOMAIN g /\ g[j] = a
    BY <1>1, <1>6, <2>1
  <2> QED
    BY <2>2 DEF ToSet
<1>8. Head(b) \in ToSet(l)
  BY <1>5 DEF ToSet
<1> QED
  BY <1>1, <1>7, <1>8

\* Writing it once more keeps what must come before it.
LEMMA HeadAgain ==
    ASSUME NEW g \in Seq(Msg), NEW b \in Seq(Msg), NEW q \in Seq(Msg), b # <<>>,
           NEW a \in Msg, Precedes(g \o b \o q, a, Head(b))
    PROVE  Precedes(Append(g, Head(b)) \o b \o q, a, Head(b))
<1>1. a \in ToSet(g) /\ Head(b) \in Msg
  BY HeadPlace, HeadTailProperties
<1>2. b \o q \in Seq(Msg) /\ g \o b \o q = g \o (b \o q) /\ Append(g, Head(b)) \in Seq(Msg)
  BY <1>1, LineParts, AppendProperties
<1>3. Append(g, Head(b)) \o b \o q = Append(g, Head(b)) \o (b \o q)
  BY <1>2, Regroup
<1> QED
  BY <1>1, <1>2, <1>3, InsertionBehind

\* The drain moves the boundaries in the line; a torn write doubles its first.
LEMMA OrderDrain ==
    ASSUME OrderInv, Drain
    PROVE  LineInv' /\ (MaxTorn = 0 => OnceInv')
<1>0. /\ TypeOK /\ LineInv /\ (MaxTorn = 0 => OnceInv)
      /\ got \in Seq(Msg) /\ batch \in Seq(Msg) /\ queue \in Seq(Msg)
      /\ DrainShape /\ BatchShape /\ UNCHANGED <<sid, dir, ahead>>
  <2>1. UNCHANGED <<sid, dir, ahead>>
    BY DEF Drain, DrainFires, DrainProbes, Deliver, DeliverFails, DrainNoticed, BackoffEnds,
           RecoverLive, binding, msgs
  <2> QED
    BY <2>1 DEF OrderInv, InputInv, TypeOK, FenceInv
<1>1. Line' = Line => LineInv' /\ (MaxTorn = 0 => OnceInv')
  BY <1>0, LineFrame
<1>2. \A s \in Seq(Msg) : s \o <<>> = s /\ <<>> \o s = s
  BY ConcatEmptySeq
<1>3. ASSUME DrainProbes \/ DrainNoticed \/ BackoffEnds \/ RecoverLive PROVE Line' = Line
  BY <1>3 DEF DrainProbes, DrainNoticed, BackoffEnds, RecoverLive, msgs, Line
<1>4. ASSUME DrainFires PROVE Line' = Line
  <2>1. batch = <<>> /\ got' = got
    BY <1>0, <1>4 DEF DrainFires, DrainShape, BatchShape, msgs
  <2>2. \/ batch' = queue /\ queue' = <<>>
        \/ batch' = <<>> /\ queue' = queue
    <3>1. CASE upd /\ owner = sched.own
      BY <1>4, <3>1 DEF DrainFires, NextBatch
    <3>2. CASE ~(upd /\ owner = sched.own)
      BY <1>4, <2>1, <3>2 DEF DrainFires
    <3> QED
      BY <3>1, <3>2
  <2> QED
    BY <1>0, <1>2, <2>1, <2>2 DEF Line
<1>5. ASSUME Deliver PROVE Line' = Line
  <2>1. batch # <<>>
    BY <1>0, <1>5 DEF Deliver, DrainShape, BatchShape
  <2> DEFINE h == Head(batch)
             r == Tail(batch)
  <2>2. h \in Msg /\ r \in Seq(Msg) /\ batch = <<h>> \o r
    BY <1>0, <2>1, HeadThenTail
  <2>3. got' = Append(got, h)
    BY <1>5 DEF Deliver
  <2>4. \/ batch' = r /\ queue' = queue
        \/ r = <<>> /\ batch' = queue /\ queue' = <<>>
        \/ r = <<>> /\ batch' = <<>> /\ queue' = queue
    <3>1. CASE Len(batch) > 1
      BY <1>5, <3>1 DEF Deliver
    <3>2. CASE ~(Len(batch) > 1)
      <4>1. Len(r) = 0
        <5>1. Len(batch) \in Nat \ {0} /\ Len(r) = Len(batch) - 1
          BY <1>0, <2>1, HeadTailProperties, EmptySeq
        <5> QED
          BY <3>2, <5>1
      <4>2. r = <<>>
        BY <2>2, <4>1, EmptySeq
      <4> QED
        BY <1>5, <3>2, <4>2 DEF Deliver, NextBatch
    <3> QED
      BY <3>1, <3>2
  <2> DEFINE one == <<h>>
  <2>5. one \in Seq(Msg) /\ batch = one \o r /\ got' = got \o one
    BY <1>0, <2>2, <2>3, AppendIsConcat
  <2> HIDE DEF h, r, one
  <2>6. got \o one \in Seq(Msg) /\ got \o batch = got' \o r
    <3>1. got \o one \in Seq(Msg)
      BY <1>0, <2>5, ConcatProperties
    <3>2. (got \o one) \o r = got \o (one \o r)
      BY <1>0, <2>2, <2>5, Regroup
    <3> QED
      BY <2>5, <3>1, <3>2
  <2>7. Line = got' \o r \o queue
    BY <2>6 DEF Line
  <2>8. CASE batch' = r /\ queue' = queue
    BY <2>7, <2>8 DEF Line
  <2>9. CASE r = <<>>
    <3>1. Line = got' \o queue /\ got' \in Seq(Msg)
      BY <1>2, <2>5, <2>6, <2>7, <2>9
    <3>2. got' \o queue \in Seq(Msg) /\ got' \o <<>> = got'
      BY <1>0, <1>2, <3>1, ConcatProperties
    <3>3. (got' \o queue) \o <<>> = got' \o queue
      BY <1>2, <3>2
    <3> QED
      BY <2>4, <2>9, <2>8, <3>1, <3>2, <3>3 DEF Line
  <2> QED
    BY <2>4, <2>8, <2>9
<1>6. CASE DeliverFails
  <2>1. queue' = batch \o queue /\ batch' = <<>> /\ batch # <<>>
    BY <1>0, <1>6 DEF DeliverFails, Requeue, DrainShape, BatchShape
  <2>2. ASSUME NEW g \in Seq(Msg) PROVE g \o batch' \o queue' = g \o batch \o queue
    <3>1. g \o batch \o queue = g \o (batch \o queue)
      BY <1>0, LineParts
    <3>2. g \o batch' = g
      BY <1>2, <2>1
    <3> QED
      BY <2>1, <3>1, <3>2
  <2>3. CASE got' = got
    BY <1>0, <1>1, <2>2, <2>3 DEF Line
  <2>4. CASE MaxTorn # 0 /\ got' = Append(got, Head(batch))
    <3> DEFINE h == Head(batch)
    <3>1. h \in Msg /\ batch[1] = h /\ Len(batch) > 0
      BY <1>0, <2>1
    <3>2. Append(got, h) \in Seq(Msg)
      BY <1>0, <3>1, AppendProperties
    <3>3. Line' = Append(got, h) \o batch \o queue
      BY <2>2, <2>4, <3>2 DEF Line
    <3>4. Grows(Line, Line', h)
      BY <1>0, <3>1, <3>3, Written DEF Line
    <3>5. ASSUME NEW a \in Msg, Precedes(Line, a, h) PROVE Precedes(Line', a, h)
      BY <1>0, <2>1, <3>3, <3>5, HeadAgain DEF Line
    <3>6. h \in ToSet(Line)
      BY <1>0, <2>1, HeadPlace DEF Line
    <3> QED
      BY <1>0, <2>4, <3>4, <3>5, <3>6 DEF LineInv, Grows, TypeOK
  <2>5. Len(got) < MaxTorn => MaxTorn # 0
    BY <1>0, LenProperties, InputAssumption
  <2> QED
    BY <1>6, <2>3, <2>4, <2>5 DEF DeliverFails
<1> QED
  BY <1>1, <1>3, <1>4, <1>5, <1>6 DEF Drain

-----------------------------------------------------------------------------
\* The line is empty initially.
LEMMA OrderInit == Init => OrderInv
<1> SUFFICES ASSUME Init PROVE OrderInv
  OBVIOUS
<1>1. InputInv
  BY InputInit
<1>2. Line = <<>>
  BY ConcatEmptySeq, EmptySeq DEF Init, Line
<1>3. ToSet(Line) = {} /\ IsInjective(Line)
  BY <1>2 DEF ToSet, IsInjective
<1>4. \A m \in Msg : dir[m].ph = "new" /\ dir[m].via = "none"
  BY DEF Init, NewCall
<1> QED
  BY <1>1, <1>3, <1>4 DEF OrderInv, LineInv, OnceInv

\* Every step keeps the order.
LEMMA OrderStep == OrderInv /\ [Next]_vars => OrderInv'
<1> SUFFICES ASSUME OrderInv, [Next]_vars PROVE OrderInv'
  OBVIOUS
<1>1. InputInv'
  BY InputStep DEF OrderInv
<1>2. CASE Drain
  BY <1>1, <1>2, OrderDrain DEF OrderInv
<1>3. CASE \E m \in Msg : Message(m)
  BY <1>1, <1>3, OrderMessage DEF OrderInv
<1>4. CASE ~Drain /\ ~\E m \in Msg : Message(m)
  <2>1. UNCHANGED <<queue, batch, got, dir, ahead>> /\ sid' \in {sid, sid + 1}
    BY <1>4 DEF Next, Wake, WakePosted, WakeGivesUp, WakeNoticeFails, Spawned, WakeReady,
       LaunchFails, WakeAges, Startup, SessionStart, ClearSession, StartupAnnounces,
       StartupDone, StartupFails, Maintenance, ReserveMaintenance, StopProvider, Updated,
       ResumeProvider, AbortMaintenance, CheckResumed, GuardExpires, ProviderDies, Launch,
       vars, drain, msgs, binding
  <2>2. sid' = 1 => sid = 1
    BY <2>1 DEF OrderInv, InputInv, FenceInv, DrainShape
  <2>3. LineInv' /\ (OnceInv => OnceInv')
    BY <2>1, <2>2, LineFrame DEF OrderInv, Line
  <2> QED
    BY <1>1, <2>3 DEF OrderInv
<1> QED
  BY <1>2, <1>3, <1>4

\* What comes before m in the line came before it to the provider.
LEMMA PrecedesGot ==
    ASSUME NEW g \in Seq(Msg), NEW t \in Seq(Msg), NEW a \in Msg, NEW m \in Msg,
           Precedes(g \o t, a, m)
    PROVE  Precedes(g, a, m)
<1>1. /\ Len(g) \in Nat /\ Len(t) \in Nat /\ DOMAIN g = 1 .. Len(g)
      /\ g \o t \in Seq(Msg) /\ Len(g \o t) = Len(g) + Len(t)
      /\ \A i \in 1 .. Len(g) + Len(t) : (g \o t)[i] = IF i <= Len(g) THEN g[i] ELSE t[i - Len(g)]
  BY ConcatProperties, LenProperties
<1>2. DOMAIN (g \o t) = 1 .. Len(g) + Len(t)
  BY <1>1, LenProperties
<1>3. \A i \in 1 .. Len(g) : i \in DOMAIN (g \o t) /\ (g \o t)[i] = g[i]
  BY <1>1, <1>2
<1> QED
  BY <1>1, <1>3 DEF Precedes

\* The order of the line is the order of delivery.
LEMMA LineIsOrdered == OrderInv => QueuedInOrder
<1> SUFFICES ASSUME OrderInv, NEW m \in Msg,
                    dir[m].via = "queue" \/ (sid = 1 /\ dir[m].via = "direct")
             PROVE  Behind(m)
  BY DEF QueuedInOrder, DirectBehindQueue
<1>1. /\ got \in Seq(Msg) /\ batch \in Seq(Msg) /\ queue \in Seq(Msg)
      /\ ahead[m] \subseteq Msg
  BY DEF OrderInv, InputInv, TypeOK
<1>2. batch \o queue \in Seq(Msg) /\ Line = got \o (batch \o queue)
  BY <1>1, LineParts DEF Line
<1>3. \A a \in ahead[m] : Precedes(Line, a, m)
  BY DEF OrderInv, LineInv
<1>4. \A a \in ahead[m] : Precedes(got, a, m)
  BY <1>1, <1>2, <1>3, PrecedesGot
<1> QED
  BY <1>4 DEF Behind, Precedes

\* In a line without repetitions a message occurs once or not at all.
LEMMA OccursOnce ==
    ASSUME NEW s \in Seq(Msg), IsInjective(s), NEW m \in Msg
    PROVE  Occurs(s, m) = IF m \in ToSet(s) THEN 1 ELSE 0
<1>1. CASE m \in ToSet(s)
  <2>1. PICK i \in DOMAIN s : s[i] = m
    BY <1>1 DEF ToSet
  <2>2. {j \in DOMAIN s : s[j] = m} = {i}
    BY <2>1 DEF IsInjective
  <2> QED
    BY <1>1, <2>2, FS_Singleton DEF Occurs
<1>2. CASE m \notin ToSet(s)
  <2>1. {j \in DOMAIN s : s[j] = m} = {}
    BY <1>2 DEF ToSet
  <2> QED
    BY <1>2, <2>1, FS_EmptySet DEF Occurs
<1> QED
  BY <1>1, <1>2

\* The parts of a line without repetitions have none and share nothing.
LEMMA PartsOnce ==
    ASSUME NEW s \in Seq(Msg), NEW t \in Seq(Msg), IsInjective(s \o t)
    PROVE  /\ IsInjective(s) /\ IsInjective(t) /\ ToSet(s) \cap ToSet(t) = {}
           /\ ToSet(s \o t) = ToSet(s) \cup ToSet(t)
<1>1. /\ Len(s) \in Nat /\ Len(t) \in Nat /\ DOMAIN s = 1 .. Len(s) /\ DOMAIN t = 1 .. Len(t)
      /\ s \o t \in Seq(Msg) /\ Len(s \o t) = Len(s) + Len(t)
      /\ \A i \in 1 .. Len(s) + Len(t) : (s \o t)[i] = IF i <= Len(s) THEN s[i] ELSE t[i - Len(s)]
  BY ConcatProperties, LenProperties
<1>2. DOMAIN (s \o t) = 1 .. Len(s) + Len(t)
  BY <1>1, LenProperties
<1>3. \A i \in DOMAIN s : i \in DOMAIN (s \o t) /\ (s \o t)[i] = s[i] /\ i <= Len(s)
  BY <1>1, <1>2
<1>4. \A i \in DOMAIN t : /\ Len(s) + i \in DOMAIN (s \o t) /\ (s \o t)[Len(s) + i] = t[i]
                          /\ Len(s) + i > Len(s)
  <2> TAKE i \in DOMAIN t
  <2>1. /\ Len(s) + i \in 1 .. Len(s) + Len(t) /\ ~(Len(s) + i <= Len(s))
        /\ (Len(s) + i) - Len(s) = i
    BY <1>1
  <2> QED
    BY <1>1, <1>2, <2>1
<1>5. IsInjective(s)
  BY <1>3 DEF IsInjective
<1>6. IsInjective(t)
  <2> SUFFICES ASSUME NEW i \in DOMAIN t, NEW j \in DOMAIN t, t[i] = t[j] PROVE i = j
    BY DEF IsInjective
  <2>1. Len(s) + i = Len(s) + j
    BY <1>4 DEF IsInjective
  <2> QED
    BY <1>1, <2>1
<1>7. ToSet(s) \cap ToSet(t) = {}
  <2> SUFFICES ASSUME NEW i \in DOMAIN s, NEW j \in DOMAIN t, s[i] = t[j] PROVE FALSE
    BY DEF ToSet
  <2>1. i = Len(s) + j
    BY <1>3, <1>4 DEF IsInjective
  <2> QED
    BY <1>1, <1>3, <1>4, <2>1
<1> QED
  BY <1>5, <1>6, <1>7, ConcatElements

\* A line without repetitions holds every accepted message once.
LEMMA LineIsConserved == OrderInv /\ MaxTorn = 0 => Conserved
<1> SUFFICES ASSUME OrderInv, MaxTorn = 0, NEW m \in Msg
             PROVE  Occurs(queue, m) + Occurs(batch, m) + Occurs(got, m) + InFlight(m)
                    = IF dir[m].ph = "new" THEN 0 ELSE 1
  BY DEF Conserved
<1>1. got \in Seq(Msg) /\ batch \in Seq(Msg) /\ queue \in Seq(Msg) /\ dir[m] \in Calls
  BY DEF OrderInv, InputInv, TypeOK
<1>2. got \o batch \in Seq(Msg) /\ IsInjective(Line)
  BY <1>1, ConcatProperties DEF OrderInv, OnceInv
<1>3. /\ IsInjective(got \o batch) /\ IsInjective(queue)
      /\ ToSet(got \o batch) \cap ToSet(queue) = {}
      /\ ToSet(Line) = ToSet(got \o batch) \cup ToSet(queue)
  BY <1>1, <1>2, PartsOnce DEF Line
<1>4. /\ IsInjective(got) /\ IsInjective(batch) /\ ToSet(got) \cap ToSet(batch) = {}
      /\ ToSet(got \o batch) = ToSet(got) \cup ToSet(batch)
  BY <1>1, <1>3, PartsOnce
<1>5. /\ Occurs(queue, m) = IF m \in ToSet(queue) THEN 1 ELSE 0
      /\ Occurs(batch, m) = IF m \in ToSet(batch) THEN 1 ELSE 0
      /\ Occurs(got, m) = IF m \in ToSet(got) THEN 1 ELSE 0
  BY <1>1, <1>3, <1>4, OccursOnce
<1>6. Occurs(queue, m) + Occurs(batch, m) + Occurs(got, m) = IF m \in ToSet(Line) THEN 1 ELSE 0
  BY <1>3, <1>4, <1>5
<1>7. dir[m].ph \in {"new", "note", "probe", "paste", "done"}
  BY <1>1 DEF Calls
<1>8. m \in ToSet(Line) <=> dir[m].ph \in {"note", "done"}
  BY <1>7 DEF OrderInv, LineInv, OnceInv
<1> QED
  BY <1>6, <1>7, <1>8 DEF InFlight

\* Whatever failed writes do, an accepted message is never lost: it is in its
\* call, in the queue, in the drain's batch or with the provider.
NothingLost ==
    \A m \in Msg : dir[m].ph \in {"note", "done"} =>
        m \in ToSet(queue) \cup ToSet(batch) \cup ToSet(got)

\* Input that was queued reaches the provider behind all that was queued when
\* it was accepted, and direct input does so while the session keeps its id.
THEOREM OrderOfDelivery == Spec => []QueuedInOrder
BY OrderInit, OrderStep, LineIsOrdered, PTL DEF Spec

\* Where a failed write reached nobody (tmuxPaste fails before its paste), an
\* accepted message is at exactly one place: none is lost, none is doubled.
THEOREM Conservation ==
    ASSUME MaxTorn = 0
    PROVE  Spec => []Conserved
<1>1. OrderInv => Conserved
  BY LineIsConserved
<1> QED
  BY <1>1, OrderInit, OrderStep, PTL DEF Spec

\* Every accepted message is at some place at least, torn writes or not
\* (requeueing puts back whatever failed).
THEOREM NoInputLost == Spec => []NothingLost
<1>1. OrderInv => NothingLost
  <2> SUFFICES ASSUME OrderInv, NEW m \in Msg, m \in ToSet(Line)
               PROVE  m \in ToSet(queue) \cup ToSet(batch) \cup ToSet(got)
    BY DEF OrderInv, LineInv, NothingLost
  <2>1. got \in Seq(Msg) /\ batch \in Seq(Msg) /\ queue \in Seq(Msg)
    BY DEF OrderInv, InputInv, TypeOK
  <2> QED
    BY <2>1, LineElements DEF Line
<1> QED
  BY <1>1, OrderInit, OrderStep, PTL DEF Spec
=============================================================================
