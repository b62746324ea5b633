------------------------ MODULE DispatchAndTreeProofs ------------------------
(***************************************************************************)
(* Proofs about the two halves of the task machinery.                      *)
(*                                                                         *)
(* TeamDispatch, for every set of tasks and any number of native           *)
(* identities and daemon crashes: a prompt reaches the provider once at    *)
(* most, and a worker is bound to one task at most.                        *)
(*                                                                         *)
(* TeamTree, for any finite set of channels, any number of teams and any   *)
(* bounds: whom a channel leads and works for, how deep teams nest, the    *)
(* slots of automatic workers, which task a coordinator may be given, and  *)
(* what delegated turns and scheduled wakes rest on.                       *)
(***************************************************************************)
EXTENDS TeamDispatch, Naturals, FiniteSets, FiniteSetTheorems, WellFoundedInduction, TLAPS

USE DispatchAssumption DEF DispatchAssumption

(* The inductive invariant. *)

\* What is not claimed yet was never written to the provider, and a write
\* that may still land has not landed.
DeliveryInv ==
    \A t \in Task :
        /\ status[t] \in {"absent", "queued"} => got[t] = 0 /\ inj[t] = "none"
        /\ inj[t] \in {"audit", "sending"} => got[t] = 0
        /\ got[t] <= 1

DispatchInv == TypeOK /\ DeliveryInv /\ OneBoundTask

-----------------------------------------------------------------------------
\* What one step may do to the journal: a claim binds the only task, every
\* other step keeps bound tasks bound or ends them, and starts none.
Kept == \A t \in Task : Bound(t)' => Bound(t)
Started == \A t \in Task : status'[t] \in {"absent", "queued"} => status[t] \in {"absent", "queued"}

\* A step that binds nothing, starts nothing and delivers nothing keeps the
\* invariant; it may give up a delivery.
LEMMA Frame ==
    ASSUME DispatchInv, TypeOK', Kept, Started, UNCHANGED got,
           \A t \in Task : inj'[t] = inj[t] \/ inj'[t] = "none"
                           \/ (inj[t] = "audit" /\ inj'[t] = "sending")
    PROVE  DispatchInv'
<1>1. DeliveryInv'
    BY DEF DispatchInv, DeliveryInv, Started, TypeOK
<1>2. OneBoundTask'
    BY DEF DispatchInv, OneBoundTask, Kept
<1> QED BY <1>1, <1>2 DEF DispatchInv

\* A task that fails, or a projection that is cleared, is typed and starts
\* and binds nothing.
LEMMA FailFacts ==
    ASSUME TypeOK, NEW t \in Task, Fail(t)
    PROVE  /\ status' \in [Task -> {"absent", "queued"} \cup BoundStates \cup Terminal]
           /\ Kept /\ Started
BY DEF TypeOK, Fail, Active, Bound, BoundStates, Terminal, Kept, Started

\* Evidence of a turn is there or not.
LEMMA ProvenType == Proven \in BOOLEAN
BY DEF Proven

\* Repair names a task or nothing.
LEMMA RepairedType ==
    ASSUME NEW S \in SUBSET Task, NEW name \in Task \cup {None}
    PROVE  Repaired(name, S) \in Task \cup {None}
BY DEF Repaired, BoundExact

-----------------------------------------------------------------------------
\* The invariant holds before the first request.
LEMMA InitInv == Init => DispatchInv
<1> SUFFICES ASSUME Init PROVE DispatchInv
    OBVIOUS
<1>1. TypeOK
  <2>1. /\ status \in [Task -> {"absent", "queued"} \cup BoundStates \cup Terminal]
        /\ inj \in [Task -> {"none", "audit", "sending", "landed"}]
        /\ tsid \in [Task -> 0..MaxRename] /\ got \in [Task -> Nat]
    BY DEF Init
  <2>2. /\ {polled, proof, boot, rebrand, alive, member} \subseteq BOOLEAN
        /\ {excl, stand, turn} \subseteq Task \cup {None}
    BY DEF Init
  <2> QED BY <2>1, <2>2 DEF Init, TypeOK
<1>2. DeliveryInv /\ OneBoundTask
    BY DEF Init, DeliveryInv, OneBoundTask, Bound, BoundStates
<1> QED BY <1>1, <1>2 DEF DispatchInv

\* Requests, cards and decisions of the coordinator
LEMMA ControlStep ==
    ASSUME DispatchInv, NEW t \in Task, Control(t) \/ Auditing(t)
    PROVE  DispatchInv'
<1> USE DEF DispatchInv, TypeOK, journal, cards, session, memory, provider
<1>1. CASE Create(t)
    <2>1. TypeOK'
        BY <1>1 DEF Create
    <2>2. Kept /\ Started /\ UNCHANGED <<got, inj>>
        BY <1>1 DEF Create, Kept, Started, Bound, BoundStates
    <2> QED BY <2>1, <2>2, Frame
<1>2. CASE Release(t) \/ Cancel(t)
    <2>1. /\ status' \in [Task -> {"absent", "queued"} \cup BoundStates \cup Terminal]
          /\ Kept /\ Started
        BY <1>2 DEF Release, Cancel, Kept, Started, Bound, BoundStates, Terminal
    <2>2. TypeOK'
        BY <1>2, <2>1 DEF Release, Cancel, ReleaseBinding
    <2>3. UNCHANGED <<got, inj>>
        BY <1>2 DEF Release, Cancel
    <2> QED BY <2>1, <2>2, <2>3, Frame
<1>3. CASE EnsureAudit(t) \/ AuditPosted(t)
    <2>1. TypeOK' /\ UNCHANGED <<status, got, inj>>
        BY <1>3 DEF EnsureAudit, AuditPosted
    <2> QED BY <2>1, Frame DEF Kept, Started, Bound
<1>4. CASE AuditFails(t)
    <2>1. /\ status' \in [Task -> {"absent", "queued"} \cup BoundStates \cup Terminal]
          /\ Kept /\ Started
        BY <1>4, FailFacts DEF AuditFails
    <2>2. TypeOK' /\ UNCHANGED <<got, inj>>
        BY <1>4, <2>1 DEF AuditFails
    <2> QED BY <2>1, <2>2, Frame
<1> QED BY <1>1, <1>2, <1>3, <1>4 DEF Control, Auditing

\* A claim binds the only bound task, and a write lands once.
LEMMA DispatchStep ==
    ASSUME DispatchInv, NEW t \in Task, Dispatch(t)
    PROVE  DispatchInv'
<1> USE DEF DispatchInv, TypeOK, journal, cards, session, memory, provider
<1>1. CASE Claim(t)
    <2>1. /\ status[t] = "queued" /\ \A u \in Task : ~Bound(u)
          /\ status' = [status EXCEPT ![t] = "dispatching"]
          /\ inj' = [inj EXCEPT ![t] = "audit"] /\ got' = got
        BY <1>1 DEF Claim, MayClaim, Busy
    <2>2. TypeOK'
        BY <1>1 DEF Claim, BoundStates
    <2>3. DeliveryInv'
        BY <2>1 DEF DeliveryInv
    <2>4. OneBoundTask'
        BY <2>1 DEF OneBoundTask, Bound
    <2> QED BY <2>2, <2>3, <2>4
<1>2. CASE Land(t)
    <2>1. /\ inj[t] = "sending" /\ UNCHANGED status
          /\ inj' = [inj EXCEPT ![t] = "landed"]
          /\ got' = [got EXCEPT ![t] = @ + 1]
        BY <1>2 DEF Land
    <2>2. TypeOK'
        BY <1>2 DEF Land
    <2>3. DeliveryInv'
        BY <2>1 DEF DeliveryInv
    <2> QED BY <2>1, <2>2, <2>3 DEF OneBoundTask, Bound
<1>3. CASE DispatchCall(t) \/ CallEnds(t)
    <2>1. TypeOK' /\ UNCHANGED <<status, got, inj>>
        BY <1>3 DEF DispatchCall, CallEnds
    <2> QED BY <2>1, Frame DEF Kept, Started, Bound
<1>4. CASE InjectStart(t) \/ InjectAccepted(t) \/ InjectUncertain(t)
    <2>1. UNCHANGED <<status, got>>
        BY <1>4 DEF InjectStart, InjectAccepted, InjectUncertain
    <2>2. TypeOK'
        <3>1. CASE InjectStart(t) \/ InjectUncertain(t)
            BY <3>1 DEF InjectStart, InjectUncertain
        <3>2. CASE InjectAccepted(t)
            <4>1. /\ polled' \in BOOLEAN /\ inj' = [inj EXCEPT ![t] = "none"]
                  /\ UNCHANGED <<journal, cards, calls, got, session, proof, boot, old, rebrand,
                                 provider, member, crashes>>
                BY <3>2 DEF InjectAccepted
            <4> QED BY <4>1
        <3> QED BY <1>4, <3>1, <3>2
    <2>3. \A u \in Task : inj'[u] = inj[u] \/ inj'[u] = "none"
                          \/ (inj[u] = "audit" /\ inj'[u] = "sending")
        BY <1>4 DEF InjectStart, InjectAccepted, InjectUncertain
    <2> QED BY <2>1, <2>2, <2>3, Frame DEF Kept, Started, Bound
<1>5. CASE InjectRefused(t)
    <2>1. /\ status' \in [Task -> {"absent", "queued"} \cup BoundStates \cup Terminal]
          /\ Kept /\ Started
        BY <1>5, FailFacts DEF InjectRefused
    <2>2. TypeOK'
        BY <1>5, <2>1 DEF InjectRefused
    <2>3. UNCHANGED got /\ \A u \in Task : inj'[u] = inj[u] \/ inj'[u] = "none"
        BY <1>5 DEF InjectRefused
    <2> QED BY <2>1, <2>2, <2>3, Frame
<1> QED BY <1>1, <1>2, <1>3, <1>4, <1>5 DEF Dispatch

\* Failing the exclusive task the session names
LEMMA FailBoundFacts ==
    ASSUME TypeOK, FailBoundTask
    PROVE  /\ status' \in [Task -> {"absent", "queued"} \cup BoundStates \cup Terminal]
           /\ Kept /\ Started /\ excl' = None
<1>1. CASE excl \in Task
    BY <1>1, FailFacts DEF FailBoundTask
<1>2. CASE excl \notin Task
    BY <1>2 DEF FailBoundTask, TypeOK, Kept, Started, Bound
<1> QED BY <1>1, <1>2

\* Hooks, replies and reports never bind another task.
LEMMA WorkerInv ==
    ASSUME DispatchInv, (\E t \in Task : WorkerStep(t)) \/ LocalPrompt \/ TurnEnds
    PROVE  DispatchInv'
<1> USE DEF DispatchInv, TypeOK, journal, cards, session, memory, provider
<1>1. ASSUME NEW t \in Task, PromptHook(t) PROVE DispatchInv'
    <2>1. /\ status' \in [Task -> {"absent", "queued"} \cup BoundStates \cup Terminal]
          /\ Kept /\ Started /\ excl' \in Task \cup {None} /\ proof' \in BOOLEAN
        <3>1. CASE /\ status' = [status EXCEPT ![t] = IF @ = "dispatching" THEN "running" ELSE @]
                   /\ UNCHANGED excl /\ proof' \in {proof, Proven}
            <4>1. /\ status' \in [Task -> {"absent", "queued"} \cup BoundStates \cup Terminal]
                  /\ Kept /\ Started
                BY <3>1 DEF Kept, Started, Bound, BoundStates
            <4>2. proof' \in BOOLEAN
                BY <3>1, ProvenType
            <4> QED BY <3>1, <4>1, <4>2
        <3>2. CASE FailBoundTask /\ proof' = FALSE
            BY <3>2, FailBoundFacts
        <3>3. CASE UNCHANGED <<status, proof, excl>>
            BY <3>3 DEF Kept, Started, Bound
        <3> QED BY <1>1, <3>1, <3>2, <3>3 DEF PromptHook
    <2>2. TypeOK' /\ UNCHANGED <<got, inj>>
        BY <1>1, <2>1 DEF PromptHook
    <2> QED BY <2>1, <2>2, Frame
<1>2. ASSUME NEW t \in Task, HookLost(t) PROVE DispatchInv'
    <2>1. TypeOK' /\ UNCHANGED <<status, got, inj>>
        BY <1>2 DEF HookLost
    <2> QED BY <2>1, Frame DEF Kept, Started, Bound
<1>3. ASSUME NEW t \in Task, WorkerReply(t) \/ StandingDeclared(t) PROVE DispatchInv'
    <2>1. /\ status' \in [Task -> {"absent", "queued"} \cup BoundStates \cup Terminal]
          /\ Kept /\ Started
        BY <1>3 DEF WorkerReply, StandingDeclared, Kept, Started, Bound, BoundStates
    <2>2. UNCHANGED <<got, inj>>
        BY <1>3 DEF WorkerReply, StandingDeclared
    <2>3. TypeOK'
        <3>1. CASE WorkerReply(t)
            <4>1. proof' \in BOOLEAN
                BY <3>1, ProvenType DEF WorkerReply
            <4> QED BY <2>1, <3>1, <4>1 DEF WorkerReply
        <3>2. CASE StandingDeclared(t)
            BY <2>1, <3>2 DEF StandingDeclared
        <3> QED BY <1>3, <3>1, <3>2
    <2> QED BY <2>1, <2>2, <2>3, Frame
<1>4. CASE LocalPrompt
    <2>1. /\ status' \in [Task -> {"absent", "queued"} \cup BoundStates \cup Terminal]
          /\ Kept /\ Started /\ excl' \in Task \cup {None} /\ proof' \in BOOLEAN
        BY <1>4, FailBoundFacts DEF LocalPrompt, Kept, Started, Bound
    <2>2. TypeOK' /\ UNCHANGED <<got, inj>>
        BY <1>4, <2>1 DEF LocalPrompt
    <2> QED BY <2>1, <2>2, Frame
<1>5. CASE TurnEnds
    <2>1. /\ status' \in [Task -> {"absent", "queued"} \cup BoundStates \cup Terminal]
          /\ Kept /\ Started /\ excl' \in Task \cup {None} /\ proof' \in BOOLEAN
        <3>1. CASE FailBoundTask
            BY <1>5, <3>1, FailBoundFacts DEF TurnEnds
        <3>2. CASE UNCHANGED status
            BY <1>5, <3>2, FailBoundFacts DEF TurnEnds, Kept, Started, Bound
        <3>3. CASE Bound(turn) /\ turn \in Task /\ UNCHANGED excl /\ proof' = FALSE
                   /\ status' = [status EXCEPT ![turn] = "awaiting_release"]
            BY <3>3 DEF Kept, Started, Bound, BoundStates
        <3> QED BY <1>5, <3>1, <3>2, <3>3 DEF TurnEnds
    <2>2. TypeOK' /\ UNCHANGED <<got, inj>>
        BY <1>5, <2>1 DEF TurnEnds
    <2> QED BY <2>1, <2>2, Frame
<1> QED BY <1>1, <1>2, <1>3, <1>4, <1>5 DEF WorkerStep

\* The worker's process, its identity and its membership
LEMMA SessionStep ==
    ASSUME DispatchInv,
           \/ RemoveWorker \/ AddWorker \/ SessionEnds \/ ProviderDies \/ Resume
           \/ RebrandFails \/ RebrandRenames
    PROVE  DispatchInv'
<1> USE DEF DispatchInv, TypeOK, journal, cards, session, memory, provider
<1>1. CASE RemoveWorker
    <2>1. /\ status' \in [Task -> {"absent", "queued"} \cup BoundStates \cup Terminal]
          /\ Kept /\ Started
        BY <1>1 DEF RemoveWorker, Kept, Started, Active, Bound, BoundStates, Terminal
    <2>2. TypeOK' /\ UNCHANGED <<got, inj>>
        BY <1>1, <2>1 DEF RemoveWorker
    <2> QED BY <2>1, <2>2, Frame
<1>2. CASE AddWorker \/ ProviderDies \/ Resume \/ RebrandRenames
    <2>1. UNCHANGED <<status, got, inj>>
        BY <1>2 DEF AddWorker, ProviderDies, Resume, RebrandRenames
    <2>2. TypeOK'
        <3>1. CASE AddWorker
            BY <3>1 DEF AddWorker
        <3>2. CASE ProviderDies \/ Resume
            BY <3>2 DEF ProviderDies, Resume
        <3>3. CASE RebrandRenames
            <4>1. sid' \in 0..MaxRename /\ rebrand' = FALSE
                BY <3>3 DEF RebrandRenames
            <4> QED BY <3>3, <4>1 DEF RebrandRenames
        <3> QED BY <1>2, <3>1, <3>2, <3>3
    <2> QED BY <2>1, <2>2, Frame DEF Kept, Started, Bound
<1>3. CASE SessionEnds
    <2>1. /\ status' \in [Task -> {"absent", "queued"} \cup BoundStates \cup Terminal]
          /\ Kept /\ Started /\ excl' \in Task \cup {None}
        BY <1>3, FailBoundFacts DEF SessionEnds, Kept, Started, Bound
    <2>2. TypeOK' /\ UNCHANGED <<got, inj>>
        BY <1>3, <2>1 DEF SessionEnds
    <2> QED BY <2>1, <2>2, Frame
<1>4. CASE RebrandFails
    <2>1. /\ status' \in [Task -> {"absent", "queued"} \cup BoundStates \cup Terminal]
          /\ Kept /\ Started /\ excl' \in Task \cup {None}
        BY <1>4, FailBoundFacts DEF RebrandFails
    <2>2. TypeOK' /\ UNCHANGED <<got, inj>>
        BY <1>4, <2>1 DEF RebrandFails
    <2> QED BY <2>1, <2>2, Frame
<1> QED BY <1>1, <1>2, <1>3, <1>4

\* The reconciler and restarts only repair names and end tasks.
LEMMA ReconcileStep ==
    ASSUME DispatchInv, (\E t \in Task : Reconcile(t)) \/ Sweep \/ Crash \/ Readopt
    PROVE  DispatchInv'
<1> USE DEF DispatchInv, TypeOK, journal, cards, session, memory, provider
<1>1. ASSUME NEW t \in Task, Reconcile(t) PROVE DispatchInv'
    <2>1. Fail(t)
        BY <1>1 DEF Reconcile, AuthorityLost, DispatchTimeout, RestartUnproved, Expire
    <2>2. /\ status' \in [Task -> {"absent", "queued"} \cup BoundStates \cup Terminal]
          /\ Kept /\ Started
        BY <2>1, FailFacts
    <2>3. UNCHANGED <<got, inj>>
        BY <1>1 DEF Reconcile, AuthorityLost, DispatchTimeout, RestartUnproved, Expire
    <2>4. TypeOK'
        <3>1. CASE AuthorityLost(t)
            BY <2>2, <3>1 DEF AuthorityLost, ReleaseBinding
        <3>2. CASE DispatchTimeout(t)
            BY <2>2, <3>2 DEF DispatchTimeout, ReleaseBinding
        <3>3. CASE RestartUnproved(t)
            BY <2>2, <3>3 DEF RestartUnproved
        <3>4. CASE Expire(t)
            BY <2>2, <3>4 DEF Expire, ReleaseBinding
        <3> QED BY <1>1, <3>1, <3>2, <3>3, <3>4 DEF Reconcile
    <2> QED BY <2>2, <2>3, <2>4, Frame
<1>2. CASE Sweep
    <2>1. excl' \in Task \cup {None} /\ stand' \in Task \cup {None}
        BY <1>2, RepairedType DEF Sweep, Repair
    <2>2. TypeOK' /\ UNCHANGED <<status, got, inj>>
        BY <1>2, <2>1 DEF Sweep, Repair, Proven
    <2> QED BY <2>2, Frame DEF Kept, Started, Bound
<1>3. CASE Crash
    <2>1. excl' \in Task \cup {None} /\ stand' \in Task \cup {None}
        BY <1>3, RepairedType DEF Crash
    <2>2. TypeOK'
        <3>1. /\ inj' \in [Task -> {"none", "audit", "sending", "landed"}]
              /\ old' \in SUBSET Task /\ crashes' \in 0..MaxCrash
            BY <1>3 DEF Crash
        <3> QED BY <1>3, <2>1, <3>1 DEF Crash
    <2>3. UNCHANGED <<status, got>> /\ \A t \in Task : inj'[t] = "none"
        BY <1>3 DEF Crash
    <2> QED BY <2>2, <2>3, Frame DEF Kept, Started, Bound
<1>4. CASE Readopt
    <2>1. /\ status' \in [Task -> {"absent", "queued"} \cup BoundStates \cup Terminal]
          /\ Kept /\ Started /\ excl' \in Task \cup {None}
        BY <1>4, FailBoundFacts DEF Readopt, Kept, Started, Bound
    <2>2. TypeOK' /\ UNCHANGED <<got, inj>>
        BY <1>4, <2>1 DEF Readopt
    <2> QED BY <2>1, <2>2, Frame
<1> QED BY <1>1, <1>2, <1>3, <1>4

\* Every step preserves the invariant.
LEMMA Invariant == Spec => []DispatchInv
<1>1. DispatchInv /\ [Next]_vars => DispatchInv'
  <2> SUFFICES ASSUME DispatchInv, [Next]_vars PROVE DispatchInv'
      OBVIOUS
  <2>1. CASE UNCHANGED vars
      BY <2>1 DEF DispatchInv, TypeOK, DeliveryInv, OneBoundTask, Bound, vars,
                  journal, cards, session, memory, provider
  <2> QED BY <2>1, ControlStep, DispatchStep, WorkerInv, SessionStep, ReconcileStep DEF Next
<1> QED BY <1>1, InitInv, PTL DEF Spec

\* Every variable keeps its type.
THEOREM TypeCorrect == Spec => []TypeOK
<1>1. DispatchInv => TypeOK
    BY DEF DispatchInv
<1> QED BY <1>1, Invariant, PTL

\* No task's prompt is written to the provider twice, however many dispatch
\* calls race for it and wherever the daemon stops.
THEOREM AtMostOnce == Spec => []DispatchedAtMostOnce
<1>1. DispatchInv => DispatchedAtMostOnce
    BY DEF DispatchInv, DeliveryInv, DispatchedAtMostOnce
<1> QED BY <1>1, Invariant, PTL

\* One worker is never bound to two tasks.
THEOREM ExclusiveBinding == Spec => []OneBoundTask
<1>1. DispatchInv => OneBoundTask
    BY DEF DispatchInv
<1> QED BY <1>1, Invariant, PTL

HIDE DispatchAssumption DEF DispatchAssumption

-----------------------------------------------------------------------------
(* TeamTree: the bounds, the types and the inductive invariant.            *)

CONSTANTS Channels, Present, Keys, Names, Alias, Work, Wakes, Actors, Modes, MaxOps,
          Teams, MaxTeams, MaxMembers, MaxDepth, MaxFaults
VARIABLES ttTeam, ttTask, ttTurn, ttBusy, ttStand, ttExcl, ttAcks, ttLive, ttJoin, ttAuto,
          ttWake, ttEvent, ttSlip, ttFaults, ttOps

Tt == INSTANCE TeamTree

\* There are finitely many channels, teams have numbers, a coordinator counts as a member,
\* and what names one thing names no other.
TreeBounds ==
    /\ IsFiniteSet(Channels) /\ Present \subseteq Channels /\ Keys \subseteq Channels
    /\ Teams \subseteq Nat \ {0} /\ None \notin Channels \cup Names \cup Work
    /\ Actors \subseteq {"owner", "collaborator", "none"} /\ Modes \subseteq BOOLEAN \X BOOLEAN
    /\ MaxOps \in Nat /\ MaxTeams \in Nat /\ MaxDepth \in Nat /\ MaxFaults \in Nat
    /\ MaxMembers \in Nat \ {0}

TeamType ==
    [st : {"none", "open", "closed"}, coord : Channels \cup {None}, name : Names \cup {None},
     workers : SUBSET Channels, slots : [Channels -> Names \cup Keys \cup {None}],
     auto : BOOLEAN, drain : BOOLEAN]
TaskType ==
    [st : {"none", "queued", "bound", "ended"}, team : {0} \cup Teams,
     to : Channels \cup {None}, standing : BOOLEAN]
TurnType ==
    [actor : {"none", "owner", "collaborator", "continuation", "delegated"},
     team : {0} \cup Teams, source : Work \cup {None}, left : 0 .. 1]
AutoType ==
    [st : {"none", "creating", "stranded", "joined", "failed", "stopped"},
     team : {0} \cup Teams, sub : Names \cup {None}]
WakeType == [st : {"none", "set", "gone"}, team : {0} \cup Teams, source : Work \cup {None}]

\* TypeOK by its parts.
TeamTyped == ttTeam \in [Teams -> TeamType]
TaskTyped == ttTask \in [Work -> TaskType]
TurnTyped == ttTurn \in [Channels -> TurnType]
PointersTyped ==
    /\ ttStand \in [Channels -> Work \cup {None}] /\ ttExcl \in [Channels -> Work \cup {None}]
    /\ ttBusy \subseteq Channels /\ ttAcks \subseteq Work
AutoTyped == ttAuto \in [Channels -> AutoType]
RestTyped ==
    /\ ttLive \subseteq Channels /\ ttJoin \subseteq Teams \X Channels
    /\ ttWake \in [Wakes -> WakeType] /\ ttEvent \subseteq Wakes /\ ttSlip \subseteq Work
    /\ ttFaults \in 0 .. MaxFaults /\ ttOps \in 0 .. MaxOps
Typed == TeamTyped /\ TaskTyped /\ TurnTyped /\ PointersTyped /\ AutoTyped /\ RestTyped

IsOpen(t) == ttTeam[t].st = "open"

\* A channel coordinates one open team at most, and works in one at most.
OneTeamEach ==
    \A s, t \in Teams : IsOpen(s) /\ IsOpen(t) /\ s # t =>
        /\ ttTeam[s].coord # ttTeam[t].coord
        /\ ttTeam[s].workers \cap ttTeam[t].workers = {}

\* A standing pointer names a bound task of its session, or one that a rolled back join ended.
PointersTrue ==
    \A c \in Channels : ttStand[c] # None =>
        LET k == ttStand[c] IN
        /\ ttTask[k].to = c /\ ttTask[k].standing
        /\ ttTask[k].st = "bound" \/ (k \in ttSlip /\ ttTask[k].st = "ended")

\* A session is bound to one task at most.
BoundOnce ==
    \A j, k \in Work : ttTask[j].st = "bound" /\ ttTask[k].st = "bound"
                       /\ ttTask[j].to = ttTask[k].to => j = k

\* A turn with delegated authority is about the standing task its session points to.
Delegated ==
    \A c \in Channels : ttTurn[c].actor = "delegated" /\ ttTurn[c].source \notin ttSlip =>
        /\ ttTurn[c].source \in Work /\ ttTurn[c].team \in Teams /\ IsOpen(ttTurn[c].team)
        /\ ttTeam[ttTurn[c].team].coord = c
        /\ ttTask[ttTurn[c].source].standing /\ Tt!Active(ttTurn[c].source)
        /\ ttTask[ttTurn[c].source].to = c /\ ttStand[c] = ttTurn[c].source

\* NoStarvedCoordinator, without the sets it names.
Served ==
    \A k \in Work : Tt!Active(k) =>
        /\ ttTask[k].team \in Teams /\ IsOpen(ttTask[k].team)
        /\ ttTask[k].to \in ttTeam[ttTask[k].team].workers
        /\ \A s \in Teams : IsOpen(s) /\ ttTeam[s].coord = ttTask[k].to => ttTask[k].standing

TasksInv == Served /\ PointersTrue /\ BoundOnce /\ Delegated

-----------------------------------------------------------------------------
(* Types.                                                                  *)

LEMMA TypesAre == Tt!TypeOK <=> Typed
  BY DEF Tt!TypeOK, Typed, TeamTyped, TaskTyped, TurnTyped, PointersTyped, AutoTyped, RestTyped,
         TeamType, TaskType, TurnType, AutoType, WakeType

LEMMA OpenTeams == \A t : t \in Tt!Open <=> t \in Teams /\ IsOpen(t)
  BY DEF Tt!Open, Tt!OpenIn, IsOpen

\* The channel's own team, where it has one.
LEMMA OwnTeam ==
    ASSUME NEW c
    PROVE  /\ \A t : t \in Tt!Own(c) <=> t \in Teams /\ IsOpen(t) /\ ttTeam[t].coord = c
           /\ \A t : t \in Tt!Parents(c) <=> t \in Teams /\ IsOpen(t) /\ c \in ttTeam[t].workers
           /\ Tt!Own(c) # {} => (CHOOSE t \in Tt!Own(c) : TRUE) \in Tt!Own(c)
  BY OpenTeams DEF Tt!Own, Tt!Parents

LEMMA EndedTasks ==
    ASSUME TaskTyped, NEW K
    PROVE  /\ Tt!Cancelled(K) \in [Work -> TaskType]
           /\ \A k \in Work : /\ Tt!Cancelled(K)[k].to = ttTask[k].to
                              /\ Tt!Cancelled(K)[k].team = ttTask[k].team
                              /\ Tt!Cancelled(K)[k].standing = ttTask[k].standing
                              /\ k \in K => Tt!Cancelled(K)[k].st = "ended"
                              /\ k \notin K => Tt!Cancelled(K)[k].st = ttTask[k].st
  BY DEF TaskTyped, Tt!Cancelled, TaskType

LEMMA NoTurnTyped == TreeBounds => Tt!NoTurn \in TurnType /\ Tt!NoTurn.actor = "none"
  BY DEF Tt!NoTurn, TurnType

\* What a prompt of a task starts: nothing, or a turn of the channel's own team.
LEMMA CarriedTurn ==
    ASSUME TreeBounds, NEW c \in Channels, NEW k \in Work
    PROVE  /\ Tt!Carried(c, k) \in TurnType
           /\ Tt!Carried(c, k).actor = "delegated" =>
                /\ ttTask[k].standing /\ Tt!Carried(c, k).source = k
                /\ Tt!Carried(c, k).team \in Teams /\ IsOpen(Tt!Carried(c, k).team)
                /\ ttTeam[Tt!Carried(c, k).team].coord = c
<1>1. CASE Tt!Own(c) = {} \/ ~ttTask[k].standing
  BY <1>1, NoTurnTyped DEF Tt!Carried
<1>2. CASE ~(Tt!Own(c) = {} \/ ~ttTask[k].standing)
  <2> DEFINE t == CHOOSE t \in Tt!Own(c) : TRUE
  <2>1. Tt!Carried(c, k) = Tt!Turn("delegated", t, k)
    BY <1>2 DEF Tt!Carried
  <2>2. t \in Teams /\ IsOpen(t) /\ ttTeam[t].coord = c
    BY <1>2, OwnTeam
  <2> HIDE DEF t
  <2>3. Tt!Carried(c, k) \in TurnType /\ Tt!Carried(c, k).source = k /\ Tt!Carried(c, k).team = t
    <3>1. t \in {0} \cup Teams /\ k \in Work \cup {None} /\ 1 \in 0 .. 1
      BY <2>2
    <3> QED BY <2>1, <3>1 DEF Tt!Turn, TurnType
  <2> QED BY <1>2, <2>2, <2>3
<1> QED BY <1>1, <1>2

\* What a cancellation takes from the sessions.
LEMMA Revoked ==
    ASSUME TreeBounds, TurnTyped, PointersTyped, NEW K, NEW M, NEW teams, Tt!Revoke(K, M, teams)
    PROVE  /\ TurnTyped' /\ PointersTyped' /\ ttBusy' = ttBusy /\ ttAcks' = ttAcks
           /\ \A c \in Channels :
                /\ ttStand'[c] = (IF ttStand[c] \in K THEN None ELSE ttStand[c])
                /\ ttTurn'[c] \in {ttTurn[c], Tt!NoTurn}
                /\ ttStand[c] \in K /\ ttTurn[c].source = ttStand[c] => ttTurn'[c] = Tt!NoTurn
                /\ c \in M /\ ~(\E t \in Tt!OpenIn(teams) : teams[t].coord = c)
                        => ttTurn'[c] = Tt!NoTurn
<1>1. \A c \in Channels : ttTurn'[c] \in {ttTurn[c], Tt!NoTurn}
  BY DEF Tt!Revoke
<1>2. TurnTyped'
  <2>1. ttTurn' = [c \in Channels |-> ttTurn'[c]]
    BY DEF Tt!Revoke
  <2> QED BY <1>1, <2>1, NoTurnTyped DEF TurnTyped
<1>3. PointersTyped' /\ ttBusy' = ttBusy /\ ttAcks' = ttAcks
  BY DEF Tt!Revoke, PointersTyped
<1>4. \A c \in Channels :
        /\ ttStand'[c] = (IF ttStand[c] \in K THEN None ELSE ttStand[c])
        /\ ttStand[c] \in K /\ ttTurn[c].source = ttStand[c] => ttTurn'[c] = Tt!NoTurn
        /\ c \in M /\ ~(\E t \in Tt!OpenIn(teams) : teams[t].coord = c)
                => ttTurn'[c] = Tt!NoTurn
  BY DEF Tt!Revoke
<1> QED BY <1>1, <1>2, <1>3, <1>4

-----------------------------------------------------------------------------
(* What the teams of a journal must satisfy, as a relation between the     *)
(* teams tm and the automations au, and the ways both may change.          *)

IsOpenIn(tm, t) == tm[t].st = "open"
Held(x) == {k \in Keys : x.slots[k] # None}

\* A team within its bound, its members and slots with different aliases.
Fits(x) ==
    /\ 1 + Cardinality(x.workers) + Cardinality(Held(x)) <= MaxMembers
    /\ \A a, b \in x.workers \cup Held(x) : Alias[a] = Alias[b] => a = b
    /\ x.workers \cap Held(x) = {}

Apart(x, y) == x.coord # y.coord /\ x.name # y.name /\ x.workers \cap y.workers = {}

SlotsOf(t, x, au) ==
    \A k \in Keys : x.slots[k] # None => au[k].st \in {"creating", "stranded"} /\ au[k].team = t

Sound(tm, au) ==
    /\ \A s, t \in Teams : IsOpenIn(tm, s) /\ IsOpenIn(tm, t) /\ s # t => Apart(tm[s], tm[t])
    /\ \A t \in Teams : IsOpenIn(tm, t) => Fits(tm[t]) /\ SlotsOf(t, tm[t], au)

LEMMA SameCount == \A S : Tt!Cardinality(S) = Cardinality(S)
  BY DEF Tt!Cardinality, Cardinality, Tt!IsFiniteSet, IsFiniteSet

LEMMA SoundIs == (OneTeamEach /\ Tt!SlotsKept) <=> Sound(ttTeam, ttAuto)
<1>1. \A t : Tt!Slots(t) = Held(ttTeam[t])
  BY DEF Tt!Slots, Held
<1>2. \A t : t \in Tt!Open <=> t \in Teams /\ IsOpenIn(ttTeam, t)
  BY DEF Tt!Open, Tt!OpenIn, IsOpenIn
<1>3. Tt!SlotsKept <=>
        /\ \A t \in Teams : IsOpenIn(ttTeam, t) => Fits(ttTeam[t]) /\ SlotsOf(t, ttTeam[t], ttAuto)
        /\ \A s, t \in Teams : IsOpenIn(ttTeam, s) /\ IsOpenIn(ttTeam, t) /\ s # t
                               => ttTeam[s].name # ttTeam[t].name
  <2>1. Tt!SlotsKept <=>
          \A t \in Tt!Open :
            /\ Fits(ttTeam[t]) /\ SlotsOf(t, ttTeam[t], ttAuto)
            /\ \A s \in Tt!Open : ttTeam[s].name = ttTeam[t].name => s = t
    <3> DEFINE P(t) == /\ 1 + Tt!Cardinality(ttTeam[t].workers) + Tt!Cardinality(Tt!Slots(t)) <= MaxMembers
                       /\ \A a, b \in ttTeam[t].workers \cup Tt!Slots(t) : Alias[a] = Alias[b] => a = b
                       /\ ttTeam[t].workers \cap Tt!Slots(t) = {}
               Q(t) == \A k \in Tt!Slots(t) : ttAuto[k].st \in {"creating", "stranded"} /\ ttAuto[k].team = t
    <3>1. \A t : P(t) <=> Fits(ttTeam[t])
      BY <1>1, SameCount DEF Fits
    <3>2. \A t : Q(t) <=> SlotsOf(t, ttTeam[t], ttAuto)
      BY <1>1 DEF SlotsOf, Held
    <3>3. Tt!SlotsKept <=> \A t \in Tt!Open :
            /\ P(t) /\ Q(t) /\ \A s \in Tt!Open : ttTeam[s].name = ttTeam[t].name => s = t
      BY DEF Tt!SlotsKept
    <3> HIDE DEF P, Q
    <3> QED BY <3>1, <3>2, <3>3
  <2> HIDE DEF Fits
  <2> QED BY <1>2, <2>1
<1> QED BY <1>3 DEF OneTeamEach, Sound, Apart, IsOpen, IsOpenIn

LEMMA FiniteTeam ==
    ASSUME TreeBounds, NEW x \in TeamType
    PROVE  /\ IsFiniteSet(x.workers) /\ IsFiniteSet(Held(x))
           /\ Cardinality(x.workers) \in Nat /\ Cardinality(Held(x)) \in Nat
<1>1. x.workers \in SUBSET Channels /\ Held(x) \in SUBSET Channels
  BY DEF TeamType, Held, TreeBounds
<1>2. IsFiniteSet(x.workers) /\ IsFiniteSet(Held(x))
  BY <1>1, FS_Subset DEF TreeBounds
<1> QED BY <1>2, FS_CardinalityType

\* A team that loses members or slots still fits.
LEMMA FitsLess ==
    ASSUME TreeBounds, NEW x \in TeamType, NEW y \in TeamType, Fits(x),
           y.workers \subseteq x.workers, Held(y) \subseteq Held(x)
    PROVE  Fits(y)
<1>1. Cardinality(y.workers) <= Cardinality(x.workers) /\ Cardinality(Held(y)) <= Cardinality(Held(x))
  BY FiniteTeam, FS_Subset
<1>2. 1 + Cardinality(y.workers) + Cardinality(Held(y)) <= MaxMembers
  BY <1>1, FiniteTeam DEF Fits, TreeBounds
<1>3. /\ \A a, b \in y.workers \cup Held(y) : Alias[a] = Alias[b] => a = b
      /\ y.workers \cap Held(y) = {}
  BY DEF Fits
<1> QED BY <1>2, <1>3 DEF Fits

LEMMA CountMore ==
    ASSUME NEW S, NEW c, IsFiniteSet(S)
    PROVE  Cardinality(S \cup {c}) <= Cardinality(S) + 1
<1>1. Cardinality(S) \in Nat
  BY FS_CardinalityType
<1>2. Cardinality(S \cup {c}) = IF c \in S THEN Cardinality(S) ELSE Cardinality(S) + 1
  BY FS_AddElement
<1> QED BY <1>1, <1>2

\* So does one that gains a member or a slot while it has room, under an alias of its own.
LEMMA FitsMore ==
    ASSUME TreeBounds, NEW x \in TeamType, NEW y \in TeamType, Fits(x), NEW c,
           1 + Cardinality(x.workers) + Cardinality(Held(x)) < MaxMembers,
           \A a \in x.workers \cup Held(x) : Alias[a] # Alias[c],
           \/ y.workers = x.workers \cup {c} /\ Held(y) = Held(x)
           \/ y.workers = x.workers /\ Held(y) = Held(x) \cup {c}
    PROVE  Fits(y)
<1>1. \/ /\ Cardinality(y.workers) <= Cardinality(x.workers) + 1
         /\ Cardinality(Held(y)) = Cardinality(Held(x))
      \/ /\ Cardinality(y.workers) = Cardinality(x.workers)
         /\ Cardinality(Held(y)) <= Cardinality(Held(x)) + 1
  <2>1. CASE y.workers = x.workers \cup {c} /\ Held(y) = Held(x)
    BY <2>1, FiniteTeam, CountMore
  <2>2. CASE y.workers = x.workers /\ Held(y) = Held(x) \cup {c}
    BY <2>2, FiniteTeam, CountMore
  <2> QED BY <2>1, <2>2
<1>2. 1 + Cardinality(y.workers) + Cardinality(Held(y)) <= MaxMembers
  BY <1>1, FiniteTeam DEF TreeBounds
<1>3. /\ \A a, b \in y.workers \cup Held(y) : Alias[a] = Alias[b] => a = b
      /\ y.workers \cap Held(y) = {}
  BY DEF Fits
<1> QED BY <1>2, <1>3 DEF Fits

\* A slot that becomes membership takes no more room.
LEMMA FitsCommitted ==
    ASSUME TreeBounds, NEW x \in TeamType, NEW y \in TeamType, Fits(x), NEW k \in Held(x),
           y.workers = x.workers \cup {k}, Held(y) = Held(x) \ {k}
    PROVE  Fits(y)
<1>1. k \notin x.workers
  BY DEF Fits
<1>2. Cardinality(y.workers) = Cardinality(x.workers) + 1
  BY <1>1, FiniteTeam, FS_AddElement
<1>3. Cardinality(Held(y)) = Cardinality(Held(x)) - 1
  BY FiniteTeam, FS_RemoveElement
<1>4. 1 + Cardinality(y.workers) + Cardinality(Held(y)) <= MaxMembers
  BY <1>2, <1>3, FiniteTeam DEF Fits, TreeBounds
<1>5. /\ \A a, b \in y.workers \cup Held(y) : Alias[a] = Alias[b] => a = b
      /\ y.workers \cap Held(y) = {}
  BY DEF Fits
<1> QED BY <1>4, <1>5 DEF Fits

\* Teams that only end, lose members and lose slots.
Less(x, y) ==
    /\ y.coord = x.coord /\ y.name = x.name /\ y.workers \subseteq x.workers
    /\ \A k \in Keys : y.slots[k] # None => x.slots[k] # None

Lessens(tm, au, tn, an) ==
    /\ \A t \in Teams : IsOpenIn(tn, t) => IsOpenIn(tm, t) /\ Less(tm[t], tn[t])
    /\ \A t \in Teams, k \in Keys : IsOpenIn(tn, t) /\ tn[t].slots[k] # None => an[k] = au[k]

LEMMA LessSound ==
    ASSUME TreeBounds, NEW tm \in [Teams -> TeamType], NEW tn \in [Teams -> TeamType],
           NEW au, NEW an, Sound(tm, au), Lessens(tm, au, tn, an)
    PROVE  Sound(tn, an)
<1> USE DEF Lessens
<1>1. \A s, t \in Teams : IsOpenIn(tn, s) /\ IsOpenIn(tn, t) /\ s # t => Apart(tn[s], tn[t])
  BY DEF Sound, Less, Apart
<1>2. ASSUME NEW t \in Teams, IsOpenIn(tn, t) PROVE Fits(tn[t]) /\ SlotsOf(t, tn[t], an)
  <2>1. tm[t] \in TeamType /\ tn[t] \in TeamType /\ Fits(tm[t]) /\ Less(tm[t], tn[t])
    BY <1>2 DEF Sound
  <2>2. Held(tn[t]) \subseteq Held(tm[t]) /\ tn[t].workers \subseteq tm[t].workers
    BY <2>1 DEF Less, Held
  <2>3. Fits(tn[t])
    BY <2>1, <2>2, FitsLess
  <2>4. SlotsOf(t, tn[t], an)
    BY <1>2, <2>1 DEF Sound, SlotsOf, Less
  <2> QED BY <2>3, <2>4
<1> QED BY <1>1, <1>2 DEF Sound

\* One more team, of a coordinator and under a name that no open team has.
Fresh(tm, c, n) == \A t \in Teams : IsOpenIn(tm, t) => tm[t].coord # c /\ tm[t].name # n

LEMMA NewTeam ==
    ASSUME TreeBounds, NEW c \in Channels, NEW n \in Names, NEW auto \in BOOLEAN
    PROVE  LET x == Tt!Created(c, n, auto) IN
           /\ x \in TeamType /\ x.st = "open" /\ x.coord = c /\ x.name = n /\ x.workers = {}
           /\ \A k \in Channels : x.slots[k] = None
  BY DEF Tt!Created, Tt!NoTeam, TeamType

LEMMA CreatedSound ==
    ASSUME TreeBounds, NEW tm \in [Teams -> TeamType], NEW au, Sound(tm, au), NEW s \in Teams,
           NEW c \in Channels, NEW n \in Names, NEW auto \in BOOLEAN, Fresh(tm, c, n)
    PROVE  /\ Sound([tm EXCEPT ![s] = Tt!Created(c, n, auto)], au)
           /\ [tm EXCEPT ![s] = Tt!Created(c, n, auto)] \in [Teams -> TeamType]
<1> DEFINE x == Tt!Created(c, n, auto)
           tn == [tm EXCEPT ![s] = x]
<1>1. /\ x \in TeamType /\ x.st = "open" /\ x.coord = c /\ x.name = n /\ x.workers = {}
      /\ \A k \in Channels : x.slots[k] = None
  BY NewTeam
<1> HIDE DEF x
<1>2. tn \in [Teams -> TeamType] /\ tn[s] = x /\ \A t \in Teams : t # s => tn[t] = tm[t]
  BY <1>1
<1> HIDE DEF tn
<1>3. \A t \in Teams : t # s /\ IsOpenIn(tn, t) => Apart(x, tm[t]) /\ Apart(tm[t], x)
  BY <1>1, <1>2 DEF Fresh, IsOpenIn, Apart
<1>4. \A r, t \in Teams : IsOpenIn(tn, r) /\ IsOpenIn(tn, t) /\ r # t => Apart(tn[r], tn[t])
  BY <1>2, <1>3 DEF Sound, IsOpenIn
<1>5. Held(x) = {}
  BY <1>1 DEF Held, TreeBounds
<1>6. Fits(x)
  BY <1>1, <1>5, FS_EmptySet DEF Fits, TreeBounds
<1>7. SlotsOf(s, x, au)
  BY <1>1 DEF SlotsOf, TreeBounds
<1>8. Sound(tn, au)
  BY <1>2, <1>4, <1>6, <1>7 DEF Sound, IsOpenIn
<1> QED BY <1>2, <1>8 DEF tn, x

\* One team that changes, while the others at most lose something.
Changes(t, tm, au, tn, an) ==
    /\ \A s \in Teams : s # t /\ IsOpenIn(tn, s) => IsOpenIn(tm, s) /\ Less(tm[s], tn[s])
    /\ tn[t].coord = tm[t].coord /\ tn[t].name = tm[t].name
    /\ \A s \in Teams : s # t /\ IsOpenIn(tm, s) => tn[t].workers \cap tm[s].workers = {}
    /\ Fits(tn[t]) /\ SlotsOf(t, tn[t], an)
    /\ \A s \in Teams, k \in Keys : s # t /\ IsOpenIn(tn, s) /\ tn[s].slots[k] # None
                                    => an[k] = au[k]

LEMMA ChangedSound ==
    ASSUME TreeBounds, NEW tm \in [Teams -> TeamType], NEW tn \in [Teams -> TeamType],
           NEW au, NEW an, Sound(tm, au), NEW t \in Teams, IsOpenIn(tm, t),
           Changes(t, tm, au, tn, an)
    PROVE  Sound(tn, an)
<1> USE DEF Changes
<1>1. \A s \in Teams : s # t /\ IsOpenIn(tn, s) => Apart(tn[t], tn[s]) /\ Apart(tn[s], tn[t])
  BY DEF Sound, Apart, Less
<1>2. \A r, s \in Teams : r # t /\ s # t /\ IsOpenIn(tn, r) /\ IsOpenIn(tn, s) /\ r # s
                          => Apart(tn[r], tn[s])
  BY DEF Sound, Apart, Less
<1>3. ASSUME NEW s \in Teams, s # t, IsOpenIn(tn, s) PROVE Fits(tn[s]) /\ SlotsOf(s, tn[s], an)
  <2>1. tm[s] \in TeamType /\ tn[s] \in TeamType /\ Fits(tm[s]) /\ Less(tm[s], tn[s])
    BY <1>3 DEF Sound
  <2>2. Held(tn[s]) \subseteq Held(tm[s]) /\ tn[s].workers \subseteq tm[s].workers
    BY <2>1 DEF Less, Held
  <2>3. Fits(tn[s])
    BY <2>1, <2>2, FitsLess
  <2>4. SlotsOf(s, tn[s], an)
    BY <1>3, <2>1 DEF Sound, SlotsOf, Less
  <2> QED BY <2>3, <2>4
<1> QED BY <1>1, <1>2, <1>3 DEF Sound

-----------------------------------------------------------------------------
(* The steps that change a team.                                           *)

TeamsSound == TeamTyped /\ AutoTyped /\ Sound(ttTeam, ttAuto)

TreeInv == Typed /\ Sound(ttTeam, ttAuto) /\ TasksInv

LEMMA StepCreate ==
    ASSUME TreeBounds, TeamsSound, NEW c \in Channels, NEW n \in Names, Tt!CreateTeam(c, n)
    PROVE  TeamsSound'
<1>1. PICK s \in Teams : ttTeam' = [ttTeam EXCEPT ![s] = Tt!Created(c, n, FALSE)]
  BY DEF Tt!CreateTeam
<1>2. Fresh(ttTeam, c, n)
  BY OpenTeams DEF Tt!CreateTeam, Tt!MayCreate, Tt!Own, Fresh, IsOpenIn, IsOpen
<1>3. Sound(ttTeam', ttAuto) /\ ttTeam' \in [Teams -> TeamType]
  BY <1>1, <1>2, CreatedSound DEF TeamsSound, TeamTyped
<1>4. ttAuto' = ttAuto
  BY DEF Tt!CreateTeam
<1> QED BY <1>3, <1>4 DEF TeamsSound, TeamTyped, AutoTyped

\* What HasRoom and Taken say of a team.
LEMMA RoomAndAlias ==
    ASSUME TreeBounds, NEW t, NEW c, Tt!HasRoom(t), Alias[c] \notin Tt!Taken(t)
    PROVE  /\ 1 + Cardinality(ttTeam[t].workers) + Cardinality(Held(ttTeam[t])) < MaxMembers
           /\ \A a \in ttTeam[t].workers \cup Held(ttTeam[t]) : Alias[a] # Alias[c]
<1>1. Tt!Slots(t) = Held(ttTeam[t])
  BY DEF Tt!Slots, Held
<1>2. 1 + Tt!Cardinality(ttTeam[t].workers) + Tt!Cardinality(Tt!Slots(t)) < MaxMembers
  BY DEF Tt!HasRoom
<1>3. \A a \in ttTeam[t].workers \cup Tt!Slots(t) : Alias[a] # Alias[c]
  BY DEF Tt!Taken
<1> QED BY <1>1, <1>2, <1>3, SameCount

LEMMA StepJoin ==
    ASSUME TreeBounds, TeamsSound, NEW t \in Teams, NEW c \in Channels, Tt!Join(t, c)
    PROVE  TeamsSound'
<1>1. /\ ttTeam' = [ttTeam EXCEPT ![t].workers = @ \cup {c}] /\ ttAuto' = ttAuto
      /\ Tt!HasRoom(t) /\ Alias[c] \notin Tt!Taken(t) /\ IsOpenIn(ttTeam, t)
      /\ Tt!Parents(c) = {}
  BY OpenTeams DEF Tt!Join, Tt!MayAdd, Tt!MayPlace, IsOpen, IsOpenIn
<1>2. ttTeam' \in [Teams -> TeamType]
  BY <1>1 DEF TeamsSound, TeamTyped, TeamType
<1>3. /\ ttTeam'[t].workers = ttTeam[t].workers \cup {c} /\ ttTeam'[t].slots = ttTeam[t].slots
      /\ ttTeam'[t].coord = ttTeam[t].coord /\ ttTeam'[t].name = ttTeam[t].name
      /\ \A s \in Teams : s # t => ttTeam'[s] = ttTeam[s]
  BY <1>1 DEF TeamsSound, TeamTyped, TeamType
<1>4. Fits(ttTeam[t]) /\ SlotsOf(t, ttTeam[t], ttAuto)
  BY <1>1 DEF TeamsSound, Sound
<1>5. Fits(ttTeam'[t])
  <2>1. ttTeam[t] \in TeamType /\ ttTeam'[t] \in TeamType
    BY <1>2 DEF TeamsSound, TeamTyped
  <2>2. Held(ttTeam'[t]) = Held(ttTeam[t])
    BY <1>3 DEF Held
  <2>3. /\ 1 + Cardinality(ttTeam[t].workers) + Cardinality(Held(ttTeam[t])) < MaxMembers
        /\ \A a \in ttTeam[t].workers \cup Held(ttTeam[t]) : Alias[a] # Alias[c]
    BY <1>1, RoomAndAlias
  <2> QED BY <1>3, <1>4, <2>1, <2>2, <2>3, FitsMore
<1>6. SlotsOf(t, ttTeam'[t], ttAuto')
  BY <1>1, <1>3, <1>4 DEF SlotsOf
<1>7. \A s \in Teams : IsOpenIn(ttTeam, s) => c \notin ttTeam[s].workers
  BY <1>1, OwnTeam DEF IsOpen, IsOpenIn
<1>8. \A s \in Teams : s # t /\ IsOpenIn(ttTeam, s) => ttTeam'[t].workers \cap ttTeam[s].workers = {}
  BY <1>1, <1>3, <1>7 DEF TeamsSound, Sound, Apart
<1>9. Sound(ttTeam', ttAuto')
  <2>1. \A s \in Teams : s # t /\ IsOpenIn(ttTeam', s)
                         => IsOpenIn(ttTeam, s) /\ Less(ttTeam[s], ttTeam'[s])
    BY <1>3 DEF IsOpenIn, Less
  <2>2. ttTeam \in [Teams -> TeamType] /\ Sound(ttTeam, ttAuto) /\ IsOpenIn(ttTeam, t)
    BY <1>1 DEF TeamsSound, TeamTyped
  <2>3. \A s \in Teams, k \in Keys : s # t /\ IsOpenIn(ttTeam', s) /\ ttTeam'[s].slots[k] # None
                                     => ttAuto'[k] = ttAuto[k]
    BY <1>1
  <2>4. ttTeam'[t].coord = ttTeam[t].coord /\ ttTeam'[t].name = ttTeam[t].name
    BY <1>3
  <2>5. Changes(t, ttTeam, ttAuto, ttTeam', ttAuto')
    BY <1>5, <1>6, <1>8, <2>1, <2>3, <2>4 DEF Changes
  <2> QED BY <1>2, <2>2, <2>5, ChangedSound
<1> QED BY <1>1, <1>2, <1>9 DEF TeamsSound, TeamTyped, AutoTyped

LEMMA StepReserve ==
    ASSUME TreeBounds, TeamsSound, NEW k \in Keys, NEW t \in Teams, NEW sub \in Names \cup {None},
           NEW saved \in BOOLEAN, Tt!Reserve(k, t, sub, saved)
    PROVE  TeamsSound'
<1> DEFINE v == IF sub = None THEN k ELSE sub
           a == [st |-> IF saved THEN "creating" ELSE "stranded", team |-> t, sub |-> sub]
<1>1. /\ ttTeam' = [ttTeam EXCEPT ![t].slots[k] = v] /\ ttAuto' = [ttAuto EXCEPT ![k] = a]
      /\ Tt!HasRoom(t) /\ Alias[k] \notin Tt!Taken(t) /\ IsOpenIn(ttTeam, t)
      /\ ttAuto[k].st = "none"
  BY OpenTeams DEF Tt!Reserve, Tt!Reservable, IsOpen, IsOpenIn
<1>2. /\ v \in Names \cup Keys /\ v # None /\ a \in AutoType /\ a.team = t
      /\ a.st \in {"creating", "stranded"} /\ k \in Channels
  BY DEF TreeBounds, AutoType
<1> HIDE DEF v, a
<1>3. ttTeam' \in [Teams -> TeamType]
  <2>1. ttTeam[t] \in TeamType /\ [ttTeam[t].slots EXCEPT ![k] = v] \in [Channels -> Names \cup Keys \cup {None}]
    BY <1>2 DEF TeamsSound, TeamTyped, TeamType
  <2>2. [ttTeam[t] EXCEPT !.slots = [ttTeam[t].slots EXCEPT ![k] = v]] \in TeamType
    BY <2>1 DEF TeamType
  <2>3. ttTeam' = [ttTeam EXCEPT ![t] = [ttTeam[t] EXCEPT !.slots = [ttTeam[t].slots EXCEPT ![k] = v]]]
    BY <1>1 DEF TeamsSound, TeamTyped
  <2> QED BY <2>2, <2>3 DEF TeamsSound, TeamTyped
<1>4. ttAuto' \in [Channels -> AutoType] /\ ttAuto'[k] = a /\ \A j \in Channels : j # k => ttAuto'[j] = ttAuto[j]
  BY <1>1, <1>2 DEF TeamsSound, AutoTyped
<1>5. /\ ttTeam'[t].workers = ttTeam[t].workers /\ ttTeam'[t].slots = [ttTeam[t].slots EXCEPT ![k] = v]
      /\ ttTeam'[t].coord = ttTeam[t].coord /\ ttTeam'[t].name = ttTeam[t].name
      /\ \A s \in Teams : s # t => ttTeam'[s] = ttTeam[s]
  BY <1>1 DEF TeamsSound, TeamTyped, TeamType
<1>6. ttTeam'[t].slots[k] = v /\ \A j \in Keys : j # k => ttTeam'[t].slots[j] = ttTeam[t].slots[j]
  BY <1>2, <1>5 DEF TeamsSound, TeamTyped, TeamType, TreeBounds
<1>7. Fits(ttTeam[t]) /\ SlotsOf(t, ttTeam[t], ttAuto)
  BY <1>1 DEF TeamsSound, Sound
<1>8. Fits(ttTeam'[t])
  <2>1. ttTeam[t] \in TeamType /\ ttTeam'[t] \in TeamType
    BY <1>3 DEF TeamsSound, TeamTyped
  <2>2. Held(ttTeam'[t]) = Held(ttTeam[t]) \cup {k}
    BY <1>2, <1>6 DEF Held
  <2>3. /\ 1 + Cardinality(ttTeam[t].workers) + Cardinality(Held(ttTeam[t])) < MaxMembers
        /\ \A x \in ttTeam[t].workers \cup Held(ttTeam[t]) : Alias[x] # Alias[k]
    BY <1>1, RoomAndAlias
  <2> QED BY <1>5, <1>7, <2>1, <2>2, <2>3, FitsMore
<1>9. SlotsOf(t, ttTeam'[t], ttAuto')
  BY <1>2, <1>4, <1>6, <1>7 DEF SlotsOf, TreeBounds
<1>10. Sound(ttTeam', ttAuto')
  <2>1. \A s \in Teams : s # t /\ IsOpenIn(ttTeam', s)
                         => IsOpenIn(ttTeam, s) /\ Less(ttTeam[s], ttTeam'[s])
    BY <1>5 DEF IsOpenIn, Less
  <2>2. \A s \in Teams : s # t /\ IsOpenIn(ttTeam, s) => ttTeam'[t].workers \cap ttTeam[s].workers = {}
    BY <1>1, <1>5 DEF TeamsSound, Sound, Apart
  <2>3. \A s \in Teams, j \in Keys : s # t /\ IsOpenIn(ttTeam', s) /\ ttTeam'[s].slots[j] # None
                                     => ttAuto'[j] = ttAuto[j]
    BY <1>1, <1>4, <1>5 DEF TeamsSound, Sound, SlotsOf, IsOpenIn, TreeBounds
  <2>4. ttTeam \in [Teams -> TeamType] /\ Sound(ttTeam, ttAuto) /\ IsOpenIn(ttTeam, t)
    BY <1>1 DEF TeamsSound, TeamTyped
  <2>5. ttTeam'[t].coord = ttTeam[t].coord /\ ttTeam'[t].name = ttTeam[t].name
    BY <1>5
  <2>6. Changes(t, ttTeam, ttAuto, ttTeam', ttAuto')
    BY <1>8, <1>9, <2>1, <2>2, <2>3, <2>5 DEF Changes
  <2> QED BY <1>3, <2>4, <2>6, ChangedSound
<1> QED BY <1>3, <1>4, <1>10 DEF TeamsSound, TeamTyped, AutoTyped

\* A freed slot.
LEMMA FreedIs ==
    ASSUME TreeBounds, NEW k \in Channels, NEW tm \in [Teams -> TeamType]
    PROVE  /\ Tt!Freed(k, tm) \in [Teams -> TeamType]
           /\ \A t \in Teams : LET x == Tt!Freed(k, tm)[t] IN
                /\ x.st = tm[t].st /\ x.coord = tm[t].coord /\ x.name = tm[t].name
                /\ x.workers = tm[t].workers /\ x.auto = tm[t].auto /\ x.drain = tm[t].drain
                /\ x.slots[k] = None
                /\ \A j \in Channels : j # k => x.slots[j] = tm[t].slots[j]
<1>1. ASSUME NEW t \in Teams, NEW x, x = [tm[t] EXCEPT !.slots[k] = None]
      PROVE  /\ x \in TeamType
             /\ x.st = tm[t].st /\ x.coord = tm[t].coord /\ x.name = tm[t].name
             /\ x.workers = tm[t].workers /\ x.auto = tm[t].auto /\ x.drain = tm[t].drain
             /\ x.slots[k] = None
             /\ \A j \in Channels : j # k => x.slots[j] = tm[t].slots[j]
  <2> DEFINE z == [tm[t].slots EXCEPT ![k] = None]
  <2>1. tm[t] \in TeamType /\ tm[t].slots \in [Channels -> Names \cup Keys \cup {None}]
    BY DEF TeamType
  <2>2. /\ z \in [Channels -> Names \cup Keys \cup {None}] /\ z[k] = None
        /\ \A j \in Channels : j # k => z[j] = tm[t].slots[j]
    BY <2>1
  <2>3. x = [tm[t] EXCEPT !.slots = z]
    BY <1>1, <2>1
  <2> HIDE DEF z
  <2> QED BY <2>1, <2>2, <2>3 DEF TeamType
<1>2. \A t \in Teams : Tt!Freed(k, tm)[t] = [tm[t] EXCEPT !.slots[k] = None]
  BY DEF Tt!Freed
<1>3. \A t \in Teams : LET x == Tt!Freed(k, tm)[t] IN
        /\ x \in TeamType
        /\ x.st = tm[t].st /\ x.coord = tm[t].coord /\ x.name = tm[t].name
        /\ x.workers = tm[t].workers /\ x.auto = tm[t].auto /\ x.drain = tm[t].drain
        /\ x.slots[k] = None
        /\ \A j \in Channels : j # k => x.slots[j] = tm[t].slots[j]
  <2> TAKE t \in Teams
  <2> DEFINE y == Tt!Freed(k, tm)[t]
  <2>1. y = [tm[t] EXCEPT !.slots[k] = None]
    BY <1>2
  <2> HIDE DEF y
  <2>2. /\ y \in TeamType
        /\ y.st = tm[t].st /\ y.coord = tm[t].coord /\ y.name = tm[t].name
        /\ y.workers = tm[t].workers /\ y.auto = tm[t].auto /\ y.drain = tm[t].drain
        /\ y.slots[k] = None
        /\ \A j \in Channels : j # k => y.slots[j] = tm[t].slots[j]
    BY <1>1, <2>1
  <2> QED BY <2>2 DEF y
<1>4. Tt!Freed(k, tm) \in [Teams -> TeamType]
  <2>1. Tt!Freed(k, tm) = [t \in Teams |-> Tt!Freed(k, tm)[t]]
    BY DEF Tt!Freed
  <2> QED BY <1>3, <2>1
<1> QED BY <1>3, <1>4

LEMMA StepBind ==
    ASSUME TreeBounds, TeamsSound, NEW k \in Keys, NEW work \in Work \cup {None},
           Tt!Bind(k, work)
    PROVE  TeamsSound'
<1> DEFINE t == ttAuto[k].team
           sub == ttAuto[k].sub
           freed == Tt!Freed(k, ttTeam)
           joined == Tt!Committed(k, t)
<1>1. /\ IsOpenIn(ttTeam, t) /\ t \in Teams /\ ttTeam[t].slots[k] # None
      /\ Tt!Parents(k) = {} /\ Tt!Own(k) = {} /\ ttAuto' = [ttAuto EXCEPT ![k].st = "joined"]
      /\ sub = None => ttTeam' = joined
      /\ sub # None => /\ sub \notin {ttTeam[s].name : s \in Tt!Open}
                       /\ \E s \in Teams : ttTeam' = [joined EXCEPT ![s] = Tt!Created(k, sub, ttTeam[t].auto)]
  BY OpenTeams DEF Tt!Bind, IsOpen, IsOpenIn
<1>2. k \in Channels /\ sub \in Names \cup {None} /\ ttTeam[t] \in TeamType /\ ttTeam[t].auto \in BOOLEAN
  BY <1>1 DEF TreeBounds, TeamsSound, TeamTyped, AutoTyped, AutoType, TeamType
<1>3. /\ ttAuto' \in [Channels -> AutoType]
      /\ \A j \in Channels : j # k => ttAuto'[j] = ttAuto[j]
  BY <1>1, <1>2 DEF TeamsSound, AutoTyped, AutoType
<1> HIDE DEF sub, t
<1>4. /\ freed \in [Teams -> TeamType]
      /\ \A s \in Teams :
           /\ freed[s].st = ttTeam[s].st /\ freed[s].coord = ttTeam[s].coord
           /\ freed[s].name = ttTeam[s].name /\ freed[s].workers = ttTeam[s].workers
           /\ freed[s].slots[k] = None
           /\ \A j \in Channels : j # k => freed[s].slots[j] = ttTeam[s].slots[j]
  BY <1>2, FreedIs DEF TeamsSound, TeamTyped
<1>5. /\ joined \in [Teams -> TeamType]
      /\ joined[t].workers = ttTeam[t].workers \cup {k}
      /\ \A s \in Teams : s # t => joined[s].workers = ttTeam[s].workers
      /\ \A s \in Teams :
           /\ joined[s].st = ttTeam[s].st /\ joined[s].coord = ttTeam[s].coord
           /\ joined[s].name = ttTeam[s].name
           /\ joined[s].slots[k] = None
           /\ \A j \in Channels : j # k => joined[s].slots[j] = ttTeam[s].slots[j]
  <2>1. joined = [freed EXCEPT ![t].workers = @ \cup {k}]
    BY DEF Tt!Committed
  <2> HIDE DEF joined, freed
  <2>2. freed[t] \in TeamType
    BY <1>1, <1>4
  <2>3. [freed[t] EXCEPT !.workers = @ \cup {k}] \in TeamType
    BY <1>2, <2>2 DEF TeamType
  <2>4. /\ joined \in [Teams -> TeamType] /\ joined[t] = [freed[t] EXCEPT !.workers = @ \cup {k}]
        /\ \A s \in Teams : s # t => joined[s] = freed[s]
    BY <1>1, <1>4, <2>1, <2>3
  <2>5. /\ joined[t].workers = freed[t].workers \cup {k} /\ joined[t].st = freed[t].st
        /\ joined[t].coord = freed[t].coord /\ joined[t].name = freed[t].name
        /\ joined[t].slots = freed[t].slots
    BY <2>2, <2>4 DEF TeamType
  <2>6. \A s \in Teams : s # t => /\ joined[s].workers = ttTeam[s].workers
                                  /\ joined[s].st = freed[s].st /\ joined[s].coord = freed[s].coord
                                  /\ joined[s].name = freed[s].name /\ joined[s].slots = freed[s].slots
    BY <1>4, <2>4
  <2>7. \A s \in Teams : /\ joined[s].st = freed[s].st /\ joined[s].coord = freed[s].coord
                         /\ joined[s].name = freed[s].name /\ joined[s].slots = freed[s].slots
    BY <2>5, <2>6
  <2>8. joined[t].workers = ttTeam[t].workers \cup {k}
    BY <1>1, <1>4, <2>5
  <2> QED BY <1>4, <2>4, <2>6, <2>7, <2>8
<1> HIDE DEF joined, freed
<1>6. Sound(joined, ttAuto')
  <2>1. Held(joined[t]) = Held(ttTeam[t]) \ {k} /\ k \in Held(ttTeam[t])
    BY <1>1, <1>5 DEF Held, TreeBounds
  <2>2. Fits(ttTeam[t]) /\ SlotsOf(t, ttTeam[t], ttAuto)
    BY <1>1 DEF TeamsSound, Sound
  <2>3. Fits(joined[t])
    <3>1. joined[t] \in TeamType
      BY <1>1, <1>5
    <3> QED BY <1>2, <1>5, <2>1, <2>2, <3>1, FitsCommitted
  <2>4. \A s \in Teams, j \in Keys : joined[s].slots[j] # None
                                     => j # k /\ ttAuto'[j] = ttAuto[j] /\ ttTeam[s].slots[j] # None
    BY <1>3, <1>5 DEF TreeBounds
  <2>5. SlotsOf(t, joined[t], ttAuto')
    BY <1>1, <2>2, <2>4 DEF SlotsOf
  <2>6. \A s \in Teams : s # t /\ IsOpenIn(joined, s) => IsOpenIn(ttTeam, s) /\ Less(ttTeam[s], joined[s])
    BY <1>5, <2>4 DEF IsOpenIn, Less
  <2>7. \A s \in Teams : IsOpenIn(ttTeam, s) => k \notin ttTeam[s].workers
    BY <1>1, OwnTeam DEF IsOpen, IsOpenIn
  <2>8. \A s \in Teams : s # t /\ IsOpenIn(ttTeam, s) => joined[t].workers \cap ttTeam[s].workers = {}
    BY <1>1, <1>5, <2>7 DEF TeamsSound, Sound, Apart
  <2>9. Changes(t, ttTeam, ttAuto, joined, ttAuto')
    BY <1>1, <1>5, <2>3, <2>4, <2>5, <2>6, <2>8 DEF Changes
  <2> QED BY <1>1, <1>5, <2>9, ChangedSound DEF TeamsSound, TeamTyped
<1>7. CASE sub = None
  BY <1>1, <1>3, <1>5, <1>6, <1>7 DEF TeamsSound, TeamTyped, AutoTyped
<1>8. CASE sub # None
  <2>1. PICK s \in Teams : ttTeam' = [joined EXCEPT ![s] = Tt!Created(k, sub, ttTeam[t].auto)]
    BY <1>1, <1>8
  <2>2. Fresh(joined, k, sub)
    <3>1. \A r \in Teams : IsOpenIn(ttTeam, r) => ttTeam[r].name # sub
      BY <1>1, <1>8, OpenTeams DEF IsOpen, IsOpenIn
    <3>2. \A r \in Teams : IsOpenIn(ttTeam, r) => ttTeam[r].coord # k
      BY <1>1, OwnTeam DEF IsOpen, IsOpenIn
    <3> QED BY <1>5, <3>1, <3>2 DEF Fresh, IsOpenIn
  <2>3. Sound(ttTeam', ttAuto') /\ ttTeam' \in [Teams -> TeamType]
    BY <1>2, <1>5, <1>6, <1>8, <2>1, <2>2, CreatedSound
  <2> QED BY <1>3, <2>3 DEF TeamsSound, TeamTyped, AutoTyped
<1> QED BY <1>7, <1>8

-----------------------------------------------------------------------------
(* The steps that only take something from teams.                          *)

LEMMA ShrunkStep ==
    ASSUME TreeBounds, TeamsSound, TeamTyped', AutoTyped',
           Lessens(ttTeam, ttAuto, ttTeam', ttAuto')
    PROVE  TeamsSound'
  BY LessSound DEF TeamsSound, TeamTyped

\* A worker that leaves team t.
LEMMA StepLeaves ==
    ASSUME TreeBounds, TeamsSound, NEW t \in Teams, NEW gone \in SUBSET Channels,
           ttTeam' = [ttTeam EXCEPT ![t].workers = @ \ gone], ttAuto' = ttAuto
    PROVE  /\ TeamsSound'
           /\ \A s \in Teams : /\ ttTeam'[s].st = ttTeam[s].st /\ ttTeam'[s].coord = ttTeam[s].coord
                               /\ s # t => ttTeam'[s].workers = ttTeam[s].workers
           /\ ttTeam'[t].workers = ttTeam[t].workers \ gone
<1>1. /\ TeamTyped'
      /\ \A s \in Teams : s # t => ttTeam'[s] = ttTeam[s]
      /\ ttTeam'[t].workers = ttTeam[t].workers \ gone /\ ttTeam'[t].st = ttTeam[t].st
      /\ ttTeam'[t].coord = ttTeam[t].coord /\ ttTeam'[t].name = ttTeam[t].name
      /\ ttTeam'[t].slots = ttTeam[t].slots
  BY DEF TeamsSound, TeamTyped, TeamType
<1>2. Lessens(ttTeam, ttAuto, ttTeam', ttAuto')
  BY <1>1 DEF Lessens, Less, IsOpenIn
<1>3. AutoTyped'
  BY DEF TeamsSound, AutoTyped
<1> QED BY <1>1, <1>2, <1>3, ShrunkStep

LEMMA StepMode ==
    ASSUME TreeBounds, TeamsSound, NEW t \in Teams, NEW mode \in Modes,
           Tt!SetMode(t, mode[1], mode[2])
    PROVE  /\ TeamsSound'
           /\ \A s \in Teams : /\ ttTeam'[s].st = ttTeam[s].st /\ ttTeam'[s].coord = ttTeam[s].coord
                               /\ ttTeam'[s].workers = ttTeam[s].workers
<1>1. mode[1] \in BOOLEAN /\ mode[2] \in BOOLEAN
  BY DEF TreeBounds
<1>2. /\ TeamTyped'
      /\ \A s \in Teams : /\ ttTeam'[s].st = ttTeam[s].st /\ ttTeam'[s].coord = ttTeam[s].coord
                          /\ ttTeam'[s].workers = ttTeam[s].workers
                          /\ ttTeam'[s].name = ttTeam[s].name /\ ttTeam'[s].slots = ttTeam[s].slots
  <2>1. ttTeam' = [ttTeam EXCEPT ![t].auto = mode[1], ![t].drain = mode[2]]
    BY DEF Tt!SetMode
  <2>2. ttTeam[t] \in TeamType
    BY DEF TeamsSound, TeamTyped
  <2> DEFINE y == [ttTeam[t] EXCEPT !.auto = mode[1], !.drain = mode[2]]
  <2>3. /\ y \in TeamType /\ y.st = ttTeam[t].st /\ y.coord = ttTeam[t].coord
        /\ y.workers = ttTeam[t].workers /\ y.name = ttTeam[t].name /\ y.slots = ttTeam[t].slots
    BY <1>1, <2>2 DEF TeamType
  <2>4. ttTeam' = [ttTeam EXCEPT ![t] = y]
    BY <2>1 DEF TeamsSound, TeamTyped
  <2> HIDE DEF y
  <2> QED BY <2>3, <2>4 DEF TeamsSound, TeamTyped
<1>3. ttAuto' = ttAuto
  BY DEF Tt!SetMode
<1>4. Lessens(ttTeam, ttAuto, ttTeam', ttAuto')
  BY <1>2, <1>3 DEF Lessens, Less, IsOpenIn
<1>5. AutoTyped'
  BY <1>3 DEF TeamsSound, AutoTyped
<1> QED BY <1>2, <1>4, <1>5, ShrunkStep

\* A team that ends.
LEMMA ClosedIs ==
    ASSUME TreeBounds, NEW t \in Teams, NEW tm \in [Teams -> TeamType]
    PROVE  LET tn == Tt!Closed(t, tm) IN
           /\ tn \in [Teams -> TeamType]
           /\ \A s \in Teams : s # t => tn[s] = tm[s]
           /\ tn[t].st = "closed" /\ tn[t].coord = tm[t].coord /\ tn[t].name = tm[t].name
           /\ tn[t].workers = tm[t].workers /\ \A k \in Channels : tn[t].slots[k] = None
<1> DEFINE tn == Tt!Closed(t, tm)
           y == [tm[t] EXCEPT !.st = "closed", !.slots = [k \in Channels |-> None]]
<1>1. tm[t] \in TeamType
  OBVIOUS
<1>2. /\ y \in TeamType /\ y.st = "closed" /\ y.coord = tm[t].coord /\ y.name = tm[t].name
      /\ y.workers = tm[t].workers /\ y.slots = [k \in Channels |-> None]
  BY <1>1 DEF TeamType
<1>3. tn = [tm EXCEPT ![t] = y]
  BY DEF Tt!Closed
<1> HIDE DEF y, tn
<1>4. /\ tn \in [Teams -> TeamType] /\ \A s \in Teams : s # t => tn[s] = tm[s]
      /\ tn[t] = y
  BY <1>2, <1>3
<1> QED BY <1>2, <1>4 DEF tn

LEMMA StepClose ==
    ASSUME TreeBounds, TeamsSound, NEW t \in Teams, NEW archived \in BOOLEAN,
           Tt!Close(t, archived)
    PROVE  /\ TeamsSound' /\ IsOpen(t) /\ ~IsOpen(t)'
           /\ \A s \in Teams \ {t} :
                /\ ttTeam'[s].st = ttTeam[s].st /\ ttTeam'[s].coord = ttTeam[s].coord
                /\ ttTeam'[s].workers = ttTeam[s].workers \/
                   /\ s \in Tt!Parents(ttTeam[t].coord) /\ archived
                   /\ ttTeam'[s].workers = ttTeam[s].workers \ {ttTeam[t].coord}
<1> DEFINE c == ttTeam[t].coord
           up == IF archived THEN Tt!Parents(c) ELSE {}
           tm == [s \in Teams |-> IF s \in up THEN [ttTeam[s] EXCEPT !.workers = @ \ {c}] ELSE ttTeam[s]]
<1>1. ttTeam' = Tt!Closed(t, tm) /\ ttAuto' = ttAuto /\ IsOpen(t)
  BY OpenTeams DEF Tt!Close
<1>2. \A s \in Teams : ttTeam[s] \in TeamType
  BY DEF TeamsSound, TeamTyped
<1>3. ASSUME NEW s \in Teams
      PROVE  /\ tm[s] \in TeamType /\ tm[s].st = ttTeam[s].st /\ tm[s].coord = ttTeam[s].coord
             /\ tm[s].name = ttTeam[s].name /\ tm[s].slots = ttTeam[s].slots
             /\ tm[s].workers = IF s \in up THEN ttTeam[s].workers \ {c} ELSE ttTeam[s].workers
  <2>1. CASE s \in up
    <3>1. tm[s] = [ttTeam[s] EXCEPT !.workers = @ \ {c}]
      BY <2>1
    <3> HIDE DEF tm, up, c
    <3> QED BY <1>2, <2>1, <3>1 DEF TeamType
  <2>2. CASE s \notin up
    BY <1>2, <2>2
  <2> QED BY <2>1, <2>2
<1>4. tm \in [Teams -> TeamType]
  BY <1>3
<1>5. up \subseteq Tt!Parents(c) /\ (~archived => up = {})
  OBVIOUS
<1> HIDE DEF tm, up
<1>6. /\ ttTeam' \in [Teams -> TeamType] /\ \A s \in Teams : s # t => ttTeam'[s] = tm[s]
      /\ ttTeam'[t].st = "closed" /\ ttTeam'[t].coord = tm[t].coord
  BY <1>1, <1>4, ClosedIs
<1>7. Lessens(ttTeam, ttAuto, ttTeam', ttAuto')
  BY <1>1, <1>3, <1>6 DEF Lessens, Less, IsOpenIn
<1>8. AutoTyped' /\ TeamTyped'
  BY <1>1, <1>6 DEF TeamsSound, AutoTyped, TeamTyped
<1>9. ~IsOpen(t)'
  BY <1>6 DEF IsOpen
<1>10. \A s \in Teams \ {t} :
         /\ ttTeam'[s].st = ttTeam[s].st /\ ttTeam'[s].coord = ttTeam[s].coord
         /\ ttTeam'[s].workers = IF s \in up THEN ttTeam[s].workers \ {c} ELSE ttTeam[s].workers
  BY <1>3, <1>6
<1> QED BY <1>1, <1>5, <1>7, <1>8, <1>9, <1>10, ShrunkStep

\* Slots that are freed, and nothing else of the teams.
LEMMA StepFreed ==
    ASSUME TreeBounds, TeamsSound, NEW k \in Keys, ttTeam' = Tt!Freed(k, ttTeam), AutoTyped',
           \A j \in Channels : j # k => ttAuto'[j] = ttAuto[j]
    PROVE  /\ TeamsSound'
           /\ \A s \in Teams : /\ ttTeam'[s].st = ttTeam[s].st /\ ttTeam'[s].coord = ttTeam[s].coord
                               /\ ttTeam'[s].workers = ttTeam[s].workers
<1>1. k \in Channels
  BY DEF TreeBounds
<1>2. /\ TeamTyped'
      /\ \A t \in Teams :
           /\ ttTeam'[t].st = ttTeam[t].st /\ ttTeam'[t].coord = ttTeam[t].coord
           /\ ttTeam'[t].name = ttTeam[t].name /\ ttTeam'[t].workers = ttTeam[t].workers
           /\ ttTeam'[t].slots[k] = None
           /\ \A j \in Channels : j # k => ttTeam'[t].slots[j] = ttTeam[t].slots[j]
  BY <1>1, FreedIs DEF TeamsSound, TeamTyped
<1>3. Lessens(ttTeam, ttAuto, ttTeam', ttAuto')
  BY <1>2 DEF Lessens, Less, IsOpenIn, TreeBounds
<1> QED BY <1>2, <1>3, ShrunkStep

LEMMA StepFails ==
    ASSUME TreeBounds, TeamsSound, NEW k \in Keys, NEW definitive \in BOOLEAN,
           Tt!CreationFails(k, definitive)
    PROVE  /\ TeamsSound'
           /\ \A s \in Teams : /\ ttTeam'[s].st = ttTeam[s].st /\ ttTeam'[s].coord = ttTeam[s].coord
                               /\ ttTeam'[s].workers = ttTeam[s].workers
<1>1. /\ ttTeam' = Tt!Freed(k, ttTeam)
      /\ ttAuto' = [ttAuto EXCEPT ![k].st = IF definitive THEN "none" ELSE "failed"]
  BY DEF Tt!CreationFails
<1>2. AutoTyped' /\ \A j \in Channels : j # k => ttAuto'[j] = ttAuto[j]
  BY <1>1 DEF TeamsSound, AutoTyped, AutoType
<1> QED BY <1>1, <1>2, StepFreed

LEMMA StepRestart ==
    ASSUME TreeBounds, TeamsSound, Tt!Restart
    PROVE  /\ TeamsSound'
           /\ \A s \in Teams : /\ ttTeam'[s].st = ttTeam[s].st /\ ttTeam'[s].coord = ttTeam[s].coord
                               /\ ttTeam'[s].workers = ttTeam[s].workers
<1> DEFINE cut == {k \in Keys : ttAuto[k].st \in {"creating", "stranded"}}
<1>1. /\ ttAuto' = [k \in Channels |-> IF k \in cut THEN [ttAuto[k] EXCEPT !.st = "failed"] ELSE ttAuto[k]]
      /\ ttTeam' = [t \in Teams |-> [ttTeam[t] EXCEPT !.slots =
                       [k \in Channels |-> IF k \in cut THEN None ELSE @[k]]]]
  BY DEF Tt!Restart
<1>2. AutoTyped' /\ \A k \in Channels : k \notin cut => ttAuto'[k] = ttAuto[k]
  <2>1. \A k \in Channels : [ttAuto[k] EXCEPT !.st = "failed"] \in AutoType /\ ttAuto[k] \in AutoType
    BY DEF TeamsSound, AutoTyped, AutoType
  <2> HIDE DEF cut
  <2> QED BY <1>1, <2>1 DEF AutoTyped
<1> HIDE DEF cut
<1>3. ASSUME NEW t \in Teams
      PROVE  /\ ttTeam'[t] \in TeamType /\ ttTeam'[t].st = ttTeam[t].st
             /\ ttTeam'[t].coord = ttTeam[t].coord /\ ttTeam'[t].name = ttTeam[t].name
             /\ ttTeam'[t].workers = ttTeam[t].workers
             /\ \A k \in Channels : ttTeam'[t].slots[k] = IF k \in cut THEN None ELSE ttTeam[t].slots[k]
  <2> DEFINE z == [k \in Channels |-> IF k \in cut THEN None ELSE ttTeam[t].slots[k]]
  <2>1. ttTeam[t] \in TeamType /\ ttTeam[t].slots \in [Channels -> Names \cup Keys \cup {None}]
    BY DEF TeamsSound, TeamTyped, TeamType
  <2>2. /\ z \in [Channels -> Names \cup Keys \cup {None}]
        /\ \A k \in Channels : z[k] = IF k \in cut THEN None ELSE ttTeam[t].slots[k]
    BY <2>1
  <2>3. ttTeam'[t] = [ttTeam[t] EXCEPT !.slots = z]
    BY <1>1
  <2> HIDE DEF z
  <2> QED BY <2>1, <2>2, <2>3 DEF TeamType
<1>4. TeamTyped'
  <2>1. ttTeam' = [t \in Teams |-> ttTeam'[t]]
    BY <1>1
  <2> QED BY <1>3, <2>1 DEF TeamTyped
<1>5. Lessens(ttTeam, ttAuto, ttTeam', ttAuto')
  BY <1>2, <1>3 DEF Lessens, Less, IsOpenIn, TreeBounds
<1> QED BY <1>2, <1>3, <1>4, <1>5, ShrunkStep

LEMMA StepStop ==
    ASSUME TreeBounds, TeamsSound, NEW k \in Keys, Tt!Stop(k)
    PROVE  /\ TeamsSound'
           /\ \A s \in Teams :
                /\ ttTeam'[s].coord = ttTeam[s].coord
                /\ ttTeam'[s].st = IF s \in Tt!Own(k) THEN "closed" ELSE ttTeam[s].st
                /\ s \notin Tt!Own(k) => ttTeam'[s].workers =
                     IF s \in Tt!Parents(k) THEN ttTeam[s].workers \ {k} ELSE ttTeam[s].workers
<1> DEFINE freed == Tt!Freed(k, ttTeam)
           left == [t \in Teams |-> [freed[t] EXCEPT !.workers = @ \ {k}]]
<1>1. /\ ttTeam' = [t \in Teams |-> IF t \in Tt!Own(k) THEN Tt!Closed(t, freed)[t]
                                    ELSE IF t \in Tt!Parents(k) THEN left[t] ELSE freed[t]]
      /\ ttAuto' = [ttAuto EXCEPT ![k].st = "stopped"] /\ k \in Channels
  BY DEF Tt!Stop, TreeBounds
<1>2. AutoTyped' /\ \A j \in Channels : j # k => ttAuto'[j] = ttAuto[j]
  BY <1>1 DEF TeamsSound, AutoTyped, AutoType
<1>3. /\ freed \in [Teams -> TeamType]
      /\ \A s \in Teams :
           /\ freed[s].st = ttTeam[s].st /\ freed[s].coord = ttTeam[s].coord
           /\ freed[s].name = ttTeam[s].name /\ freed[s].workers = ttTeam[s].workers
           /\ freed[s].slots[k] = None
           /\ \A j \in Channels : j # k => freed[s].slots[j] = ttTeam[s].slots[j]
  BY <1>1, FreedIs DEF TeamsSound, TeamTyped
<1> HIDE DEF freed
<1>4. ASSUME NEW s \in Teams
      PROVE  /\ ttTeam'[s] \in TeamType /\ ttTeam'[s].coord = ttTeam[s].coord
             /\ ttTeam'[s].name = ttTeam[s].name
             /\ ttTeam'[s].st = IF s \in Tt!Own(k) THEN "closed" ELSE ttTeam[s].st
             /\ s \notin Tt!Own(k) => ttTeam'[s].workers =
                  IF s \in Tt!Parents(k) THEN ttTeam[s].workers \ {k} ELSE ttTeam[s].workers
             /\ s \notin Tt!Own(k) => ttTeam'[s].slots = freed[s].slots
  <2>1. freed[s] \in TeamType
    BY <1>3
  <2>2. CASE s \in Tt!Own(k)
    <3>1. ttTeam'[s] = Tt!Closed(s, freed)[s]
      BY <1>1, <2>2
    <3> QED BY <1>3, <2>2, <3>1, ClosedIs
  <2>3. CASE s \notin Tt!Own(k) /\ s \in Tt!Parents(k)
    <3>1. ttTeam'[s] = [freed[s] EXCEPT !.workers = @ \ {k}]
      BY <1>1, <2>3
    <3>2. /\ ttTeam'[s] \in TeamType /\ ttTeam'[s].st = freed[s].st
          /\ ttTeam'[s].coord = freed[s].coord /\ ttTeam'[s].name = freed[s].name
          /\ ttTeam'[s].workers = freed[s].workers \ {k} /\ ttTeam'[s].slots = freed[s].slots
      BY <2>1, <3>1 DEF TeamType
    <3> QED BY <1>3, <2>3, <3>2
  <2>4. CASE s \notin Tt!Own(k) /\ s \notin Tt!Parents(k)
    <3>1. ttTeam'[s] = freed[s]
      BY <1>1, <2>4
    <3> QED BY <1>3, <2>1, <2>4, <3>1
  <2> QED BY <2>2, <2>3, <2>4
<1>5. TeamTyped'
  <2>1. ttTeam' = [t \in Teams |-> ttTeam'[t]]
    BY <1>1
  <2> QED BY <1>4, <2>1 DEF TeamTyped
<1>6. Lessens(ttTeam, ttAuto, ttTeam', ttAuto')
  <2>1. ASSUME NEW s \in Teams, ttTeam'[s].st = "open"
        PROVE  /\ ttTeam[s].st = "open" /\ Less(ttTeam[s], ttTeam'[s])
               /\ \A j \in Keys : ttTeam'[s].slots[j] # None => ttAuto'[j] = ttAuto[j]
    <3>1. s \notin Tt!Own(k)
      BY <1>4, <2>1
    <3>2. ttTeam'[s].workers \subseteq ttTeam[s].workers
      BY <1>4, <3>1
    <3>3. \A j \in Keys : ttTeam'[s].slots[j] # None => j # k /\ ttTeam[s].slots[j] # None
      <4>1. ttTeam'[s].slots = freed[s].slots
        BY <1>4, <3>1
      <4>2. freed[s].slots[k] = None /\ \A j \in Channels : j # k => freed[s].slots[j] = ttTeam[s].slots[j]
        BY <1>3
      <4>3. Keys \subseteq Channels
        BY DEF TreeBounds
      <4> QED BY <4>1, <4>2, <4>3
    <3> QED BY <1>2, <1>4, <2>1, <3>1, <3>2, <3>3 DEF Less, TreeBounds
  <2> QED BY <2>1 DEF Lessens, IsOpenIn
<1> QED BY <1>2, <1>4, <1>5, <1>6, ShrunkStep

-----------------------------------------------------------------------------
(* The tasks, and what sessions hold of them.                              *)

LEMMA ActiveIs == \A k : Tt!Active(k) <=> ttTask[k].st \in {"queued", "bound"}
  BY DEF Tt!Active

\* Team t is open after the step.
NowOpen(t) == ttTeam'[t].st = "open"

\* A step that ends the tasks K, starts none, and takes no team, worker or reservation
\* from the others.
Ends(K) == ttTask' = Tt!Cancelled(K) /\ ttSlip \subseteq ttSlip'

LEMMA EndsIs ==
    ASSUME TaskTyped, NEW K, Ends(K)
    PROVE  /\ TaskTyped'
           /\ \A k \in Work : /\ ttTask'[k].to = ttTask[k].to /\ ttTask'[k].team = ttTask[k].team
                              /\ ttTask'[k].standing = ttTask[k].standing
                              /\ k \in K => ttTask'[k].st = "ended"
                              /\ k \notin K => ttTask'[k].st = ttTask[k].st
                              /\ ttTask'[k].st \in {"queued", "bound"} <=> Tt!Active(k) /\ k \notin K
  BY EndedTasks DEF Ends, TaskTyped, Tt!Active

LEMMA SameTasks == ASSUME TaskTyped, ttTask' = ttTask, ttSlip' = ttSlip PROVE Ends({})
  BY DEF Ends, Tt!Cancelled, TaskTyped

KeepsTeams(K) ==
    \A k \in Work : Tt!Active(k) /\ k \notin K =>
        LET t == ttTask[k].team IN
        /\ NowOpen(t) /\ ttTask[k].to \in ttTeam'[t].workers
        /\ \A s \in Teams : NowOpen(s) /\ ttTeam'[s].coord = ttTask[k].to => ttTask[k].standing

LEMMA ServedStep ==
    ASSUME TaskTyped, Served, NEW K, Ends(K), KeepsTeams(K)
    PROVE  Served'
  BY EndsIs, ActiveIs DEF Served, KeepsTeams, NowOpen, IsOpen, Tt!Active

\* Pointers that are kept or dropped.
KeepsPointers(K) ==
    \A c \in Channels :
        /\ ttStand'[c] \in {ttStand[c], None}
        /\ ttStand'[c] # None /\ ttStand[c] \in K => ttStand[c] \in ttSlip'

LEMMA PointersStep ==
    ASSUME TreeBounds, TaskTyped, PointersTyped, PointersTrue, NEW K, Ends(K), KeepsPointers(K)
    PROVE  PointersTrue'
<1> SUFFICES ASSUME NEW c \in Channels, ttStand'[c] # None
             PROVE  LET k == ttStand'[c] IN
                    /\ ttTask'[k].to = c /\ ttTask'[k].standing
                    /\ ttTask'[k].st = "bound" \/ (k \in ttSlip' /\ ttTask'[k].st = "ended")
  BY DEF PointersTrue
<1>1. ttStand'[c] = ttStand[c] /\ ttStand[c] \in Work
  BY DEF KeepsPointers, PointersTyped
<1>2. /\ ttTask[ttStand[c]].to = c /\ ttTask[ttStand[c]].standing
      /\ ttTask[ttStand[c]].st = "bound" \/ (ttStand[c] \in ttSlip /\ ttTask[ttStand[c]].st = "ended")
  BY <1>1 DEF PointersTrue
<1> QED BY <1>1, <1>2, EndsIs DEF KeepsPointers, Ends

LEMMA BoundStep ==
    ASSUME TaskTyped, BoundOnce, NEW K, Ends(K)
    PROVE  BoundOnce'
  BY EndsIs DEF BoundOnce

\* Delegated turns that go on: their task, their team and the pointer are kept.
KeepsTurn(c, K) ==
    /\ ttTurn[c].actor = "delegated" /\ ttTurn'[c].source = ttTurn[c].source
    /\ ttTurn'[c].team = ttTurn[c].team
    /\ ttTurn[c].source \notin K /\ ttStand'[c] = ttStand[c]
    /\ ttTeam[ttTurn[c].team].coord = c /\ IsOpen(ttTurn[c].team)
       => NowOpen(ttTurn[c].team) /\ ttTeam'[ttTurn[c].team].coord = c

\* A turn that starts with the authority of a task.
StartsTurn(c, k) ==
    /\ k \in Work /\ ttTurn'[c].source = k /\ ttStand'[c] = k /\ Tt!Active(k)
    /\ ttTask[k].standing /\ ttTask[k].to = c
    /\ ttTurn'[c].team \in Teams /\ NowOpen(ttTurn'[c].team)
    /\ ttTeam'[ttTurn'[c].team].coord = c

KeepsTurns(K) ==
    \A c \in Channels : ttTurn'[c].actor = "delegated" /\ ttTurn'[c].source \notin ttSlip'
        => KeepsTurn(c, K) \/ \E k \in Work \ K : StartsTurn(c, k)

LEMMA DelegatedStep ==
    ASSUME TaskTyped, Delegated, NEW K, Ends(K), KeepsTurns(K)
    PROVE  Delegated'
<1> SUFFICES ASSUME NEW c \in Channels, ttTurn'[c].actor = "delegated", ttTurn'[c].source \notin ttSlip'
             PROVE  /\ ttTurn'[c].source \in Work /\ ttTurn'[c].team \in Teams
                    /\ NowOpen(ttTurn'[c].team) /\ ttTeam'[ttTurn'[c].team].coord = c
                    /\ ttTask'[ttTurn'[c].source].standing
                    /\ ttTask'[ttTurn'[c].source].st \in {"queued", "bound"}
                    /\ ttTask'[ttTurn'[c].source].to = c /\ ttStand'[c] = ttTurn'[c].source
  BY DEF Delegated, IsOpen, NowOpen, Tt!Active
<1>1. CASE KeepsTurn(c, K)
  <2>1. ttTurn[c].actor = "delegated" /\ ttTurn[c].source \notin ttSlip
    BY <1>1 DEF KeepsTurn, Ends
  <2>2. /\ ttTurn[c].source \in Work /\ ttTurn[c].team \in Teams /\ IsOpen(ttTurn[c].team)
        /\ ttTeam[ttTurn[c].team].coord = c
        /\ ttTask[ttTurn[c].source].standing /\ Tt!Active(ttTurn[c].source)
        /\ ttTask[ttTurn[c].source].to = c /\ ttStand[c] = ttTurn[c].source
    BY <2>1 DEF Delegated
  <2> QED BY <1>1, <2>2, EndsIs DEF KeepsTurn
<1>2. CASE \E k \in Work \ K : StartsTurn(c, k)
  <2>1. PICK k \in Work \ K : StartsTurn(c, k)
    BY <1>2
  <2>2. /\ ttTask'[k].st \in {"queued", "bound"} /\ ttTask'[k].standing = ttTask[k].standing /\ ttTask'[k].to = ttTask[k].to
    BY <2>1, EndsIs DEF StartsTurn
  <2> QED BY <2>1, <2>2 DEF StartsTurn
<1> QED BY <1>1, <1>2 DEF KeepsTurns

LEMMA EndingStep ==
    ASSUME TreeBounds, TaskTyped, PointersTyped, TasksInv, NEW K, Ends(K),
           KeepsTeams(K), KeepsPointers(K), KeepsTurns(K)
    PROVE  TasksInv' /\ TaskTyped'
  BY ServedStep, PointersStep, BoundStep, DelegatedStep, EndsIs DEF TasksInv

\* Open teams stay open and lose no worker, and who gets a team holds no exclusive task.
OpenStay ==
    \A s \in Teams : IsOpen(s) => /\ NowOpen(s) /\ ttTeam'[s].coord = ttTeam[s].coord
                                  /\ ttTeam[s].workers \subseteq ttTeam'[s].workers

NewAreFree ==
    \A s \in Teams : NowOpen(s) /\ ~IsOpen(s) =>
        \A k \in Work : Tt!Active(k) /\ ttTask[k].to = ttTeam'[s].coord => ttTask[k].standing

LEMMA StayKeeps ==
    ASSUME Served, OpenStay, NewAreFree PROVE \A K : KeepsTeams(K)
  BY DEF Served, OpenStay, NewAreFree, KeepsTeams

\* Teams of which only modes, slots or members-to-be change.
LEMMA SameShape ==
    ASSUME \A s \in Teams : /\ ttTeam'[s].st = ttTeam[s].st /\ ttTeam'[s].coord = ttTeam[s].coord
                            /\ ttTeam[s].workers \subseteq ttTeam'[s].workers
    PROVE  OpenStay /\ NewAreFree
  BY DEF OpenStay, NewAreFree, IsOpen, NowOpen

\* A turn that is left alone, or gives way to one without delegated authority.
NoGain ==
    \A c \in Channels : ttTurn'[c].actor = "delegated" =>
        /\ ttTurn[c].actor = "delegated" /\ ttTurn'[c].source = ttTurn[c].source
        /\ ttTurn'[c].team = ttTurn[c].team

LEMMA StayTurns ==
    ASSUME OpenStay, Delegated, ttStand' = ttStand, ttSlip' = ttSlip, NoGain
    PROVE  KeepsTurns({})
<1> SUFFICES ASSUME NEW c \in Channels, ttTurn'[c].actor = "delegated", ttTurn'[c].source \notin ttSlip'
             PROVE  KeepsTurn(c, {})
  BY DEF KeepsTurns
<1>1. ttTurn[c].team \in Teams /\ IsOpen(ttTurn[c].team)
  BY DEF Delegated, NoGain
<1> QED BY <1>1 DEF KeepsTurn, OpenStay, NoGain

\* A step that touches neither tasks nor pointers.
LEMMA QuietStep ==
    ASSUME TreeBounds, TaskTyped, PointersTyped, TasksInv, OpenStay, NewAreFree,
           ttTask' = ttTask, ttStand' = ttStand, ttSlip' = ttSlip, NoGain
    PROVE  TasksInv' /\ TaskTyped'
<1>1. Ends({})
  BY SameTasks
<1>2. KeepsTeams({})
  BY StayKeeps DEF TasksInv
<1>3. KeepsPointers({})
  BY DEF KeepsPointers
<1>4. KeepsTurns({})
  BY StayTurns DEF TasksInv
<1> QED BY <1>1, <1>2, <1>3, <1>4, EndingStep

-----------------------------------------------------------------------------
(* The steps of the owner, and those of turns.                             *)

LEMMA Parts ==
    ASSUME TreeInv
    PROVE  TeamsSound /\ TaskTyped /\ TurnTyped /\ PointersTyped /\ RestTyped /\ TasksInv
  BY DEF TreeInv, TeamsSound, Typed

LEMMA Whole ==
    ASSUME TeamsSound', TaskTyped', TurnTyped', PointersTyped', RestTyped', TasksInv'
    PROVE  TreeInv'
  BY DEF TreeInv, TeamsSound, Typed

LEMMA CountedTyped ==
    ASSUME TreeBounds, ttOps \in 0 .. MaxOps, Tt!Counted PROVE ttOps' \in 0 .. MaxOps
  BY DEF TreeBounds, Tt!Counted

\* The sessions, and with them every turn, are left alone.
LEMMA SameSessions ==
    ASSUME TurnTyped, PointersTyped, UNCHANGED Tt!sessions
    PROVE  /\ TurnTyped' /\ PointersTyped' /\ NoGain /\ ttStand' = ttStand /\ ttTurn' = ttTurn
  BY DEF Tt!sessions, TurnTyped, PointersTyped, NoGain

LEMMA ActCreate ==
    ASSUME TreeBounds, TreeInv, NEW c \in Channels, NEW n \in Names, Tt!CreateTeam(c, n)
    PROVE  TreeInv'
<1>1. TeamsSound'
  BY Parts, StepCreate
<1>2. /\ c \in ttLive /\ Tt!Counted /\ Tt!MayCreate(c, n)
      /\ UNCHANGED Tt!sessions /\ ttTask' = ttTask /\ ttSlip' = ttSlip
      /\ UNCHANGED <<ttLive, ttJoin, ttWake, ttEvent, ttFaults>>
  BY DEF Tt!CreateTeam
<1>3. PICK s \in Teams : Tt!IsNext(s) /\ ttTeam' = [ttTeam EXCEPT ![s] = Tt!Created(c, n, FALSE)]
  BY DEF Tt!CreateTeam
<1>4. ttTeam[s].st = "none" /\ ttTeam'[s].coord = c /\ \A r \in Teams : r # s => ttTeam'[r] = ttTeam[r]
  <2>1. ttTeam[s].st = "none"
    BY <1>3 DEF Tt!IsNext
  <2>2. ttTeam'[s] = Tt!Created(c, n, FALSE) /\ \A r \in Teams : r # s => ttTeam'[r] = ttTeam[r]
    BY <1>3, Parts DEF TeamsSound, TeamTyped
  <2>3. Tt!Created(c, n, FALSE).coord = c
    BY DEF Tt!Created, Tt!NoTeam
  <2> QED BY <2>1, <2>2, <2>3
<1>5. OpenStay
  BY <1>4 DEF OpenStay, IsOpen, NowOpen
<1>6. NewAreFree
  <2>1. ASSUME NEW k \in Work, Tt!Active(k), ttTask[k].to = c PROVE ttTask[k].standing
    <3>1. ttTask[k].team \in Tt!Parents(c)
      BY <2>1, Parts, OwnTeam DEF TasksInv, Served
    <3> QED BY <1>2, <2>1, <3>1 DEF Tt!MayCreate
  <2> QED BY <1>4, <2>1 DEF NewAreFree, IsOpen, NowOpen
<1>7. TasksInv' /\ TaskTyped' /\ TurnTyped' /\ PointersTyped'
  BY <1>2, <1>5, <1>6, Parts, QuietStep, SameSessions
<1>8. RestTyped'
  BY <1>2, Parts, CountedTyped DEF RestTyped
<1> QED BY <1>1, <1>7, <1>8, Whole

LEMMA ActJoin ==
    ASSUME TreeBounds, TreeInv, NEW t \in Teams, NEW c \in Channels, Tt!Join(t, c)
    PROVE  TreeInv'
<1>1. TeamsSound'
  BY Parts, StepJoin
<1>2. /\ Tt!Counted /\ UNCHANGED Tt!sessions /\ ttTask' = ttTask /\ ttSlip' = ttSlip
      /\ UNCHANGED <<ttLive, ttWake, ttEvent, ttFaults>> /\ ttJoin' = ttJoin \cup {<<t, c>>}
      /\ ttTeam' = [ttTeam EXCEPT ![t].workers = @ \cup {c}]
  BY DEF Tt!Join
<1>3. OpenStay /\ NewAreFree
  <2>1. \A s \in Teams : ttTeam[s] \in TeamType
    BY Parts DEF TeamsSound, TeamTyped
  <2>2. \A s \in Teams : /\ ttTeam'[s].st = ttTeam[s].st /\ ttTeam'[s].coord = ttTeam[s].coord
                         /\ ttTeam[s].workers \subseteq ttTeam'[s].workers
    BY <1>2, <2>1, Parts DEF TeamsSound, TeamTyped, TeamType
  <2> QED BY <2>2, SameShape
<1>4. TasksInv' /\ TaskTyped' /\ TurnTyped' /\ PointersTyped'
  BY <1>2, <1>3, Parts, QuietStep, SameSessions
<1>5. RestTyped'
  BY <1>2, Parts, CountedTyped DEF RestTyped
<1> QED BY <1>1, <1>4, <1>5, Whole

\* Steps that change neither teams nor tasks nor what sessions hold of them.
LEMMA ActNoTeams ==
    ASSUME TreeBounds, TreeInv, UNCHANGED <<ttTeam, ttTask, ttStand, ttAuto, ttSlip>>,
           TurnTyped', NoGain, PointersTyped', RestTyped'
    PROVE  TreeInv'
<1>1. TeamsSound'
  BY Parts DEF TeamsSound, TeamTyped, AutoTyped
<1>2. OpenStay /\ NewAreFree
  BY DEF OpenStay, NewAreFree, IsOpen, NowOpen
<1>3. TasksInv' /\ TaskTyped'
  BY <1>2, Parts, QuietStep
<1> QED BY <1>1, <1>3, Whole

LEMMA ActReported ==
    ASSUME TreeBounds, TreeInv, NEW j \in ttJoin, Tt!JoinReported(j)
    PROVE  TreeInv'
<1>1. TurnTyped' /\ PointersTyped' /\ NoGain /\ ttStand' = ttStand
  BY Parts, SameSessions DEF Tt!JoinReported
<1>2. RestTyped'
  BY Parts DEF Tt!JoinReported, RestTyped
<1> QED BY <1>1, <1>2, ActNoTeams DEF Tt!JoinReported

LEMMA ActMode ==
    ASSUME TreeBounds, TreeInv, NEW t \in Teams, NEW mode \in Modes, Tt!SetMode(t, mode[1], mode[2])
    PROVE  TreeInv'
<1>1. TeamsSound' /\ OpenStay /\ NewAreFree
  BY Parts, StepMode, SameShape
<1>2. /\ Tt!Counted /\ UNCHANGED Tt!sessions /\ ttTask' = ttTask /\ ttSlip' = ttSlip
      /\ UNCHANGED <<ttLive, ttJoin, ttEvent, ttFaults>>
  BY DEF Tt!SetMode
<1>3. ttWake' \in [Wakes -> WakeType]
  <2>1. \A r \in Wakes : ttWake[r] \in WakeType /\ [ttWake[r] EXCEPT !.st = "gone"] \in WakeType
    BY Parts DEF RestTyped, WakeType
  <2> QED BY <2>1 DEF Tt!SetMode
<1>4. TasksInv' /\ TaskTyped' /\ TurnTyped' /\ PointersTyped'
  BY <1>1, <1>2, Parts, QuietStep, SameSessions
<1>5. RestTyped'
  BY <1>2, <1>3, Parts, CountedTyped DEF RestTyped
<1> QED BY <1>1, <1>4, <1>5, Whole

LEMMA ActPrompt ==
    ASSUME TreeBounds, TreeInv, NEW c \in Channels, NEW actor \in Actors, Tt!Prompt(c, actor)
    PROVE  TreeInv'
<1> DEFINE run == IF actor = "none" \/ Tt!Own(c) \cup Tt!Parents(c) = {} THEN Tt!NoTurn
                   ELSE [Tt!Turn(actor, 0, None) EXCEPT !.left = IF actor = "owner" THEN 1 ELSE 0]
<1>1. /\ ttTurn' = [ttTurn EXCEPT ![c] = run] /\ Tt!Counted /\ ttBusy' = ttBusy \cup {c}
      /\ UNCHANGED <<ttTeam, ttTask, ttStand, ttExcl, ttAcks, ttLive, ttJoin, ttAuto, ttWake,
                     ttEvent, ttSlip, ttFaults>>
  BY DEF Tt!Prompt
<1>2. run \in TurnType /\ run.actor # "delegated"
  <2>1. CASE actor = "none" \/ Tt!Own(c) \cup Tt!Parents(c) = {}
    BY <2>1, NoTurnTyped
  <2>2. CASE ~(actor = "none" \/ Tt!Own(c) \cup Tt!Parents(c) = {})
    BY <2>2 DEF TreeBounds, Tt!Turn, TurnType
  <2> QED BY <2>1, <2>2
<1> HIDE DEF run
<1>3. TurnTyped' /\ NoGain
  BY <1>1, <1>2, Parts DEF TurnTyped, NoGain
<1>4. PointersTyped' /\ RestTyped'
  BY <1>1, Parts, CountedTyped DEF PointersTyped, RestTyped
<1> QED BY <1>1, <1>3, <1>4, ActNoTeams

LEMMA ActTurn ==
    ASSUME TreeBounds, TreeInv, NEW c \in Channels,
           Tt!TurnEnds(c) \/ \E t \in Teams : Tt!Continue(c, t) \/ Tt!Renew(c, t)
    PROVE  TreeInv'
<1>1. PICK run : ttTurn' = [ttTurn EXCEPT ![c] = run] /\ run \in TurnType /\ run.actor # "delegated"
  <2>1. CASE Tt!TurnEnds(c)
    BY <2>1, NoTurnTyped DEF Tt!TurnEnds
  <2>2. ASSUME NEW t \in Teams, Tt!Continue(c, t) \/ Tt!Renew(c, t)
        PROVE  \E run : ttTurn' = [ttTurn EXCEPT ![c] = run] /\ run \in TurnType /\ run.actor # "delegated"
    <3>1. /\ Tt!Turn("continuation", t, None) \in TurnType
          /\ Tt!Turn("continuation", t, None).actor = "continuation"
      BY DEF Tt!Turn, TurnType
    <3>2. ttTurn' = [ttTurn EXCEPT ![c] = Tt!Turn("continuation", t, None)]
      BY <2>2 DEF Tt!Continue, Tt!Renew
    <3> QED BY <3>1, <3>2
  <2> QED BY <2>1, <2>2
<1>2. /\ ttBusy' \subseteq ttBusy \cup {c} /\ ttEvent' \subseteq ttEvent
      /\ UNCHANGED <<ttTeam, ttTask, ttStand, ttExcl, ttAcks, ttLive, ttJoin, ttAuto, ttWake,
                     ttSlip, ttFaults, ttOps>>
  BY DEF Tt!TurnEnds, Tt!Continue, Tt!Renew
<1>3. TurnTyped' /\ NoGain
  BY <1>1, Parts DEF TurnTyped, NoGain
<1>4. PointersTyped' /\ RestTyped'
  BY <1>2, Parts DEF PointersTyped, RestTyped
<1> QED BY <1>2, <1>3, <1>4, ActNoTeams

\* Scheduled wakes.
LEMMA ActWake ==
    ASSUME TreeBounds, TreeInv,
           \/ \E t \in Teams, r \in Wakes : Tt!Schedule(t, r)
           \/ \E r \in Wakes : Tt!Unschedule(r)
           \/ \E t \in Teams, due, again \in SUBSET Wakes : Tt!Fire(t, due, again)
    PROVE  TreeInv'
<1>1. \A r \in Wakes : ttWake[r] \in WakeType /\ [ttWake[r] EXCEPT !.st = "gone"] \in WakeType
  BY Parts DEF RestTyped, WakeType
<1>2. /\ UNCHANGED Tt!sessions
      /\ UNCHANGED <<ttTeam, ttTask, ttLive, ttJoin, ttAuto, ttSlip, ttFaults, ttOps>>
      /\ ttWake' \in [Wakes -> WakeType] /\ ttEvent' \subseteq Wakes
  <2>1. ASSUME NEW t \in Teams, NEW r \in Wakes, Tt!Schedule(t, r)
        PROVE  /\ UNCHANGED Tt!sessions
               /\ UNCHANGED <<ttTeam, ttTask, ttLive, ttJoin, ttAuto, ttSlip, ttFaults, ttOps>>
               /\ ttWake' \in [Wakes -> WakeType] /\ ttEvent' \subseteq Wakes
    <3> DEFINE c == ttTeam[t].coord
               source == IF ttTurn[c].actor = "delegated" THEN ttTurn[c].source ELSE None
    <3>1. /\ UNCHANGED Tt!sessions
          /\ UNCHANGED <<ttTeam, ttTask, ttLive, ttJoin, ttAuto, ttEvent, ttSlip, ttFaults, ttOps>>
          /\ c \in ttBusy /\ Tt!NewWake(t, r, source)
      BY <2>1 DEF Tt!Schedule
    <3>2. c \in Channels
      BY <3>1, Parts DEF PointersTyped
    <3>3. source \in Work \cup {None}
      BY <3>2, Parts DEF TurnTyped, TurnType
    <3> HIDE DEF source
    <3>4. [st |-> "set", team |-> t, source |-> source] \in WakeType
      BY <3>3 DEF WakeType
    <3>5. ttWake' \in [Wakes -> WakeType]
      BY <1>1, <3>1, <3>4, Parts DEF Tt!NewWake, RestTyped
    <3> QED BY <3>1, <3>5, Parts DEF RestTyped
  <2>2. ASSUME NEW r \in Wakes, Tt!Unschedule(r)
        PROVE  /\ UNCHANGED Tt!sessions
               /\ UNCHANGED <<ttTeam, ttTask, ttLive, ttJoin, ttAuto, ttSlip, ttFaults, ttOps>>
               /\ ttWake' \in [Wakes -> WakeType] /\ ttEvent' \subseteq Wakes
    <3>1. ttWake' = [ttWake EXCEPT ![r] = [ttWake[r] EXCEPT !.st = "gone"]]
      BY <2>2, Parts DEF Tt!Unschedule, RestTyped
    <3>2. ttWake' \in [Wakes -> WakeType]
      BY <1>1, <3>1, Parts DEF RestTyped
    <3> QED BY <2>2, <3>2, Parts DEF Tt!Unschedule, RestTyped
  <2>3. ASSUME NEW t \in Teams, NEW due \in SUBSET Wakes, NEW again \in SUBSET Wakes,
               Tt!Fire(t, due, again)
        PROVE  /\ UNCHANGED Tt!sessions
               /\ UNCHANGED <<ttTeam, ttTask, ttLive, ttJoin, ttAuto, ttSlip, ttFaults, ttOps>>
               /\ ttWake' \in [Wakes -> WakeType] /\ ttEvent' \subseteq Wakes
    <3>1. PICK gone : Tt!Taking(gone)
      BY <2>3 DEF Tt!Fire
    <3>2. ttWake' \in [Wakes -> WakeType]
      BY <1>1, <3>1 DEF Tt!Taking
    <3>3. ttEvent' \subseteq Wakes
      BY <2>3, Parts DEF Tt!Fire, RestTyped
    <3> QED BY <2>3, <3>2, <3>3 DEF Tt!Fire
  <2> QED BY <2>1, <2>2, <2>3
<1>3. TurnTyped' /\ PointersTyped' /\ NoGain /\ ttStand' = ttStand
  BY <1>2, Parts, SameSessions
<1>4. RestTyped'
  BY <1>2, Parts DEF RestTyped
<1> QED BY <1>2, <1>3, <1>4, ActNoTeams

-----------------------------------------------------------------------------
(* The steps that end tasks.                                               *)

\* Teams of which some end and others lose workers, with the tasks of both.
LEMMA ShrinkKeeps ==
    ASSUME Served, NEW K,
           \A s \in Teams : NowOpen(s) => IsOpen(s) /\ ttTeam'[s].coord = ttTeam[s].coord,
           \A k \in Work : Tt!Active(k) /\ k \notin K =>
               LET t == ttTask[k].team IN
               IsOpen(t) => NowOpen(t) /\ (ttTask[k].to \in ttTeam[t].workers
                                           => ttTask[k].to \in ttTeam'[t].workers)
    PROVE  KeepsTeams(K)
  BY DEF Served, KeepsTeams

LEMMA InBetween ==
    ASSUME NEW T, NEW M
    PROVE  \A k : k \in Tt!Between(T, M) <=>
               k \in Work /\ ttTask[k].team \in T /\ Tt!Active(k) /\ ttTask[k].to \in M
  BY DEF Tt!Between

LEMMA ActRolledBack ==
    ASSUME TreeBounds, TreeInv, NEW t \in Teams, NEW c \in Channels, Tt!JoinRolledBack(t, c)
    PROVE  TreeInv'
<1> DEFINE named == {w \in ttTeam[t].workers : Alias[w] = Alias[c] /\ t \in Tt!Open}
           lost == Tt!Between({t}, named)
<1>1. /\ ttTeam' = [ttTeam EXCEPT ![t].workers = @ \ named] /\ ttAuto' = ttAuto
      /\ ttTask' = Tt!Cancelled(lost) /\ ttSlip' = ttSlip \cup lost
      /\ UNCHANGED Tt!sessions /\ UNCHANGED <<ttLive, ttWake, ttEvent, ttOps>>
      /\ ttJoin' \subseteq ttJoin /\ ttFaults < MaxFaults /\ ttFaults' = ttFaults + 1
  BY DEF Tt!JoinRolledBack
<1>2. named \in SUBSET Channels
  BY Parts DEF TeamsSound, TeamTyped, TeamType
<1>3. \A k : k \in lost <=> k \in Work /\ ttTask[k].team = t /\ Tt!Active(k) /\ ttTask[k].to \in named
  BY InBetween
<1> HIDE DEF named, lost
<1>4. /\ TeamsSound'
      /\ \A s \in Teams : /\ ttTeam'[s].st = ttTeam[s].st /\ ttTeam'[s].coord = ttTeam[s].coord
                          /\ s # t => ttTeam'[s].workers = ttTeam[s].workers
      /\ ttTeam'[t].workers = ttTeam[t].workers \ named
  BY <1>1, <1>2, Parts, StepLeaves
<1>5. Ends(lost)
  BY <1>1 DEF Ends
<1>6. KeepsTeams(lost)
  <2>1. \A s \in Teams : NowOpen(s) <=> IsOpen(s)
    BY <1>4 DEF NowOpen, IsOpen
  <2>2. \A k \in Work : Tt!Active(k) => ttTask[k].team \in Teams
    BY Parts DEF TasksInv, Served
  <2>3. \A k \in Work : Tt!Active(k) /\ k \notin lost =>
          (ttTask[k].to \in ttTeam[ttTask[k].team].workers
           => ttTask[k].to \in ttTeam'[ttTask[k].team].workers)
    BY <1>3, <1>4, <2>2
  <2> QED BY <1>4, <2>1, <2>2, <2>3, Parts, ShrinkKeeps DEF TasksInv
<1>7. TurnTyped' /\ PointersTyped' /\ ttStand' = ttStand /\ ttTurn' = ttTurn
  BY <1>1, Parts, SameSessions
<1>8. KeepsPointers(lost)
  BY <1>1, <1>7 DEF KeepsPointers
<1>9. KeepsTurns(lost)
  BY <1>1, <1>4, <1>7, Parts DEF KeepsTurns, KeepsTurn, TasksInv, Delegated, NowOpen, IsOpen
<1>10. TasksInv' /\ TaskTyped'
  BY <1>5, <1>6, <1>8, <1>9, Parts, EndingStep
<1>11. RestTyped'
  <2>1. lost \subseteq Work /\ ttFaults' \in 0 .. MaxFaults
    BY <1>1, <1>3, Parts DEF RestTyped, TreeBounds
  <2> QED BY <1>1, <2>1, Parts DEF RestTyped
<1> QED BY <1>4, <1>7, <1>10, <1>11, Whole

\* What Revoke leaves of the turns, when it covers the tasks that end and the sessions
\* whose team does.
LEMMA RevokeKeeps ==
    ASSUME TreeBounds, TreeInv, NEW K, NEW M, Tt!Revoke(K, M, ttTeam'), ttSlip' = ttSlip,
           \A s \in Teams : IsOpen(s) /\ ~NowOpen(s) => ttTeam[s].coord \in M,
           \A s \in Teams : NowOpen(s) => IsOpen(s) /\ ttTeam'[s].coord = ttTeam[s].coord
    PROVE  TurnTyped' /\ PointersTyped' /\ KeepsPointers(K) /\ KeepsTurns(K)
<1>1. /\ TurnTyped' /\ PointersTyped'
      /\ \A c \in Channels :
           /\ ttStand'[c] = (IF ttStand[c] \in K THEN None ELSE ttStand[c])
           /\ ttTurn'[c] \in {ttTurn[c], Tt!NoTurn}
           /\ ttStand[c] \in K /\ ttTurn[c].source = ttStand[c] => ttTurn'[c] = Tt!NoTurn
           /\ c \in M /\ ~(\E t \in Tt!OpenIn(ttTeam') : ttTeam'[t].coord = c)
                   => ttTurn'[c] = Tt!NoTurn
  BY Parts, Revoked
<1>2. KeepsPointers(K)
  BY <1>1 DEF KeepsPointers
<1>3. ASSUME NEW c \in Channels, ttTurn'[c].actor = "delegated", ttTurn'[c].source \notin ttSlip
      PROVE  KeepsTurn(c, K)
  <2>1. ttTurn'[c] = ttTurn[c] /\ ttTurn'[c] # Tt!NoTurn
    BY <1>1, <1>3, NoTurnTyped
  <2> DEFINE t == ttTurn[c].team
             k == ttTurn[c].source
  <2>2. t \in Teams /\ IsOpen(t) /\ ttTeam[t].coord = c /\ ttStand[c] = k
    BY <1>3, <2>1, Parts DEF TasksInv, Delegated
  <2>3. k \notin K
    BY <1>1, <2>1, <2>2
  <2>4. NowOpen(t)
    <3>1. SUFFICES ASSUME ~NowOpen(t) PROVE FALSE
      OBVIOUS
    <3>2. c \in M
      BY <2>2, <3>1
    <3>3. PICK s \in Teams : NowOpen(s) /\ ttTeam'[s].coord = c
      BY <1>1, <2>1, <3>2 DEF Tt!OpenIn, NowOpen
    <3>4. IsOpen(s) /\ ttTeam[s].coord = c /\ s # t
      BY <3>1, <3>3
    <3> QED BY <2>2, <3>4 DEF TreeInv, Sound, Apart, IsOpen, IsOpenIn
  <2>5. ttTeam'[t].coord = c
    BY <2>2, <2>4
  <2> QED BY <1>1, <1>3, <2>1, <2>2, <2>3, <2>4, <2>5 DEF KeepsTurn
<1> QED BY <1>1, <1>2, <1>3 DEF KeepsTurns

LEMMA ActRemove ==
    ASSUME TreeBounds, TreeInv, NEW t \in Teams, NEW c \in Channels, Tt!RemoveWorker(t, c)
    PROVE  TreeInv'
<1> DEFINE lost == Tt!Between({t}, {c})
<1>1. /\ ttTeam' = [ttTeam EXCEPT ![t].workers = @ \ {c}] /\ ttAuto' = ttAuto
      /\ ttTask' = Tt!Cancelled(lost) /\ Tt!Revoke(lost, {c}, ttTeam') /\ Tt!Counted
      /\ UNCHANGED <<ttLive, ttJoin, ttWake, ttEvent, ttSlip, ttFaults>>
  BY DEF Tt!RemoveWorker, Tt!Removed
<1>2. \A k : k \in lost <=> k \in Work /\ ttTask[k].team = t /\ Tt!Active(k) /\ ttTask[k].to \in {c}
  BY InBetween
<1> HIDE DEF lost
<1>3. /\ TeamsSound'
      /\ \A s \in Teams : /\ ttTeam'[s].st = ttTeam[s].st /\ ttTeam'[s].coord = ttTeam[s].coord
                          /\ s # t => ttTeam'[s].workers = ttTeam[s].workers
      /\ ttTeam'[t].workers = ttTeam[t].workers \ {c}
  <2> DEFINE gone == {c}
  <2>1. gone \in SUBSET Channels /\ ttTeam' = [ttTeam EXCEPT ![t].workers = @ \ gone]
    BY <1>1
  <2> HIDE DEF gone
  <2>2. /\ TeamsSound'
        /\ \A s \in Teams : /\ ttTeam'[s].st = ttTeam[s].st /\ ttTeam'[s].coord = ttTeam[s].coord
                            /\ s # t => ttTeam'[s].workers = ttTeam[s].workers
        /\ ttTeam'[t].workers = ttTeam[t].workers \ gone
    BY <1>1, <2>1, Parts, StepLeaves
  <2> QED BY <2>2 DEF gone
<1>4. Ends(lost)
  BY <1>1 DEF Ends
<1>5. \A s \in Teams : NowOpen(s) <=> IsOpen(s)
  BY <1>3 DEF NowOpen, IsOpen
<1>6. KeepsTeams(lost)
  <2>1. \A k \in Work : Tt!Active(k) => ttTask[k].team \in Teams
    BY Parts DEF TasksInv, Served
  <2>2. \A k \in Work : Tt!Active(k) /\ k \notin lost =>
          (ttTask[k].to \in ttTeam[ttTask[k].team].workers
           => ttTask[k].to \in ttTeam'[ttTask[k].team].workers)
    BY <1>2, <1>3, <2>1
  <2> QED BY <1>3, <1>5, <2>1, <2>2, Parts, ShrinkKeeps DEF TasksInv
<1>7. TurnTyped' /\ PointersTyped' /\ KeepsPointers(lost) /\ KeepsTurns(lost)
  BY <1>1, <1>3, <1>5, RevokeKeeps
<1>8. TasksInv' /\ TaskTyped'
  BY <1>4, <1>6, <1>7, Parts, EndingStep
<1>9. RestTyped'
  BY <1>1, Parts, CountedTyped DEF RestTyped
<1> QED BY <1>3, <1>7, <1>8, <1>9, Whole

LEMMA ActClose ==
    ASSUME TreeBounds, TreeInv, NEW t \in Teams, NEW archived \in BOOLEAN, Tt!Close(t, archived)
    PROVE  TreeInv'
<1> DEFINE c == ttTeam[t].coord
           up == IF archived THEN Tt!Parents(c) ELSE {}
           lost == Tt!Between({t}, Channels) \cup Tt!Between(up, {c})
<1>1. /\ ttTask' = Tt!Cancelled(lost) /\ Tt!Revoke(lost, ttTeam[t].workers \cup {c}, ttTeam')
      /\ Tt!Counted /\ UNCHANGED <<ttLive, ttJoin, ttWake, ttEvent, ttSlip, ttFaults>>
  BY DEF Tt!Close
<1>2. \A k \in Work : Tt!Active(k) /\ k \notin lost =>
        /\ ~(ttTask[k].team = t /\ ttTask[k].to \in Channels)
        /\ ~(archived /\ ttTask[k].team \in Tt!Parents(c) /\ ttTask[k].to = c)
  BY InBetween
<1> HIDE DEF lost, up
<1>3. /\ TeamsSound' /\ IsOpen(t) /\ ~IsOpen(t)'
      /\ \A s \in Teams \ {t} :
           /\ ttTeam'[s].st = ttTeam[s].st /\ ttTeam'[s].coord = ttTeam[s].coord
           /\ ttTeam'[s].workers = ttTeam[s].workers \/
              /\ s \in Tt!Parents(c) /\ archived
              /\ ttTeam'[s].workers = ttTeam[s].workers \ {c}
  BY Parts, StepClose
<1>4. Ends(lost)
  BY <1>1 DEF Ends
<1>5. ~NowOpen(t) /\ \A s \in Teams \ {t} : NowOpen(s) <=> IsOpen(s)
  BY <1>3 DEF NowOpen, IsOpen
<1> HIDE DEF c
<1>6. KeepsTeams(lost)
  <2>1. ASSUME NEW k \in Work, Tt!Active(k), k \notin lost, IsOpen(ttTask[k].team)
        PROVE  /\ NowOpen(ttTask[k].team)
               /\ ttTask[k].to \in ttTeam[ttTask[k].team].workers
                    => ttTask[k].to \in ttTeam'[ttTask[k].team].workers
    <3>1. ttTask[k].team \in Teams /\ ttTask[k].to \in Channels
      <4>1. ttTask[k].team \in Teams /\ ttTask[k].to \in ttTeam[ttTask[k].team].workers
        BY <2>1, Parts DEF TasksInv, Served
      <4> QED BY <4>1, Parts DEF TeamsSound, TeamTyped, TeamType
    <3>2. ttTask[k].team # t
      BY <1>2, <2>1, <3>1
    <3> QED BY <1>2, <1>3, <1>5, <2>1, <3>1, <3>2
  <2>2. \A s \in Teams : NowOpen(s) => IsOpen(s) /\ ttTeam'[s].coord = ttTeam[s].coord
    BY <1>3, <1>5
  <2> QED BY <2>1, <2>2, Parts, ShrinkKeeps DEF TasksInv
<1>7. TurnTyped' /\ PointersTyped' /\ KeepsPointers(lost) /\ KeepsTurns(lost)
  <2>1. \A s \in Teams : IsOpen(s) /\ ~NowOpen(s) => ttTeam[s].coord \in ttTeam[t].workers \cup {c}
    BY <1>5 DEF c
  <2>2. \A s \in Teams : NowOpen(s) => IsOpen(s) /\ ttTeam'[s].coord = ttTeam[s].coord
    BY <1>3, <1>5
  <2> QED BY <1>1, <2>1, <2>2, RevokeKeeps
<1>8. TasksInv' /\ TaskTyped'
  BY <1>4, <1>6, <1>7, Parts, EndingStep
<1>9. RestTyped'
  BY <1>1, Parts, CountedTyped DEF RestTyped
<1> QED BY <1>3, <1>7, <1>8, <1>9, Whole

\* The team is left alone, and its automations.
LEMMA SameTeams ==
    ASSUME TeamsSound, ttTeam' = ttTeam, ttAuto' = ttAuto
    PROVE  /\ TeamsSound' /\ \A s \in Teams : NowOpen(s) <=> IsOpen(s)
           /\ OpenStay /\ NewAreFree
  BY DEF TeamsSound, TeamTyped, AutoTyped, NowOpen, IsOpen, OpenStay, NewAreFree

LEMMA ActEnd ==
    ASSUME TreeBounds, TreeInv, NEW k \in Work, Tt!End(k)
    PROVE  TreeInv'
<1>1. /\ ttTask' = Tt!Cancelled({k}) /\ Tt!Revoke({k}, {}, ttTeam') /\ ttTeam' = ttTeam /\ ttAuto' = ttAuto
      /\ UNCHANGED <<ttLive, ttJoin, ttWake, ttEvent, ttSlip, ttFaults, ttOps>>
  BY DEF Tt!End
<1>2. TeamsSound' /\ \A s \in Teams : NowOpen(s) <=> IsOpen(s)
  BY <1>1, Parts, SameTeams
<1>3. Ends({k}) /\ KeepsTeams({k})
  <2>1. OpenStay /\ NewAreFree
    BY <1>1, Parts, SameTeams
  <2> QED BY <1>1, <2>1, Parts, StayKeeps DEF Ends, TasksInv
<1>4. TurnTyped' /\ PointersTyped' /\ KeepsPointers({k}) /\ KeepsTurns({k})
  BY <1>1, <1>2, RevokeKeeps
<1>5. TasksInv' /\ TaskTyped'
  BY <1>3, <1>4, Parts, EndingStep
<1>6. RestTyped'
  BY <1>1, Parts DEF RestTyped
<1> QED BY <1>2, <1>4, <1>5, <1>6, Whole

LEMMA ActUndelivered ==
    ASSUME TreeBounds, TreeInv, NEW k \in Work, Tt!Undelivered(k)
    PROVE  TreeInv'
<1> DEFINE c == ttTask[k].to
<1>1. /\ ttTask' = Tt!Cancelled({k}) /\ ttTeam' = ttTeam /\ ttAuto' = ttAuto /\ ttTask[k].st = "bound"
      /\ ttFaults < MaxFaults /\ ttFaults' = ttFaults + 1
      /\ ttAcks' = ttAcks \ {k} /\ ttBusy' = ttBusy \ {c}
      /\ \/ ~ttTask[k].standing /\ ttExcl' = [ttExcl EXCEPT ![c] = None] /\ ttStand' = ttStand
         \/ ttTask[k].standing /\ ttStand' = [ttStand EXCEPT ![c] = None] /\ ttExcl' = ttExcl
      /\ ttTurn' = [ttTurn EXCEPT ![c] = IF @.source = k THEN Tt!NoTurn ELSE @]
      /\ UNCHANGED <<ttLive, ttJoin, ttWake, ttEvent, ttSlip, ttOps>>
  BY DEF Tt!Undelivered
<1>2. c \in Channels
  <2>1. ttTask[k].team \in Teams /\ ttTask[k].to \in ttTeam[ttTask[k].team].workers
    BY <1>1, ActiveIs, Parts DEF TasksInv, Served
  <2> QED BY <2>1, Parts DEF TeamsSound, TeamTyped, TeamType
<1>3. TeamsSound' /\ (\A s \in Teams : NowOpen(s) <=> IsOpen(s)) /\ OpenStay /\ NewAreFree
  BY <1>1, Parts, SameTeams
<1>4. Ends({k}) /\ KeepsTeams({k})
  BY <1>1, <1>3, Parts, StayKeeps DEF Ends, TasksInv
<1>5. TurnTyped' /\ PointersTyped'
  BY <1>1, <1>2, Parts, NoTurnTyped DEF TurnTyped, PointersTyped
<1>6. ASSUME NEW d \in Channels, ttStand[d] = k
      PROVE  d = c /\ ttStand'[d] = None
  <2>1. ttTask[k].to = d /\ ttTask[k].standing
    BY <1>6, Parts DEF TasksInv, PointersTrue, TreeBounds
  <2> QED BY <1>1, <2>1, Parts DEF PointersTyped
<1>7. \A d \in Channels : ttStand'[d] \in {ttStand[d], None}
  BY <1>1, <1>2, Parts DEF PointersTyped
<1>8. KeepsPointers({k})
  BY <1>6, <1>7 DEF KeepsPointers
<1>9. ASSUME NEW d \in Channels, ttTurn'[d].actor = "delegated", ttTurn'[d].source \notin ttSlip
      PROVE  KeepsTurn(d, {k})
  <2>1. ttTurn'[d] = ttTurn[d] /\ ~(d = c /\ ttTurn[d].source = k)
    BY <1>1, <1>2, <1>9, NoTurnTyped, Parts DEF TurnTyped
  <2> DEFINE j == ttTurn[d].source
  <2>2. /\ j \in Work /\ ttTurn[d].team \in Teams /\ ttTask[j].to = d /\ ttStand[d] = j
        /\ ttTask[j].standing
    BY <1>9, <2>1, Parts DEF TasksInv, Delegated
  <2>3. ttTask[j].st = "bound"
    BY <1>9, <2>1, <2>2, Parts DEF TasksInv, PointersTrue, TreeBounds
  <2>4. d # c
    BY <1>1, <2>1, <2>2, <2>3, Parts DEF TasksInv, BoundOnce
  <2>5. ttStand'[d] = ttStand[d] /\ j # k
    BY <1>1, <1>2, <2>2, <2>4, Parts DEF PointersTyped
  <2> QED BY <1>1, <1>3, <1>9, <2>1, <2>2, <2>5 DEF KeepsTurn
<1>10. KeepsTurns({k})
  BY <1>1, <1>9 DEF KeepsTurns
<1>11. TasksInv' /\ TaskTyped'
  BY <1>4, <1>5, <1>8, <1>10, Parts, EndingStep
<1>12. RestTyped'
  BY <1>1, Parts DEF RestTyped, TreeBounds
<1> QED BY <1>3, <1>5, <1>11, <1>12, Whole

LEMMA ActRepair ==
    ASSUME TreeBounds, TreeInv, Tt!Repair
    PROVE  TreeInv'
<1>1. /\ \A c \in Channels :
           /\ ttStand'[c] = (IF ttStand[c] # None /\ ttTask[ttStand[c]].st = "bound" THEN ttStand[c] ELSE None)
           /\ ttExcl'[c] = (IF ttExcl[c] # None /\ ttTask[ttExcl[c]].st = "bound" THEN ttExcl[c] ELSE None)
      /\ ttStand' = [c \in Channels |-> ttStand'[c]] /\ ttExcl' = [c \in Channels |-> ttExcl'[c]]
      /\ UNCHANGED <<ttTeam, ttTask, ttTurn, ttBusy, ttAcks, ttLive, ttJoin, ttAuto, ttWake,
                     ttEvent, ttSlip, ttFaults, ttOps>>
  BY DEF Tt!Repair
<1>2. TurnTyped' /\ PointersTyped'
  BY <1>1, Parts DEF TurnTyped, PointersTyped
<1>3. TeamsSound' /\ OpenStay /\ NewAreFree /\ \A s \in Teams : NowOpen(s) <=> IsOpen(s)
  BY <1>1, Parts, SameTeams
<1>4. Ends({}) /\ KeepsTeams({})
  BY <1>1, <1>3, Parts, SameTasks, StayKeeps DEF TasksInv
<1>5. KeepsPointers({})
  BY <1>1 DEF KeepsPointers
<1>6. ASSUME NEW c \in Channels, ttTurn[c].actor = "delegated", ttTurn[c].source \notin ttSlip
      PROVE  KeepsTurn(c, {})
  <2>1. /\ ttTurn[c].source \in Work /\ ttStand[c] = ttTurn[c].source /\ ttTurn[c].team \in Teams
    BY <1>6, Parts DEF TasksInv, Delegated
  <2>2. ttTask[ttStand[c]].st = "bound" /\ ttStand[c] # None
    BY <1>6, <2>1, Parts DEF TasksInv, PointersTrue, TreeBounds
  <2>3. ttStand'[c] = ttStand[c]
    BY <1>1, <2>2
  <2> QED BY <1>1, <1>3, <1>6, <2>1, <2>3 DEF KeepsTurn
<1>7. KeepsTurns({})
  BY <1>1, <1>6 DEF KeepsTurns
<1>8. TasksInv' /\ TaskTyped'
  BY <1>4, <1>5, <1>7, Parts, EndingStep
<1>9. RestTyped'
  BY <1>1, Parts DEF RestTyped
<1> QED BY <1>2, <1>3, <1>8, <1>9, Whole

LEMMA ActStop ==
    ASSUME TreeBounds, TreeInv, NEW k \in Keys, Tt!Stop(k)
    PROVE  TreeInv'
<1> DEFINE own == Tt!Own(k)
           up == Tt!Parents(k)
           lost == Tt!Between(own, Channels) \cup Tt!Between(up, {k})
           members == UNION {ttTeam[t].workers \cup {k} : t \in own}
<1>1. /\ ttTask' = Tt!Cancelled(lost)
      /\ ttStand' = [c \in Channels |-> IF c = k \/ ttStand[c] \in lost THEN None ELSE ttStand[c]]
      /\ ttExcl' = [c \in Channels |-> IF c = k \/ ttExcl[c] \in lost THEN None ELSE ttExcl[c]]
      /\ ttTurn' = [c \in Channels |->
             IF \/ c = k
                \/ ttStand[c] \in lost /\ ttTurn[c].source = ttStand[c]
                \/ ttExcl[c] \in lost
                \/ c \in members /\ Tt!Own(c) \ own = {}
             THEN Tt!NoTurn ELSE ttTurn[c]]
      /\ ttBusy' = ttBusy \ {k} /\ ttLive' = ttLive \ {k}
      /\ UNCHANGED <<ttAcks, ttJoin, ttWake, ttEvent, ttSlip, ttFaults, ttOps>>
  BY DEF Tt!Stop
<1>2. \A j \in Work : Tt!Active(j) /\ j \notin lost =>
        /\ ~(ttTask[j].team \in own /\ ttTask[j].to \in Channels)
        /\ ~(ttTask[j].team \in up /\ ttTask[j].to = k)
  BY InBetween
<1> HIDE DEF lost, members
<1>3. /\ TeamsSound'
      /\ \A s \in Teams :
           /\ ttTeam'[s].coord = ttTeam[s].coord
           /\ ttTeam'[s].st = IF s \in own THEN "closed" ELSE ttTeam[s].st
           /\ s \notin own => ttTeam'[s].workers =
                IF s \in up THEN ttTeam[s].workers \ {k} ELSE ttTeam[s].workers
  BY Parts, StepStop
<1>4. \A t : t \in own <=> t \in Teams /\ IsOpen(t) /\ ttTeam[t].coord = k
  BY OwnTeam
<1> HIDE DEF own, up
<1>5. Ends(lost)
  BY <1>1 DEF Ends
<1>6. \A s \in Teams : NowOpen(s) <=> IsOpen(s) /\ s \notin own
  BY <1>3 DEF NowOpen, IsOpen
<1>7. KeepsTeams(lost)
  <2>1. ASSUME NEW j \in Work, Tt!Active(j), j \notin lost, IsOpen(ttTask[j].team)
        PROVE  /\ NowOpen(ttTask[j].team)
               /\ ttTask[j].to \in ttTeam[ttTask[j].team].workers => ttTask[j].to \in ttTeam'[ttTask[j].team].workers
    <3>1. ttTask[j].team \in Teams /\ ttTask[j].to \in Channels
      <4>1. ttTask[j].team \in Teams /\ ttTask[j].to \in ttTeam[ttTask[j].team].workers
        BY <2>1, Parts DEF TasksInv, Served
      <4> QED BY <4>1, Parts DEF TeamsSound, TeamTyped, TeamType
    <3>2. ttTask[j].team \notin own
      BY <1>2, <2>1, <3>1
    <3> QED BY <1>2, <1>3, <1>6, <2>1, <3>1, <3>2
  <2> QED BY <1>3, <1>6, <2>1, Parts, ShrinkKeeps DEF TasksInv
<1>8. TurnTyped'
  <2>1. \A c \in Channels : ttTurn'[c] \in {ttTurn[c], Tt!NoTurn}
    BY <1>1
  <2>2. ttTurn' = [c \in Channels |-> ttTurn'[c]]
    BY <1>1
  <2> QED BY <2>1, <2>2, Parts, NoTurnTyped DEF TurnTyped
<1>9. PointersTyped'
  BY <1>1, Parts DEF PointersTyped
<1>10. KeepsPointers(lost)
  BY <1>1 DEF KeepsPointers
<1>11. ASSUME NEW c \in Channels, ttTurn'[c].actor = "delegated", ttTurn'[c].source \notin ttSlip
       PROVE  KeepsTurn(c, lost)
  <2>1. /\ ttTurn'[c] = ttTurn[c] /\ c # k
        /\ ~(ttStand[c] \in lost /\ ttTurn[c].source = ttStand[c])
    BY <1>1, <1>11, NoTurnTyped
  <2>2. /\ ttTurn[c].team \in Teams /\ IsOpen(ttTurn[c].team) /\ ttTeam[ttTurn[c].team].coord = c
        /\ ttStand[c] = ttTurn[c].source
    BY <1>11, <2>1, Parts DEF TasksInv, Delegated
  <2>3. ttStand'[c] = ttStand[c]
    BY <1>1, <2>1, <2>2
  <2>4. NowOpen(ttTurn[c].team)
    BY <1>4, <1>6, <2>1, <2>2
  <2> QED BY <1>3, <1>11, <2>1, <2>2, <2>3, <2>4 DEF KeepsTurn
<1>12. KeepsTurns(lost)
  BY <1>1, <1>11 DEF KeepsTurns
<1>13. TasksInv' /\ TaskTyped'
  BY <1>5, <1>7, <1>10, <1>12, Parts, EndingStep
<1>14. RestTyped'
  BY <1>1, Parts DEF RestTyped
<1> QED BY <1>3, <1>8, <1>9, <1>13, <1>14, Whole

LEMMA ActFails ==
    ASSUME TreeBounds, TreeInv, NEW k \in Keys, NEW definitive \in BOOLEAN, Tt!CreationFails(k, definitive)
    PROVE  TreeInv'
<1>1. TeamsSound' /\ OpenStay /\ NewAreFree
  BY Parts, StepFails, SameShape
<1>2. /\ UNCHANGED Tt!sessions /\ ttTask' = ttTask /\ ttSlip' = ttSlip
      /\ UNCHANGED <<ttLive, ttJoin, ttWake, ttEvent, ttFaults, ttOps>>
  BY DEF Tt!CreationFails
<1>3. TasksInv' /\ TaskTyped' /\ TurnTyped' /\ PointersTyped'
  BY <1>1, <1>2, Parts, QuietStep, SameSessions
<1>4. RestTyped'
  BY <1>2, Parts DEF RestTyped
<1> QED BY <1>1, <1>3, <1>4, Whole

LEMMA ActRestart ==
    ASSUME TreeBounds, TreeInv, Tt!Restart
    PROVE  TreeInv'
<1>1. TeamsSound' /\ OpenStay /\ NewAreFree
  BY Parts, StepRestart, SameShape
<1>2. /\ UNCHANGED Tt!sessions /\ ttTask' = ttTask /\ ttSlip' = ttSlip /\ ttJoin' = {}
      /\ ttFaults < MaxFaults /\ ttFaults' = ttFaults + 1
      /\ UNCHANGED <<ttLive, ttWake, ttEvent, ttOps>>
  BY DEF Tt!Restart
<1>3. TasksInv' /\ TaskTyped' /\ TurnTyped' /\ PointersTyped'
  BY <1>1, <1>2, Parts, QuietStep, SameSessions
<1>4. RestTyped'
  BY <1>2, Parts DEF RestTyped, TreeBounds
<1> QED BY <1>1, <1>3, <1>4, Whole

\* A request that a turn paid for.
LEMMA SpentTyped ==
    ASSUME TreeInv, NEW c \in Channels, ttTurn[c].left > 0, ttTurn' = Tt!Spent(c)
    PROVE  TurnTyped' /\ NoGain
<1>1. /\ ttTurn[c] \in TurnType
      /\ ttTurn' = [ttTurn EXCEPT ![c] = [ttTurn[c] EXCEPT !.left = ttTurn[c].left - 1]]
  BY Parts DEF TurnTyped, Tt!Spent
<1> DEFINE run == [ttTurn[c] EXCEPT !.left = ttTurn[c].left - 1]
<1>2. /\ run \in TurnType /\ run.actor = ttTurn[c].actor /\ run.source = ttTurn[c].source
      /\ run.team = ttTurn[c].team
  <2>1. ttTurn[c].left - 1 \in 0 .. 1
    BY <1>1 DEF TurnType
  <2> QED BY <1>1, <2>1 DEF TurnType
<1> HIDE DEF run
<1>3. ttTurn' = [ttTurn EXCEPT ![c] = run]
  BY <1>1 DEF run
<1> QED BY <1>2, <1>3, Parts DEF TurnTyped, NoGain

LEMMA ActReserve ==
    ASSUME TreeBounds, TreeInv, NEW k \in Keys, NEW t \in Teams, NEW sub \in Names \cup {None},
           NEW saved \in BOOLEAN, Tt!Reserve(k, t, sub, saved)
    PROVE  TreeInv'
<1> DEFINE v == IF sub = None THEN k ELSE sub
           from == ttTeam[t].coord
<1>1. /\ ttTeam' = [ttTeam EXCEPT ![t].slots[k] = v] /\ from \in ttBusy /\ ttTurn[from].left > 0
      /\ ttTurn' = Tt!Spent(from) /\ (saved \/ ttFaults < MaxFaults)
      /\ ttFaults' = IF saved THEN ttFaults ELSE ttFaults + 1
      /\ UNCHANGED <<ttTask, ttBusy, ttStand, ttExcl, ttAcks, ttLive, ttJoin, ttWake, ttEvent,
                     ttSlip, ttOps>>
  BY DEF Tt!Reserve, Tt!MayDispatch
<1> HIDE DEF v, from
<1>2. TeamsSound'
  BY Parts, StepReserve
<1>3. OpenStay /\ NewAreFree
  <2>1. ttTeam[t] \in TeamType
    BY Parts DEF TeamsSound, TeamTyped
  <2>2. ttTeam' = [ttTeam EXCEPT ![t] = [ttTeam[t] EXCEPT !.slots = [ttTeam[t].slots EXCEPT ![k] = v]]]
    BY <1>1, Parts DEF TeamsSound, TeamTyped
  <2>3. \A s \in Teams : /\ ttTeam'[s].st = ttTeam[s].st /\ ttTeam'[s].coord = ttTeam[s].coord
                         /\ ttTeam[s].workers \subseteq ttTeam'[s].workers
    BY <2>1, <2>2, Parts DEF TeamsSound, TeamTyped, TeamType
  <2> QED BY <2>3, SameShape
<1>4. TurnTyped' /\ NoGain
  <2>1. from \in Channels
    BY <1>1, Parts DEF PointersTyped
  <2> QED BY <1>1, <2>1, SpentTyped
<1>5. TasksInv' /\ TaskTyped'
  BY <1>1, <1>3, <1>4, Parts, QuietStep
<1>6. PointersTyped' /\ RestTyped'
  BY <1>1, Parts DEF PointersTyped, RestTyped, TreeBounds
<1> QED BY <1>2, <1>4, <1>5, <1>6, Whole

-----------------------------------------------------------------------------
(* The steps that start, deliver and continue tasks.                       *)

\* A new task, queued for a worker of an open team; the others are left alone.
NewTask(k, t, c, isStanding) ==
    /\ ttTask[k].st = "none" /\ ttSlip' = ttSlip /\ ttStand' = ttStand
    /\ ttTask' = [ttTask EXCEPT ![k] = [st |-> "queued", team |-> t, to |-> c,
                                        standing |-> isStanding]]
    /\ NowOpen(t) /\ c \in ttTeam'[t].workers
    /\ \A s \in Teams : NowOpen(s) /\ ttTeam'[s].coord = c => isStanding

LEMMA NewTaskStep ==
    ASSUME TreeBounds, TreeInv, NEW k \in Work, NEW t \in Teams, NEW c \in Channels,
           NEW isStanding \in BOOLEAN, NewTask(k, t, c, isStanding), OpenStay, NewAreFree, NoGain
    PROVE  TasksInv' /\ TaskTyped'
<1>1. /\ TaskTyped' /\ \A j \in Work : j # k => ttTask'[j] = ttTask[j]
      /\ ttTask'[k].st = "queued" /\ ttTask'[k].team = t /\ ttTask'[k].to = c
      /\ ttTask'[k].standing = isStanding
  BY Parts DEF NewTask, TaskTyped, TaskType
<1>2. \A j : Tt!Active(j)' <=> ttTask'[j].st \in {"queued", "bound"}
  BY DEF Tt!Active
<1>3. Served'
  <2>1. ASSUME NEW j \in Work, Tt!Active(j)'
        PROVE  /\ ttTask'[j].team \in Teams /\ NowOpen(ttTask'[j].team)
               /\ ttTask'[j].to \in ttTeam'[ttTask'[j].team].workers
               /\ \A s \in Teams : NowOpen(s) /\ ttTeam'[s].coord = ttTask'[j].to => ttTask'[j].standing
    <3>1. CASE j = k
      BY <1>1, <3>1 DEF NewTask
    <3>2. CASE j # k
      <4>1. Tt!Active(j) /\ ttTask'[j] = ttTask[j]
        BY <1>1, <1>2, <2>1, <3>2, ActiveIs
      <4>2. KeepsTeams({})
        BY Parts, StayKeeps DEF TasksInv
      <4> QED BY <4>1, <4>2, Parts DEF KeepsTeams, TasksInv, Served
    <3> QED BY <3>1, <3>2
  <2> QED BY <2>1 DEF Served, NowOpen, IsOpen
<1>4. \A j \in Work : Tt!Active(j) => j # k
  BY ActiveIs DEF NewTask
<1>5. PointersTrue'
  <2>1. \A d \in Channels : ttStand[d] # None =>
          /\ ttTask[ttStand[d]].to = d /\ ttTask[ttStand[d]].standing /\ ttStand[d] \in Work
          /\ ttTask[ttStand[d]].st = "bound" \/ (ttStand[d] \in ttSlip /\ ttTask[ttStand[d]].st = "ended")
    BY Parts DEF TasksInv, PointersTrue, PointersTyped
  <2>2. \A d \in Channels : ttStand[d] # None => ttStand[d] # k
    BY <2>1, Parts DEF NewTask
  <2> QED BY <1>1, <2>1, <2>2 DEF PointersTrue, NewTask
<1>6. BoundOnce'
  BY <1>1, Parts DEF TasksInv, BoundOnce
<1>7. Delegated'
  <2>1. ASSUME NEW d \in Channels, ttTurn'[d].actor = "delegated", ttTurn'[d].source \notin ttSlip
        PROVE  /\ ttTurn'[d].source \in Work /\ ttTurn'[d].team \in Teams /\ NowOpen(ttTurn'[d].team)
               /\ ttTeam'[ttTurn'[d].team].coord = d
               /\ ttTask'[ttTurn'[d].source].standing /\ ttTask'[ttTurn'[d].source].st \in {"queued", "bound"}
               /\ ttTask'[ttTurn'[d].source].to = d /\ ttStand'[d] = ttTurn'[d].source
    <3>1. /\ ttTurn'[d].source \in Work /\ ttTurn'[d].team \in Teams /\ IsOpen(ttTurn'[d].team)
          /\ ttTeam[ttTurn'[d].team].coord = d
          /\ ttTask[ttTurn'[d].source].standing /\ Tt!Active(ttTurn'[d].source)
          /\ ttTask[ttTurn'[d].source].to = d /\ ttStand[d] = ttTurn'[d].source
      <4>1. /\ ttTurn[d].actor = "delegated" /\ ttTurn'[d].source = ttTurn[d].source
            /\ ttTurn'[d].team = ttTurn[d].team
        BY <2>1 DEF NoGain
      <4> QED BY <2>1, <4>1, Parts DEF TasksInv, Delegated
    <3> QED BY <1>1, <1>4, <3>1, ActiveIs DEF OpenStay, NewTask
  <2> QED BY <2>1 DEF Delegated, NewTask, NowOpen, IsOpen, Tt!Active
<1> QED BY <1>1, <1>3, <1>5, <1>6, <1>7 DEF TasksInv

LEMMA ActSend ==
    ASSUME TreeBounds, TreeInv, NEW t \in Teams, NEW k \in Work, NEW c \in Channels,
           NEW asked \in {"any", "standing", "exclusive"}, Tt!Send(t, k, c, asked)
    PROVE  TreeInv'
<1> DEFINE from == ttTeam[t].coord
           isStanding == asked = "standing" \/ Tt!Own(c) # {}
<1>1. /\ from \in ttBusy /\ ttTurn[from].left > 0 /\ ttTurn' = Tt!Spent(from)
      /\ IsOpen(t) /\ c \in ttTeam[t].workers /\ ttTask[k].st = "none"
      /\ ttTask' = [ttTask EXCEPT ![k] = [st |-> "queued", team |-> t, to |-> c,
                                          standing |-> isStanding]]
      /\ UNCHANGED <<ttTeam, ttBusy, ttStand, ttExcl, ttAcks, ttLive, ttJoin, ttAuto, ttWake,
                     ttEvent, ttSlip, ttFaults, ttOps>>
  BY OpenTeams DEF Tt!Send, Tt!MayDispatch, Tt!Assigned
<1>2. isStanding \in BOOLEAN /\ \A s \in Teams : IsOpen(s) /\ ttTeam[s].coord = c => isStanding
  BY OwnTeam
<1> HIDE DEF isStanding, from
<1>3. TeamsSound' /\ OpenStay /\ NewAreFree /\ \A s \in Teams : NowOpen(s) <=> IsOpen(s)
  BY <1>1, Parts, SameTeams
<1>4. TurnTyped' /\ NoGain
  <2>1. from \in Channels
    BY <1>1, Parts DEF PointersTyped
  <2> QED BY <1>1, <2>1, SpentTyped
<1>5. NewTask(k, t, c, isStanding)
  BY <1>1, <1>2, <1>3 DEF NewTask
<1>6. TasksInv' /\ TaskTyped'
  BY <1>2, <1>3, <1>4, <1>5, NewTaskStep
<1>7. PointersTyped' /\ RestTyped'
  BY <1>1, Parts DEF PointersTyped, RestTyped
<1> QED BY <1>3, <1>4, <1>6, <1>7, Whole

LEMMA ActBind ==
    ASSUME TreeBounds, TreeInv, NEW k \in Keys, NEW work \in Work \cup {None}, Tt!Bind(k, work)
    PROVE  TreeInv'
<1> DEFINE t == ttAuto[k].team
           sub == ttAuto[k].sub
           freed == Tt!Freed(k, ttTeam)
           joined == Tt!Committed(k, t)
<1>1. /\ IsOpen(t) /\ t \in Teams /\ Tt!Parents(k) = {} /\ Tt!Own(k) = {}
      /\ sub = None => ttTeam' = joined
      /\ sub # None => \E s \in Teams : /\ Tt!IsNext(s)
                                        /\ ttTeam' = [joined EXCEPT ![s] = Tt!Created(k, sub, ttTeam[t].auto)]
      /\ work # None => ttTask[work].st = "none"
      /\ ttTask' = IF work = None THEN ttTask
                   ELSE [ttTask EXCEPT ![work] = [st |-> "queued", team |-> t, to |-> k,
                                                  standing |-> sub # None]]
      /\ UNCHANGED Tt!sessions /\ ttLive' = ttLive \cup {k}
      /\ UNCHANGED <<ttJoin, ttWake, ttEvent, ttSlip, ttFaults, ttOps>>
  BY OpenTeams DEF Tt!Bind
<1>2. TeamsSound'
  BY Parts, StepBind
<1>3. k \in Channels
  BY DEF TreeBounds
<1>4. /\ \A s \in Teams : /\ joined[s].st = ttTeam[s].st /\ joined[s].coord = ttTeam[s].coord
                          /\ ttTeam[s].workers \subseteq joined[s].workers
      /\ k \in joined[t].workers /\ DOMAIN joined = Teams
  <2>1. /\ freed \in [Teams -> TeamType]
        /\ \A s \in Teams : /\ freed[s].st = ttTeam[s].st /\ freed[s].coord = ttTeam[s].coord
                            /\ freed[s].workers = ttTeam[s].workers
    BY <1>3, FreedIs, Parts DEF TeamsSound, TeamTyped
  <2>2. joined = [freed EXCEPT ![t].workers = @ \cup {k}]
    BY DEF Tt!Committed
  <2> HIDE DEF freed, joined
  <2>3. freed[t] \in TeamType
    BY <1>1, <2>1
  <2>4. joined[t] = [freed[t] EXCEPT !.workers = @ \cup {k}] /\ DOMAIN joined = Teams
        /\ \A s \in Teams : s # t => joined[s] = freed[s]
    BY <1>1, <2>1, <2>2
  <2>5. joined[t].workers = freed[t].workers \cup {k} /\ joined[t].st = freed[t].st /\ joined[t].coord = freed[t].coord
    BY <2>3, <2>4 DEF TeamType
  <2>6. \A s \in Teams : joined[s].st = freed[s].st /\ joined[s].coord = freed[s].coord
    BY <2>4, <2>5
  <2>7. \A s \in Teams : freed[s].workers \subseteq joined[s].workers
    BY <2>4, <2>5
  <2>8. k \in joined[t].workers
    BY <2>5
  <2>9. DOMAIN joined = Teams
    BY <2>4
  <2> QED BY <2>1, <2>6, <2>7, <2>8, <2>9
<1> HIDE DEF freed, joined, t, sub
<1>5. ASSUME NEW s \in Teams, ttTeam[s].st # "none" \/ sub = None
      PROVE  /\ ttTeam'[s].st = ttTeam[s].st /\ ttTeam'[s].coord = ttTeam[s].coord
             /\ ttTeam[s].workers \subseteq ttTeam'[s].workers
             /\ s = t => k \in ttTeam'[s].workers
  <2>1. ttTeam'[s] = joined[s]
    BY <1>1, <1>4, <1>5 DEF Tt!IsNext
  <2> QED BY <1>4, <2>1
<1>6. ASSUME NEW s \in Teams, NowOpen(s), ~IsOpen(s)
      PROVE  ttTeam'[s].coord = k /\ sub # None
  <2>1. sub # None /\ ttTeam[s].st = "none"
    BY <1>5, <1>6 DEF NowOpen, IsOpen
  <2>2. PICK r \in Teams : ttTeam' = [joined EXCEPT ![r] = Tt!Created(k, sub, ttTeam[t].auto)]
    BY <1>1, <2>1
  <2>3. r = s
    BY <1>4, <1>6, <2>1, <2>2 DEF NowOpen
  <2>4. Tt!Created(k, sub, ttTeam[t].auto).coord = k
    BY DEF Tt!Created, Tt!NoTeam
  <2> QED BY <1>4, <2>1, <2>2, <2>3, <2>4
<1>7. OpenStay
  BY <1>5 DEF OpenStay, IsOpen, NowOpen
<1>8. NewAreFree
  <2>1. \A j \in Work : Tt!Active(j) => ttTask[j].to # k
    BY <1>1, OwnTeam, Parts DEF TasksInv, Served
  <2> QED BY <1>6, <2>1 DEF NewAreFree
<1>9. TurnTyped' /\ PointersTyped' /\ NoGain /\ ttStand' = ttStand
  BY <1>1, Parts, SameSessions
<1>10. TasksInv' /\ TaskTyped'
  <2>1. CASE work = None
    BY <1>1, <1>7, <1>8, <1>9, <2>1, Parts, QuietStep
  <2>2. CASE work # None
    <3> DEFINE isStanding == sub # None
    <3>1. work \in Work /\ isStanding \in BOOLEAN
      BY <2>2
    <3>2. \A s \in Teams : NowOpen(s) /\ ttTeam'[s].coord = k => isStanding
      <4>1. ASSUME NEW s \in Teams, NowOpen(s), ttTeam'[s].coord = k, sub = None PROVE FALSE
        <5>1. IsOpen(s) /\ ttTeam[s].coord = k
          BY <1>5, <4>1 DEF NowOpen, IsOpen
        <5> QED BY <1>1, <5>1, OwnTeam
      <4> QED BY <4>1
    <3>3. NowOpen(t) /\ k \in ttTeam'[t].workers
      BY <1>1, <1>5 DEF NowOpen, IsOpen
    <3>4. ttTask[work].st = "none" /\ ttTask' = [ttTask EXCEPT ![work] =
              [st |-> "queued", team |-> t, to |-> k, standing |-> isStanding]]
      BY <1>1, <2>2
    <3> HIDE DEF isStanding
    <3>5. NewTask(work, t, k, isStanding)
      BY <1>1, <1>9, <3>2, <3>3, <3>4 DEF NewTask
    <3> QED BY <1>1, <1>3, <1>7, <1>8, <1>9, <3>1, <3>5, NewTaskStep
  <2> QED BY <2>1, <2>2
<1>11. RestTyped'
  BY <1>1, <1>3, Parts DEF RestTyped
<1> QED BY <1>2, <1>9, <1>10, <1>11, Whole

\* A prompt of task k to the session of c, which already stands for it where it is standing.
LEMMA ActMessage ==
    ASSUME TreeBounds, TreeInv, NEW k \in Work, Tt!Message(k) \/ Tt!Acknowledge(k)
    PROVE  TreeInv'
<1> DEFINE c == ttTask[k].to
           run == Tt!Carried(c, k)
<1>1. /\ ttStand[c] = k /\ (ttTurn' = [ttTurn EXCEPT ![c] = run] \/ ttTurn' = ttTurn)
      /\ ttBusy' \subseteq ttBusy \cup {c} /\ ttAcks' \subseteq ttAcks \cup {k}
      /\ c \in ttLive \/ c \in ttBusy
      /\ UNCHANGED <<ttTeam, ttTask, ttStand, ttExcl, ttLive, ttJoin, ttAuto, ttWake, ttEvent,
                     ttSlip, ttFaults, ttOps>>
  BY DEF Tt!Message, Tt!Acknowledge
<1>2. c \in Channels
  BY <1>1, Parts DEF RestTyped, PointersTyped
<1>3. ttTask[k].standing /\ (ttTask[k].st = "bound" \/ (k \in ttSlip /\ ttTask[k].st = "ended"))
  BY <1>1, <1>2, Parts DEF TasksInv, PointersTrue, TreeBounds
<1>4. /\ run \in TurnType
      /\ run.actor = "delegated" => /\ run.source = k /\ run.team \in Teams /\ IsOpen(run.team)
                                     /\ ttTeam[run.team].coord = c
  BY <1>2, CarriedTurn
<1> HIDE DEF run
<1>5. TeamsSound' /\ OpenStay /\ NewAreFree /\ \A s \in Teams : NowOpen(s) <=> IsOpen(s)
  BY <1>1, Parts, SameTeams
<1>6. Ends({}) /\ KeepsTeams({}) /\ KeepsPointers({})
  BY <1>1, <1>5, Parts, SameTasks, StayKeeps DEF TasksInv, KeepsPointers
<1>7. ASSUME NEW d \in Channels, ttTurn'[d].actor = "delegated", ttTurn'[d].source \notin ttSlip
      PROVE  KeepsTurn(d, {}) \/ \E j \in Work \ {} : StartsTurn(d, j)
  <2>1. CASE ttTurn'[d] = ttTurn[d]
    <3>1. ttTurn[d].team \in Teams
      BY <1>7, <2>1, Parts DEF TasksInv, Delegated
    <3> QED BY <1>1, <1>5, <1>7, <2>1, <3>1 DEF KeepsTurn
  <2>2. CASE ttTurn'[d] # ttTurn[d]
    <3>1. d = c /\ ttTurn'[d] = run
      BY <1>1, <1>2, <2>2, Parts DEF TurnTyped
    <3>2. Tt!Active(k)
      BY <1>3, <1>4, <1>7, <3>1, ActiveIs
    <3>3. StartsTurn(d, k)
      BY <1>1, <1>3, <1>4, <1>5, <1>7, <3>1, <3>2 DEF StartsTurn
    <3> QED BY <3>3
  <2> QED BY <2>1, <2>2
<1>8. KeepsTurns({})
  BY <1>1, <1>7 DEF KeepsTurns
<1>9. TasksInv' /\ TaskTyped'
  BY <1>6, <1>8, Parts, EndingStep
<1>10. TurnTyped' /\ PointersTyped' /\ RestTyped'
  BY <1>1, <1>2, <1>4, Parts DEF TurnTyped, PointersTyped, RestTyped
<1> QED BY <1>5, <1>9, <1>10, Whole

LEMMA ActDispatch ==
    ASSUME TreeBounds, TreeInv, NEW k \in Work, Tt!Dispatch(k)
    PROVE  TreeInv'
<1> DEFINE c == ttTask[k].to
           run == Tt!Carried(c, k)
<1>1. /\ ttTask[k].st = "queued" /\ c \in ttLive
      /\ \A j \in Work : ~(ttTask[j].st = "bound" /\ ttTask[j].to = c)
      /\ ttTask' = [ttTask EXCEPT ![k].st = "bound"]
      /\ \/ ttTask[k].standing /\ ttStand' = [ttStand EXCEPT ![c] = k] /\ ttExcl' = ttExcl
         \/ ~ttTask[k].standing /\ ttExcl' = [ttExcl EXCEPT ![c] = k] /\ ttStand' = ttStand
      /\ ttTurn' = [ttTurn EXCEPT ![c] = run]
      /\ ttBusy' = ttBusy \cup {c} /\ ttAcks' = ttAcks \cup {k}
      /\ UNCHANGED <<ttTeam, ttLive, ttJoin, ttAuto, ttWake, ttEvent, ttSlip, ttFaults, ttOps>>
  BY DEF Tt!Dispatch
<1>2. c \in Channels
  BY <1>1, Parts DEF RestTyped
<1>3. /\ run \in TurnType
      /\ run.actor = "delegated" => /\ ttTask[k].standing /\ run.source = k /\ run.team \in Teams
                                     /\ IsOpen(run.team) /\ ttTeam[run.team].coord = c
  BY <1>2, CarriedTurn
<1> HIDE DEF run
<1>4. TeamsSound' /\ \A s \in Teams : NowOpen(s) <=> IsOpen(s)
  BY <1>1, Parts, SameTeams
<1>5. /\ TaskTyped' /\ \A j \in Work : j # k => ttTask'[j] = ttTask[j]
      /\ ttTask'[k].st = "bound" /\ ttTask'[k].team = ttTask[k].team /\ ttTask'[k].to = c
      /\ ttTask'[k].standing = ttTask[k].standing
  BY <1>1, Parts DEF TaskTyped, TaskType
<1>6. \A j \in Work : /\ ttTask'[j].team = ttTask[j].team /\ ttTask'[j].to = ttTask[j].to
                      /\ ttTask'[j].standing = ttTask[j].standing
                      /\ ttTask'[j].st \in {"queued", "bound"} <=> Tt!Active(j)
  BY <1>1, <1>5, ActiveIs
<1>7. TurnTyped' /\ PointersTyped' /\ RestTyped'
  BY <1>1, <1>2, <1>3, Parts DEF TurnTyped, PointersTyped, RestTyped
<1>8. Served'
  <2>1. ASSUME NEW j \in Work, ttTask'[j].st \in {"queued", "bound"}
        PROVE  /\ ttTask'[j].team \in Teams /\ NowOpen(ttTask'[j].team)
               /\ ttTask'[j].to \in ttTeam'[ttTask'[j].team].workers
               /\ \A s \in Teams : NowOpen(s) /\ ttTeam'[s].coord = ttTask'[j].to => ttTask'[j].standing
    BY <1>1, <1>4, <1>6, <2>1, Parts DEF TasksInv, Served
  <2> QED BY <2>1 DEF Served, NowOpen, IsOpen, Tt!Active
<1>9. PointersTrue'
  <2>1. ASSUME NEW d \in Channels, ttStand'[d] # None
        PROVE  /\ ttTask'[ttStand'[d]].to = d /\ ttTask'[ttStand'[d]].standing
               /\ ttTask'[ttStand'[d]].st = "bound"
                    \/ (ttStand'[d] \in ttSlip /\ ttTask'[ttStand'[d]].st = "ended")
    <3>1. CASE ttStand'[d] = ttStand[d]
      <4>1. /\ ttStand[d] \in Work /\ ttTask[ttStand[d]].to = d /\ ttTask[ttStand[d]].standing
            /\ ttTask[ttStand[d]].st = "bound" \/ (ttStand[d] \in ttSlip /\ ttTask[ttStand[d]].st = "ended")
        BY <2>1, <3>1, Parts DEF TasksInv, PointersTrue, PointersTyped
      <4> QED BY <1>1, <1>5, <3>1, <4>1
    <3>2. CASE ttStand'[d] # ttStand[d]
      <4>1. d = c /\ ttStand'[d] = k /\ ttTask[k].standing
        BY <1>1, <1>2, <3>2, Parts DEF PointersTyped
      <4> QED BY <1>5, <4>1
    <3> QED BY <3>1, <3>2
  <2> QED BY <1>1, <2>1 DEF PointersTrue
<1>10. BoundOnce'
  BY <1>1, <1>5, Parts DEF TasksInv, BoundOnce
<1>11. Delegated'
  <2>1. ASSUME NEW d \in Channels, ttTurn'[d].actor = "delegated", ttTurn'[d].source \notin ttSlip
        PROVE  /\ ttTurn'[d].source \in Work /\ ttTurn'[d].team \in Teams /\ NowOpen(ttTurn'[d].team)
               /\ ttTeam'[ttTurn'[d].team].coord = d
               /\ ttTask'[ttTurn'[d].source].standing /\ ttTask'[ttTurn'[d].source].st \in {"queued", "bound"}
               /\ ttTask'[ttTurn'[d].source].to = d /\ ttStand'[d] = ttTurn'[d].source
    <3>1. CASE d = c
      <4>1. ttTurn'[d] = run
        BY <1>1, <1>2, <3>1, Parts DEF TurnTyped
      <4>2. ttStand'[d] = k
        BY <1>1, <1>2, <1>3, <2>1, <3>1, <4>1, Parts DEF PointersTyped
      <4> QED BY <1>1, <1>3, <1>4, <1>5, <2>1, <3>1, <4>1, <4>2
    <3>2. CASE d # c
      <4>1. ttTurn'[d] = ttTurn[d] /\ ttStand'[d] = ttStand[d]
        BY <1>1, <1>2, <3>2, Parts DEF TurnTyped, PointersTyped
      <4>2. /\ ttTurn[d].source \in Work /\ ttTurn[d].team \in Teams /\ IsOpen(ttTurn[d].team)
            /\ ttTeam[ttTurn[d].team].coord = d
            /\ ttTask[ttTurn[d].source].standing /\ Tt!Active(ttTurn[d].source)
            /\ ttTask[ttTurn[d].source].to = d /\ ttStand[d] = ttTurn[d].source
        BY <2>1, <4>1, Parts DEF TasksInv, Delegated
      <4> QED BY <1>1, <1>4, <1>6, <4>1, <4>2
    <3> QED BY <3>1, <3>2
  <2> QED BY <1>1, <2>1 DEF Delegated, NowOpen, IsOpen, Tt!Active
<1> QED BY <1>4, <1>5, <1>7, <1>8, <1>9, <1>10, <1>11, Whole DEF TasksInv

-----------------------------------------------------------------------------
LEMMA InitTree == TreeBounds /\ Tt!Init => TreeInv
<1> SUFFICES ASSUME TreeBounds, Tt!Init PROVE TreeInv
  OBVIOUS
<1>1. Tt!NoTeam \in TeamType /\ Tt!NoTeam.st = "none"
  BY DEF Tt!NoTeam, TeamType
<1>2. Tt!NoTask \in TaskType /\ Tt!NoTask.st = "none"
  BY DEF Tt!NoTask, TaskType
<1>3. /\ ttTeam = [t \in Teams |-> Tt!NoTeam] /\ ttTask = [k \in Work |-> Tt!NoTask]
      /\ ttTurn = [c \in Channels |-> Tt!NoTurn] /\ ttBusy = {}
      /\ ttStand = [c \in Channels |-> None] /\ ttExcl = [c \in Channels |-> None]
      /\ ttAcks = {} /\ ttLive = Present /\ ttJoin = {}
      /\ ttAuto = [k \in Channels |-> [st |-> "none", team |-> 0, sub |-> None]]
      /\ ttWake = [r \in Wakes |-> [st |-> "none", team |-> 0, source |-> None]]
      /\ ttEvent = {} /\ ttSlip = {} /\ ttFaults = 0 /\ ttOps = 0
  BY DEF Tt!Init
<1>4. TeamTyped /\ TaskTyped /\ TurnTyped
  BY <1>1, <1>2, <1>3, NoTurnTyped DEF TeamTyped, TaskTyped, TurnTyped
<1>5. PointersTyped
  BY <1>3 DEF PointersTyped
<1>6. AutoTyped
  BY <1>3 DEF AutoTyped, AutoType
<1>7. RestTyped
  BY <1>3 DEF RestTyped, WakeType, TreeBounds
<1>8. Sound(ttTeam, ttAuto)
  BY <1>1, <1>3 DEF Sound, IsOpenIn
<1>9. Served /\ BoundOnce
  BY <1>2, <1>3, ActiveIs DEF Served, BoundOnce
<1>10. PointersTrue /\ Delegated
  BY <1>3, NoTurnTyped DEF PointersTrue, Delegated
<1> QED BY <1>4, <1>5, <1>6, <1>7, <1>8, <1>9, <1>10 DEF TreeInv, Typed, TasksInv

LEMMA StepTree == TreeBounds /\ TreeInv /\ [Tt!Next]_(Tt!ttVars) => TreeInv'
<1> SUFFICES ASSUME TreeBounds, TreeInv, [Tt!Next]_(Tt!ttVars) PROVE TreeInv'
  OBVIOUS
<1>1. CASE UNCHANGED Tt!ttVars
  <2>1. /\ UNCHANGED <<ttTeam, ttTask, ttTurn, ttBusy, ttStand, ttExcl, ttAcks, ttLive, ttJoin,
                       ttAuto, ttWake, ttEvent, ttSlip, ttFaults, ttOps>>
    BY <1>1 DEF Tt!ttVars, Tt!sessions
  <2>2. TurnTyped' /\ PointersTyped' /\ RestTyped' /\ NoGain
    BY <2>1, Parts DEF TurnTyped, PointersTyped, RestTyped, NoGain
  <2> QED BY <2>1, <2>2, ActNoTeams
<1>2. CASE \/ \E c \in Channels, n \in Names : Tt!CreateTeam(c, n)
           \/ \E t \in Teams, c \in Channels :
                 Tt!Join(t, c) \/ Tt!JoinRolledBack(t, c) \/ Tt!RemoveWorker(t, c)
           \/ \E j \in ttJoin : Tt!JoinReported(j)
           \/ \E t \in Teams, archived \in BOOLEAN : Tt!Close(t, archived)
           \/ \E t \in Teams, mode \in Modes : Tt!SetMode(t, mode[1], mode[2])
  BY <1>2, ActCreate, ActJoin, ActRolledBack, ActRemove, ActReported, ActClose, ActMode
<1>3. CASE \E c \in Channels : \/ Tt!TurnEnds(c)
                               \/ \E a \in Actors : Tt!Prompt(c, a)
                               \/ \E t \in Teams : Tt!Continue(c, t) \/ Tt!Renew(c, t)
  BY <1>3, ActTurn, ActPrompt
<1>4. CASE \/ \E t \in Teams, k \in Work, c \in Channels, asked \in {"any", "standing", "exclusive"} :
                 Tt!Send(t, k, c, asked)
           \/ \E k \in Work : Tt!Dispatch(k) \/ Tt!Undelivered(k) \/ Tt!Message(k) \/ Tt!Acknowledge(k)
                              \/ Tt!End(k)
           \/ Tt!Repair
  BY <1>4, ActSend, ActDispatch, ActUndelivered, ActMessage, ActEnd, ActRepair
<1>5. CASE \/ \E k \in Keys, t \in Teams, sub \in Names \cup {None}, saved \in BOOLEAN :
                 Tt!Reserve(k, t, sub, saved)
           \/ \E k \in Keys : \/ Tt!Stop(k)
                              \/ \E work \in Work \cup {None} : Tt!Bind(k, work)
                              \/ \E definitive \in BOOLEAN : Tt!CreationFails(k, definitive)
           \/ Tt!Restart
  BY <1>5, ActReserve, ActStop, ActBind, ActFails, ActRestart
<1>6. CASE \/ \E t \in Teams, r \in Wakes : Tt!Schedule(t, r)
           \/ \E r \in Wakes : Tt!Unschedule(r)
           \/ \E t \in Teams, due, again \in SUBSET Wakes : Tt!Fire(t, due, again)
  BY <1>6, ActWake
<1> QED BY <1>1, <1>2, <1>3, <1>4, <1>5, <1>6 DEF Tt!Next

LEMMA TreeInvHolds == TreeBounds => (Tt!Spec => []TreeInv)
<1> SUFFICES ASSUME TreeBounds PROVE Tt!Spec => []TreeInv
  OBVIOUS
<1> QED BY InitTree, StepTree, PTL DEF Tt!Spec

\* Every state of the teams, their tasks, their turns and their wakes is well-typed, for any
\* number of teams and channels (the records teams.mjs and the team store keep).
THEOREM TreeTypes == TreeBounds => (Tt!Spec => []Tt!TypeOK)
<1> SUFFICES ASSUME TreeBounds PROVE Tt!Spec => []Tt!TypeOK
  OBVIOUS
<1>1. TreeInv => Tt!TypeOK
  BY TypesAre DEF TreeInv
<1> QED BY <1>1, TreeInvHolds, PTL

\* Members and reserved slots together stay within the bound of a team, under different
\* aliases, and no slot outlives the creation of its channel (addTeamWorker,
\* reserveAutomaticTeamWorker, releaseAutomaticTeamWorker).
THEOREM SlotsAreKept == TreeBounds => (Tt!Spec => []Tt!SlotsKept)
<1> SUFFICES ASSUME TreeBounds PROVE Tt!Spec => []Tt!SlotsKept
  OBVIOUS
<1>1. TreeInv => Tt!SlotsKept
  BY SoundIs DEF TreeInv
<1> QED BY <1>1, TreeInvHolds, PTL

LEMMA ServedIs == Served => Tt!NoStarvedCoordinator
<1> SUFFICES ASSUME Served, NEW k \in Work, Tt!Active(k)
             PROVE  /\ ttTask[k].team \in Tt!Open /\ ttTask[k].to \in ttTeam[ttTask[k].team].workers
                    /\ Tt!Own(ttTask[k].to) # {} => ttTask[k].standing
  BY DEF Tt!NoStarvedCoordinator
<1>1. /\ ttTask[k].team \in Teams /\ IsOpen(ttTask[k].team)
      /\ ttTask[k].to \in ttTeam[ttTask[k].team].workers
      /\ \A s \in Teams : IsOpen(s) /\ ttTeam[s].coord = ttTask[k].to => ttTask[k].standing
  BY DEF Served
<1> QED BY <1>1, OpenTeams, OwnTeam

\* An active task is one of an open team to a worker of it, and a channel that leads a team is
\* given standing tasks only: an exclusive one would wait for its own delegates for ever
\* (createTeam, addTeamWorker, createTeamTask).
THEOREM CoordinatorsNotStarved == TreeBounds => (Tt!Spec => []Tt!NoStarvedCoordinator)
<1> SUFFICES ASSUME TreeBounds PROVE Tt!Spec => []Tt!NoStarvedCoordinator
  OBVIOUS
<1>1. TreeInv => Tt!NoStarvedCoordinator
  BY ServedIs DEF TreeInv, TasksInv
<1> QED BY <1>1, TreeInvHolds, PTL

\* A channel coordinates at most one open team and works in at most one.
OneTeam(c) == /\ \A s, t \in Tt!Own(c) : s = t
              /\ \A s, t \in Tt!Parents(c) : s = t

LEMMA OneTeamIs == TreeInv => \A c \in Channels : OneTeam(c)
  BY OwnTeam DEF TreeInv, Sound, Apart, IsOpenIn, IsOpen, OneTeam

\* However teams are opened, joined, rolled back and closed, a channel leads one open team at
\* most and works in one at most (createTeam, addTeamWorker; coordinatedTeamForChannel and
\* parentTeamForChannel answer with the first they find).
THEOREM OneTeamAtMost == TreeBounds => (Tt!Spec => [](\A c \in Channels : OneTeam(c)))
<1> SUFFICES ASSUME TreeBounds PROVE Tt!Spec => [](\A c \in Channels : OneTeam(c))
  OBVIOUS
<1> QED BY OneTeamIs, TreeInvHolds, PTL

LEMMA DelegatedIs == TreeInv => Tt!DelegationFollowsTask
<1> SUFFICES ASSUME TreeInv, NEW c \in Channels, ttTurn[c].actor = "delegated",
                    ttTurn[c].source \notin ttSlip
             PROVE  Tt!DelegatedValid(c, ttTurn[c].team)
  BY DEF Tt!DelegationFollowsTask
<1> DEFINE t == ttTurn[c].team
           k == ttTurn[c].source
<1>1. /\ k \in Work /\ t \in Teams /\ IsOpen(t) /\ ttTeam[t].coord = c
      /\ ttTask[k].standing /\ Tt!Active(k) /\ ttTask[k].to = c /\ ttStand[c] = k
  BY DEF TreeInv, TasksInv, Delegated
<1>2. Tt!Own(c) = {t}
  <2>1. t \in Tt!Own(c)
    BY <1>1, OwnTeam
  <2> QED BY <2>1, OneTeamIs DEF OneTeam
<1>3. ttTask[k].team \in Tt!Parents(c)
  BY <1>1, OwnTeam DEF TreeInv, TasksInv, Served
<1> QED BY <1>1, <1>2, <1>3 DEF Tt!DelegatedValid

\* A turn acts with delegated authority only while the standing task it is about is active, in
\* the session that leads the team it acts on (delegatedTeamTurnValid), except after the
\* join that was rolled back without revoking (revokeCancelledTeamTasks).
THEOREM DelegationIsTheTasks == TreeBounds => (Tt!Spec => []Tt!DelegationFollowsTask)
<1> SUFFICES ASSUME TreeBounds PROVE Tt!Spec => []Tt!DelegationFollowsTask
  OBVIOUS
<1> QED BY DelegatedIs, TreeInvHolds, PTL

\* A wake fires while its source stands, or before it had one to lose.
LEMMA WakeStep ==
    ASSUME [Tt!Next]_(Tt!ttVars), NEW r \in Wakes, r \in ttEvent' \ ttEvent
    PROVE  Tt!SourceStands(r)
<1>1. CASE \E t \in Teams, due, again \in SUBSET Wakes : Tt!Fire(t, due, again)
  BY <1>1 DEF Tt!Fire
<1>2. CASE \/ \E c \in Channels, n \in Names : Tt!CreateTeam(c, n)
           \/ \E t \in Teams, c \in Channels :
                 Tt!Join(t, c) \/ Tt!JoinRolledBack(t, c) \/ Tt!RemoveWorker(t, c)
           \/ \E j \in ttJoin : Tt!JoinReported(j)
           \/ \E t \in Teams, archived \in BOOLEAN : Tt!Close(t, archived)
           \/ \E t \in Teams, mode \in Modes : Tt!SetMode(t, mode[1], mode[2])
  BY <1>2 DEF Tt!CreateTeam, Tt!Join, Tt!JoinRolledBack, Tt!RemoveWorker, Tt!JoinReported,
              Tt!Close, Tt!SetMode
<1>3. CASE \E c \in Channels : \/ Tt!TurnEnds(c)
                               \/ \E a \in Actors : Tt!Prompt(c, a)
                               \/ \E t \in Teams : Tt!Continue(c, t) \/ Tt!Renew(c, t)
  BY <1>3 DEF Tt!TurnEnds, Tt!Prompt, Tt!Continue, Tt!Renew
<1>4. CASE \/ \E t \in Teams, k \in Work, c \in Channels, asked \in {"any", "standing", "exclusive"} :
                 Tt!Send(t, k, c, asked)
           \/ \E k \in Work : Tt!Dispatch(k) \/ Tt!Undelivered(k) \/ Tt!Message(k) \/ Tt!Acknowledge(k)
                              \/ Tt!End(k)
           \/ Tt!Repair
  BY <1>4 DEF Tt!Send, Tt!Dispatch, Tt!Undelivered, Tt!Message, Tt!Acknowledge, Tt!End, Tt!Repair
<1>5. CASE \/ \E k \in Keys, t \in Teams, sub \in Names \cup {None}, saved \in BOOLEAN :
                 Tt!Reserve(k, t, sub, saved)
           \/ \E k \in Keys : \/ Tt!Stop(k)
                              \/ \E work \in Work \cup {None} : Tt!Bind(k, work)
                              \/ \E definitive \in BOOLEAN : Tt!CreationFails(k, definitive)
           \/ Tt!Restart
  BY <1>5 DEF Tt!Reserve, Tt!Stop, Tt!Bind, Tt!CreationFails, Tt!Restart
<1>6. CASE \/ \E t \in Teams, i \in Wakes : Tt!Schedule(t, i)
           \/ \E i \in Wakes : Tt!Unschedule(i)
  BY <1>6 DEF Tt!Schedule, Tt!Unschedule
<1>7. CASE UNCHANGED Tt!ttVars
  BY <1>7 DEF Tt!ttVars
<1> QED BY <1>1, <1>2, <1>3, <1>4, <1>5, <1>6, <1>7 DEF Tt!Next

\* A wake that a delegated turn registered is not fired once its standing task has ended
\* (fireDueTeamSchedules).
THEOREM WakesFollowTheirSource == Tt!Spec => Tt!WakesFollowSource
<1>1. [Tt!Next]_(Tt!ttVars) => [\A r \in Wakes : r \in ttEvent' \ ttEvent => Tt!SourceStands(r)]_(Tt!ttVars)
  BY WakeStep
<1> QED BY <1>1, PTL DEF Tt!Spec, Tt!WakesFollowSource

-----------------------------------------------------------------------------
(* TeamTree: the levels of the forest.  The chains a team is part of are   *)
(* counted by teamDepth and teamHeight, which recursive functions model:   *)
(* that these functions exist, and what they say of chains, is shown with  *)
(* the least number for which it would fail.                               *)

\* There are ids for as many teams as there may be levels, and a level at least.
LevelBounds ==
    /\ TreeBounds /\ IsFiniteSet(Teams)
    /\ MaxDepth >= 1 /\ MaxDepth <= Cardinality(Teams)

\* A property of numbers that fails fails first somewhere.
LEMMA LeastFailure ==
    ASSUME NEW S \in SUBSET Nat, S # {}
    PROVE  \E x \in S : \A y \in S : x <= y
<1>1. \E x \in S : \A y \in S : ~(<<y, x>> \in OpToRel(<, Nat))
  BY NatLessThanWellFounded, WFMin
<1>2. \A x \in S, y \in S : ~(<<y, x>> \in OpToRel(<, Nat)) => x <= y
  BY DEF OpToRel
<1> QED BY <1>1, <1>2

\* What is defined by its start and a step exists.
Iterable(X, a, R, m) ==
    \E g \in [0 .. m -> X] : g[0] = a /\ \A i \in 1 .. m : g[i] = R[g[i - 1]]

LEMMA Iterates ==
    ASSUME NEW X, NEW a \in X, NEW R \in [X -> X], NEW m \in Nat
    PROVE  Iterable(X, a, R, m)
<1> DEFINE Runs(g, n) == g[0] = a /\ \A i \in 1 .. n : g[i] = R[g[i - 1]]
           bad == {n \in Nat : ~ \E g \in [0 .. n -> X] : Runs(g, n)}
<1>1. SUFFICES ASSUME bad # {} PROVE FALSE
  BY DEF Iterable
<1>2. PICK n \in bad : \A y \in bad : n <= y
  BY <1>1, LeastFailure
<1>0. n \in Nat /\ bad \subseteq Nat
  OBVIOUS
<1>3. n # 0
  <2> DEFINE g == [i \in 0 .. 0 |-> a]
  <2>1. g \in [0 .. 0 -> X] /\ Runs(g, 0)
    OBVIOUS
  <2> QED BY <2>1
<1>4. PICK g \in [0 .. n - 1 -> X] : Runs(g, n - 1)
  <2>1. n - 1 \in Nat /\ n - 1 \notin bad
    <3> HIDE DEF bad
    <3> QED BY <1>0, <1>2, <1>3
  <2> QED BY <2>1
<1> DEFINE h == [i \in 0 .. n |-> IF i = n THEN R[g[n - 1]] ELSE g[i]]
<1>5. n \in Nat /\ n >= 1 /\ g[n - 1] \in X
  BY <1>0, <1>3
<1>6. h \in [0 .. n -> X]
  BY <1>5
<1>7. h[0] = a /\ h[n] = R[h[n - 1]] /\ \A i \in 1 .. n - 1 : h[i] = R[h[i - 1]]
  BY <1>4, <1>5
<1>8. Runs(h, n)
  <2> HIDE DEF h
  <2>1. \A i \in 1 .. n : i = n \/ i \in 1 .. n - 1
    BY <1>5
  <2> QED BY <1>5, <1>7, <2>1
<1> QED BY <1>2, <1>6, <1>8

Rank == Cardinality(Teams)

LEMMA LevelsAre ==
    ASSUME LevelBounds
    PROVE  /\ Rank \in Nat /\ Tt!Levels = 0 .. Rank /\ MaxDepth \in 1 .. Rank
           /\ \A k \in 0 .. Rank, S \in SUBSET (0 .. Rank) :
                0 .. k \subseteq S => Cardinality(S) \in Nat /\ Cardinality(S) >= k + 1
<1>1. Rank \in Nat /\ Tt!Levels = 0 .. Rank
  BY SameCount, FS_CardinalityType DEF LevelBounds, Rank, Tt!Levels
<1>2. MaxDepth \in 1 .. Rank
  BY <1>1 DEF LevelBounds, TreeBounds, Rank
<1>3. ASSUME NEW k \in 0 .. Rank, NEW S \in SUBSET (0 .. Rank), 0 .. k \subseteq S
      PROVE  Cardinality(S) \in Nat /\ Cardinality(S) >= k + 1
  <2>0. 0 \in Int /\ Rank \in Int /\ k \in Int /\ k >= 0
    BY <1>1
  <2>1. IsFiniteSet(0 .. Rank) /\ IsFiniteSet(S)
    <3>1. IsFiniteSet(0 .. Rank)
      BY <2>0, FS_Interval
    <3> QED BY <3>1, FS_Subset
  <2>2. Cardinality(0 .. k) = k + 1
    BY <2>0, FS_Interval
  <2>3. Cardinality(0 .. k) <= Cardinality(S) /\ Cardinality(S) \in Nat
    BY <1>3, <2>1, FS_Subset, FS_CardinalityType
  <2> QED BY <2>2, <2>3
<1> QED BY <1>1, <1>2, <1>3

\* The functions by which the model climbs and descends.
UpOf(S) == UNION {Tt!Parents(ttTeam[s].coord) : s \in S}
DownOf(S) == UNION {UNION {Tt!Own(c) : c \in ttTeam[s].workers} : s \in S}

LEMMA AboveIs ==
    ASSUME LevelBounds, NEW t \in Teams
    PROVE  /\ Tt!Above(t) \in [0 .. Rank -> SUBSET Teams] /\ Tt!Above(t)[0] = {t}
           /\ \A i \in 1 .. Rank : Tt!Above(t)[i] = UpOf(Tt!Above(t)[i - 1])
<1> DEFINE Body(h) == [n \in Tt!Levels |->
                         IF n = 0 THEN {t} ELSE UNION {Tt!Parents(ttTeam[s].coord) : s \in h[n - 1]}]
           R == [S \in SUBSET Teams |-> UpOf(S)]
<1>1. Rank \in Nat /\ Tt!Levels = 0 .. Rank
  BY LevelsAre
<1>2. \A S : UpOf(S) \in SUBSET Teams
  <2>1. \A c : Tt!Parents(c) \subseteq Teams
    BY OwnTeam
  <2> QED BY <2>1 DEF UpOf
<1>3. PICK g \in [0 .. Rank -> SUBSET Teams] : g[0] = {t} /\ \A i \in 1 .. Rank : g[i] = R[g[i - 1]]
  <2>1. R \in [SUBSET Teams -> SUBSET Teams]
    BY <1>2
  <2> DEFINE X == SUBSET Teams
             a == {t}
  <2>2. a \in X /\ R \in [X -> X]
    BY <2>1
  <2> HIDE DEF R, X, a
  <2>3. Iterable(X, a, R, Rank)
    BY <1>1, <2>2, Iterates
  <2> QED BY <2>3 DEF Iterable, X, a
<1>4. \A i \in 1 .. Rank : R[g[i - 1]] = UpOf(g[i - 1])
  BY <1>1
<1>5. g = Body(g)
  <2>1. g = [n \in 0 .. Rank |-> g[n]]
    OBVIOUS
  <2> HIDE DEF R
  <2>2. ASSUME NEW n \in 0 .. Rank
        PROVE  g[n] = IF n = 0 THEN {t} ELSE UNION {Tt!Parents(ttTeam[s].coord) : s \in g[n - 1]}
    <3>1. CASE n = 0
      BY <1>3, <3>1
    <3>2. CASE n # 0
      <4>1. n \in 1 .. Rank
        BY <1>1, <3>2
      <4>2. g[n] = UpOf(g[n - 1])
        BY <1>3, <1>4, <4>1
      <4> QED BY <3>2, <4>2 DEF UpOf
    <3> QED BY <3>1, <3>2
  <2> QED BY <1>1, <2>1, <2>2
<1>6. Tt!Above(t) = CHOOSE h : h = Body(h)
  BY DEF Tt!Above
<1>7. Tt!Above(t) = Body(Tt!Above(t))
  <2> HIDE DEF Body
  <2> QED BY <1>5, <1>6
<1> DEFINE up == Tt!Above(t)
<1>8. \A n \in 0 .. Rank : up[n] = IF n = 0 THEN {t} ELSE UpOf(up[n - 1])
  BY <1>1, <1>7 DEF UpOf
<1>9. \A n \in 0 .. Rank : up[n] \in SUBSET Teams
  BY <1>2, <1>8
<1>10. up = [n \in 0 .. Rank |-> up[n]]
  BY <1>1, <1>7
<1> HIDE DEF up
<1>11. up \in [0 .. Rank -> SUBSET Teams]
  BY <1>9, <1>10
<1> QED BY <1>1, <1>8, <1>11 DEF up

LEMMA BelowIs ==
    ASSUME LevelBounds, NEW t \in Teams
    PROVE  /\ Tt!Below(t) \in [0 .. Rank -> SUBSET Teams] /\ Tt!Below(t)[0] = {t}
           /\ \A i \in 1 .. Rank : Tt!Below(t)[i] = DownOf(Tt!Below(t)[i - 1])
<1> DEFINE Body(h) == [n \in Tt!Levels |->
                         IF n = 0 THEN {t}
                         ELSE UNION {UNION {Tt!Own(c) : c \in ttTeam[s].workers} : s \in h[n - 1]}]
           R == [S \in SUBSET Teams |-> DownOf(S)]
<1>1. Rank \in Nat /\ Tt!Levels = 0 .. Rank
  BY LevelsAre
<1>2. \A S : DownOf(S) \in SUBSET Teams
  <2>1. \A c : Tt!Own(c) \subseteq Teams
    BY OwnTeam
  <2> QED BY <2>1 DEF DownOf
<1>3. PICK g \in [0 .. Rank -> SUBSET Teams] : g[0] = {t} /\ \A i \in 1 .. Rank : g[i] = R[g[i - 1]]
  <2>1. R \in [SUBSET Teams -> SUBSET Teams]
    BY <1>2
  <2> DEFINE X == SUBSET Teams
             a == {t}
  <2>2. a \in X /\ R \in [X -> X]
    BY <2>1
  <2> HIDE DEF R, X, a
  <2>3. Iterable(X, a, R, Rank)
    BY <1>1, <2>2, Iterates
  <2> QED BY <2>3 DEF Iterable, X, a
<1>4. \A i \in 1 .. Rank : R[g[i - 1]] = DownOf(g[i - 1])
  BY <1>1
<1>5. g = Body(g)
  <2>1. g = [n \in 0 .. Rank |-> g[n]]
    OBVIOUS
  <2> HIDE DEF R
  <2>2. ASSUME NEW n \in 0 .. Rank
        PROVE  g[n] = IF n = 0 THEN {t} ELSE UNION {UNION {Tt!Own(c) : c \in ttTeam[s].workers} : s \in g[n - 1]}
    <3>1. CASE n = 0
      BY <1>3, <3>1
    <3>2. CASE n # 0
      <4>1. n \in 1 .. Rank
        BY <1>1, <3>2
      <4>2. g[n] = DownOf(g[n - 1])
        BY <1>3, <1>4, <4>1
      <4> QED BY <3>2, <4>2 DEF DownOf
    <3> QED BY <3>1, <3>2
  <2> QED BY <1>1, <2>1, <2>2
<1>6. Tt!Below(t) = CHOOSE h : h = Body(h)
  BY DEF Tt!Below
<1>7. Tt!Below(t) = Body(Tt!Below(t))
  <2> HIDE DEF Body
  <2> QED BY <1>5, <1>6
<1> DEFINE down == Tt!Below(t)
<1>8. \A n \in 0 .. Rank : down[n] = IF n = 0 THEN {t} ELSE DownOf(down[n - 1])
  BY <1>1, <1>7 DEF DownOf
<1>9. \A n \in 0 .. Rank : down[n] \in SUBSET Teams
  BY <1>2, <1>8
<1>10. down = [n \in 0 .. Rank |-> down[n]]
  BY <1>1, <1>7
<1> HIDE DEF down
<1>11. down \in [0 .. Rank -> SUBSET Teams]
  BY <1>9, <1>10
<1> QED BY <1>1, <1>8, <1>11 DEF down

\* What holds at the start and is handed on holds all along.
LEMMA HandedOn ==
    ASSUME NEW k \in Nat, NEW S, 0 \in S, \A i \in 1 .. k : i - 1 \in S => i \in S
    PROVE  0 .. k \subseteq S
<1> DEFINE bad == {i \in Nat : i <= k /\ i \notin S}
<1>1. SUFFICES ASSUME bad # {} PROVE FALSE
  OBVIOUS
<1>2. PICK i \in bad : \A j \in bad : i <= j
  BY <1>1, LeastFailure
<1>3. i \in Nat /\ i <= k /\ i \notin S
  OBVIOUS
<1>4. i \in 1 .. k
  BY <1>3
<1>5. i - 1 \in Nat /\ i - 1 <= k /\ i - 1 \notin S
  BY <1>3, <1>4
<1>6. i - 1 \in bad
  BY <1>5
<1> HIDE DEF bad
<1> QED BY <1>2, <1>3, <1>6

-----------------------------------------------------------------------------
(* Chains of coordinators.                                                 *)

\* The coordinator of open team s works in open team r; and a chain of m such links.
Link(tm, s, r) == IsOpenIn(tm, s) /\ IsOpenIn(tm, r) /\ tm[s].coord \in tm[r].workers
Chain(tm, f, m) == f \in [0 .. m -> Teams] /\ \A n \in 0 .. m - 1 : Link(tm, f[n], f[n + 1])
Shallow(tm) == ~ \E f : Chain(tm, f, MaxDepth)

\* The levels above a team hold every chain that starts there ...
LEMMA Climb ==
    ASSUME LevelBounds, NEW t \in Teams, NEW k \in 0 .. Rank, NEW g, Chain(ttTeam, g, k), g[0] = t
    PROVE  /\ Tt!Depth(t) \in Nat /\ Tt!Depth(t) >= k + 1
           /\ k > 0 => g[k] \in Tt!Ancestors(t)
<1> DEFINE up == Tt!Above(t)
           S == {i \in 0 .. Rank : up[i] # {}}
           T == {i \in 0 .. k : g[i] \in up[i]}
<1>1. /\ Rank \in Nat /\ Tt!Levels = 0 .. Rank /\ k \in Nat /\ k <= Rank
      /\ up \in [0 .. Rank -> SUBSET Teams] /\ up[0] = {t}
      /\ \A i \in 1 .. Rank : up[i] = UpOf(up[i - 1])
  BY LevelsAre, AboveIs
<1> HIDE DEF up
<1>2. ASSUME NEW i \in 1 .. k, i - 1 \in T PROVE i \in T
  <2>1. i - 1 \in 0 .. k - 1 /\ i \in 1 .. Rank /\ i \in 0 .. k /\ (i - 1) + 1 = i
    BY <1>1
  <2>2. g[i - 1] \in Teams /\ g[i] \in Teams /\ Link(ttTeam, g[i - 1], g[i])
    BY <2>1 DEF Chain
  <2>3. g[i] \in Tt!Parents(ttTeam[g[i - 1]].coord)
    BY <2>2, OwnTeam DEF Link, IsOpenIn, IsOpen
  <2>4. g[i] \in UpOf(up[i - 1])
    BY <1>2, <2>3 DEF UpOf
  <2> QED BY <1>1, <2>1, <2>4
<1>3. 0 .. k \subseteq T
  <2>1. 0 \in T
    BY <1>1
  <2> HIDE DEF T
  <2> QED BY <1>1, <1>2, <2>1, HandedOn
<1>4. 0 .. k \subseteq S
  BY <1>1, <1>3
<1>5. Tt!Depth(t) = Cardinality(S)
  <2>1. DOMAIN Tt!Above(t) = 0 .. Rank
    BY AboveIs
  <2> QED BY <2>1, SameCount DEF Tt!Depth, up
<1>6. k > 0 => g[k] \in Tt!Ancestors(t)
  <2> SUFFICES ASSUME k > 0 PROVE g[k] \in Tt!Ancestors(t)
    OBVIOUS
  <2>1. k \in Tt!Levels \ {0} /\ g[k] \in up[k]
    BY <1>1, <1>3
  <2> QED BY <2>1 DEF Tt!Ancestors, up
<1>7. S \in SUBSET (0 .. Rank)
  OBVIOUS
<1> HIDE DEF S
<1> QED BY <1>4, <1>5, <1>6, <1>7, LevelsAre

\* ... and the levels below it every chain that ends there.
LEMMA Descend ==
    ASSUME LevelBounds, NEW t \in Teams, NEW k \in 0 .. Rank, NEW g, Chain(ttTeam, g, k), g[k] = t
    PROVE  Tt!Height(t) \in Nat /\ Tt!Height(t) >= k + 1
<1> DEFINE down == Tt!Below(t)
           S == {i \in 0 .. Rank : down[i] # {}}
           T == {i \in 0 .. k : g[k - i] \in down[i]}
<1>1. /\ Rank \in Nat /\ Tt!Levels = 0 .. Rank /\ k \in Nat /\ k <= Rank
      /\ down \in [0 .. Rank -> SUBSET Teams] /\ down[0] = {t}
      /\ \A i \in 1 .. Rank : down[i] = DownOf(down[i - 1])
  BY LevelsAre, BelowIs
<1> HIDE DEF down
<1>2. ASSUME NEW i \in 1 .. k, i - 1 \in T PROVE i \in T
  <2>1. /\ k - i \in 0 .. k - 1 /\ k - (i - 1) = (k - i) + 1 /\ i \in 1 .. Rank /\ i \in 0 .. k
        /\ k - i \in 0 .. k /\ (k - i) + 1 \in 0 .. k
    BY <1>1
  <2>2. /\ g[k - i] \in Teams /\ g[k - (i - 1)] \in Teams
        /\ Link(ttTeam, g[k - i], g[k - (i - 1)])
    BY <2>1 DEF Chain
  <2>3. g[k - i] \in Tt!Own(ttTeam[g[k - i]].coord)
    BY <2>2, OwnTeam DEF Link, IsOpenIn, IsOpen
  <2>4. g[k - i] \in DownOf(down[i - 1])
    BY <1>2, <2>2, <2>3 DEF DownOf, Link
  <2> QED BY <1>1, <2>1, <2>4
<1>3. 0 .. k \subseteq T
  <2>1. 0 \in T
    BY <1>1
  <2> HIDE DEF T
  <2> QED BY <1>1, <1>2, <2>1, HandedOn
<1>4. 0 .. k \subseteq S
  <2> SUFFICES ASSUME NEW i \in 0 .. k PROVE i \in S
    OBVIOUS
  <2>1. i \in 0 .. Rank
    BY <1>1
  <2>2. g[k - i] \in down[i]
    BY <1>3
  <2> QED BY <2>1, <2>2
<1>5. Tt!Height(t) = Cardinality(S)
  <2>1. DOMAIN Tt!Below(t) = 0 .. Rank
    BY BelowIs
  <2> QED BY <2>1, SameCount DEF Tt!Height, down
<1>7. S \in SUBSET (0 .. Rank)
  OBVIOUS
<1> HIDE DEF S
<1> QED BY <1>4, <1>5, <1>7, LevelsAre

\* A part of a chain is one.
HasPart(tm, f, a, b) == \E g : Chain(tm, g, b - a) /\ g[0] = f[a] /\ g[b - a] = f[b]

LEMMA Part ==
    ASSUME NEW tm, NEW f, NEW m \in Nat, f \in [0 .. m -> Teams], NEW a \in 0 .. m, NEW b \in a .. m,
           \A n \in a .. b - 1 : Link(tm, f[n], f[n + 1])
    PROVE  HasPart(tm, f, a, b)
<1> DEFINE g == [n \in 0 .. b - a |-> f[n + a]]
<1>1. a \in Nat /\ b \in Nat /\ b - a \in Nat /\ \A n \in 0 .. b - a : n + a \in 0 .. m
  OBVIOUS
<1>2. g \in [0 .. b - a -> Teams] /\ g[0] = f[a] /\ g[b - a] = f[b]
  BY <1>1
<1>3. ASSUME NEW n \in 0 .. (b - a) - 1 PROVE Link(tm, g[n], g[n + 1])
  <2>1. n + a \in a .. b - 1 /\ (n + 1) + a = (n + a) + 1 /\ n \in 0 .. b - a /\ n + 1 \in 0 .. b - a
    BY <1>1
  <2>2. g[n] = f[n + a] /\ g[n + 1] = f[(n + a) + 1]
    BY <2>1
  <2> QED BY <2>1, <2>2
<1> QED BY <1>2, <1>3 DEF Chain, HasPart

\* What a step makes of the links: it adds none, or only those over c into t, or only
\* those of a team created at s.
NoNewLinks(tm, tn) == \A s, r \in Teams : Link(tn, s, r) => Link(tm, s, r)
NewLinksOver(tn, t, c) ==
    \A s, r \in Teams : Link(tn, s, r) /\ ~Link(ttTeam, s, r) => r = t /\ ttTeam[s].coord = c /\ IsOpen(s)
NewTeamAt(tn, s) ==
    /\ \A a, r \in Teams : a # s /\ r # s /\ Link(tn, a, r) => Link(ttTeam, a, r)
    /\ \A a \in Teams : ~Link(tn, a, s)
    /\ \A r \in Teams : Link(tn, s, r) => Tt!Depth(r) + 1 <= MaxDepth

\* No link is added.
LEMMA ShrinkShallow ==
    ASSUME NEW tm, NEW tn, Shallow(tm), NoNewLinks(tm, tn), MaxDepth \in Nat
    PROVE  Shallow(tn)
<1> SUFFICES ASSUME NEW f, Chain(tn, f, MaxDepth) PROVE Chain(tm, f, MaxDepth)
  BY DEF Shallow
<1>1. \A n \in 0 .. MaxDepth - 1 : n \in 0 .. MaxDepth /\ n + 1 \in 0 .. MaxDepth
  OBVIOUS
<1> QED BY <1>1 DEF Chain, NoNewLinks

\* A worker joins that may be placed there: the chain below it and the one above its new
\* team together are short enough, and do not meet.
LEMMA JoinShallow ==
    ASSUME LevelBounds, Shallow(ttTeam), NEW t \in Teams, NEW c, Tt!MayPlace(t, c), NEW tn,
           NewLinksOver(tn, t, c)
    PROVE  Shallow(tn)
<1> SUFFICES ASSUME NEW f, Chain(tn, f, MaxDepth) PROVE FALSE
  BY DEF Shallow
<1> DEFINE M == MaxDepth
           new == {n \in 0 .. M - 1 : ~Link(ttTeam, f[n], f[n + 1])}
<1>1. M \in Nat /\ M >= 1 /\ M <= Rank /\ Rank \in Nat
  BY LevelsAre DEF LevelBounds
<1>2. /\ f \in [0 .. M -> Teams] /\ \A n \in 0 .. M - 1 : Link(tn, f[n], f[n + 1])
      /\ \A n \in 0 .. M - 1 : f[n] \in Teams /\ f[n + 1] \in Teams
  BY <1>1 DEF Chain
<1> HIDE DEF M
<1>3. \A n \in new : f[n + 1] = t /\ f[n] \in Tt!Own(c)
  BY <1>2, OwnTeam DEF NewLinksOver
<1>4. new # {}
  BY <1>2 DEF Shallow, Chain, M
<1>5. \A own \in Tt!Own(c) : /\ own # t /\ own \notin Tt!Ancestors(t)
                             /\ Tt!Depth(t) + Tt!Height(own) <= M
  BY DEF Tt!MayPlace, M
<1>6. PICK m \in new : \A n \in new : m <= n
  <2>1. new \subseteq Nat
    BY <1>1
  <2> HIDE DEF new
  <2> QED BY <1>4, <2>1, LeastFailure
<1>7. m \in Nat /\ m < M /\ m \in 0 .. M /\ m + 1 \in 0 .. M
  BY <1>1
<1>8. Tt!Height(f[m]) \in Nat /\ Tt!Height(f[m]) >= m + 1
  <2>1. \A n \in 0 .. m - 1 : Link(ttTeam, f[n], f[n + 1])
    BY <1>1, <1>6, <1>7
  <2>2. 0 \in 0 .. M /\ m \in 0 .. M /\ m - 0 = m /\ m \in 0 .. Rank
    BY <1>1, <1>7
  <2>3. HasPart(ttTeam, f, 0, m)
    BY <1>1, <1>2, <2>1, <2>2, Part
  <2>4. PICK g : Chain(ttTeam, g, m) /\ g[m] = f[m]
    BY <2>2, <2>3 DEF HasPart
  <2> QED BY <1>2, <1>7, <2>2, <2>4, Descend
<1>9. f[m + 1] = t /\ f[m] \in Tt!Own(c)
  BY <1>3, <1>6
\* From its new team upwards.
<1>10. ASSUME NEW b \in m + 1 .. M, \A n \in m + 1 .. b - 1 : Link(ttTeam, f[n], f[n + 1])
       PROVE  /\ Tt!Depth(t) \in Nat /\ Tt!Depth(t) >= b - m
              /\ b = m + 1 \/ f[b] \in Tt!Ancestors(t)
  <2>1. b \in Nat /\ b - (m + 1) \in Nat /\ b - (m + 1) \in 0 .. Rank /\ b <= M
    BY <1>1, <1>7
  <2>2. HasPart(ttTeam, f, m + 1, b)
    BY <1>1, <1>2, <1>7, <1>10, <2>1, Part
  <2>3. PICK g : Chain(ttTeam, g, b - (m + 1)) /\ g[0] = t /\ g[b - (m + 1)] = f[b]
    BY <1>9, <2>2 DEF HasPart
  <2>4. /\ Tt!Depth(t) \in Nat /\ Tt!Depth(t) >= (b - (m + 1)) + 1
        /\ b - (m + 1) > 0 => f[b] \in Tt!Ancestors(t)
    BY <2>1, <2>3, Climb
  <2> QED BY <1>7, <2>1, <2>4
<1>11. CASE \A n \in m + 1 .. M - 1 : Link(ttTeam, f[n], f[n + 1])
  <2>1. Tt!Depth(t) \in Nat /\ Tt!Depth(t) >= M - m
    BY <1>1, <1>7, <1>10, <1>11
  <2>2. Tt!Depth(t) + Tt!Height(f[m]) <= M
    BY <1>5, <1>9
  <2> QED BY <1>1, <1>7, <1>8, <2>1, <2>2
<1>12. CASE ~ \A n \in m + 1 .. M - 1 : Link(ttTeam, f[n], f[n + 1])
  <2> DEFINE again == {n \in m + 1 .. M - 1 : ~Link(ttTeam, f[n], f[n + 1])}
  <2>1. again # {} /\ again \subseteq Nat /\ again \subseteq new
    <3>1. \A n \in m + 1 .. M - 1 : n \in Nat /\ n \in 0 .. M - 1
      BY <1>1, <1>7
    <3>2. again # {}
      BY <1>12
    <3> QED BY <3>1, <3>2
  <2>2. PICK b \in again : \A n \in again : b <= n
    <3> HIDE DEF again
    <3> QED BY <2>1, LeastFailure
  <2>3. b \in m + 1 .. M /\ b \in Nat /\ b <= M - 1
    BY <1>1, <1>7
  <2>4. \A n \in m + 1 .. b - 1 : Link(ttTeam, f[n], f[n + 1])
    BY <1>1, <1>7, <2>2, <2>3
  <2>5. f[b] = t \/ f[b] \in Tt!Ancestors(t)
    BY <1>9, <1>10, <2>3, <2>4
  <2>6. f[b] \in Tt!Own(c)
    BY <1>3, <2>1, <2>2
  <2> QED BY <1>5, <2>5, <2>6
<1> QED BY <1>11, <1>12

\* A team is created under teams that have a level left.
LEMMA CreatedShallow ==
    ASSUME LevelBounds, Shallow(ttTeam), NEW s \in Teams, NEW tn, NewTeamAt(tn, s)
    PROVE  Shallow(tn)
<1> SUFFICES ASSUME NEW f, Chain(tn, f, MaxDepth) PROVE FALSE
  BY DEF Shallow
<1> DEFINE M == MaxDepth
<1>1. M \in Nat /\ M >= 1 /\ M <= Rank /\ Rank \in Nat
  BY LevelsAre DEF LevelBounds
<1>2. /\ f \in [0 .. M -> Teams] /\ \A n \in 0 .. M - 1 : Link(tn, f[n], f[n + 1])
      /\ \A n \in 0 .. M - 1 : f[n] \in Teams /\ f[n + 1] \in Teams
  BY <1>1 DEF Chain
<1> HIDE DEF M
<1>3. \A n \in 1 .. M : f[n] # s
  <2>1. \A n \in 1 .. M : n - 1 \in 0 .. M - 1 /\ (n - 1) + 1 = n
    BY <1>1
  <2> QED BY <1>2, <2>1 DEF NewTeamAt
<1>4. \A n \in 1 .. M - 1 : Link(ttTeam, f[n], f[n + 1])
  <2>1. \A n \in 1 .. M - 1 : n \in 0 .. M - 1 /\ n \in 1 .. M /\ n + 1 \in 1 .. M
    BY <1>1
  <2> QED BY <1>2, <1>3, <2>1 DEF NewTeamAt
<1>5. CASE f[0] # s
  <2>1. 0 \in 0 .. M - 1 /\ 0 + 1 \in 1 .. M
    BY <1>1
  <2>2. Link(ttTeam, f[0], f[0 + 1])
    BY <1>2, <1>3, <1>5, <2>1 DEF NewTeamAt
  <2>3. \A n \in 0 .. M - 1 : n = 0 \/ n \in 1 .. M - 1
    BY <1>1
  <2>4. Chain(ttTeam, f, M)
    BY <1>2, <1>4, <2>2, <2>3 DEF Chain
  <2> QED BY <2>4 DEF Shallow, M
<1>6. CASE f[0] = s
  <2>1. 0 \in 0 .. M - 1 /\ 0 + 1 = 1 /\ 1 \in 0 .. M /\ M \in 1 .. M /\ M - 1 \in 0 .. Rank
    BY <1>1
  <2>2. Link(tn, s, f[1]) /\ f[1] \in Teams
    BY <1>2, <1>6, <2>1
  <2>3. Tt!Depth(f[1]) + 1 <= M
    BY <2>2 DEF M, NewTeamAt
  <2>4. HasPart(ttTeam, f, 1, M)
    BY <1>1, <1>2, <1>4, <2>1, Part
  <2>5. PICK g : Chain(ttTeam, g, M - 1) /\ g[0] = f[1]
    BY <2>4 DEF HasPart
  <2>6. Tt!Depth(f[1]) \in Nat /\ Tt!Depth(f[1]) >= (M - 1) + 1
    BY <2>1, <2>2, <2>5, Climb
  <2> QED BY <1>1, <2>3, <2>6
<1> QED BY <1>5, <1>6

-----------------------------------------------------------------------------
(* No step makes a chain too long.                                         *)

LEMMA FewerLinks ==
    ASSUME LevelBounds, Shallow(ttTeam),
           \A s \in Teams : ttTeam'[s].st = "open" =>
               /\ ttTeam[s].st = "open" /\ ttTeam'[s].coord = ttTeam[s].coord
               /\ ttTeam'[s].workers \subseteq ttTeam[s].workers
    PROVE  Shallow(ttTeam')
<1>1. NoNewLinks(ttTeam, ttTeam')
  BY DEF Link, IsOpenIn, NoNewLinks
<1> QED BY <1>1, ShrinkShallow DEF LevelBounds, TreeBounds

LEMMA ShallowCreate ==
    ASSUME LevelBounds, TreeInv, Shallow(ttTeam), NEW c \in Channels, NEW n \in Names,
           Tt!CreateTeam(c, n)
    PROVE  Shallow(ttTeam')
<1>1. PICK s \in Teams : Tt!IsNext(s) /\ ttTeam' = [ttTeam EXCEPT ![s] = Tt!Created(c, n, FALSE)]
  BY DEF Tt!CreateTeam
<1>2. ttTeam'[s] = Tt!Created(c, n, FALSE) /\ \A r \in Teams : r # s => ttTeam'[r] = ttTeam[r]
  BY <1>1, Parts DEF TeamsSound, TeamTyped
<1>3. ttTeam'[s].coord = c /\ ttTeam'[s].workers = {}
  BY <1>2 DEF Tt!Created, Tt!NoTeam
<1>4. \A r \in Teams : Link(ttTeam', s, r) => Tt!Depth(r) + 1 <= MaxDepth
  <2>1. \A r \in Teams : Link(ttTeam', s, r) => r \in Tt!Parents(c)
    BY <1>2, <1>3, OwnTeam DEF Link, IsOpenIn, IsOpen
  <2> QED BY <2>1 DEF Tt!CreateTeam, Tt!MayCreate
<1>5. /\ \A a, r \in Teams : a # s /\ r # s /\ Link(ttTeam', a, r) => Link(ttTeam, a, r)
      /\ \A a \in Teams : ~Link(ttTeam', a, s)
  BY <1>2, <1>3 DEF Link, IsOpenIn
<1>6. NewTeamAt(ttTeam', s)
  BY <1>4, <1>5 DEF NewTeamAt
<1> QED BY <1>6, CreatedShallow

LEMMA ShallowJoin ==
    ASSUME LevelBounds, TreeInv, Shallow(ttTeam), NEW t \in Teams, NEW c \in Channels, Tt!Join(t, c)
    PROVE  Shallow(ttTeam')
<1>1. ttTeam' = [ttTeam EXCEPT ![t].workers = @ \cup {c}] /\ Tt!MayPlace(t, c)
  BY DEF Tt!Join, Tt!MayAdd
<1>2. /\ \A s \in Teams : /\ ttTeam'[s].st = ttTeam[s].st /\ ttTeam'[s].coord = ttTeam[s].coord
                          /\ s # t => ttTeam'[s].workers = ttTeam[s].workers
      /\ ttTeam'[t].workers = ttTeam[t].workers \cup {c}
  BY <1>1, Parts DEF TeamsSound, TeamTyped, TeamType
<1>3. NewLinksOver(ttTeam', t, c)
  BY <1>2 DEF Link, IsOpenIn, IsOpen, NewLinksOver
<1> QED BY <1>1, <1>3, JoinShallow

\* The channel an automation creates leads no team yet, so joining adds no link.
LEMMA ShallowBind ==
    ASSUME LevelBounds, TreeInv, Shallow(ttTeam), NEW k \in Keys, NEW work \in Work \cup {None},
           Tt!Bind(k, work)
    PROVE  Shallow(ttTeam')
<1> DEFINE t == ttAuto[k].team
           sub == ttAuto[k].sub
           joined == Tt!Committed(k, t)
<1>1. /\ t \in Teams /\ Tt!Parents(k) = {} /\ Tt!Own(k) = {}
      /\ sub = None => ttTeam' = joined
      /\ sub # None => /\ Tt!Depth(t) + 1 <= MaxDepth
                       /\ \E s \in Teams : /\ Tt!IsNext(s)
                                           /\ ttTeam' = [joined EXCEPT ![s] = Tt!Created(k, sub, ttTeam[t].auto)]
  BY OpenTeams DEF Tt!Bind
<1>2. k \in Channels /\ sub \in Names \cup {None} /\ ttTeam[t].auto \in BOOLEAN /\ TeamTyped /\ TreeBounds
  BY <1>1, Parts DEF LevelBounds, TreeBounds, TeamsSound, TeamTyped, AutoTyped, AutoType, TeamType
<1> HIDE DEF sub, t
<1>3. /\ \A s \in Teams : /\ joined[s].st = ttTeam[s].st /\ joined[s].coord = ttTeam[s].coord
                          /\ s # t => joined[s].workers = ttTeam[s].workers
      /\ joined[t].workers = ttTeam[t].workers \cup {k}
      /\ joined = [s \in Teams |-> joined[s]]
  <2> DEFINE freed == Tt!Freed(k, ttTeam)
  <2>1. /\ freed \in [Teams -> TeamType]
        /\ \A s \in Teams : /\ freed[s].st = ttTeam[s].st /\ freed[s].coord = ttTeam[s].coord
                            /\ freed[s].workers = ttTeam[s].workers
    BY <1>2, FreedIs DEF TeamTyped
  <2>2. joined = [freed EXCEPT ![t].workers = @ \cup {k}]
    BY DEF Tt!Committed
  <2> HIDE DEF freed, joined
  <2>3. freed[t] \in TeamType
    BY <1>1, <2>1
  <2>4. /\ joined[t] = [freed[t] EXCEPT !.workers = @ \cup {k}]
        /\ \A s \in Teams : s # t => joined[s] = freed[s]
        /\ joined = [s \in Teams |-> joined[s]]
    BY <1>1, <2>1, <2>2
  <2>5. /\ joined[t].workers = freed[t].workers \cup {k} /\ joined[t].st = freed[t].st
        /\ joined[t].coord = freed[t].coord
    BY <2>3, <2>4 DEF TeamType
  <2> QED BY <1>1, <2>1, <2>4, <2>5
<1> HIDE DEF joined
<1>4. \A s, r \in Teams : IsOpen(s) => ttTeam[s].coord # k
  BY <1>1, OwnTeam
<1>5. NoNewLinks(ttTeam, joined)
  BY <1>1, <1>3, <1>4 DEF Link, IsOpenIn, IsOpen, NoNewLinks
<1>6. CASE sub = None
  BY <1>1, <1>5, <1>6, ShrinkShallow DEF LevelBounds, TreeBounds
<1>7. CASE sub # None
  <2>1. PICK s \in Teams : /\ Tt!IsNext(s)
                           /\ ttTeam' = [joined EXCEPT ![s] = Tt!Created(k, sub, ttTeam[t].auto)]
    BY <1>1, <1>7
  <2>2. /\ ttTeam'[s] = Tt!Created(k, sub, ttTeam[t].auto)
        /\ \A r \in Teams : r # s => ttTeam'[r] = joined[r]
    BY <1>3, <2>1
  <2>3. ttTeam'[s].coord = k /\ ttTeam'[s].workers = {}
    BY <1>2, <1>7, <2>2, NewTeam
  <2>4. \A r \in Teams : Link(ttTeam', s, r) => r = t
    <3>1. \A r \in Teams : IsOpen(r) => k \notin ttTeam[r].workers
      BY <1>1, OwnTeam
    <3> QED BY <1>3, <2>2, <2>3, <3>1 DEF Link, IsOpenIn, IsOpen
  <2>5. /\ \A a, r \in Teams : a # s /\ r # s /\ Link(ttTeam', a, r) => Link(ttTeam, a, r)
        /\ \A a \in Teams : ~Link(ttTeam', a, s)
    BY <1>5, <2>2, <2>3 DEF Link, IsOpenIn, NoNewLinks
  <2>6. NewTeamAt(ttTeam', s)
    BY <1>1, <1>7, <2>4, <2>5 DEF NewTeamAt
  <2> QED BY <2>6, CreatedShallow
<1> QED BY <1>6, <1>7

LEMMA ShallowReserve ==
    ASSUME LevelBounds, TreeInv, Shallow(ttTeam), NEW k \in Keys, NEW t \in Teams,
           NEW sub \in Names \cup {None}, NEW saved \in BOOLEAN, Tt!Reserve(k, t, sub, saved)
    PROVE  Shallow(ttTeam')
<1> DEFINE v == IF sub = None THEN k ELSE sub
<1>1. ttTeam' = [ttTeam EXCEPT ![t].slots[k] = v]
  BY DEF Tt!Reserve
<1> HIDE DEF v
<1>2. ttTeam[t] \in TeamType
  BY Parts DEF TeamsSound, TeamTyped
<1>3. ttTeam' = [ttTeam EXCEPT ![t] = [ttTeam[t] EXCEPT !.slots = [ttTeam[t].slots EXCEPT ![k] = v]]]
  BY <1>1, Parts DEF TeamsSound, TeamTyped
<1>4. \A s \in Teams : /\ ttTeam'[s].st = ttTeam[s].st /\ ttTeam'[s].coord = ttTeam[s].coord
                       /\ ttTeam'[s].workers = ttTeam[s].workers
  BY <1>2, <1>3, Parts DEF TeamsSound, TeamTyped, TeamType
<1> QED BY <1>4, FewerLinks

LEMMA ShallowRolledBack ==
    ASSUME LevelBounds, TreeInv, Shallow(ttTeam), NEW t \in Teams, NEW c \in Channels,
           Tt!JoinRolledBack(t, c) \/ Tt!RemoveWorker(t, c)
    PROVE  Shallow(ttTeam')
<1>1. \E gone : ttTeam' = [ttTeam EXCEPT ![t].workers = @ \ gone]
  BY DEF Tt!JoinRolledBack, Tt!RemoveWorker, Tt!Removed
<1>2. PICK gone : ttTeam' = [ttTeam EXCEPT ![t].workers = @ \ gone]
  BY <1>1
<1>3. \A s \in Teams : /\ ttTeam'[s].st = ttTeam[s].st /\ ttTeam'[s].coord = ttTeam[s].coord
                       /\ ttTeam'[s].workers \subseteq ttTeam[s].workers
  BY <1>2, Parts DEF TeamsSound, TeamTyped, TeamType
<1> QED BY <1>3, FewerLinks

LEMMA ShallowClose ==
    ASSUME LevelBounds, TreeInv, Shallow(ttTeam), NEW t \in Teams, NEW archived \in BOOLEAN,
           Tt!Close(t, archived)
    PROVE  Shallow(ttTeam')
<1>1. /\ ~IsOpen(t)'
      /\ \A s \in Teams \ {t} :
           /\ ttTeam'[s].st = ttTeam[s].st /\ ttTeam'[s].coord = ttTeam[s].coord
           /\ ttTeam'[s].workers \subseteq ttTeam[s].workers
  BY Parts, StepClose DEF LevelBounds
<1> QED BY <1>1, FewerLinks DEF IsOpen

LEMMA ShallowStop ==
    ASSUME LevelBounds, TreeInv, Shallow(ttTeam), NEW k \in Keys, Tt!Stop(k)
    PROVE  Shallow(ttTeam')
<1>1. \A s \in Teams : ttTeam'[s].st = "open" =>
        /\ ttTeam[s].st = "open" /\ ttTeam'[s].coord = ttTeam[s].coord
        /\ ttTeam'[s].workers \subseteq ttTeam[s].workers
  BY Parts, StepStop DEF LevelBounds
<1> QED BY <1>1, FewerLinks

LEMMA SameTeamsShallow ==
    ASSUME Shallow(ttTeam), ttTeam' = ttTeam PROVE Shallow(ttTeam')
  OBVIOUS

LEMMA StepShallow == LevelBounds /\ TreeInv /\ Shallow(ttTeam) /\ [Tt!Next]_(Tt!ttVars) => Shallow(ttTeam)'
<1> SUFFICES ASSUME LevelBounds, TreeInv, Shallow(ttTeam), [Tt!Next]_(Tt!ttVars) PROVE Shallow(ttTeam')
  BY DEF Shallow, Chain, Link, IsOpenIn
<1>0. TreeBounds
  BY DEF LevelBounds
<1>1. CASE UNCHANGED Tt!ttVars
  BY <1>1, SameTeamsShallow DEF Tt!ttVars
<1>2. CASE \/ \E c \in Channels, n \in Names : Tt!CreateTeam(c, n)
           \/ \E t \in Teams, c \in Channels :
                 Tt!Join(t, c) \/ Tt!JoinRolledBack(t, c) \/ Tt!RemoveWorker(t, c)
           \/ \E t \in Teams, archived \in BOOLEAN : Tt!Close(t, archived)
  BY <1>2, ShallowCreate, ShallowJoin, ShallowRolledBack, ShallowClose
<1>3. CASE \E t \in Teams, mode \in Modes : Tt!SetMode(t, mode[1], mode[2])
  BY <1>0, <1>3, Parts, StepMode, FewerLinks
<1>4. CASE \/ \E j \in ttJoin : Tt!JoinReported(j)
           \/ \E c \in Channels : \/ Tt!TurnEnds(c)
                                  \/ \E a \in Actors : Tt!Prompt(c, a)
                                  \/ \E t \in Teams : Tt!Continue(c, t) \/ Tt!Renew(c, t)
  <2>1. ttTeam' = ttTeam
    BY <1>4 DEF Tt!JoinReported, Tt!TurnEnds, Tt!Prompt, Tt!Continue, Tt!Renew
  <2> QED BY <2>1, SameTeamsShallow
<1>5. CASE \/ \E t \in Teams, k \in Work, c \in Channels, asked \in {"any", "standing", "exclusive"} :
                 Tt!Send(t, k, c, asked)
           \/ \E k \in Work : Tt!Dispatch(k) \/ Tt!Undelivered(k) \/ Tt!Message(k) \/ Tt!Acknowledge(k)
                              \/ Tt!End(k)
           \/ Tt!Repair
  <2>1. ttTeam' = ttTeam
    BY <1>5 DEF Tt!Send, Tt!Dispatch, Tt!Undelivered, Tt!Message, Tt!Acknowledge, Tt!End, Tt!Repair
  <2> QED BY <2>1, SameTeamsShallow
<1>6. CASE \E k \in Keys, t \in Teams, sub \in Names \cup {None}, saved \in BOOLEAN :
              Tt!Reserve(k, t, sub, saved)
  BY <1>6, ShallowReserve
<1>7. CASE \E k \in Keys : Tt!Stop(k) \/ \E work \in Work \cup {None} : Tt!Bind(k, work)
  BY <1>7, ShallowStop, ShallowBind
<1>8. CASE \E k \in Keys, definitive \in BOOLEAN : Tt!CreationFails(k, definitive)
  BY <1>0, <1>8, Parts, StepFails, FewerLinks
<1>9. CASE Tt!Restart
  BY <1>0, <1>9, Parts, StepRestart, FewerLinks
<1>10. CASE \/ \E t \in Teams, r \in Wakes : Tt!Schedule(t, r)
            \/ \E r \in Wakes : Tt!Unschedule(r)
            \/ \E t \in Teams, due, again \in SUBSET Wakes : Tt!Fire(t, due, again)
  <2>1. ttTeam' = ttTeam
    BY <1>10 DEF Tt!Schedule, Tt!Unschedule, Tt!Fire
  <2> QED BY <2>1, SameTeamsShallow
<1> QED BY <1>1, <1>2, <1>3, <1>4, <1>5, <1>6, <1>7, <1>8, <1>9, <1>10 DEF Tt!Next

LEMMA InitShallow == LevelBounds /\ Tt!Init => Shallow(ttTeam)
<1> SUFFICES ASSUME LevelBounds, Tt!Init, NEW f, Chain(ttTeam, f, MaxDepth) PROVE FALSE
  BY DEF Shallow
<1>1. 0 \in 0 .. MaxDepth - 1 /\ 0 \in 0 .. MaxDepth
  BY LevelsAre
<1>2. f[0] \in Teams /\ ttTeam[f[0]].st = "open"
  BY <1>1 DEF Chain, Link, IsOpenIn
<1> QED BY <1>2 DEF Tt!Init, Tt!NoTeam

LEMMA ShallowIsForest == LevelBounds /\ TreeInv /\ Shallow(ttTeam) => Tt!Forest
<1> SUFFICES ASSUME LevelBounds, TreeInv, Shallow(ttTeam) PROVE Tt!Forest
  OBVIOUS
<1>1. ASSUME NEW S, \A s, t \in S : s = t PROVE Tt!Cardinality(S) <= 1
  <2>1. CASE S = {}
    BY <2>1, FS_EmptySet, SameCount
  <2>2. CASE S # {}
    <3>1. PICK s \in S : TRUE
      BY <2>2
    <3>2. S = {s}
      BY <1>1, <3>1
    <3> QED BY <3>2, FS_Singleton, SameCount
  <2> QED BY <2>1, <2>2
<1>2. \A c \in Channels : Tt!Cardinality(Tt!Own(c)) <= 1 /\ Tt!Cardinality(Tt!Parents(c)) <= 1
  BY <1>1, OneTeamIs DEF OneTeam
<1>3. ASSUME NEW f \in [0 .. MaxDepth -> Tt!Open],
             \A n \in 0 .. MaxDepth - 1 : ttTeam[f[n]].coord \in ttTeam[f[n + 1]].workers
      PROVE  Chain(ttTeam, f, MaxDepth)
  <2>1. f \in [0 .. MaxDepth -> Teams] /\ \A n \in 0 .. MaxDepth : IsOpen(f[n])
    BY OpenTeams
  <2>2. \A n \in 0 .. MaxDepth - 1 : n \in 0 .. MaxDepth /\ n + 1 \in 0 .. MaxDepth
    BY LevelsAre
  <2> QED BY <1>3, <2>1, <2>2 DEF Chain, Link, IsOpen, IsOpenIn
<1> QED BY <1>2, <1>3 DEF Tt!Forest, Shallow

\* The open teams form a forest of at most TEAM_MAX_DEPTH levels, for any number of teams:
\* no chain of coordinators is longer or closes on itself, whether it grew from a command,
\* the picker or an automation that creates a sub-team (createTeam, assertWorkerPlacement,
\* reserveAutomaticTeamWorker, commitTeamWorkerReservation).
THEOREM ForestHolds == LevelBounds => (Tt!Spec => []Tt!Forest)
<1> SUFFICES ASSUME LevelBounds PROVE Tt!Spec => []Tt!Forest
  OBVIOUS
<1>0. TreeBounds
  BY DEF LevelBounds
<1>1. Tt!Spec => [](TreeInv /\ Shallow(ttTeam))
  <2>1. Tt!Init => TreeInv /\ Shallow(ttTeam)
    BY <1>0, InitTree, InitShallow
  <2>2. TreeInv /\ Shallow(ttTeam) /\ [Tt!Next]_(Tt!ttVars) => (TreeInv /\ Shallow(ttTeam))'
    BY <1>0, StepTree, StepShallow
  <2> QED BY <2>1, <2>2, PTL DEF Tt!Spec
<1> QED BY <1>1, ShallowIsForest, PTL
=============================================================================
