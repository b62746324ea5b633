-------------------------- MODULE AccountHandover --------------------------
(***************************************************************************)
(* The move of live sessions from one account to another: the journaled    *)
(* request (switchAccount of account-pool-runtime.mjs), the restart of the *)
(* provider under a maintenance fence (restartSessionWithMutation of       *)
(* daemon.mjs), the checkpoint of a held task (account-task-               *)
(* maintenance.mjs), recovery after a restart of the daemon, and the       *)
(* owner's reconciliation of an uncertain handover.                        *)
(*                                                                         *)
(* A step is the code between two awaits.  The journal is saved at each    *)
(* phase, so a crash forgets only the flights.  The session and its        *)
(* replacement keep one native id and one channel; all sessions belong to  *)
(* one provider.  Credentials, capacity and panes are the outcome of a     *)
(* check; a move the capacity rules suggest is any move.                   *)
(***************************************************************************)
EXTENDS Naturals, FiniteSets

CONSTANTS
    Channels,    \* channels, each with one session
    Accounts,    \* accounts of the group
    Requests,    \* request identities
    None,        \* no account, no request
    MaxTask,     \* changes of a task's journal
    Restarts     \* BOOLEAN: the daemon may be restarted

ASSUME HandoverAssumption == MaxTask \in Nat /\ None \notin Requests

VARIABLES
    xSess,    \* per channel: the saved account, and whether session.pid is set
    xProc,    \* per channel: the account the live process was started with, or None
    xTurn,    \* per channel: the native turn: idle, busy, or ended at a usage limit
    xTask,    \* per channel: the held task and the revision of its journal
    xRec,     \* receipts: the journal of each request
    xLast,    \* state.accountPools.switches: per channel the last request
    xFlight,  \* per channel: what this process is doing (switching, in memory)
    xKills,   \* per request: processes torn down for it (history)
    xClosed   \* per channel: the owner closed the team (history)

vars == <<xSess, xProc, xTurn, xTask, xRec, xLast, xFlight, xKills, xClosed>>

Request == [to : Accounts, auto : BOOLEAN, limit : BOOLEAN, preserve : BOOLEAN]
Phase == {"prepared", "restarting", "selected", "rejected", "committed", "interrupted",
          "reconciled"}
Idle == [at |-> "off"]

\* The journal of a request; what this process is doing for a channel: the await of a
\* switch, of the proof of a usage limit, or of the reconciliation of an uncertain handover
Journals == [phase : Phase, ch : Channels, to : Accounts, auto : BOOLEAN, limit : BOOLEAN,
             task : BOOLEAN, ver : 0..MaxTask]
Moving == {"dormant", "credential", "preflight", "last", "stopped", "starting", "verify"}
Move == [at : Moving, req : Requests, auto : BOOLEAN, current : BOOLEAN]
Inspect == [at : {"proof"}, req : Requests, auto : BOOLEAN, current : BOOLEAN, from : Accounts,
            j : Journals]
Check == [at : {"adopt", "certify"}, req : Requests, current : BOOLEAN]

TypeOK ==
    /\ xSess \in [Channels -> [acct : Accounts, pid : BOOLEAN]]
    /\ xProc \in [Channels -> Accounts \cup {None}]
    /\ xTurn \in [Channels -> {"idle", "busy", "limit"}]
    /\ xTask \in [Channels -> [st : {"none", "running", "reported"}, ver : 0..MaxTask]]
    /\ xRec \in [Requests -> Journals \cup {[phase |-> "none"]}]
    /\ xLast \in [Channels -> Requests \cup {None}]
    /\ xFlight \in [Channels -> {Idle} \cup Move \cup Inspect \cup Check]
    /\ xKills \in [Requests -> Nat]
    /\ xClosed \in [Channels -> BOOLEAN]

Init ==
    /\ \E a \in Accounts :
          /\ xSess = [c \in Channels |-> [acct |-> a, pid |-> TRUE]]
          /\ xProc = [c \in Channels |-> a]
    /\ xTurn = [c \in Channels |-> "idle"]
    /\ xTask \in [Channels -> [st : {"none", "running", "reported"}, ver : {0}]]
    /\ xRec = [r \in Requests |-> [phase |-> "none"]]
    /\ xLast = [c \in Channels |-> None]
    /\ xFlight = [c \in Channels |-> Idle]
    /\ xKills = [r \in Requests |-> 0]
    /\ xClosed = [c \in Channels |-> FALSE]

-----------------------------------------------------------------------------
(* The journal.                                                            *)

Set(f, c, v) == [f EXCEPT ![c] = v]
PhaseOf(c) == IF xLast[c] = None THEN "none" ELSE xRec[xLast[c]].phase
Uncertain == {"prepared", "restarting", "interrupted"}
WithPhase(r, p) == [xRec EXCEPT ![r].phase = p]
Bound(c) == xSess[c].pid /\ xProc[c] # None

\* Mutant: an uncertain handover does not own the task
Holding_Live == {"prepared", "restarting"}

\* taskMaintenancePending: the handover owns the task until it settles
Holding == Uncertain
Held(c) == PhaseOf(c) \in Holding /\ xRec[xLast[c]].task

\* captureTaskMaintenance and captureUsageLimitTaskMaintenance, taken again and compared
Unchanged(c, j) ==
    j.task => /\ xTask[c].st \in (IF j.limit THEN {"running", "reported"} ELSE {"reported"})
              /\ xTask[c].ver = j.ver

\* accountPoolBlockReason, and usageLimitBlockReason for a measured usage limit:
\* null when the surface is at rest and nothing but the journaled task is held
MayMove(c, j) ==
    /\ Bound(c) /\ Unchanged(c, j)
    /\ xTurn[c] \in (IF j.limit THEN {"idle", "limit"} ELSE {"idle"})
    /\ ~j.task => xTask[c].st = "none"

\* usageLimitHalt: an automatic move at a usage limit ended uncertain
HaltsBy(c) == PhaseOf(c) = "interrupted" /\ xRec[xLast[c]].limit /\ xRec[xLast[c]].auto
Halted == \E c \in Channels : HaltsBy(c)

\* Mutant: recovery knows one of the two pending phases
Stale_Prepared(r) == xRec[r].phase = "prepared" /\ xFlight[xRec[r].ch] = Idle

\* A journal that no flight of this process owns
Stale(r) == xRec[r].phase \in {"prepared", "restarting"} /\ xFlight[xRec[r].ch] = Idle

\* Mutant: an uncertain request may be repeated
Fresh_Retry(r) == xRec[r].phase \in {"none", "interrupted"}

\* The receipt makes a request run once (a UUID for an automatic one)
Fresh(r) == xRec[r].phase = "none"

\* Requests are numbered in the order they are made
NextRequest(r) == \A s \in Requests :
    s < r => xRec[s].phase # "none" \/ \E c \in Channels : xFlight[c] # Idle /\ xFlight[c].req = s

-----------------------------------------------------------------------------
(* The request.                                                            *)

Journal(c, q) ==
    [phase |-> "prepared", ch |-> c, to |-> q.to, auto |-> q.auto, limit |-> q.limit,
     task |-> xTask[c].st # "none", ver |-> xTask[c].ver]

\* tick: it recovers first, moves one session after the other, passes an uncertain
\* channel by, and stops at a halt if its reason is a usage limit
Recovered == \A r \in Requests : ~Stale(r)
InTick(c) == xFlight[c].at \notin {"off", "adopt", "certify"} /\ xFlight[c].auto
TickMay(c, q) ==
    /\ Recovered /\ \A d \in Channels : ~InTick(d)
    /\ xSess[c].pid /\ PhaseOf(c) # "interrupted" /\ ~(q.limit /\ Halted)

Admissible(c, q) ==
    /\ ~(q.preserve /\ (q.auto \/ q.limit))
    /\ q.auto => TickMay(c, q)
    /\ ~(xSess[c].acct = q.to /\ PhaseOf(c) # "interrupted")

Prepare(c, r, j, stage) ==
    /\ xRec' = Set(xRec, r, j) /\ xLast' = Set(xLast, c, r)
    /\ xFlight' = Set(xFlight, c, [at |-> stage, req |-> r, auto |-> j.auto, current |-> TRUE])

\* switchAccount up to its first await, for an ordinary or a preserving switch.
\* The owner may correct the selection of a dormant session.
Switch(c, r, q) ==
    LET j == Journal(c, q) IN
    /\ xFlight[c] = Idle /\ Fresh(r) /\ Admissible(c, q) /\ ~q.limit
    /\ q.preserve = j.task
    /\ \/ MayMove(c, j) /\ Prepare(c, r, j, "credential")
       \/ /\ ~Bound(c) /\ ~j.task
          /\ Prepare(c, r, j, IF q.auto THEN "credential" ELSE "dormant")
    /\ UNCHANGED <<xSess, xProc, xTurn, xTask, xKills, xClosed>>

\* A usage limit: the channel is held while the daemon inspects the pane
LimitSwitch(c, r, q) ==
    /\ xFlight[c] = Idle /\ Fresh(r) /\ Admissible(c, q) /\ q.limit
    /\ q.auto \/ xTurn[c] = "limit"
    /\ xFlight' = Set(xFlight, c, [at |-> "proof", req |-> r, auto |-> q.auto, current |-> TRUE,
                                   from |-> xSess[c].acct, j |-> Journal(c, q)])
    /\ UNCHANGED <<xSess, xProc, xTurn, xTask, xRec, xLast, xKills, xClosed>>

LimitProved(c) ==
    LET f == xFlight[c] IN
    /\ f.at = "proof"
    /\ IF MayMove(c, f.j) /\ Fresh(f.req) /\ f.from = xSess[c].acct /\ f.current
       THEN Prepare(c, f.req, f.j, "credential")
       ELSE xFlight' = Set(xFlight, c, Idle) /\ UNCHANGED <<xRec, xLast>>
    /\ UNCHANGED <<xSess, xProc, xTurn, xTask, xKills, xClosed>>

\* The catch of switchAccount
Ended(c, phase) ==
    /\ xRec' = WithPhase(xFlight[c].req, phase)
    /\ xFlight' = Set(xFlight, c, Idle)

\* An explicit saved intent, without a launch
Selected(c) ==
    LET r == xFlight[c].req IN
    /\ xFlight[c].at = "dormant"
    /\ IF xProc[c] = None /\ xFlight[c].current
       THEN Ended(c, "selected") /\ xSess' = [xSess EXCEPT ![c].acct = xRec[r].to]
       ELSE Ended(c, "rejected") /\ UNCHANGED xSess
    /\ UNCHANGED <<xProc, xTurn, xTask, xLast, xKills, xClosed>>

\* verifyIdentity of the target's credential; then the restart is journaled
CredentialChecked(c) ==
    LET r == xFlight[c].req IN
    /\ xFlight[c].at = "credential"
    /\ \/ Ended(c, "rejected")
       \/ /\ Unchanged(c, xRec[r])
          /\ xRec' = WithPhase(r, "restarting")
          /\ xFlight' = [xFlight EXCEPT ![c].at = "preflight"]
    /\ UNCHANGED <<xSess, xProc, xTurn, xTask, xLast, xKills, xClosed>>

-----------------------------------------------------------------------------
(* The restart.                                                            *)

\* mutate and stopReservedSession: the new account is saved, the process killed
TearDown(c) ==
    LET r == xFlight[c].req IN
    IF ~xFlight[c].current
    THEN Ended(c, "rejected") /\ UNCHANGED <<xSess, xProc, xTurn, xKills>>
    ELSE /\ xSess' = Set(xSess, c, [acct |-> xRec[r].to, pid |-> FALSE])
         /\ xProc' = Set(xProc, c, None) /\ xTurn' = Set(xTurn, c, "idle")
         /\ xKills' = [xKills EXCEPT ![r] = @ + 1]
         /\ xFlight' = [xFlight EXCEPT ![c].at = "stopped"] /\ UNCHANGED xRec

\* beforeMutation: the idle and authority proof.  A failed one tears nothing down;
\* a held task or a usage limit has one more look at the process tree.
Preflight(c) ==
    LET j == xRec[xFlight[c].req] IN
    /\ xFlight[c].at = "preflight"
    /\ \/ Ended(c, "rejected") /\ UNCHANGED <<xSess, xProc, xTurn, xKills>>
       \/ /\ MayMove(c, j)
          /\ IF j.limit \/ j.task
             THEN /\ xFlight' = [xFlight EXCEPT ![c].at = "last"]
                  /\ UNCHANGED <<xSess, xProc, xTurn, xRec, xKills>>
             ELSE TearDown(c)
    /\ UNCHANGED <<xTask, xLast, xClosed>>

Stopped(c) ==
    /\ xFlight[c].at = "last"
    /\ \/ Ended(c, "rejected") /\ UNCHANGED <<xSess, xProc, xTurn, xKills>>
       \/ TearDown(c)
    /\ UNCHANGED <<xTask, xLast, xClosed>>

\* resurrect: the replacement starts on the saved account, or does not
Spawned(c) ==
    /\ xFlight[c].at = "stopped"
    /\ \/ Ended(c, "interrupted") /\ UNCHANGED xProc
       \/ /\ xProc' = Set(xProc, c, xSess[c].acct) /\ UNCHANGED xRec
          /\ xFlight' = [xFlight EXCEPT ![c].at = "starting"]
    /\ UNCHANGED <<xSess, xTurn, xTask, xLast, xKills, xClosed>>

\* Its SessionStart binds the process; the checks that follow resurrect
Started(c) ==
    LET r == xFlight[c].req IN
    /\ xFlight[c].at = "starting"
    /\ \/ Ended(c, "interrupted") /\ xProc' = Set(xProc, c, None) /\ UNCHANGED xSess
       \/ /\ xProc[c] # None /\ UNCHANGED xProc
          /\ xSess' = [xSess EXCEPT ![c].pid = TRUE]
          /\ IF xFlight[c].current
             THEN xFlight' = [xFlight EXCEPT ![c].at = "verify"] /\ UNCHANGED xRec
             ELSE Ended(c, "interrupted")
    /\ UNCHANGED <<xTurn, xTask, xLast, xKills, xClosed>>

\* Mutant: the account of the replacement is not compared
OnTarget_Any(c, j) == TRUE

\* verifyIdentity of the replacement, and the commit
OnTarget(c, j) == xSess[c].acct = j.to

Verified(c) ==
    /\ xFlight[c].at = "verify"
    /\ \/ Ended(c, "interrupted")
       \/ /\ Bound(c) /\ OnTarget(c, xRec[xFlight[c].req]) /\ Unchanged(c, xRec[xFlight[c].req])
          /\ xFlight[c].current /\ Ended(c, "committed")
    /\ UNCHANGED <<xSess, xProc, xTurn, xTask, xLast, xKills, xClosed>>

-----------------------------------------------------------------------------
(* Recovery and reconciliation.                                            *)

\* recover, at boot and at the start of every tick
Recover ==
    /\ ~Recovered /\ \A c \in Channels : ~InTick(c)
    /\ xRec' = [r \in Requests |->
          IF Stale(r) THEN [xRec[r] EXCEPT !.phase = "interrupted"] ELSE xRec[r]]
    /\ UNCHANGED <<xSess, xProc, xTurn, xTask, xLast, xFlight, xKills, xClosed>>

\* The owner asks to verify the uncertain handover; nothing is launched
Reconcile(c) ==
    /\ xFlight[c] = Idle /\ PhaseOf(c) = "interrupted"
    /\ xFlight' = Set(xFlight, c, [at |-> IF xSess[c].pid THEN "certify" ELSE "adopt",
                                   req |-> xLast[c], current |-> TRUE])
    /\ UNCHANGED <<xSess, xProc, xTurn, xTask, xRec, xLast, xKills, xClosed>>

\* adoptLostReplacement
Adopted(c) ==
    /\ xFlight[c].at = "adopt"
    /\ IF xProc[c] # None
       THEN /\ xSess' = [xSess EXCEPT ![c].pid = TRUE]
            /\ xFlight' = [xFlight EXCEPT ![c].at = "certify"]
       ELSE xFlight' = Set(xFlight, c, Idle) /\ UNCHANGED xSess
    /\ UNCHANGED <<xProc, xTurn, xTask, xRec, xLast, xKills, xClosed>>

Certified(c) ==
    LET f == xFlight[c] IN
    /\ f.at = "certify"
    /\ \/ /\ MayMove(c, xRec[f.req]) /\ OnTarget(c, xRec[f.req]) /\ f.current
          /\ Ended(c, "reconciled")
       \/ xFlight' = Set(xFlight, c, Idle) /\ UNCHANGED xRec
    /\ UNCHANGED <<xSess, xProc, xTurn, xTask, xLast, xKills, xClosed>>

-----------------------------------------------------------------------------
(* The session, its task and the daemon.                                   *)

\* assertInputAllowed, and the maintenance fence of the restart
InputAllowed(c) == PhaseOf(c) \notin Uncertain

\* A prompt of the channel, or of a person at the terminal, whom no fence stops
TurnBegins(c) ==
    /\ Bound(c) /\ xTurn[c] # "busy"
    /\ xTurn' = Set(xTurn, c, "busy")
    /\ UNCHANGED <<xSess, xProc, xTask, xRec, xLast, xFlight, xKills, xClosed>>

TurnEnds(c) ==
    /\ xTurn[c] = "busy" /\ \E t \in {"idle", "limit"} : xTurn' = Set(xTurn, c, t)
    /\ UNCHANGED <<xSess, xProc, xTask, xRec, xLast, xFlight, xKills, xClosed>>

\* Reports, replies, messages and completion of the task (requireNoAccountMaintenance)
TaskMoves(c) ==
    /\ xTask[c].st # "none" /\ xTask[c].ver < MaxTask /\ ~Held(c)
    /\ \E s \in {"running", "reported"} :
          xTask' = Set(xTask, c, [st |-> s, ver |-> xTask[c].ver + 1])
    /\ UNCHANGED <<xSess, xProc, xTurn, xRec, xLast, xFlight, xKills, xClosed>>

\* A task is dispatched to the session (teamTargetBusyReasons)
TaskBegins(c) ==
    /\ xTask[c].st = "none" /\ xTask[c].ver < MaxTask /\ ~xClosed[c] /\ InputAllowed(c)
    /\ xTask' = Set(xTask, c, [st |-> "running", ver |-> xTask[c].ver + 1])
    /\ UNCHANGED <<xSess, xProc, xTurn, xRec, xLast, xFlight, xKills, xClosed>>

\* The coordinator's release, refused while the handover owns the task
Released(c) ==
    /\ xTask[c].st = "reported" /\ ~Held(c)
    /\ xTask' = [xTask EXCEPT ![c].st = "none"]
    /\ UNCHANGED <<xSess, xProc, xTurn, xRec, xLast, xFlight, xKills, xClosed>>

\* closeTeam of the owner asks nobody
TeamCloses(c) ==
    /\ xTask[c].st # "none" /\ xTask' = [xTask EXCEPT ![c].st = "none"]
    /\ ~xClosed[c] /\ xClosed' = Set(xClosed, c, TRUE)
    /\ UNCHANGED <<xSess, xProc, xTurn, xRec, xLast, xFlight, xKills>>

\* The process ends without SAB
Dies(c) ==
    /\ xProc[c] # None /\ xProc' = Set(xProc, c, None) /\ xTurn' = Set(xTurn, c, "idle")
    /\ UNCHANGED <<xSess, xTask, xRec, xLast, xFlight, xKills, xClosed>>

\* Mutant: the failure of a held task counts as a change of its journal
FailedTask_Anyway(c) == [xTask EXCEPT ![c].st = "none", ![c].ver = @ + 1]

\* failTeamTaskForSession keeps a reported task, and one under account maintenance
FailedTask(c) ==
    IF Held(c) \/ xTask[c].st = "reported" THEN xTask ELSE [xTask EXCEPT ![c].st = "none"]

\* The sweep, or the SessionEnd of a process, finds it gone.  While the daemon
\* restarts the session it knows who stopped the process.
Reaped(c) ==
    /\ xProc[c] = None
    /\ \/ xSess[c].pid /\ xFlight[c].at \notin {"preflight", "last", "stopped", "starting"}
       \/ ~xSess[c].pid /\ xTask[c].st = "running" \* a late SessionEnd
    /\ xTask' = FailedTask(c) /\ xSess' = [xSess EXCEPT ![c].pid = FALSE]
    /\ <<xTask', xSess'>> # <<xTask, xSess>>
    /\ UNCHANGED <<xProc, xTurn, xRec, xLast, xFlight, xKills, xClosed>>

\* The SessionStart of a replacement the daemon lost arrives after all
Binds(c) ==
    /\ xProc[c] # None /\ ~xSess[c].pid /\ xFlight[c] = Idle
    /\ xSess' = [xSess EXCEPT ![c].pid = TRUE]
    /\ UNCHANGED <<xProc, xTurn, xTask, xRec, xLast, xFlight, xKills, xClosed>>

\* A message wakes a session without a process, if its input and its launch are
\* allowed.  A replacement the daemon lost is forgotten.
Wakes(c) ==
    /\ ~xSess[c].pid /\ xFlight[c] = Idle /\ InputAllowed(c)
    /\ xProc' = Set(xProc, c, xSess[c].acct) /\ xSess' = [xSess EXCEPT ![c].pid = TRUE]
    /\ UNCHANGED <<xTurn, xTask, xRec, xLast, xFlight, xKills, xClosed>>

RegistryChanges ==
    /\ xFlight' = [c \in Channels |->
          IF xFlight[c] = Idle THEN Idle ELSE [xFlight[c] EXCEPT !.current = FALSE]]
    /\ xFlight' # xFlight
    /\ UNCHANGED <<xSess, xProc, xTurn, xTask, xRec, xLast, xKills, xClosed>>

Crash ==
    /\ Restarts
    /\ xFlight' = [c \in Channels |-> Idle]
    /\ UNCHANGED <<xSess, xProc, xTurn, xTask, xRec, xLast, xKills, xClosed>>

-----------------------------------------------------------------------------
Flies(c) ==
    \/ LimitProved(c) \/ Selected(c) \/ CredentialChecked(c) \/ Preflight(c) \/ Stopped(c)
    \/ Spawned(c) \/ Started(c) \/ Verified(c) \/ Adopted(c) \/ Certified(c)

Next ==
    \/ \E c \in Channels :
          \/ \E r \in {s \in Requests : NextRequest(s)}, q \in Request :
                Switch(c, r, q) \/ LimitSwitch(c, r, q)
          \/ Flies(c) \/ Reconcile(c) \/ TurnBegins(c) \/ TurnEnds(c) \/ TaskBegins(c)
          \/ TaskMoves(c) \/ Released(c) \/ TeamCloses(c)
          \/ Dies(c) \/ Reaped(c) \/ Binds(c) \/ Wakes(c)
    \/ Recover \/ RegistryChanges \/ Crash

Spec == Init /\ [][Next]_vars

\* Every await of a flight has a timeout; tick runs every minute and does not meet an
\* owner's request for the channel every time
Fairness == (\A c \in Channels : WF_vars(Flies(c))) /\ SF_vars(Recover)
FairSpec == Spec /\ Fairness

-----------------------------------------------------------------------------
\* A request tears down at most one process, and none if it was rejected or only
\* saved a selection, through retries and restarts (the receipts of switchAccount).
TornDownOnce == \A r \in Requests :
    /\ xKills[r] <= 1
    /\ xRec[r].phase \in {"prepared", "rejected", "selected"} => xKills[r] = 0

\* After a handover that was committed or reconciled the session runs on the account
\* it says (the checks of switchAccount and reconcile).
SettledRuns == \A c \in Channels :
    PhaseOf(c) \in {"committed", "reconciled"} /\ Bound(c)
        => xProc[c] = xSess[c].acct /\ xSess[c].acct = xRec[xLast[c]].to

\* Both hold at every state of the receipts, the processes and the sessions.
HandoverSound == TornDownOnce /\ SettledRuns

\* While a handover that carries a task is pending or uncertain nothing but the
\* closing of the team touches the task (taskMaintenancePending and its callers).
TaskKept == [][\A c \in Channels :
    PhaseOf(c) \in Uncertain /\ xRec[xLast[c]].task /\ xTask'[c] # xTask[c]
        => xClosed'[c] # xClosed[c]]_vars

\* Every handover settles or is recorded as uncertain (switchAccount, recover).
HandoverEnds == \A r \in Requests :
    xRec[r].phase \in {"prepared", "restarting"}
        ~> xRec[r].phase \notin {"prepared", "restarting"}
=============================================================================
