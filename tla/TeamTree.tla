------------------------------ MODULE TeamTree ------------------------------
(***************************************************************************)
(* Session teams and the authority that flows down them: who coordinates,  *)
(* who works where, the slots an automation reserves while Slack creates   *)
(* its channel, standing tasks and the turns they authorise, and scheduled *)
(* wakes (src/daemon/teams.mjs, team-automation.mjs and the /sab-team,     *)
(* picker, sweep and team API handlers of src/daemon/daemon.mjs).          *)
(*                                                                         *)
(* A channel stands for its one authoritative session; an automation for   *)
(* the channel it creates.  A step is the code between two awaits.  What a *)
(* task goes through while it is bound is the subject of TaskFollowUp and  *)
(* TeamDispatch, how an automation runs that of Automation, and how team   *)
(* events wake a coordinator that of TeamWakes.                            *)
(***************************************************************************)
EXTENDS Naturals, FiniteSets

CONSTANTS
    Channels,     \* the channels, with those the automations create
    Present,      \* the channels that have a session from the start
    Keys,         \* the automations, a subset of the other channels
    Names,        \* team names
    Alias,        \* the alias each channel has as a worker, [Channels -> alias]
    Work,         \* the tasks
    Wakes,        \* request ids of scheduled wakes
    None,
    Actors,       \* bound: whose prompts reach sessions: "owner", "collaborator", "none"
    Modes,        \* bound: the <<auto, drain>> settings the owner gives teams
    MaxOps,       \* bound: commands of the owner and prompts
    Teams,        \* team ids, an interval of numbers from 1
    MaxTeams,     \* bound: teams ever created
    MaxMembers,   \* TEAM_MAX_MEMBERS
    MaxDepth,     \* TEAM_MAX_DEPTH
    MaxFaults     \* bound: Slack posts and saves that fail, and restarts

VARIABLES
    ttTeam,       \* state.teams: st, coord, name, workers, slots (pendingMembers), auto
                  \*   (continuation mode), drain (dispatchMode)
    ttTask,       \* state.teamTasks: st ("none", "queued", "bound", "ended"), team, to,
                  \*   standing
    ttTurn,       \* session.teamTurn: actor, team, source (task), left (remaining)
    ttBusy,       \* sessions whose provider runs a turn
    ttStand, ttExcl,  \* session.teamStandingTaskId, session.teamActiveTaskId
    ttAcks,       \* tasks whose standing prompt may still be acknowledged
    ttLive,       \* channels that have a session
    ttJoin,       \* picker handlers that report a join to both channels
    ttAuto,       \* each automation: where it stands, its team and its sub-team's name
    ttWake,       \* each request: st ("none", "set", "gone"), team, source
    ttEvent,      \* wakes whose continuation event is queued
    ttSlip,       \* history: tasks that a rolled back join cancelled
    ttFaults, ttOps

ttVars == <<ttTeam, ttTask, ttTurn, ttBusy, ttStand, ttExcl, ttAcks, ttLive, ttJoin, ttAuto,
            ttWake, ttEvent, ttSlip, ttFaults, ttOps>>
sessions == <<ttTurn, ttBusy, ttStand, ttExcl, ttAcks>>

Levels == 0 .. Cardinality(Teams)
NoTeam == [st |-> "none", coord |-> None, name |-> None, workers |-> {},
           slots |-> [k \in Channels |-> None], auto |-> FALSE, drain |-> FALSE]
NoTask == [st |-> "none", team |-> 0, to |-> None, standing |-> FALSE]
NoTurn == [actor |-> "none", team |-> 0, source |-> None, left |-> 0]
Turn(actor, t, source) == [actor |-> actor, team |-> t, source |-> source, left |-> 1]

OpenIn(teams) == {t \in Teams : teams[t].st = "open"}
Open == OpenIn(ttTeam)

\* coordinatedTeamForChannel and parentTeamForChannel: at most one team each.
Own(c) == {t \in Open : ttTeam[t].coord = c}
Parents(c) == {t \in Open : c \in ttTeam[t].workers}

\* The teams n levels above t, and n levels below it.
Above(t) == LET up[n \in Levels] ==
                    IF n = 0 THEN {t} ELSE UNION {Parents(ttTeam[s].coord) : s \in up[n - 1]}
            IN  up
Below(t) == LET down[n \in Levels] ==
                    IF n = 0 THEN {t}
                    ELSE UNION {UNION {Own(c) : c \in ttTeam[s].workers} : s \in down[n - 1]}
            IN  down

\* teamDepth, teamHeight and teamAncestors
Depth(t) == LET up == Above(t) IN Cardinality({n \in DOMAIN up : up[n] # {}})
Height(t) == LET down == Below(t) IN Cardinality({n \in DOMAIN down : down[n] # {}})
Ancestors(t) == LET up == Above(t) IN UNION {up[n] : n \in Levels \ {0}}

Active(k) == ttTask[k].st \in {"queued", "bound"}

\* Mutant: only the depth of the worker itself is checked.
MayPlace_NoHeight(t, c) ==
    /\ Parents(c) = {}
    /\ \A own \in Own(c) : /\ own # t /\ own \notin Ancestors(t)
                           /\ Depth(t) + 1 <= MaxDepth

\* assertWorkerPlacement
MayPlace(t, c) ==
    /\ Parents(c) = {}
    /\ \A own \in Own(c) : /\ own # t /\ own \notin Ancestors(t)
                           /\ Depth(t) + Height(own) <= MaxDepth

\* createTeam: its guards.
MayCreate(c, n) ==
    /\ n \notin {ttTeam[t].name : t \in Open}
    /\ Own(c) = {}
    /\ \A p \in Parents(c) :
          /\ Depth(p) + 1 <= MaxDepth
          /\ ~ \E k \in Work : /\ ttTask[k].team = p /\ ttTask[k].to = c
                               /\ Active(k) /\ ~ttTask[k].standing

Created(c, n, auto) == [NoTeam EXCEPT !.st = "open", !.coord = c, !.name = n, !.auto = auto]
IsNext(t) == t <= MaxTeams /\ ttTeam[t].st = "none" /\ \A s \in 1 .. t - 1 : ttTeam[s].st # "none"

\* teamMemberCount and teamAliasTaken, with the slots reserved for automations.
Slots(t) == {k \in Keys : ttTeam[t].slots[k] # None}
HasRoom(t) == 1 + Cardinality(ttTeam[t].workers) + Cardinality(Slots(t)) < MaxMembers
Taken(t) == {Alias[c] : c \in ttTeam[t].workers \cup Slots(t)}

\* addTeamWorker
MayAdd(t, c) ==
    /\ t \in Open /\ c # ttTeam[t].coord
    /\ MayPlace(t, c) /\ HasRoom(t) /\ Alias[c] \notin Taken(t)

-----------------------------------------------------------------------------
\* delegatedTeamTurnValid
DelegatedValid(c, t) ==
    LET turn == ttTurn[c]
    IN  /\ turn.actor = "delegated" /\ turn.team = t /\ turn.source \in Work
        /\ Own(c) = {t}
        /\ ttTask[turn.source].standing /\ Active(turn.source)
        /\ ttTask[turn.source].to = c /\ ttStand[c] = turn.source
        /\ ttTask[turn.source].team \in Parents(c)

\* coordinatorActorAuthorized under coordinatorAuthority
Authorized(c, t) ==
    \/ ttTurn[c].actor = "owner"
    \/ ttTurn[c].actor = "continuation" /\ ttTurn[c].team = t /\ ttTeam[t].auto
    \/ DelegatedValid(c, t)

MayDispatch(c, t) == Authorized(c, t) /\ ttTurn[c].left > 0
Spent(c) == [ttTurn EXCEPT ![c].left = @ - 1]

\* cancelTasks
Cancelled(K) == [k \in Work |-> IF k \in K THEN [ttTask[k] EXCEPT !.st = "ended"] ELSE ttTask[k]]
Between(T, M) == {k \in Work : ttTask[k].team \in T /\ Active(k) /\ ttTask[k].to \in M}

\* Mutant: the turn of a standing task survives it.
Revoke_TurnKept(K, M, teams) ==
    /\ ttStand' = [c \in Channels |-> IF ttStand[c] \in K THEN None ELSE ttStand[c]]
    /\ ttExcl' = [c \in Channels |-> IF ttExcl[c] \in K THEN None ELSE ttExcl[c]]
    /\ ttTurn' = [c \in Channels |->
           IF ttExcl[c] \in K \/ (c \in M /\ ~ \E t \in OpenIn(teams) : teams[t].coord = c)
           THEN NoTurn ELSE ttTurn[c]]
    /\ UNCHANGED <<ttBusy, ttAcks>>

\* revokeCancelledTeamTasks for tasks K, then clearTeamTurnAfterMembershipChange for M.
Revoke(K, M, teams) ==
    /\ ttStand' = [c \in Channels |-> IF ttStand[c] \in K THEN None ELSE ttStand[c]]
    /\ ttExcl' = [c \in Channels |-> IF ttExcl[c] \in K THEN None ELSE ttExcl[c]]
    /\ ttTurn' = [c \in Channels |->
           IF \/ ttStand[c] \in K /\ ttTurn[c].source = ttStand[c]
              \/ ttExcl[c] \in K
              \/ c \in M /\ ~ \E t \in OpenIn(teams) : teams[t].coord = c
           THEN NoTurn ELSE ttTurn[c]]
    /\ UNCHANGED <<ttBusy, ttAcks>>

Removed(t, c) == [ttTeam EXCEPT ![t].workers = @ \ {c}]
Closed(t, teams) == [teams EXCEPT ![t].st = "closed", ![t].slots = [k \in Channels |-> None]]

Init ==
    /\ ttTeam = [t \in Teams |-> NoTeam]
    /\ ttTask = [k \in Work |-> NoTask]
    /\ ttTurn = [c \in Channels |-> NoTurn] /\ ttBusy = {}
    /\ ttStand = [c \in Channels |-> None] /\ ttExcl = [c \in Channels |-> None]
    /\ ttAcks = {} /\ ttLive = Present /\ ttJoin = {}
    /\ ttAuto = [k \in Channels |-> [st |-> "none", team |-> 0, sub |-> None]]
    /\ ttWake = [r \in Wakes |-> [st |-> "none", team |-> 0, source |-> None]]
    /\ ttEvent = {} /\ ttSlip = {} /\ ttFaults = 0 /\ ttOps = 0

-----------------------------------------------------------------------------
Counted == ttOps < MaxOps /\ ttOps' = ttOps + 1

\* What the owner does in Slack.

\* /sab-team create
CreateTeam(c, n) ==
    /\ c \in ttLive /\ MayCreate(c, n)
    /\ \E t \in Teams : IsNext(t) /\ ttTeam' = [ttTeam EXCEPT ![t] = Created(c, n, FALSE)]
    /\ Counted
    /\ UNCHANGED <<ttTask, sessions, ttLive, ttJoin, ttAuto, ttWake, ttEvent, ttSlip, ttFaults>>

\* team_add_channel, up to the two posts that report the join.
Join(t, c) ==
    /\ c \in ttLive /\ MayAdd(t, c)
    /\ ttTeam' = [ttTeam EXCEPT ![t].workers = @ \cup {c}]
    /\ ttJoin' = ttJoin \cup {<<t, c>>}
    /\ Counted
    /\ UNCHANGED <<ttTask, sessions, ttLive, ttAuto, ttWake, ttEvent, ttSlip, ttFaults>>

JoinReported(j) ==
    /\ j \in ttJoin /\ ttJoin' = ttJoin \ {j}
    /\ UNCHANGED <<ttTeam, ttTask, sessions, ttLive, ttAuto, ttWake, ttEvent, ttSlip, ttFaults,
                   ttOps>>

\* A post failed: the membership the alias names by now is removed, its tasks are
\* cancelled, but no session is told.
JoinRolledBack(t, c) ==
    /\ <<t, c>> \in ttJoin /\ ttFaults < MaxFaults
    /\ ttJoin' = ttJoin \ {<<t, c>>} /\ ttFaults' = ttFaults + 1
    /\ LET named == {w \in ttTeam[t].workers : Alias[w] = Alias[c] /\ t \in Open}
           lost == Between({t}, named)
       IN  /\ ttTeam' = [ttTeam EXCEPT ![t].workers = @ \ named]
           /\ ttTask' = Cancelled(lost) /\ ttSlip' = ttSlip \cup lost
    /\ UNCHANGED <<sessions, ttLive, ttAuto, ttWake, ttEvent, ttOps>>

\* /sab-team remove
RemoveWorker(t, c) ==
    /\ t \in Open /\ c \in ttTeam[t].workers
    /\ ttTeam' = Removed(t, c) /\ ttTask' = Cancelled(Between({t}, {c}))
    /\ Revoke(Between({t}, {c}), {c}, ttTeam')
    /\ Counted
    /\ UNCHANGED <<ttLive, ttJoin, ttAuto, ttWake, ttEvent, ttSlip, ttFaults>>

\* /sab-team close; and the sweep that finds the coordinator's channel archived, which
\* also takes the coordinator out of the team above.
Close(t, archived) ==
    LET c == ttTeam[t].coord
        up == IF archived THEN Parents(c) ELSE {}
        lost == Between({t}, Channels) \cup Between(up, {c})
    IN  /\ t \in Open
        /\ ttTeam' = Closed(t, [s \in Teams |->
               IF s \in up THEN [ttTeam[s] EXCEPT !.workers = @ \ {c}] ELSE ttTeam[s]])
        /\ ttTask' = Cancelled(lost)
        /\ Revoke(lost, ttTeam[t].workers \cup {c}, ttTeam')
        /\ Counted
        /\ UNCHANGED <<ttLive, ttJoin, ttAuto, ttWake, ttEvent, ttSlip, ttFaults>>

\* /sab-team auto and manual, which clears the wakes; /sab-team drain and resume
SetMode(t, auto, drain) ==
    /\ t \in Open
    /\ ttTeam' = [ttTeam EXCEPT ![t].auto = auto, ![t].drain = drain]
    /\ ttWake' = [r \in Wakes |-> IF ttTeam[t].auto /\ ~auto /\ ttWake[r].team = t
                                  THEN [ttWake[r] EXCEPT !.st = "gone"] ELSE ttWake[r]]
    /\ Counted
    /\ UNCHANGED <<ttTask, sessions, ttLive, ttJoin, ttAuto, ttEvent, ttSlip, ttFaults>>

-----------------------------------------------------------------------------
\* Turns of the sessions.

\* A prompt from Slack, also into a running turn: beginSlackTeamTurn.  One from the
\* terminal or another session carries no authority (revoke_turn).
Prompt(c, actor) ==
    /\ c \in ttLive
    /\ ttBusy' = ttBusy \cup {c}
    /\ ttTurn' = [ttTurn EXCEPT ![c] =
           IF actor = "none" \/ Own(c) \cup Parents(c) = {} THEN NoTurn
           ELSE [Turn(actor, 0, None) EXCEPT !.left = IF actor = "owner" THEN 1 ELSE 0]]
    /\ Counted
    /\ UNCHANGED <<ttTeam, ttTask, ttStand, ttExcl, ttAcks, ttLive, ttJoin, ttAuto, ttWake,
                   ttEvent, ttSlip, ttFaults>>

\* An automatic turn of an idle coordinator, for a queued wake or a worker's event.
Continue(c, t) ==
    /\ c \in ttLive \ ttBusy /\ ttTurn[c] = NoTurn /\ ttExcl[c] = None
    /\ t \in Own(c) /\ ttTeam[t].auto /\ ~ttTeam[t].drain
    /\ ttTurn' = [ttTurn EXCEPT ![c] = Turn("continuation", t, None)]
    /\ ttBusy' = ttBusy \cup {c}
    /\ ttEvent' = {r \in ttEvent : ttWake[r].team # t}
    /\ UNCHANGED <<ttTeam, ttTask, ttStand, ttExcl, ttAcks, ttLive, ttJoin, ttAuto, ttWake,
                   ttSlip, ttFaults, ttOps>>

\* claimContinuationDispatchAuthority: a worker's event renews a spent turn.
Renew(c, t) ==
    /\ c \in ttBusy /\ t \in Own(c) /\ ttTeam[t].auto
    /\ \/ ttTurn[c].actor = "owner"
       \/ ttTurn[c].actor \in {"continuation", "delegated"} /\ ttTurn[c].team = t
    /\ ttTurn[c].left = 0
    /\ ttTurn' = [ttTurn EXCEPT ![c] = Turn("continuation", t, None)]
    /\ UNCHANGED <<ttTeam, ttTask, ttBusy, ttStand, ttExcl, ttAcks, ttLive, ttJoin, ttAuto,
                   ttWake, ttEvent, ttSlip, ttFaults, ttOps>>

TurnEnds(c) ==
    /\ c \in ttBusy /\ ttBusy' = ttBusy \ {c}
    /\ ttTurn' = [ttTurn EXCEPT ![c] = NoTurn]
    /\ UNCHANGED <<ttTeam, ttTask, ttStand, ttExcl, ttAcks, ttLive, ttJoin, ttAuto, ttWake,
                   ttEvent, ttSlip, ttFaults, ttOps>>

-----------------------------------------------------------------------------
\* Tasks.

\* createTeamTask: the reservation that was asked for, or the one the worker's role gives.
Assigned(t, k, c, asked) ==
    /\ t \in Open /\ c \in ttTeam[t].workers /\ ttTask[k].st = "none"
    /\ asked = "exclusive" => Own(c) = {}
    /\ LET standing == asked = "standing" \/ Own(c) # {}
       IN  /\ standing => ~ \E j \in Between({t}, {c}) : ttTask[j].standing
           /\ ttTask' = [ttTask EXCEPT ![k] = [st |-> "queued", team |-> t, to |-> c,
                                               standing |-> standing]]

Send(t, k, c, asked) ==
    LET from == ttTeam[t].coord
    IN  /\ t \in Open /\ from \in ttBusy /\ MayDispatch(from, t)
        /\ Assigned(t, k, c, asked)
        /\ ttTurn' = Spent(from)
        /\ UNCHANGED <<ttTeam, ttBusy, ttStand, ttExcl, ttAcks, ttLive, ttJoin, ttAuto, ttWake,
                       ttEvent, ttSlip, ttFaults, ttOps>>

\* What a prompt of task k that SAB submits to the session of c starts.
Carried(c, k) == IF Own(c) = {} \/ ~ttTask[k].standing THEN NoTurn
                 ELSE Turn("delegated", CHOOSE t \in Own(c) : TRUE, k)

\* dispatchTeamTask: the claim and the turn it carries.
Dispatch(k) ==
    LET c == ttTask[k].to
        t == ttTask[k].team
    IN  /\ ttTask[k].st = "queued" /\ c \in ttLive \ ttBusy
        /\ t \in Open /\ ~ttTeam[t].drain
        /\ ~ \E j \in Work : ttTask[j].st = "bound" /\ ttTask[j].to = c
        /\ ttStand[c] \in {None, k} /\ ttExcl[c] \in {None, k}
        /\ ttTask' = [ttTask EXCEPT ![k].st = "bound"]
        /\ IF ttTask[k].standing
           THEN ttStand' = [ttStand EXCEPT ![c] = k] /\ UNCHANGED ttExcl
           ELSE ttExcl' = [ttExcl EXCEPT ![c] = k] /\ UNCHANGED ttStand
        /\ ttTurn' = [ttTurn EXCEPT ![c] = Carried(c, k)]
        /\ ttBusy' = ttBusy \cup {c} /\ ttAcks' = ttAcks \cup {k}
        /\ UNCHANGED <<ttTeam, ttLive, ttJoin, ttAuto, ttWake, ttEvent, ttSlip, ttFaults, ttOps>>

\* The surface refused the prompt: the task fails, and its turn never was.
Undelivered(k) ==
    LET c == ttTask[k].to
    IN  /\ ttTask[k].st = "bound" /\ k \in ttAcks /\ ttFaults < MaxFaults
        /\ ttFaults' = ttFaults + 1
        /\ ttTask' = Cancelled({k}) /\ ttAcks' = ttAcks \ {k}
        /\ IF ttTask[k].standing
           THEN ttStand' = [ttStand EXCEPT ![c] = None] /\ UNCHANGED ttExcl
           ELSE ttExcl' = [ttExcl EXCEPT ![c] = None] /\ UNCHANGED ttStand
        /\ ttTurn' = [ttTurn EXCEPT ![c] = IF @.source = k THEN NoTurn ELSE @]
        /\ ttBusy' = ttBusy \ {c}
        /\ UNCHANGED <<ttTeam, ttLive, ttJoin, ttAuto, ttWake, ttEvent, ttSlip, ttOps>>

\* A coordinator message starts the standing worker's next turn.
Message(k) ==
    LET c == ttTask[k].to
    IN  /\ ttTask[k].st = "bound" /\ ttTask[k].standing
        /\ c \in ttLive \ ttBusy /\ ttTurn[c] = NoTurn /\ ttStand[c] = k /\ ttExcl[c] = None
        /\ ttTurn' = [ttTurn EXCEPT ![c] = Carried(c, k)]
        /\ ttBusy' = ttBusy \cup {c} /\ ttAcks' = ttAcks \cup {k}
        /\ UNCHANGED <<ttTeam, ttTask, ttStand, ttExcl, ttLive, ttJoin, ttAuto, ttWake, ttEvent,
                       ttSlip, ttFaults, ttOps>>

\* The hook of a standing prompt: authority is attached again only where no turn has any.
Acknowledge(k) ==
    LET c == ttTask[k].to
    IN  /\ k \in ttAcks /\ ttStand[c] = k /\ c \in ttBusy
        /\ ttAcks' = ttAcks \ {k}
        /\ ttTurn' = IF ttTurn[c] = NoTurn THEN [ttTurn EXCEPT ![c] = Carried(c, k)] ELSE ttTurn
        /\ UNCHANGED <<ttTeam, ttTask, ttBusy, ttStand, ttExcl, ttLive, ttJoin, ttAuto, ttWake,
                       ttEvent, ttSlip, ttFaults, ttOps>>

\* A task ends by its release, its cancellation or its expiry.
End(k) ==
    /\ Active(k)
    /\ ttTask' = Cancelled({k})
    /\ Revoke({k}, {}, ttTeam)
    /\ UNCHANGED <<ttTeam, ttLive, ttJoin, ttAuto, ttWake, ttEvent, ttSlip, ttFaults, ttOps>>

\* reconcileTeamSessionBindings: pointers to tasks that are not bound are dropped.
Stale(c) == (ttStand[c] # None /\ ttTask[ttStand[c]].st # "bound") \/
            (ttExcl[c] # None /\ ttTask[ttExcl[c]].st # "bound")

\* Mutant: pointers of standing tasks are left alone.
Repair_ExclusiveOnly ==
    /\ \E c \in Channels : ttExcl[c] # None /\ ttTask[ttExcl[c]].st # "bound"
    /\ LET kept(k) == IF k # None /\ ttTask[k].st = "bound" THEN k ELSE None
       IN  ttExcl' = [c \in Channels |-> kept(ttExcl[c])]
    /\ UNCHANGED <<ttTeam, ttTask, ttTurn, ttBusy, ttStand, ttAcks, ttLive, ttJoin, ttAuto,
                   ttWake, ttEvent, ttSlip, ttFaults, ttOps>>

Repair ==
    /\ \E c \in Channels : Stale(c)
    /\ LET kept(k) == IF k # None /\ ttTask[k].st = "bound" THEN k ELSE None
       IN  /\ ttStand' = [c \in Channels |-> kept(ttStand[c])]
           /\ ttExcl' = [c \in Channels |-> kept(ttExcl[c])]
    /\ UNCHANGED <<ttTeam, ttTask, ttTurn, ttBusy, ttAcks, ttLive, ttJoin, ttAuto, ttWake,
                   ttEvent, ttSlip, ttFaults, ttOps>>

-----------------------------------------------------------------------------
\* Automations that create workers.

\* reserveTeamWorker: a slot with its alias and the name of the sub-team, if any.
Reservable(k, t, sub) ==
    /\ t \in Open /\ HasRoom(t) /\ Alias[k] \notin Taken(t)
    /\ sub # None => /\ Depth(t) + 1 <= MaxDepth
                     /\ \A s \in Open : /\ ttTeam[s].name # sub
                                        /\ \A j \in Keys : ttTeam[s].slots[j] # sub

\* createAutomationTeamBootstrap.reserve, in the step that journals the automation.  When
\* that save fails the record and its slot stay, and nothing creates the channel.
Reserve(k, t, sub, saved) ==
    LET from == ttTeam[t].coord
    IN  /\ ttAuto[k].st = "none"
        /\ from \in ttBusy /\ MayDispatch(from, t) /\ ~ttTeam[t].drain
        /\ Reservable(k, t, sub)
        /\ saved \/ ttFaults < MaxFaults
        /\ ttFaults' = IF saved THEN ttFaults ELSE ttFaults + 1
        /\ ttTeam' = [ttTeam EXCEPT ![t].slots[k] = IF sub = None THEN k ELSE sub]
        /\ ttAuto' = [ttAuto EXCEPT ![k] = [st |-> IF saved THEN "creating" ELSE "stranded",
                                            team |-> t, sub |-> sub]]
        /\ ttTurn' = Spent(from)
        /\ UNCHANGED <<ttTask, ttBusy, ttStand, ttExcl, ttAcks, ttLive, ttJoin, ttWake, ttEvent,
                       ttSlip, ttOps>>

\* releaseTeamWorkerReservation, and commitTeamWorkerReservation, which then adds the worker.
Freed(k, teams) == [t \in Teams |-> [teams[t] EXCEPT !.slots[k] = None]]

Committed(k, t) == [Freed(k, ttTeam) EXCEPT ![t].workers = @ \cup {k}]

\* bind, once Slack created the channel: the slot becomes membership, the worker may get
\* its own team, and its first task; or nothing of it is left.
Bind(k, work) ==
    LET t == ttAuto[k].team
        sub == ttAuto[k].sub
        joined == Committed(k, t)
    IN  /\ ttAuto[k].st = "creating" /\ t \in Open /\ ttTeam[t].slots[k] # None
        /\ Parents(k) = {} /\ Own(k) = {}
        /\ IF sub = None THEN ttTeam' = joined
           ELSE /\ sub \notin {ttTeam[s].name : s \in Open} /\ Depth(t) + 1 <= MaxDepth
                /\ \E s \in Teams : /\ IsNext(s)
                                    /\ ttTeam' = [joined EXCEPT
                                                     ![s] = Created(k, sub, ttTeam[t].auto)]
        /\ ttTask' = IF work = None THEN ttTask
                     ELSE [ttTask EXCEPT ![work] = [st |-> "queued", team |-> t, to |-> k,
                                                    standing |-> sub # None]]
        /\ work # None => ttTask[work].st = "none"
        /\ ttAuto' = [ttAuto EXCEPT ![k].st = "joined"] /\ ttLive' = ttLive \cup {k}
        /\ UNCHANGED <<sessions, ttJoin, ttWake, ttEvent, ttSlip, ttFaults, ttOps>>

\* Mutant: a creation whose outcome is unknown keeps its slot.
CreationFails_KeepSlot(k, definitive) ==
    /\ ttAuto[k].st = "creating"
    /\ ttTeam' = IF definitive THEN Freed(k, ttTeam) ELSE ttTeam
    /\ ttAuto' = [ttAuto EXCEPT ![k].st = IF definitive THEN "none" ELSE "failed"]
    /\ UNCHANGED <<ttTask, sessions, ttLive, ttJoin, ttWake, ttEvent, ttSlip, ttFaults, ttOps>>

\* Slack refuses the channel, which lets the key be used again; its outcome is unknown; or
\* bind fails.  The slot is released.
CreationFails(k, definitive) ==
    /\ ttAuto[k].st = "creating"
    /\ ttTeam' = Freed(k, ttTeam)
    /\ ttAuto' = [ttAuto EXCEPT ![k].st = IF definitive THEN "none" ELSE "failed"]
    /\ UNCHANGED <<ttTask, sessions, ttLive, ttJoin, ttWake, ttEvent, ttSlip, ttFaults, ttOps>>

\* detachAutomationTeams and the end of the session.
Stop(k) ==
    LET own == Own(k)
        up == Parents(k)
        lost == Between(own, Channels) \cup Between(up, {k})
        members == UNION {ttTeam[t].workers \cup {k} : t \in own}
        freed == Freed(k, ttTeam)
        left == [t \in Teams |-> [freed[t] EXCEPT !.workers = @ \ {k}]]
    IN  /\ ttAuto[k].st \in {"stranded", "joined", "failed"}
        /\ ttTeam' = [t \in Teams |-> IF t \in own THEN Closed(t, freed)[t]
                                      ELSE IF t \in up THEN left[t] ELSE freed[t]]
        /\ ttTask' = Cancelled(lost)
        /\ ttStand' = [c \in Channels |-> IF c = k \/ ttStand[c] \in lost THEN None
                                          ELSE ttStand[c]]
        /\ ttExcl' = [c \in Channels |-> IF c = k \/ ttExcl[c] \in lost THEN None ELSE ttExcl[c]]
        /\ ttTurn' = [c \in Channels |->
               IF \/ c = k
                  \/ ttStand[c] \in lost /\ ttTurn[c].source = ttStand[c]
                  \/ ttExcl[c] \in lost
                  \/ c \in members /\ Own(c) \ own = {}
               THEN NoTurn ELSE ttTurn[c]]
        /\ ttBusy' = ttBusy \ {k} /\ ttLive' = ttLive \ {k}
        /\ ttAuto' = [ttAuto EXCEPT ![k].st = "stopped"]
        /\ UNCHANGED <<ttAcks, ttJoin, ttWake, ttEvent, ttSlip, ttFaults, ttOps>>

\* A restart loses the handlers; recover fails what was being created and frees its slot.
Restart ==
    LET cut == {k \in Keys : ttAuto[k].st \in {"creating", "stranded"}}
    IN  /\ ttFaults < MaxFaults /\ ttFaults' = ttFaults + 1
        /\ ttJoin' = {}
        /\ ttAuto' = [k \in Channels |-> IF k \in cut THEN [ttAuto[k] EXCEPT !.st = "failed"]
                                     ELSE ttAuto[k]]
        /\ ttTeam' = [t \in Teams |-> [ttTeam[t] EXCEPT !.slots =
                         [k \in Channels |-> IF k \in cut THEN None ELSE @[k]]]]
        /\ UNCHANGED <<ttTask, sessions, ttLive, ttWake, ttEvent, ttSlip, ttOps>>

-----------------------------------------------------------------------------
\* Scheduled wakes.

SourceStands(r) ==
    LET k == ttWake[r].source
    IN  k # None => /\ ttTask[k].standing /\ Active(k)
                    /\ ttTask[k].to = ttTeam[ttWake[r].team].coord

\* addTeamSchedule: a request that was ever accepted creates no second wake.
NewWake(t, r, source) ==
    /\ ttWake[r].st = "none"
    /\ ttWake' = [ttWake EXCEPT ![r] = [st |-> "set", team |-> t, source |-> source]]

\* The handler: only the owner's turn and a delegated one create future turns.
Schedule(t, r) ==
    LET c == ttTeam[t].coord
    IN  /\ t \in Open /\ c \in ttBusy /\ Authorized(c, t)
        /\ ttTurn[c].actor \in {"owner", "delegated"} /\ ttTeam[t].auto
        /\ NewWake(t, r, IF ttTurn[c].actor = "delegated" THEN ttTurn[c].source ELSE None)
        /\ UNCHANGED <<ttTeam, ttTask, sessions, ttLive, ttJoin, ttAuto, ttEvent, ttSlip,
                       ttFaults, ttOps>>

\* removeTeamSchedule
Unschedule(r) ==
    /\ ttWake[r].st = "set" /\ ttWake[r].team \in Open
    /\ ttWake' = [ttWake EXCEPT ![r].st = "gone"]
    /\ UNCHANGED <<ttTeam, ttTask, sessions, ttLive, ttJoin, ttAuto, ttEvent, ttSlip, ttFaults,
                   ttOps>>

\* takeDueTeamSchedules: of what is due, a one-time wake and an expired one are gone.
Taking(gone) == ttWake' = [r \in Wakes |-> IF r \in gone THEN [ttWake[r] EXCEPT !.st = "gone"]
                                         ELSE ttWake[r]]

\* Mutant: wakes of a task that has ended are not pruned.
Fire_NoPrune(t, due, again) ==
    LET mine == {r \in Wakes : ttWake[r].st = "set" /\ ttWake[r].team = t}
    IN  /\ t \in Open /\ due \subseteq mine /\ again \subseteq due /\ due # {}
        /\ Taking(due \ again)
        /\ ttEvent' = ttEvent \cup IF ttTeam[t].auto /\ ~ttTeam[t].drain THEN due ELSE {}
        /\ UNCHANGED <<ttTeam, ttTask, sessions, ttLive, ttJoin, ttAuto, ttSlip, ttFaults, ttOps>>

\* fireDueTeamSchedules: orphans are pruned, then what is due fires or is skipped.
Fire(t, due, again) ==
    LET mine == {r \in Wakes : ttWake[r].st = "set" /\ ttWake[r].team = t}
        kept == {r \in mine : SourceStands(r)}
        fired == IF ttTeam[t].auto /\ ~ttTeam[t].drain THEN due \cap kept ELSE {}
    IN  /\ t \in Open /\ due \subseteq mine /\ again \subseteq due
        /\ due # {} \/ kept # mine
        /\ Taking((mine \ kept) \cup (due \ again))
        /\ ttEvent' = ttEvent \cup fired
        /\ UNCHANGED <<ttTeam, ttTask, sessions, ttLive, ttJoin, ttAuto, ttSlip, ttFaults, ttOps>>

-----------------------------------------------------------------------------
Next ==
    \/ \E c \in Channels, n \in Names : CreateTeam(c, n)
    \/ \E t \in Teams, c \in Channels : Join(t, c) \/ JoinRolledBack(t, c) \/ RemoveWorker(t, c)
    \/ \E j \in ttJoin : JoinReported(j)
    \/ \E t \in Teams, archived \in BOOLEAN : Close(t, archived)
    \/ \E t \in Teams, mode \in Modes : SetMode(t, mode[1], mode[2])
    \/ \E c \in Channels : \/ TurnEnds(c)
                           \/ \E a \in Actors : Prompt(c, a)
                           \/ \E t \in Teams : Continue(c, t) \/ Renew(c, t)
    \/ \E t \in Teams, k \in Work, c \in Channels, asked \in {"any", "standing", "exclusive"} :
          Send(t, k, c, asked)
    \/ \E k \in Work : Dispatch(k) \/ Undelivered(k) \/ Message(k) \/ Acknowledge(k) \/ End(k)
    \/ Repair
    \/ \E k \in Keys, t \in Teams, sub \in Names \cup {None}, saved \in BOOLEAN :
          Reserve(k, t, sub, saved)
    \/ \E k \in Keys : \/ Stop(k)
                       \/ \E work \in Work \cup {None} : Bind(k, work)
                       \/ \E definitive \in BOOLEAN : CreationFails(k, definitive)
    \/ Restart
    \/ \E t \in Teams, r \in Wakes : Schedule(t, r)
    \/ \E r \in Wakes : Unschedule(r)
    \/ \E t \in Teams, due, again \in SUBSET Wakes : Fire(t, due, again)

\* The reconciler runs on a timer.
Fairness == WF_ttVars(Repair)
Spec == Init /\ [][Next]_ttVars /\ Fairness

-----------------------------------------------------------------------------
\* The types of the variables.
TypeOK ==
    /\ ttTeam \in [Teams -> [st : {"none", "open", "closed"}, coord : Channels \cup {None},
                             name : Names \cup {None}, workers : SUBSET Channels,
                             slots : [Channels -> Names \cup Keys \cup {None}],
                             auto : BOOLEAN, drain : BOOLEAN]]
    /\ ttTask \in [Work -> [st : {"none", "queued", "bound", "ended"}, team : {0} \cup Teams,
                            to : Channels \cup {None}, standing : BOOLEAN]]
    /\ ttTurn \in [Channels -> [actor : {"none", "owner", "collaborator", "continuation",
                                         "delegated"},
                                team : {0} \cup Teams, source : Work \cup {None}, left : 0 .. 1]]
    /\ ttStand \in [Channels -> Work \cup {None}] /\ ttExcl \in [Channels -> Work \cup {None}]
    /\ ttBusy \subseteq Channels /\ ttAcks \subseteq Work /\ ttLive \subseteq Channels
    /\ ttJoin \subseteq Teams \X Channels
    /\ ttAuto \in [Channels -> [st : {"none", "creating", "stranded", "joined", "failed",
                                      "stopped"},
                            team : {0} \cup Teams, sub : Names \cup {None}]]
    /\ ttWake \in [Wakes -> [st : {"none", "set", "gone"}, team : {0} \cup Teams,
                             source : Work \cup {None}]]
    /\ ttEvent \subseteq Wakes /\ ttSlip \subseteq Work /\ ttFaults \in 0 .. MaxFaults
    /\ ttOps \in 0 .. MaxOps

\* The open teams form a forest of at most MaxDepth levels: nobody coordinates or works in
\* two of them, and no chain of coordinators is longer or closes on itself, whether it grew
\* from the owner's command, the picker or an automation (createTeam, assertWorkerPlacement).
Forest ==
    /\ \A c \in Channels : Cardinality(Own(c)) <= 1 /\ Cardinality(Parents(c)) <= 1
    /\ ~ \E f \in [0 .. MaxDepth -> Open] :
           \A n \in 0 .. MaxDepth - 1 : ttTeam[f[n]].coord \in ttTeam[f[n + 1]].workers

\* Members and reserved slots together stay within the bound and have different aliases,
\* open teams have different names, and a slot belongs to an automation whose channel is
\* still being created (reserveTeamWorker, commitTeamWorkerReservation and every release).
SlotsKept ==
    \A t \in Open :
        /\ 1 + Cardinality(ttTeam[t].workers) + Cardinality(Slots(t)) <= MaxMembers
        /\ \A a, b \in ttTeam[t].workers \cup Slots(t) : Alias[a] = Alias[b] => a = b
        /\ ttTeam[t].workers \cap Slots(t) = {}
        /\ \A s \in Open : ttTeam[s].name = ttTeam[t].name => s = t
        /\ \A k \in Slots(t) : ttAuto[k].st \in {"creating", "stranded"} /\ ttAuto[k].team = t

\* An active task belongs to a worker of an open team, and no coordinator of a team holds an
\* exclusive task of the team above, which would reserve every turn it needs to coordinate.
NoStarvedCoordinator ==
    \A k \in Work : Active(k) =>
        /\ ttTask[k].team \in Open /\ ttTask[k].to \in ttTeam[ttTask[k].team].workers
        /\ Own(ttTask[k].to) # {} => ttTask[k].standing

\* A turn that acts on delegated authority belongs to the coordinator that still holds the
\* standing task it came from, in the team above; every way a task, a membership or a team
\* ends takes it back, except a join that is rolled back.
DelegationFollowsTask ==
    \A c \in Channels :
        ttTurn[c].actor = "delegated" /\ ttTurn[c].source \notin ttSlip
            => DelegatedValid(c, ttTurn[c].team)

\* A wake that a delegated turn registered is not fired once its standing task has ended.
WakesFollowSource ==
    [][\A r \in Wakes : r \in ttEvent' \ ttEvent => SourceStands(r)]_ttVars

\* A session is not left reserved by a task that has ended.
StaleBindingsHeal == \A c \in Channels : Stale(c) ~> ~Stale(c)
=============================================================================
