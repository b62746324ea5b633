----------------------------- MODULE ManagedRun -----------------------------
(***************************************************************************)
(* The managed runs of one Pi session (src/pi/managed-run.ts and           *)
(* managed-core.mjs): the routing of a prompt, the planner, the turns of   *)
(* the parent agent, the independent reviews with their budgets, pause,    *)
(* continue and cancel, and the restoration of a run by a new process.     *)
(*                                                                         *)
(* Everything runs in the event loop of Pi: a step is the code between two *)
(* awaits.  A run is persisted before every await, so memory and session   *)
(* entries agree.  A function that awaits is a leg: its place, the run it  *)
(* expects, and what its child has reported.  Steps, findings and texts    *)
(* are reduced to whether all steps are done and what a review saw.        *)
(***************************************************************************)
EXTENDS Naturals

CONSTANTS
    Prompts,     \* ordinary prompts of the owner
    Reviews,     \* maxReviewCycles
    Agents,      \* maxSubagents
    Turns,       \* maxParentTurns
    MaxRuns,     \* bound: runs
    MaxCrashes,  \* bound: restarts of Pi
    Late         \* BOOLEAN: the owner acts before what he stopped or sent has come to its
                 \*   end, and the agent blocks a run that is over

VARIABLES
    mRun,        \* the run: its number (0: none), status, phase, mode, resumePhase,
                 \*   plan, counters, and whether its time is over
    mLeg,        \* legs in flight
    mCtl,        \* childAbort: the leg whose child an abort reaches, or 0
    mTurn,       \* the parent agent works
    mSup,        \* suppressNextSettled
    mReq,        \* reviewRequested
    mNudge,      \* the continuation timer of the run is armed
    mArmed,      \* the budget timer of the run is armed
    mBoot,       \* what the timer of onSessionStart will resume
    mRoute,      \* routing: the prompt and its status, or NoRoute
    mEntry,      \* its last session entry, if it has no decision
    mAsk,        \* per prompt: where its routing is
    mPrompt,     \* per prompt: its outcome (history)
    mSeen,       \* the last passing review saw all the work (history)
    mStarved,    \* a review without a repair found no leg left (history)
    mRepairs,    \* repairs of reviews of this run (history)
    mCrashes

mVars == <<mRun, mLeg, mCtl, mTurn, mSup, mReq, mNudge, mArmed, mBoot, mRoute, mEntry, mAsk,
           mPrompt, mSeen, mStarved, mRepairs, mCrashes>>
memory == <<mSup, mReq, mNudge, mBoot>>
routes == <<mRoute, mEntry, mAsk, mPrompt>>
history == <<mSeen, mStarved, mRepairs, mCrashes>>

Slots == {1, 2}
Off == [at |-> "off", kind |-> "none", id |-> 0, dead |-> FALSE, rep |-> FALSE, clean |-> FALSE]
NoRoute == [st |-> "none"]
Routing(p) == [p |-> p, st |-> "routing"]
Status == {"none", "active", "paused", "complete", "cancelled", "failed"}
Working == {"executing", "fixing", "finalizing"}
NoRun == [id |-> 0, st |-> "none", ph |-> "none", mode |-> "auto", res |-> "none",
          plan |-> "none", cycles |-> 0, agents |-> 0, turns |-> 0, late |-> FALSE]

TypeOK ==
    /\ mRun \in [id : 0..MaxRuns, st : Status, mode : {"auto", "plan"},
                 ph : {"planning", "awaiting-approval", "reviewing"} \cup Working \cup Status,
                 res : {"none", "planning", "reviewing", "paused", "complete", "cancelled",
                        "failed"} \cup Working,
                 plan : {"none", "open", "done"}, cycles : 0..Reviews, agents : 0..Agents,
                 turns : 0..Turns, late : BOOLEAN]
    /\ \A s \in Slots : mLeg[s].at \in {"off", "start", "launch", "child", "usage", "planned",
           "begin", "review", "context", "verdict", "continue", "settled"}
    /\ mCtl \in Slots \cup {0}
    /\ mTurn \in BOOLEAN /\ mSup \in BOOLEAN /\ mReq \in BOOLEAN /\ mNudge \in BOOLEAN
    /\ mArmed \in BOOLEAN /\ mBoot \in {"none", "run", "route"}
    /\ mRoute.st \in {"none", "routing", "managed", "native", "cancelled"}
    /\ mAsk \in [Prompts -> {"off", "posting", "asking", "managed", "native", "cancelling"}]
    /\ mPrompt \in [Prompts -> {"new", "routing", "decided", "settled", "dropped"}]
    /\ mCrashes \in 0..MaxCrashes

Init ==
    /\ mRun = NoRun /\ mLeg = [s \in Slots |-> Off] /\ mCtl = 0
    /\ mTurn = FALSE /\ mSup = FALSE /\ mReq = FALSE /\ mNudge = FALSE /\ mArmed = FALSE
    /\ mBoot = "none" /\ mRoute = NoRoute /\ mEntry = NoRoute
    /\ mAsk = [p \in Prompts |-> "off"] /\ mPrompt = [p \in Prompts |-> "new"]
    /\ mSeen = FALSE /\ mStarved = FALSE /\ mRepairs = 0 /\ mCrashes = 0

-----------------------------------------------------------------------------
(* The run and its legs.                                                   *)

Active == mRun.st = "active"
Owning == mRun.st \in {"active", "paused"}
Exhausted(run) == run.late \/ run.turns >= Turns    \* budgetExceeded
Of(s) == mLeg[s].id = mRun.id
Live(s) == Of(s) /\ Active
Goes(s, leg) == mLeg' = [mLeg EXCEPT ![s] = leg]
Ends(s) == Goes(s, Off)
Free(s) == mLeg[s] = Off /\ \A t \in Slots : t < s => mLeg[t] # Off
\* The stream of controls waits for the one it has delivered
Listening == /\ \A s \in Slots : mLeg[s].kind # "control"
             /\ \A p \in Prompts : mAsk[p] # "cancelling"
Quiet == Late \/ (mLeg = [s \in Slots |-> Off] /\ ~mTurn /\ ~mNudge /\ mBoot = "none")

\* terminal(): the budget timer stops with the run
Terminal(run, status) == [run EXCEPT !.st = status, !.ph = status]
Keeps(armed) == mArmed' = (armed /\ mRun'.st = "active")

\* Mutant: a leg fails whatever run it meets
FailedBy_Any(s) == Terminal(mRun, "failed")

\* The catch of plan and review
FailedBy(s) == IF Live(s) THEN Terminal(mRun, "failed") ELSE mRun

Fails(s) ==
    /\ mRun' = FailedBy(s) /\ Ends(s) /\ Keeps(mArmed)
    /\ UNCHANGED <<mCtl, mTurn, memory, routes, history>>

\* A message for the parent starts a turn, or joins the one that works
Tells == mTurn' = TRUE

\* Mutant: legs are reserved for reviews only until the first one
Reserve_First(run) == IF run.cycles = 0 THEN Reviews ELSE 0

\* subagentBudgetReason: legs are kept for the reviews that remain
Reserve(run) == IF Reviews > run.cycles + 1 THEN Reviews - run.cycles ELSE 1
MayLaunch(run, role, required) ==
    /\ run.agents < Agents
    /\ (required /\ role = "review") \/ run.agents + Reserve(run) < Agents

\* runChild up to its first await, for the planner, the reviewer and their repairs
Launches(s, leg, armed) ==
    /\ IF Active /\ MayLaunch(mRun, leg.kind, TRUE)
       THEN /\ mRun' = [mRun EXCEPT !.agents = @ + 1]
            /\ Goes(s, [leg EXCEPT !.at = "launch"]) /\ UNCHANGED mStarved
       ELSE /\ mRun' = IF leg.id = mRun.id /\ Active THEN Terminal(mRun, "failed") ELSE mRun
            /\ Ends(s)
            /\ mStarved' = (mStarved \/ (leg.kind = "review" /\ ~leg.rep /\ Active /\ mRepairs = 0))
    /\ Keeps(armed)

NewLeg(at, kind) == [Off EXCEPT !.at = at, !.kind = kind, !.id = mRun.id]

\* The beginning of review()
Reviewing(s, run, armed) ==
    /\ IF run.cycles >= Reviews
       THEN mRun' = Terminal(run, "paused") /\ Ends(s)
       ELSE /\ mRun' = [run EXCEPT !.ph = "reviewing", !.cycles = @ + 1]
            /\ Goes(s, NewLeg("review", "review"))
    /\ Keeps(armed)

\* beginExecution up to its await
Executing(s, kind) ==
    /\ mRun' = [mRun EXCEPT !.st = "active", !.ph = "executing"]
    /\ mReq' = FALSE
    /\ Goes(s, NewLeg("begin", kind))

Began(s) ==
    /\ mLeg[s].at = "begin"
    /\ Ends(s)
    /\ IF Live(s) /\ mRun.ph = "executing" THEN mArmed' = TRUE /\ Tells
                                            ELSE UNCHANGED <<mArmed, mTurn>>
    /\ UNCHANGED <<mRun, mCtl, memory, routes, history>>

-----------------------------------------------------------------------------
(* The planner and the reviewer.                                           *)

\* start() was announced: plan()
Started(s) ==
    /\ mLeg[s].at = "start"
    /\ IF Live(s) /\ mRun.ph = "planning"
       THEN Launches(s, NewLeg("launch", "plan"), TRUE)
       ELSE Ends(s) /\ UNCHANGED <<mRun, mArmed, mStarved>>
    /\ UNCHANGED <<mCtl, mTurn, memory, routes, mSeen, mRepairs, mCrashes>>

\* review() was announced, and reads the repository
Announced(s) ==
    /\ mLeg[s].at = "review"
    /\ IF Live(s) /\ mRun.ph = "reviewing"
       THEN Goes(s, [mLeg[s] EXCEPT !.at = "context", !.clean = TRUE])
       ELSE Ends(s)
    /\ UNCHANGED <<mRun, mCtl, mTurn, mArmed, memory, routes, history>>

ReadContext(s) ==
    /\ mLeg[s].at = "context"
    /\ Launches(s, mLeg[s], mArmed)
    /\ UNCHANGED <<mCtl, mTurn, memory, routes, mSeen, mRepairs, mCrashes>>

Spawns(s) ==
    /\ mLeg[s].at = "launch"
    /\ IF Live(s) THEN /\ Goes(s, [mLeg[s] EXCEPT !.at = "child"]) /\ mCtl' = s
                       /\ UNCHANGED <<mRun, mTurn, mArmed, memory, routes, history>>
                  ELSE Fails(s)

\* The child has closed
Closes(s) ==
    LET mine == IF mCtl = s THEN 0 ELSE mCtl IN
    /\ mLeg[s].at = "child" /\ mCtl' = mine
    /\ IF ~mLeg[s].dead /\ Live(s)
       THEN Goes(s, [mLeg[s] EXCEPT !.at = "usage"]) /\ UNCHANGED <<mRun, mArmed>>
       ELSE mRun' = FailedBy(s) /\ Ends(s) /\ Keeps(mArmed)
    /\ UNCHANGED <<mTurn, memory, routes, history>>

\* Its result is unusable: one repair
Repairs(s) ==
    /\ mLeg[s].at = "usage"
    /\ IF Live(s) /\ ~mLeg[s].rep
       THEN /\ Launches(s, [mLeg[s] EXCEPT !.rep = TRUE], mArmed)
            /\ mRepairs' = mRepairs + (IF mLeg[s].kind = "review" /\ mRun'.agents > mRun.agents
                                       THEN 1 ELSE 0)
            /\ UNCHANGED <<mCtl, mTurn, memory, routes, mSeen, mCrashes>>
       ELSE Fails(s)

Aborts(s) == mLeg[s].at = "usage" /\ Fails(s)

\* Mutant: the plan of a run that ended meanwhile counts
MayPlan_Over(s) == Of(s)
MayPlan(s) == Live(s)

Planned(s) ==
    /\ mLeg[s].at = "usage" /\ mLeg[s].kind = "plan"
    /\ IF MayPlan(s)
       THEN /\ mRun' = [mRun EXCEPT !.plan = "open",
                                    !.st = IF mRun.mode = "plan" THEN "paused" ELSE "active",
                                    !.ph = IF mRun.mode = "plan" THEN "awaiting-approval" ELSE @]
            /\ Goes(s, [mLeg[s] EXCEPT !.at = "planned"])
       ELSE Ends(s) /\ UNCHANGED mRun
    /\ UNCHANGED <<mCtl, mTurn, mArmed, memory, routes, history>>

PlanPosted(s) ==
    /\ mLeg[s].at = "planned"
    /\ IF mRun.mode = "auto" /\ Active /\ mRun.ph = "planning" THEN Executing(s, "none")
       ELSE Ends(s) /\ UNCHANGED <<mRun, mReq>>
    /\ UNCHANGED <<mCtl, mTurn, mArmed, mSup, mNudge, mBoot, routes, history>>

\* parseManagedReview
Verdicts == {"finalizing", "fixing"}

GetsVerdict(s) ==
    /\ mLeg[s].at = "usage" /\ mLeg[s].kind = "review"
    /\ IF Live(s)
       THEN \E ph \in Verdicts :
            /\ mRun' = [mRun EXCEPT !.ph = ph] /\ mReq' = FALSE
            /\ mSeen' = (ph = "finalizing" /\ mLeg[s].clean)
            /\ Goes(s, [mLeg[s] EXCEPT !.at = "verdict", !.clean = ph = "finalizing"])
       ELSE Ends(s) /\ UNCHANGED <<mRun, mReq, mSeen>>
    /\ UNCHANGED <<mCtl, mTurn, mArmed, mSup, mNudge, mBoot, routes, mStarved, mRepairs, mCrashes>>

VerdictPosted(s) ==
    /\ mLeg[s].at = "verdict" /\ Ends(s)
    /\ IF Live(s) /\ mRun.ph = (IF mLeg[s].clean THEN "finalizing" ELSE "fixing") THEN Tells
       ELSE UNCHANGED mTurn
    /\ UNCHANGED <<mRun, mCtl, mArmed, memory, routes, history>>

-----------------------------------------------------------------------------
(* The parent agent.                                                       *)

\* Work of a turn that is not aborted, which no review has seen yet.  The final
\* response is no work.
Works ==
    /\ mTurn /\ ~mSup /\ Owning /\ mRun.ph # "finalizing"
    /\ mSeen' = FALSE
    /\ mLeg' = [s \in Slots |-> IF mLeg[s].at \in {"off", "verdict"} THEN mLeg[s]
                                ELSE [mLeg[s] EXCEPT !.clean = FALSE]]
    /\ UNCHANGED <<mRun, mCtl, mTurn, mArmed, memory, routes, mStarved, mRepairs, mCrashes>>

\* sab_goal: a step is complete, or the work is ready for review
GoalDone ==
    /\ mTurn /\ mRun.plan = "open" /\ mRun' = [mRun EXCEPT !.plan = "done"]
    /\ UNCHANGED <<mLeg, mCtl, mTurn, mArmed, memory, routes, history>>

GoalReady ==
    /\ mTurn /\ mRun.id # 0 /\ ~mReq /\ mReq' = TRUE
    /\ UNCHANGED <<mRun, mLeg, mCtl, mTurn, mArmed, mSup, mNudge, mBoot, routes, history>>

GoalBlock ==
    /\ mTurn /\ mRun.id # 0 /\ (Late \/ Active)
    /\ mRun' = Terminal([mRun EXCEPT !.res = mRun.ph], "paused")
    /\ mSup' = TRUE /\ mArmed' = FALSE
    /\ UNCHANGED <<mLeg, mCtl, mTurn, mReq, mNudge, mBoot, routes, history>>

\* sab_subagent: an optional child of the turn
Subagent ==
    /\ mTurn /\ Active /\ MayLaunch(mRun, "scout", FALSE)
    /\ mRun' = [mRun EXCEPT !.agents = @ + 1]
    /\ UNCHANGED <<mLeg, mCtl, mTurn, mArmed, memory, routes, history>>

\* Mutant: the final turn may follow any review
Finishes_Ready == mRun.ph = "finalizing" \/ (mRun.ph = "fixing" /\ mRun.plan = "done")
Finishes == mRun.ph = "finalizing"

\* markCompletedSteps: the text of the turn completes steps
Marked(run) == {run} \cup (IF run.plan = "none" THEN {} ELSE {[run EXCEPT !.plan = "done"]})

\* onAgentSettled.  A turn lasts longer than the 250 ms of the continuation timer.
Settles(s) ==
    /\ mTurn /\ ~mNudge /\ Free(s) /\ mTurn' = FALSE
    /\ \/ /\ mSup \/ ~Active \/ mRun.ph \notin Working
          /\ mSup' = FALSE /\ UNCHANGED <<mRun, mLeg, mArmed>>
       \/ /\ ~mSup /\ Active /\ mRun.ph \in Working /\ UNCHANGED mSup
          /\ \E run \in Marked([mRun EXCEPT !.turns = IF @ < Turns THEN @ + 1 ELSE @]) :
             \/ Finishes /\ mRun' = Terminal(run, "complete") /\ mArmed' = FALSE /\ UNCHANGED mLeg
             \/ /\ ~Finishes /\ Exhausted(run)
                /\ mRun' = Terminal(run, "paused") /\ mArmed' = FALSE /\ UNCHANGED mLeg
             \/ ~Finishes /\ ~Exhausted(run) /\ Reviewing(s, run, mArmed)
             \/ /\ ~Finishes /\ ~Exhausted(run) /\ ~mReq /\ run.plan # "done"
                /\ mRun' = run /\ Goes(s, NewLeg("settled", "none")) /\ UNCHANGED mArmed
    /\ UNCHANGED <<mCtl, mReq, mNudge, mBoot, routes, history>>

\* The timer is for the run of now, whichever it is
SettlePosted(s) ==
    /\ mLeg[s].at = "settled" /\ Ends(s) /\ mNudge' = TRUE
    /\ UNCHANGED <<mRun, mCtl, mTurn, mArmed, mSup, mReq, mBoot, routes, history>>

Nudges ==
    /\ mNudge /\ mNudge' = FALSE
    /\ IF Active THEN Tells ELSE UNCHANGED mTurn
    /\ UNCHANGED <<mRun, mLeg, mCtl, mArmed, mSup, mReq, mBoot, routes, history>>

-----------------------------------------------------------------------------
(* The owner, the clock and the process.                                   *)

\* start(), with the goal of a command or of a promoted prompt
Starts(s, mode, kind) ==
    /\ Free(s) /\ Quiet /\ ~mTurn /\ ~Owning /\ mRun.id < MaxRuns
    /\ mRun' = [NoRun EXCEPT !.id = mRun.id + 1, !.st = "active", !.ph = "planning", !.mode = mode]
    /\ mSup' = FALSE /\ mNudge' = FALSE /\ mArmed' = FALSE
    /\ Goes(s, [NewLeg("start", kind) EXCEPT !.id = mRun.id + 1])
    /\ mSeen' = FALSE /\ mRepairs' = 0

Start(s, mode) ==
    /\ Starts(s, mode, "control") /\ Listening /\ (Late \/ mRoute = NoRoute)
    /\ UNCHANGED <<mCtl, mTurn, mReq, mBoot, routes, mStarved, mCrashes>>

\* childAbort.abort()
Killed == [s \in Slots |-> IF s = mCtl THEN [mLeg[s] EXCEPT !.dead = TRUE] ELSE mLeg[s]]

\* An abort cancels the routing of a prompt before it touches the run
Stops(status) ==
    /\ mRoute.st # "routing" /\ Listening
    /\ mRun' = Terminal([mRun EXCEPT !.res = IF status = "paused" THEN mRun.ph ELSE @], status)
    /\ mLeg' = Killed /\ mSup' = mTurn /\ mArmed' = FALSE
    /\ UNCHANGED <<mCtl, mTurn, mReq, mNudge, mBoot, routes, history>>

\* managed-pause, and the abort of /sab-stop
Pause == Active /\ Stops("paused")
Cancel == Owning /\ Stops("cancelled")

\* The budget timer
OutOfTime ==
    /\ mArmed /\ mRun.late /\ Active
    /\ mRun' = Terminal([mRun EXCEPT !.res = mRun.ph], "paused")
    /\ mLeg' = Killed /\ mSup' = mTurn /\ mArmed' = FALSE
    /\ UNCHANGED <<mCtl, mTurn, mReq, mNudge, mBoot, routes, history>>

TimePasses ==
    /\ Owning /\ ~mRun.late /\ mRun' = [mRun EXCEPT !.late = TRUE]
    /\ UNCHANGED <<mLeg, mCtl, mTurn, mArmed, memory, routes, history>>

\* managed-approve, and managed-continue of a plan that waits
Approve(s) ==
    /\ Free(s) /\ Listening /\ Quiet /\ mRun.ph = "awaiting-approval" /\ ~Exhausted(mRun)
    /\ Executing(s, "control")
    /\ UNCHANGED <<mCtl, mTurn, mArmed, mSup, mNudge, mBoot, routes, history>>

Continue(s) ==
    LET ph == IF mRun.res = "none" THEN "executing" ELSE mRun.res IN
    /\ Free(s) /\ Listening /\ Quiet
    /\ mRun.st = "paused" /\ mRun.ph # "awaiting-approval" /\ ~Exhausted(mRun)
    /\ ph \in Working \cup {"planning", "reviewing"} /\ (ph # "planning" => mRun.plan # "none")
    /\ mRun' = [mRun EXCEPT !.st = "active", !.ph = ph]
    /\ Goes(s, NewLeg("continue", "control"))
    /\ UNCHANGED <<mCtl, mTurn, mArmed, memory, routes, history>>

\* Mutant: only the parent is resumed
Resumes_Parent(s, armed) ==
    /\ Ends(s) /\ UNCHANGED <<mRun, mStarved>> /\ mArmed' = armed
    /\ IF Active /\ mRun.ph \in Working THEN Tells ELSE UNCHANGED mTurn

\* resume(), its timer armed or not
Resumes(s, armed) ==
    IF ~Active THEN Ends(s) /\ UNCHANGED <<mRun, mTurn, mArmed, mStarved>>
    ELSE CASE mRun.ph = "planning" ->
                Launches(s, NewLeg("launch", "plan"), armed) /\ UNCHANGED mTurn
           [] mRun.ph = "reviewing" -> Reviewing(s, mRun, armed) /\ UNCHANGED <<mTurn, mStarved>>
           [] OTHER -> Tells /\ Ends(s) /\ mArmed' = armed /\ UNCHANGED <<mRun, mStarved>>

Continued(s) ==
    /\ mLeg[s].at = "continue"
    /\ Resumes(s, TRUE)
    /\ UNCHANGED <<mCtl, memory, routes, mSeen, mRepairs, mCrashes>>

\* Pi dies, and a new process restores the session: onSessionStart
Restored == IF Active /\ mRun.ph # "planning" /\ mRun.plan = "none"
            THEN [Terminal(mRun, "paused") EXCEPT !.res = "none"] ELSE mRun

Crash ==
    /\ mCrashes < MaxCrashes /\ mCrashes' = mCrashes + 1
    /\ mLeg' = [s \in Slots |-> Off] /\ mCtl' = 0 /\ mTurn' = FALSE
    /\ mSup' = FALSE /\ mReq' = FALSE /\ mNudge' = FALSE /\ mRun' = Restored
    /\ mArmed' = (mRun'.st = "active") /\ mRoute' = mEntry
    /\ mBoot' = IF mRun'.st = "active" THEN "run" ELSE IF mEntry # NoRoute THEN "route" ELSE "none"
    /\ mAsk' = [p \in Prompts |-> "off"]
    /\ mPrompt' = [p \in Prompts |->
            IF mPrompt[p] = "decided" \/ (mPrompt[p] = "routing" /\ mEntry # Routing(p))
            THEN "dropped" ELSE mPrompt[p]]
    /\ UNCHANGED <<mEntry, mSeen, mStarved, mRepairs>>

Boots(s) ==
    /\ mBoot = "run" /\ Free(s) /\ mBoot' = "none"
    /\ Resumes(s, mArmed)
    /\ UNCHANGED <<mCtl, mSup, mReq, mNudge, routes, mSeen, mRepairs, mCrashes>>

-----------------------------------------------------------------------------
(* The routing of prompts.                                                 *)

Outcome(p, o) == mPrompt' = [mPrompt EXCEPT ![p] = o]
At(p, stage) == mAsk' = [mAsk EXCEPT ![p] = stage]
\* A recorded decision is not restored
Decided(p, st) == mRoute' = [p |-> p, st |-> st] /\ mEntry' = NoRoute
unrouted == <<mRun, mLeg, mCtl, mArmed, mSup, mReq, mNudge, history>>

Refuses == Owning \/ mRoute.st = "routing"

\* routePrompt, for a prompt that is to be classified or goes to native Pi
Prompted(p, force) ==
    /\ mPrompt[p] = "new" /\ (Late \/ mRoute.st \in {"none", "routing"})
    /\ Owning \/ mRun.id < MaxRuns
    /\ \/ Refuses /\ Outcome(p, "settled") /\ UNCHANGED <<mTurn, mRoute, mEntry, mAsk>>
       \/ /\ ~Refuses /\ force /\ Outcome(p, "settled") /\ Tells
          /\ UNCHANGED <<mRoute, mEntry, mAsk>>
       \/ /\ ~Refuses /\ ~force /\ Outcome(p, "routing") /\ At(p, "posting")
          /\ mRoute' = Routing(p) /\ mEntry' = Routing(p) /\ UNCHANGED mTurn
    /\ UNCHANGED <<unrouted, mBoot>>

RoutePosted(p) ==
    /\ mAsk[p] = "posting"
    /\ At(p, IF mRoute = Routing(p) THEN "asking" ELSE "off")
    /\ UNCHANGED <<unrouted, mTurn, mBoot, mRoute, mEntry, mPrompt>>

BootRoutes ==
    /\ mBoot = "route" /\ mBoot' = "none"
    /\ IF mRoute.st = "routing" THEN At(mRoute.p, "asking") ELSE UNCHANGED mAsk
    /\ UNCHANGED <<unrouted, mTurn, mRoute, mEntry, mPrompt>>

\* runRouter and the parsing of its output: a failure promotes
Answers == {"managed", "native"}

\* Mutant: a router that fails leaves the prompt
Routed_Fails(p) ==
    /\ mAsk[p] = "asking"
    /\ At(p, "off") /\ UNCHANGED <<unrouted, mTurn, mBoot, mRoute, mEntry, mPrompt>>

\* completeRouting: the router has answered
Routed(p) ==
    /\ mAsk[p] = "asking"
    /\ IF mRoute = Routing(p)
       THEN \E st \in Answers : Decided(p, st) /\ At(p, st) /\ Outcome(p, "decided")
       ELSE At(p, "off") /\ UNCHANGED <<mRoute, mEntry, mPrompt>>
    /\ UNCHANGED <<unrouted, mTurn, mBoot>>

\* The decision was announced
RouteEnds(p, s) ==
    /\ mAsk[p] \in {"managed", "native"} /\ At(p, "off") /\ mRoute' = NoRoute
    /\ Outcome(p, "settled")
    /\ \/ mAsk[p] = "managed" /\ Starts(s, "auto", "none") /\ UNCHANGED mTurn
       \/ /\ \/ mAsk[p] = "native" /\ Tells
             \/ mAsk[p] = "managed" /\ (mTurn \/ Owning \/ mRun.id = MaxRuns) /\ UNCHANGED mTurn
          /\ UNCHANGED <<mRun, mLeg, mSup, mNudge, mArmed, mSeen, mRepairs>>
    /\ UNCHANGED <<mCtl, mReq, mBoot, mEntry, mStarved, mCrashes>>

\* managed-cancel or an abort while a prompt is routed
CancelRoute ==
    /\ mRoute.st = "routing" /\ Listening
    /\ Decided(mRoute.p, "cancelled") /\ At(mRoute.p, "cancelling")
    /\ Outcome(mRoute.p, "settled")
    /\ UNCHANGED <<unrouted, mTurn, mBoot>>

RouteCancelled(p) ==
    /\ mAsk[p] = "cancelling" /\ At(p, "off") /\ mRoute' = NoRoute
    /\ UNCHANGED <<unrouted, mTurn, mBoot, mEntry, mPrompt>>

-----------------------------------------------------------------------------
LegStep(s) ==
    \/ Started(s) \/ Announced(s) \/ ReadContext(s) \/ Spawns(s) \/ Closes(s) \/ Repairs(s)
    \/ Aborts(s) \/ Planned(s) \/ PlanPosted(s) \/ GetsVerdict(s) \/ VerdictPosted(s) \/ Began(s)
    \/ SettlePosted(s) \/ Continued(s) \/ Boots(s)

AskStep(p) ==
    \/ RoutePosted(p) \/ Routed(p) \/ RouteCancelled(p)
    \/ \E s \in Slots : RouteEnds(p, s)

Next ==
    \/ \E s \in Slots :
          \/ LegStep(s) \/ Settles(s) \/ Approve(s) \/ Continue(s)
          \/ \E mode \in {"auto", "plan"} : Start(s, mode)
    \/ \E p \in Prompts : AskStep(p) \/ \E force \in BOOLEAN : Prompted(p, force)
    \/ BootRoutes \/ CancelRoute
    \/ Works \/ GoalDone \/ GoalReady \/ GoalBlock \/ Subagent \/ Nudges
    \/ Pause \/ Cancel \/ OutOfTime \/ TimePasses \/ Crash

Spec == Init /\ [][Next]_mVars

\* Children have a timeout, the bridge's posts too, and timers fire
Fairness ==
    /\ \A s \in Slots : WF_mVars(LegStep(s))
    /\ \A p \in Prompts : WF_mVars(AskStep(p))
    /\ WF_mVars(BootRoutes) /\ WF_mVars(OutOfTime) /\ WF_mVars(Nudges)

LiveSpec == Spec /\ Fairness

-----------------------------------------------------------------------------
\* A run completes only after an independent review that passed and had seen all the
\* work of the parent, through repairs, pauses, restarts and budgets (review,
\* onAgentSettled, resume).  A review that needs no repair never lacks a subagent: the
\* others leave its leg alone (subagentBudgetReason).
ReviewedComplete == (mRun.st = "complete" => mSeen) /\ ~mStarved

\* An active run is driven: some leg, turn or timer will take it on, after every pause,
\* failure and restart.
Driven == Active =>
    \/ mBoot = "run" \/ \E s \in Slots : mLeg[s] # Off /\ Of(s)
    \/ (mRun.ph \in Working /\ (mNudge \/ (mTurn /\ ~mSup)))

\* A run that is over stays so, whatever its legs report afterwards.
OverStays == [][mRun.st \in {"complete", "cancelled", "failed"} /\ mRun'.id = mRun.id
                    => mRun'.st = mRun.st]_mVars

\* A prompt that was accepted for routing gets its decision, through restarts, or is
\* cancelled or refused visibly (completeRouting, onSessionStart).
PromptSettles ==
    \A p \in Prompts : mPrompt[p] = "routing" ~> mPrompt[p] \in {"decided", "settled"}
=============================================================================
