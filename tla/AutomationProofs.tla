--------------------------- MODULE AutomationProofs ---------------------------
(***************************************************************************)
(* Proofs about Automation, for any set of stop() calls and any number of  *)
(* create requests and restarts: each external step is taken at most once, *)
(* a stop that reported success leaves nothing behind, a stop that is      *)
(* requested fences the first prompt, and a released terminal is left      *)
(* alone.                                                                  *)
(***************************************************************************)
EXTENDS Automation, TLAPS

-----------------------------------------------------------------------------
(* The invariant                                                           *)

\* The statuses of a record whose terminal was not asked for.
Early == {"none", "preparing_channel", "pending"}

\* Where a launch neither asks for a terminal nor watches one.
Quiet == {"idle", "queued"}

\* Before the launch nothing exists that the launch makes, no stop is at work
\* and none was claimed (launchPending leaves "pending" before the spawn).
EarlyInv ==
    aRec.status \in Early =>
        /\ aTerm = "none" /\ aSaved = "none" /\ aSpawned = 0 /\ aInjected = 0
        /\ aOps.launch \in Quiet /\ aOps.conf = "idle" /\ aOps.hook = "idle"
        /\ ~aStop.requested /\ ~aStop.terminated
        /\ \A s \in Stoppers : aStopper[s] \in {"idle", "arrived"}

\* A channel is prepared for a record that says so, and not made yet.
PrepInv ==
    /\ aOps.prep = "creating" => /\ aRec.status = "preparing_channel" /\ ~aMade
                                 /\ aRec.setup = "creating"
    /\ aRec.status = "none" => ~aMade

\* A launch that was claimed and has not spawned is the first one, and a prompt
\* is awaited only where none was claimed.
OnceInv ==
    /\ aSpawned <= 1 /\ aInjected <= 1
    /\ aOps.launch = "calling" => aSpawned = 0 /\ aTerm = "none"
    /\ aRec.prompt \in {"pending", "team_task"} => aInjected = 0
    /\ aOps.conf = "waiting" => aRec.prompt \in {"pending", "team_task"}

\* A stop passes its terminal only when no launch can make another, and a
\* terminated automation has no terminal, slot or undelivered task.
StopInv ==
    /\ \A s \in Stoppers :
          /\ aStopper[s] \in {"launch", "terminate", "archive"} => aStop.requested
          /\ aStopper[s] \in {"terminate", "archive"} => aOps.launch \in Quiet
          /\ aStopper[s] = "archive" => aStop.terminated
    /\ aStop.terminated => /\ aTerm \in {"none", "gone"} /\ aOps.launch \in Quiet
                           /\ aRec.slot = "none" /\ aRec.task # "held"
    /\ aRec.status = "stopped" => /\ aStop.terminated
                                  /\ aStop.archive /\ aRec.chan => aStop.archived

\* A released automation has a terminal and no stop was claimed.
ReleaseInv == aRec.status = "released" => aTerm = "alive" /\ ~aStop.requested

\* A channel in Slack is bound to the record or reported as unresolved.
MadeInv ==
    /\ aMade => aRec.chan \/ aRec.setup \in {"creating", "uncertain", "interrupted"}
    /\ aRec.setup \in {"uncertain", "interrupted"} /\ ~aRec.chan => aRec.failure # "none"

\* What every step keeps, beside the types.
RecordInv == EarlyInv /\ PrepInv /\ OnceInv /\ StopInv /\ ReleaseInv /\ MadeInv

-----------------------------------------------------------------------------
(* Types                                                                   *)

\* The same record but for its status and failure.
Like(q, r) ==
    /\ q.prompt = r.prompt /\ q.text = r.text /\ q.setup = r.setup /\ q.chan = r.chan
    /\ q.sess = r.sess /\ q.collab = r.collab /\ q.slot = r.slot /\ q.task = r.task

\* A record with other values of its fields is a record.
LEMMA RecordUpdates ==
    ASSUME NEW r \in Records
    PROVE  /\ \A v \in Status : [r EXCEPT !.status = v] \in Records
           /\ \A v \in PromptStatus : [r EXCEPT !.prompt = v] \in Records
           /\ \A v \in SetupStatus : [r EXCEPT !.setup = v] \in Records
           /\ \A v \in CollabStatus : [r EXCEPT !.collab = v] \in Records
           /\ \A v \in TaskStatus : [r EXCEPT !.task = v] \in Records
           /\ [r EXCEPT !.sess = TRUE, !.chan = TRUE] \in Records
           /\ \A v \in Status : \A f \in FailureCode \cup {"none"} :
                 [r EXCEPT !.status = v, !.failure = f] \in Records
           /\ \A p \in PromptStatus : \A v \in Status :
                 [r EXCEPT !.prompt = p, !.status = v] \in Records
           /\ \A p \in PromptStatus : \A v \in Status :
                 [r EXCEPT !.prompt = p, !.status = v, !.text = FALSE] \in Records
<1>1. \A v \in Status : [r EXCEPT !.status = v] \in Records
  BY DEF Records
<1>2. \A v \in PromptStatus : [r EXCEPT !.prompt = v] \in Records
  BY DEF Records
<1>3. \A v \in SetupStatus : [r EXCEPT !.setup = v] \in Records
  BY DEF Records
<1>4. \A v \in CollabStatus : [r EXCEPT !.collab = v] \in Records
  BY DEF Records
<1>5. \A v \in TaskStatus : [r EXCEPT !.task = v] \in Records
  BY DEF Records
<1>6. [r EXCEPT !.sess = TRUE, !.chan = TRUE] \in Records
  BY DEF Records
<1>7. \A v \in Status : \A f \in FailureCode \cup {"none"} :
         [r EXCEPT !.status = v, !.failure = f] \in Records
  BY DEF Records
<1>8. \A p \in PromptStatus : \A v \in Status : [r EXCEPT !.prompt = p, !.status = v] \in Records
  BY DEF Records
<1>9. \A p \in PromptStatus : \A v \in Status :
         [r EXCEPT !.prompt = p, !.status = v, !.text = FALSE] \in Records
  BY DEF Records
<1> QED
  BY <1>1, <1>2, <1>3, <1>4, <1>5, <1>6, <1>7, <1>8, <1>9

\* setFailure changes nothing but the status and the failure, and neither of a
\* record that is stopped or released.
LEMMA FailedFields ==
    \A r \in Records : \A c \in FailureCode :
        /\ Failed(r, c) \in Records /\ Like(Failed(r, c), r)
        /\ Ended(r) => Failed(r, c) = r
        /\ ~Ended(r) => Failed(r, c).status = "failed" /\ Failed(r, c).failure = c
<1> SUFFICES ASSUME NEW r \in Records, NEW c \in FailureCode
             PROVE  /\ Failed(r, c) \in Records /\ Like(Failed(r, c), r)
                    /\ Ended(r) => Failed(r, c) = r
                    /\ ~Ended(r) => Failed(r, c).status = "failed" /\ Failed(r, c).failure = c
  OBVIOUS
<1>1. [r EXCEPT !.status = "failed", !.failure = c] \in Records
  BY RecordUpdates DEF Status
<1>2. /\ Like([r EXCEPT !.status = "failed", !.failure = c], r)
      /\ [r EXCEPT !.status = "failed", !.failure = c].status = "failed"
      /\ [r EXCEPT !.status = "failed", !.failure = c].failure = c
  BY DEF Records, Like
<1>3. Like(r, r)
  BY DEF Like
<1> QED
  BY <1>1, <1>2, <1>3 DEF Failed

\* What remains of a record that gave its slot and its undelivered task back.
LEMMA DepartedFields ==
    \A r \in Records :
        /\ Departed(r) \in Records /\ Departed(r).slot = "none" /\ Departed(r).task # "held"
        /\ Departed(r).status = r.status /\ Departed(r).failure = r.failure
        /\ Departed(r).prompt = r.prompt /\ Departed(r).setup = r.setup
        /\ Departed(r).chan = r.chan
<1> SUFFICES ASSUME NEW r \in Records
             PROVE  /\ Departed(r) \in Records /\ Departed(r).slot = "none"
                    /\ Departed(r).task # "held"
                    /\ Departed(r).status = r.status /\ Departed(r).failure = r.failure
                    /\ Departed(r).prompt = r.prompt /\ Departed(r).setup = r.setup
                    /\ Departed(r).chan = r.chan
  OBVIOUS
<1> DEFINE t == IF r.task = "held" THEN "ended" ELSE r.task
<1>1. t \in TaskStatus /\ t # "held" /\ "none" \in SlotStatus
  BY DEF Records, TaskStatus, SlotStatus
<1>2. Departed(r) = [r EXCEPT !.slot = "none", !.task = t]
  BY DEF Departed
<1> HIDE DEF t
<1>3. [r EXCEPT !.slot = "none", !.task = t] \in Records
  BY <1>1 DEF Records
<1> QED
  BY <1>1, <1>2, <1>3 DEF Records

\* What an operation in memory may become.
LEMMA OperationUpdates ==
    ASSUME NEW o \in Operations
    PROVE  /\ \A v \in {"idle", "creating"} : [o EXCEPT !.prep = v] \in Operations
           /\ \A v \in {"idle", "queued", "calling", "watching"} :
                 [o EXCEPT !.launch = v] \in Operations
           /\ \A v \in {"idle", "queued", "inviting", "waiting", "injecting"} :
                 [o EXCEPT !.conf = v] \in Operations
           /\ \A v \in {"idle", "starting", "done"} : [o EXCEPT !.hook = v] \in Operations
           /\ [o EXCEPT !.booted = TRUE] \in Operations
           /\ [o EXCEPT !.prep = "idle", !.launch = "queued"] \in Operations
BY DEF Operations

\* correlateSessionStart keeps the types.
LEMMA CorrelatedType ==
    ASSUME aRec \in Records, NEW ops \in Operations, Correlated(ops)
    PROVE  aRec' \in Records /\ aOps' \in Operations
<1> DEFINE bound == [aRec EXCEPT !.sess = TRUE, !.chan = TRUE]
           conf == IF ops.conf = "idle" THEN "queued" ELSE ops.conf
<1>1. bound \in Records
  BY RecordUpdates
<1>2. conf \in {"idle", "queued", "inviting", "waiting", "injecting"}
  BY DEF Operations
<1>3. \/ aRec' = aRec /\ aOps' = ops
      \/ aRec' = bound /\ aOps' = ops
      \/ /\ aRec' = [bound EXCEPT !.status = "configuring_collaborators", !.failure = "none"]
         /\ aOps' = [ops EXCEPT !.conf = conf]
  BY DEF Correlated
<1> HIDE DEF bound, conf
<1>4. [bound EXCEPT !.status = "configuring_collaborators", !.failure = "none"] \in Records
  BY <1>1, RecordUpdates DEF Status
<1>5. [ops EXCEPT !.conf = conf] \in Operations
  BY <1>2, OperationUpdates
<1> QED
  BY <1>1, <1>3, <1>4, <1>5

\* What configuration does after the collaborators keeps the types.
LEMMA PromptingType ==
    ASSUME aOps \in Operations, NEW rec \in Records, Prompting(rec)
    PROVE  aRec' \in Records /\ aOps' \in Operations
<1>1. \A v \in {"idle", "waiting"} : [aOps EXCEPT !.conf = v] \in Operations
  BY OperationUpdates
<1>2. /\ [rec EXCEPT !.status = "ready_to_prompt"] \in Records
      /\ [rec EXCEPT !.status = "active"] \in Records
      /\ [rec EXCEPT !.prompt = "delivered", !.status = "active"] \in Records
  BY RecordUpdates DEF Status, PromptStatus
<1>3. /\ \/ aRec' = [rec EXCEPT !.status = "ready_to_prompt"]
         \/ aRec' = [rec EXCEPT !.status = "active"]
         \/ aRec' = [rec EXCEPT !.prompt = "delivered", !.status = "active"]
      /\ aOps' = [aOps EXCEPT !.conf = "idle"] \/ aOps' = [aOps EXCEPT !.conf = "waiting"]
  BY DEF Prompting, ConfIdle
<1> QED
  BY <1>1, <1>2, <1>3

StopPlace == {"idle", "arrived", "launch", "terminate", "archive"}

\* The end of a stop's step keeps the types.
LEMMA OnwardType ==
    ASSUME aStopper \in [Stoppers -> StopPlace], NEW s \in Stoppers,
           NEW rec \in Records, NEW stop \in Stops, Onward(s, rec, stop)
    PROVE  aRec' \in Records /\ aStop' \in Stops /\ aStopper' \in [Stoppers -> StopPlace]
<1>1. CASE stop.archive /\ rec.chan /\ ~stop.archived
  BY <1>1 DEF Onward, StopPlace
<1>2. CASE ~(stop.archive /\ rec.chan /\ ~stop.archived)
  <2> DEFINE f == IF rec.setup \in {"uncertain", "interrupted"} /\ ~rec.chan
                  THEN rec.failure ELSE "none"
             v == stop.archived \/ (stop.archive /\ ~rec.chan)
  <2>1. f \in FailureCode \cup {"none"} /\ v \in BOOLEAN
    BY DEF Records
  <2>2. /\ aRec' = [rec EXCEPT !.status = "stopped", !.failure = f]
        /\ aStop' = [stop EXCEPT !.archived = v]
        /\ aStopper' = [aStopper EXCEPT ![s] = "idle"]
    BY <1>2 DEF Onward
  <2> HIDE DEF f, v
  <2>3. aRec' \in Records
    BY <2>1, <2>2, RecordUpdates DEF Status
  <2>4. aStop' \in Stops
    BY <2>1, <2>2 DEF Stops
  <2> QED
    BY <2>2, <2>3, <2>4 DEF StopPlace
<1> QED
  BY <1>1, <1>2

\* Requests and channel preparations keep the types.
LEMMA RequestType ==
    ASSUME TypeOK,
           \/ \E text \in BOOLEAN : SubmitPlain(text)
           \/ \E slot \in {"none", "reserved"}, task \in BOOLEAN : SubmitNamed(slot, task)
           \/ Prepare
    PROVE  TypeOK'
<1>1. NoRecord \in Records /\ NoStop \in Stops
  BY DEF NoRecord, NoStop, Records, Stops, Status, PromptStatus, SetupStatus, CollabStatus,
         SlotStatus, TaskStatus
<1>2. ASSUME NEW text \in BOOLEAN, SubmitPlain(text) PROVE TypeOK'
  <2>1. [NoRecord EXCEPT !.status = "pending", !.text = text] \in Records
    BY <1>1 DEF Records, Status
  <2>2. aRec' \in Records /\ aOps' \in Operations
    BY <1>2, <2>1, OperationUpdates DEF TypeOK, SubmitPlain
  <2>4. aCreates' \in Nat
    <3>1. aCreates \in Nat
      BY DEF TypeOK
    <3>2. aCreates' = aCreates + 1
      BY <1>2 DEF SubmitPlain
    <3> QED
      BY <3>1, <3>2
  <2>3. UNCHANGED <<aStop, aStopper, aTerm, aSaved, aMade, aSpawned, aInjected, aCrashes>>
    BY <1>2 DEF SubmitPlain
  <2> QED
    BY <2>2, <2>3, <2>4 DEF TypeOK
<1>3. ASSUME NEW slot \in {"none", "reserved"}, NEW task \in BOOLEAN, SubmitNamed(slot, task)
      PROVE  TypeOK'
  <2> DEFINE p == IF task THEN "team_task" ELSE "pending"
             t == ~task
  <2>1. p \in PromptStatus /\ slot \in SlotStatus /\ t \in BOOLEAN
    BY DEF PromptStatus, SlotStatus
  <2>2. aRec' = [NoRecord EXCEPT !.status = "preparing_channel", !.setup = "creating",
                                 !.slot = slot, !.text = t, !.prompt = p]
    BY <1>3 DEF SubmitNamed
  <2> HIDE DEF p, t
  <2>3. aRec' \in Records
    BY <1>1, <2>1, <2>2 DEF Records, Status, SetupStatus
  <2>4. aOps' \in Operations
    BY <1>3, OperationUpdates DEF TypeOK, SubmitNamed
  <2>6. aCreates' \in Nat
    <3>1. aCreates \in Nat
      BY DEF TypeOK
    <3>2. aCreates' = aCreates + 1
      BY <1>3 DEF SubmitNamed
    <3> QED
      BY <3>1, <3>2
  <2>5. UNCHANGED <<aStop, aStopper, aTerm, aSaved, aMade, aSpawned, aInjected, aCrashes>>
    BY <1>3 DEF SubmitNamed
  <2> QED
    BY <2>3, <2>4, <2>5, <2>6 DEF TypeOK
<1>4. ASSUME ChannelMade PROVE TypeOK'
  <2> DEFINE sl == IF aRec.slot = "reserved" THEN "member" ELSE aRec.slot
             ta == IF aRec.prompt = "team_task" THEN "held" ELSE aRec.task
  <2>1. sl \in SlotStatus /\ ta \in TaskStatus
    BY DEF TypeOK, Records, SlotStatus, TaskStatus
  <2>2. aRec' = [aRec EXCEPT !.setup = "created", !.chan = TRUE, !.status = "pending",
                             !.slot = sl, !.task = ta]
    BY <1>4 DEF ChannelMade
  <2> HIDE DEF sl, ta
  <2>3. aRec' \in Records
    BY <2>1, <2>2 DEF TypeOK, Records, Status, SetupStatus
  <2>4. aOps' \in Operations
    BY <1>4, OperationUpdates DEF TypeOK, ChannelMade
  <2> QED
    BY <1>4, <2>3, <2>4 DEF TypeOK, ChannelMade
<1>5. ASSUME JoinRefused PROVE TypeOK'
  <2>1. [aRec EXCEPT !.setup = "created", !.chan = TRUE, !.slot = "none"] \in Records
    BY DEF TypeOK, Records, SetupStatus, SlotStatus
  <2>2. aRec' \in Records
    BY <1>5, <2>1, FailedFields DEF JoinRefused, FailureCode
  <2> QED
    BY <1>5, <2>2, OperationUpdates DEF TypeOK, JoinRefused, PrepDone
<1>6. ASSUME ChannelRefused PROVE TypeOK'
  BY <1>1, <1>6, OperationUpdates DEF TypeOK, ChannelRefused, PrepDone
<1>7. ASSUME ChannelUncertain PROVE TypeOK'
  <2>1. [Departed(aRec) EXCEPT !.setup = "uncertain"] \in Records
    BY DepartedFields, RecordUpdates DEF TypeOK, SetupStatus
  <2>2. aRec' \in Records
    BY <1>7, <2>1, FailedFields DEF ChannelUncertain, FailureCode
  <2> QED
    BY <1>7, <2>2, OperationUpdates DEF TypeOK, ChannelUncertain, PrepDone
<1> QED
  BY <1>2, <1>3, <1>4, <1>5, <1>6, <1>7 DEF Prepare

\* Launches, session starts and reconciliation keep the types.
LEMMA LaunchType ==
    ASSUME TypeOK,
           \/ Launch \/ TerminalUp
           \/ SessionStart \/ Correlates \/ LaunchTimesOut \/ ReconcileCorrelates
    PROVE  TypeOK'
<1>1. ASSUME LaunchBegins PROVE TypeOK'
  BY <1>1, RecordUpdates, OperationUpdates DEF TypeOK, LaunchBegins, Status
<1>2. ASSUME LaunchSpawns PROVE TypeOK'
  <2>1. aOps' \in Operations
    BY <1>2, OperationUpdates DEF TypeOK, LaunchSpawns
  <2> QED
    BY <1>2, <2>1 DEF TypeOK, LaunchSpawns
<1>3. ASSUME LaunchSeen PROVE TypeOK'
  BY <1>3, RecordUpdates, OperationUpdates DEF TypeOK, LaunchSeen, Status
<1>4. ASSUME LaunchFails PROVE TypeOK'
  BY <1>4, FailedFields, OperationUpdates DEF TypeOK, LaunchFails, FailureCode
<1>5. ASSUME TerminalUp PROVE TypeOK'
  BY <1>5 DEF TypeOK, TerminalUp
<1>6. ASSUME SessionStart PROVE TypeOK'
  BY <1>6, OperationUpdates DEF TypeOK, SessionStart
<1>7. ASSUME SessionNamed PROVE TypeOK'
  BY <1>7 DEF TypeOK, SessionNamed
<1>8. ASSUME SessionStarted PROVE TypeOK'
  <2>1. [aOps EXCEPT !.hook = "done"] \in Operations /\ aRec \in Records
    BY OperationUpdates DEF TypeOK
  <2>2. aRec' \in Records /\ aOps' \in Operations
    BY <1>8, <2>1, CorrelatedType DEF SessionStarted
  <2> QED
    BY <1>8, <2>2 DEF TypeOK, SessionStarted
<1>9. ASSUME SessionMismatch PROVE TypeOK'
  BY <1>9, FailedFields, OperationUpdates DEF TypeOK, SessionMismatch, FailureCode
<1>10. ASSUME LaunchTimesOut PROVE TypeOK'
  BY <1>10, FailedFields DEF TypeOK, LaunchTimesOut, FailureCode
<1>11. ASSUME ReconcileCorrelates PROVE TypeOK'
  <2>1. aRec' \in Records /\ aOps' \in Operations
    BY <1>11, CorrelatedType DEF TypeOK, ReconcileCorrelates
  <2> QED
    BY <1>11, <2>1 DEF TypeOK, ReconcileCorrelates
<1> QED
  BY <1>1, <1>2, <1>3, <1>4, <1>5, <1>6, <1>7, <1>8, <1>9, <1>10, <1>11
     DEF Launch, Correlates

\* Configuration keeps the types.
LEMMA ConfigureType ==
    ASSUME TypeOK, Configure
    PROVE  TypeOK'
<1>0. ConfIdle \in Operations /\ aOps \in Operations /\ aRec \in Records
  BY OperationUpdates DEF TypeOK, ConfIdle
<1>1. ASSUME ConfigureBegins PROVE TypeOK'
  <2> DEFINE rec == [aRec EXCEPT !.status = "configuring_collaborators"]
  <2>1. rec \in Records
    BY <1>0, RecordUpdates DEF Status
  <2>2. [aOps EXCEPT !.conf = "inviting"] \in Operations
    BY <1>0, OperationUpdates
  <2>3. \/ Prompting(rec)
        \/ aRec' = aRec /\ aOps' = ConfIdle
        \/ aRec' = rec /\ aOps' = ConfIdle
        \/ aRec' = rec /\ aOps' = [aOps EXCEPT !.conf = "inviting"]
    BY <1>1 DEF ConfigureBegins
  <2> HIDE DEF rec
  <2>4. aRec' \in Records /\ aOps' \in Operations
    BY <1>0, <2>1, <2>2, <2>3, PromptingType
  <2> QED
    BY <1>1, <2>4 DEF TypeOK, ConfigureBegins
<1>2. ASSUME CorrelationLost PROVE TypeOK'
  BY <1>0, <1>2, FailedFields DEF TypeOK, CorrelationLost, FailureCode
<1>3. ASSUME InputReady PROVE TypeOK'
  <2>1. /\ [aRec EXCEPT !.status = "active"] \in Records
        /\ [aRec EXCEPT !.prompt = "claimed", !.status = "injecting_prompt", !.text = FALSE]
               \in Records
        /\ [aOps EXCEPT !.conf = "injecting"] \in Operations
    BY <1>0, RecordUpdates, OperationUpdates DEF Status, PromptStatus
  <2>2. aRec' \in Records /\ aOps' \in Operations
    BY <1>0, <1>3, <2>1 DEF InputReady
  <2>3. aInjected' \in Nat
    <3>1. aInjected \in Nat
      BY DEF TypeOK
    <3>2. aInjected' = aInjected \/ aInjected' = aInjected + 1
      BY <1>3 DEF InputReady
    <3> QED
      BY <3>1, <3>2
  <2>4. UNCHANGED <<aStop, aStopper, aTerm, aSaved, aMade, aSpawned, aCreates, aCrashes>>
    BY <1>3 DEF InputReady
  <2> QED
    BY <2>2, <2>3, <2>4 DEF TypeOK
<1>4. ASSUME InputNotReady PROVE TypeOK'
  BY <1>0, <1>4, FailedFields DEF TypeOK, InputNotReady, FailureCode
<1>5. ASSUME NEW ok \in BOOLEAN, InviteSettles(ok) PROVE TypeOK'
  <2> DEFINE off == [aRec EXCEPT !.collab = "failed"]
             rec == [aRec EXCEPT !.collab = "ready"]
  <2>1. off \in Records /\ rec \in Records
    BY <1>0, RecordUpdates DEF CollabStatus
  <2>2. \/ Prompting(rec)
        \/ aRec' = aRec /\ aOps' = ConfIdle
        \/ aRec' = rec /\ aOps' = ConfIdle
        \/ aRec' = Failed(off, "collaborator_invitation_failed") /\ aOps' = ConfIdle
    BY <1>5 DEF InviteSettles
  <2> HIDE DEF rec, off
  <2>3. aRec' \in Records /\ aOps' \in Operations
    BY <1>0, <2>1, <2>2, PromptingType, FailedFields DEF FailureCode
  <2> QED
    BY <1>5, <2>3 DEF TypeOK, InviteSettles
<1>6. ASSUME NEW ok \in BOOLEAN, InjectSettles(ok) PROVE TypeOK'
  <2> DEFINE off == [aRec EXCEPT !.prompt = "failed"]
  <2>1. off \in Records /\ [aRec EXCEPT !.prompt = "delivered", !.status = "active"] \in Records
    BY <1>0, RecordUpdates DEF PromptStatus, Status
  <2>2. \/ aRec' = aRec
        \/ aRec' = [aRec EXCEPT !.prompt = "delivered", !.status = "active"]
        \/ aRec' = Failed(off, "prompt_delivery_failed")
    BY <1>6 DEF InjectSettles
  <2> HIDE DEF off
  <2>3. aRec' \in Records
    BY <1>0, <2>1, <2>2, FailedFields DEF FailureCode
  <2> QED
    BY <1>0, <1>6, <2>3 DEF TypeOK, InjectSettles
<1> QED
  BY <1>1, <1>2, <1>3, <1>4, <1>5, <1>6 DEF Configure

\* Stops, the release and the dispatcher keep the types.
LEMMA StopType ==
    ASSUME TypeOK,
           \/ TaskSettles \/ Release
           \/ \E s \in Stoppers : StopArrives(s) \/ StopGoesOn(s)
    PROVE  TypeOK'
<1>0. aRec \in Records /\ aStop \in Stops /\ aStopper \in [Stoppers -> StopPlace]
  BY DEF TypeOK, StopPlace
<1>1. ASSUME TaskSettles PROVE TypeOK'
  BY <1>1, RecordUpdates DEF TypeOK, TaskSettles, TaskStatus
<1>2. ASSUME Release PROVE TypeOK'
  BY <1>2, RecordUpdates DEF TypeOK, Release, Status
<1>3. ASSUME NEW s \in Stoppers, StopArrives(s) PROVE TypeOK'
  BY <1>3 DEF TypeOK, StopArrives
<1>4. ASSUME NEW s \in Stoppers, NEW archive \in BOOLEAN, StopClaims(s, archive) PROVE TypeOK'
  <2> DEFINE stop == [aStop EXCEPT !.archive = aStop.archive \/ archive]
  <2>1. stop \in Stops /\ [stop EXCEPT !.requested = TRUE] \in Stops
    BY <1>0 DEF Stops
  <2>2. /\ aRec' = aRec \/ aRec' = [aRec EXCEPT !.status = "stopping"]
        /\ aStop' = aStop \/ aStop' = stop \/ aStop' = [stop EXCEPT !.requested = TRUE]
        /\ \/ aStopper' = [aStopper EXCEPT ![s] = "idle"]
           \/ aStopper' = [aStopper EXCEPT ![s] = "launch"]
    BY <1>4 DEF StopClaims
  <2> HIDE DEF stop
  <2>3. aRec' \in Records /\ aStop' \in Stops /\ aStopper' \in [Stoppers -> StopPlace]
    BY <1>0, <2>1, <2>2, RecordUpdates DEF StopPlace, Status
  <2> QED
    BY <1>4, <2>3 DEF TypeOK, StopClaims, StopPlace
<1>5. ASSUME NEW s \in Stoppers, StopPastLaunch(s) PROVE TypeOK'
  <2>1. aRec' \in Records /\ aStop' \in Stops /\ aStopper' \in [Stoppers -> StopPlace]
    BY <1>0, <1>5, OnwardType DEF StopPastLaunch, StopPlace
  <2> QED
    BY <1>5, <2>1 DEF TypeOK, StopPastLaunch, StopPlace
<1>6. ASSUME NEW s \in Stoppers, StopTerminates(s) PROVE TypeOK'
  <2>1. Departed(aRec) \in Records /\ [aStop EXCEPT !.terminated = TRUE] \in Stops
    BY <1>0, DepartedFields DEF Stops
  <2>2. aRec' \in Records /\ aStop' \in Stops /\ aStopper' \in [Stoppers -> StopPlace]
    BY <1>0, <1>6, <2>1, OnwardType DEF StopTerminates
  <2> QED
    BY <1>6, <2>2 DEF TypeOK, StopTerminates, StopPlace
<1>7. ASSUME NEW s \in Stoppers, StopArchives(s) PROVE TypeOK'
  <2>1. [aStop EXCEPT !.archived = TRUE] \in Stops
    BY <1>0 DEF Stops
  <2>2. aRec' \in Records /\ aStop' \in Stops /\ aStopper' \in [Stoppers -> StopPlace]
    BY <1>0, <1>7, <2>1, OnwardType DEF StopArchives
  <2> QED
    BY <1>7, <2>2 DEF TypeOK, StopArchives, StopPlace
<1>8. ASSUME NEW s \in Stoppers, StopFails(s) PROVE TypeOK'
  BY <1>0, <1>8, FailedFields DEF TypeOK, StopFails, FailureCode
<1> QED
  BY <1>1, <1>2, <1>3, <1>4, <1>5, <1>6, <1>7, <1>8 DEF StopGoesOn

\* A restart and recovery keep the types.
LEMMA CrashType ==
    ASSUME TypeOK, Crash \/ Recover
    PROVE  TypeOK'
<1>1. ASSUME Crash PROVE TypeOK'
  <2>1. aOps' \in Operations
    BY <1>1 DEF Crash, NoOps, Operations
  <2>2. aMade' \in BOOLEAN /\ aCrashes' \in Nat
    BY <1>1 DEF Crash, TypeOK
  <2>3. /\ aStopper' = [s \in Stoppers |-> "idle"]
        /\ UNCHANGED <<aRec, aStop, aTerm, aSaved, aSpawned, aInjected, aCreates>>
    BY <1>1 DEF Crash
  <2> QED
    BY <2>1, <2>2, <2>3 DEF TypeOK
<1>2. ASSUME Recover PROVE TypeOK'
  <2> DEFINE ops == [aOps EXCEPT !.booted = TRUE]
             cut == [Departed(aRec) EXCEPT !.setup = "interrupted"]
             late == [aRec EXCEPT !.prompt = "failed"]
  <2>1. ops \in Operations /\ cut \in Records /\ late \in Records /\ aRec \in Records
    BY OperationUpdates, DepartedFields, RecordUpdates DEF TypeOK, SetupStatus, PromptStatus
  <2>2. /\ \/ Correlated(ops)
           \/ aRec' = aRec /\ aOps' = ops
           \/ aRec' = aRec /\ aOps' = [ops EXCEPT !.launch = "queued"]
           \/ aRec' = Failed(cut, "channel_creation_interrupted") /\ aOps' = ops
           \/ aRec' = Failed(late, "prompt_delivery_interrupted") /\ aOps' = ops
        /\ aStopper' = aStopper \/ aStopper' = [aStopper EXCEPT ![Recovery] = "arrived"]
    BY <1>2 DEF Recover
  <2> HIDE DEF ops, cut, late
  <2>3. [ops EXCEPT !.launch = "queued"] \in Operations
    BY <2>1, OperationUpdates
  <2>4. /\ Failed(cut, "channel_creation_interrupted") \in Records
        /\ Failed(late, "prompt_delivery_interrupted") \in Records
    BY <2>1, FailedFields DEF FailureCode
  <2>5. aRec' \in Records /\ aOps' \in Operations
    BY <2>1, <2>2, <2>3, <2>4, CorrelatedType
  <2> QED
    BY <1>2, <2>2, <2>5 DEF TypeOK, Recover
<1> QED
  BY <1>1, <1>2

\* Every step keeps the types.
LEMMA TypeStep == TypeOK /\ [Next]_aVars => TypeOK'
<1> SUFFICES ASSUME TypeOK, [Next]_aVars PROVE TypeOK'
  OBVIOUS
<1>1. CASE UNCHANGED aVars
  BY <1>1 DEF aVars, TypeOK
<1> QED
  BY <1>1, RequestType, LaunchType, ConfigureType, StopType, CrashType DEF Next


\* correlateSessionStart binds the record to its session and channel, unless a
\* stop or release came first, and starts the configuration where it is due.
LEMMA CorrelatedFields ==
    ASSUME aRec \in Records, NEW ops \in Operations, Correlated(ops)
    PROVE  /\ aRec'.prompt = aRec.prompt /\ aRec'.setup = aRec.setup
           /\ aRec'.slot = aRec.slot /\ aRec'.task = aRec.task
           /\ aOps'.prep = ops.prep /\ aOps'.launch = ops.launch /\ aOps'.hook = ops.hook
           /\ aOps'.conf = "waiting" => ops.conf = "waiting"
           /\ \/ aRec' = aRec /\ aOps'.conf = ops.conf
              \/ /\ ~aStop.requested /\ aRec.status \notin {"stopping", "stopped", "released"}
                 /\ aRec'.chan
                 /\ \/ aRec'.status = "configuring_collaborators"
                    \/ aRec'.status = aRec.status /\ aOps'.conf = ops.conf
<1> DEFINE bound == [aRec EXCEPT !.sess = TRUE, !.chan = TRUE]
           done == [bound EXCEPT !.status = "configuring_collaborators", !.failure = "none"]
           conf == IF ops.conf = "idle" THEN "queued" ELSE ops.conf
<1>0. bound \in Records
  BY RecordUpdates
<1>1. /\ bound \in Records /\ bound.prompt = aRec.prompt /\ bound.setup = aRec.setup
      /\ bound.slot = aRec.slot /\ bound.task = aRec.task /\ bound.chan
      /\ bound.status = aRec.status
  BY <1>0 DEF Records
<1>2. conf = "waiting" => ops.conf = "waiting"
  OBVIOUS
<1>3. \/ aRec' = aRec /\ aOps' = ops
      \/ /\ ~aStop.requested /\ aRec.status \notin {"stopping", "stopped", "released"}
         /\ \/ aRec' = bound /\ aOps' = ops
            \/ aRec' = done /\ aOps' = [ops EXCEPT !.conf = conf]
  BY DEF Correlated
<1> HIDE DEF bound, conf
<1>4. /\ done.prompt = bound.prompt /\ done.setup = bound.setup
      /\ done.slot = bound.slot /\ done.task = bound.task /\ done.chan = bound.chan
      /\ done.status = "configuring_collaborators"
  BY <1>1 DEF Records
<1> HIDE DEF done
<1>5. /\ [ops EXCEPT !.conf = conf].prep = ops.prep
      /\ [ops EXCEPT !.conf = conf].launch = ops.launch
      /\ [ops EXCEPT !.conf = conf].hook = ops.hook
      /\ [ops EXCEPT !.conf = conf].conf = conf
  BY DEF Operations
<1> QED
  BY <1>1, <1>2, <1>3, <1>4, <1>5

-----------------------------------------------------------------------------
(* Every step keeps the invariant                                          *)

\* A session that starts has a terminal, so its record was launched.
LEMMA SessionStartedKeeps ==
    ASSUME TypeOK, RecordInv, SessionStarted
    PROVE  RecordInv'
<1> DEFINE ops == [aOps EXCEPT !.hook = "done"]
<1>1. /\ ops \in Operations /\ ops.prep = aOps.prep /\ ops.launch = aOps.launch
      /\ ops.conf = aOps.conf /\ ops.hook = "done" /\ aRec \in Records
  BY DEF TypeOK, Operations
<1>2. Correlated(ops) /\ aOps.hook = "starting"
  BY DEF SessionStarted
<1>3. UNCHANGED <<aStop, aStopper, aTerm, aSaved, aMade, aSpawned, aInjected, aCreates, aCrashes>>
  BY DEF SessionStarted
<1> HIDE DEF ops
<1> QED
  BY <1>1, <1>2, <1>3, CorrelatedFields
     DEF RecordInv, EarlyInv, PrepInv, OnceInv, StopInv, ReleaseInv, MadeInv, Early, Quiet

\* A session that reconcile finds belongs to a launched record.
LEMMA ReconcileKeeps ==
    ASSUME TypeOK, RecordInv, ReconcileCorrelates
    PROVE  RecordInv'
<1>1. aOps \in Operations /\ aRec \in Records
  BY DEF TypeOK
<1>2. Correlated(aOps) /\ aRec.status \in {"launching", "awaiting_session"}
  BY DEF ReconcileCorrelates
<1>3. UNCHANGED <<aStop, aStopper, aTerm, aSaved, aMade, aSpawned, aInjected, aCreates, aCrashes>>
  BY DEF ReconcileCorrelates
<1> QED
  BY <1>1, <1>2, <1>3, CorrelatedFields
     DEF RecordInv, EarlyInv, PrepInv, OnceInv, StopInv, ReleaseInv, MadeInv, Early, Quiet

\* After the collaborators a record keeps all but its status and prompt, and a
\* prompt is awaited only if none was claimed.
LEMMA PromptingFields ==
    ASSUME aOps \in Operations, NEW rec \in Records, Prompting(rec)
    PROVE  /\ aRec'.setup = rec.setup /\ aRec'.slot = rec.slot /\ aRec'.task = rec.task
           /\ aRec'.chan = rec.chan /\ aRec'.failure = rec.failure
           /\ aRec'.status \in {"ready_to_prompt", "active"}
           /\ aRec'.prompt = rec.prompt \/ aRec'.prompt = "delivered"
           /\ aOps'.prep = aOps.prep /\ aOps'.launch = aOps.launch /\ aOps'.hook = aOps.hook
           /\ aOps'.conf = "waiting" => aRec'.prompt \in {"pending", "team_task"}
<1> DEFINE Framed(q) == /\ q.setup = rec.setup /\ q.slot = rec.slot /\ q.task = rec.task
                        /\ q.chan = rec.chan /\ q.failure = rec.failure
           ready == [rec EXCEPT !.status = "ready_to_prompt"]
           active == [rec EXCEPT !.status = "active"]
           sent == [rec EXCEPT !.prompt = "delivered", !.status = "active"]
           off == [aOps EXCEPT !.conf = "idle"]
           wait == [aOps EXCEPT !.conf = "waiting"]
           Same(o) == o.prep = aOps.prep /\ o.launch = aOps.launch /\ o.hook = aOps.hook
<1>1. Framed(ready) /\ ready.prompt = rec.prompt /\ ready.status = "ready_to_prompt"
  BY DEF Records
<1>2. Framed(active) /\ active.prompt = rec.prompt /\ active.status = "active"
  BY DEF Records
<1>3. Framed(sent) /\ sent.prompt = "delivered" /\ sent.status = "active"
  BY DEF Records
<1>4. Same(off) /\ off.conf = "idle" /\ Same(wait) /\ wait.conf = "waiting"
  BY DEF Operations
<1>5. \/ aRec' = ready /\ aOps' = off
      \/ aRec' = ready /\ aOps' = wait /\ rec.prompt \in {"pending", "team_task"}
      \/ aRec' = active /\ aOps' = off
      \/ aRec' = sent /\ aOps' = off
  BY DEF Prompting, ConfIdle
<1> HIDE DEF ready, active, sent, off, wait
<1> QED
  BY <1>1, <1>2, <1>3, <1>4, <1>5

\* Configuration happens after the launch and gives way to a stop; it claims
\* the prompt in the step that submits it.
LEMMA ConfigureKeeps ==
    ASSUME TypeOK, RecordInv, Configure
    PROVE  RecordInv'
<1> USE DEF RecordInv, EarlyInv, PrepInv, OnceInv, StopInv, ReleaseInv, MadeInv, Early, Quiet
<1>0. /\ aOps \in Operations /\ aRec \in Records /\ ConfIdle \in Operations
      /\ ConfIdle.prep = aOps.prep /\ ConfIdle.launch = aOps.launch
      /\ ConfIdle.hook = aOps.hook /\ ConfIdle.conf = "idle"
  BY DEF TypeOK, Operations, ConfIdle
<1>1. ASSUME ConfigureBegins PROVE RecordInv'
  <2> DEFINE rec == [aRec EXCEPT !.status = "configuring_collaborators"]
             ask == [aOps EXCEPT !.conf = "inviting"]
  <2>1. /\ rec \in Records /\ rec.setup = aRec.setup /\ rec.slot = aRec.slot
        /\ rec.task = aRec.task /\ rec.chan = aRec.chan /\ rec.failure = aRec.failure
        /\ rec.prompt = aRec.prompt /\ rec.status = "configuring_collaborators"
    BY <1>0 DEF Records, Status
  <2>2. /\ ask.prep = aOps.prep /\ ask.launch = aOps.launch /\ ask.hook = aOps.hook
        /\ ask.conf = "inviting"
    BY <1>0 DEF Operations
  <2>3. \/ aRec' = aRec /\ aOps' = ConfIdle
        \/ /\ ~aStop.requested /\ aRec.status \in {"configuring_collaborators", "ready_to_prompt"}
           /\ \/ Prompting(rec)
              \/ aRec' = rec /\ aOps' = ConfIdle
              \/ aRec' = rec /\ aOps' = ask
    BY <1>1 DEF ConfigureBegins
  <2>4. UNCHANGED <<aStop, aStopper, aTerm, aSaved, aMade, aSpawned, aInjected>>
    BY <1>1 DEF ConfigureBegins
  <2> HIDE DEF rec, ask
  <2> QED
    BY <1>0, <2>1, <2>2, <2>3, <2>4, PromptingFields
<1>2. ASSUME CorrelationLost PROVE RecordInv'
  BY <1>0, <1>2, FailedFields DEF CorrelationLost, FailureCode, Like, Ended
<1>3. ASSUME InputReady PROVE RecordInv'
  <2> DEFINE act == [aRec EXCEPT !.status = "active"]
             rec == [aRec EXCEPT !.prompt = "claimed", !.status = "injecting_prompt",
                                 !.text = FALSE]
             inj == [aOps EXCEPT !.conf = "injecting"]
  <2>1. /\ rec.setup = aRec.setup /\ rec.slot = aRec.slot /\ rec.task = aRec.task
        /\ rec.chan = aRec.chan /\ rec.failure = aRec.failure
        /\ rec.prompt = "claimed" /\ rec.status = "injecting_prompt"
    BY <1>0 DEF Records
  <2>2. /\ act.setup = aRec.setup /\ act.slot = aRec.slot /\ act.task = aRec.task
        /\ act.chan = aRec.chan /\ act.failure = aRec.failure
        /\ act.prompt = aRec.prompt /\ act.status = "active"
    BY <1>0 DEF Records
  <2>3. /\ inj.prep = aOps.prep /\ inj.launch = aOps.launch /\ inj.hook = aOps.hook
        /\ inj.conf = "injecting"
    BY <1>0 DEF Operations
  <2>4. /\ aOps.conf = "waiting"
        /\ \/ aRec' = aRec /\ aOps' = ConfIdle /\ aInjected' = aInjected
           \/ /\ aRec' = act /\ aOps' = ConfIdle /\ aInjected' = aInjected
              /\ aRec.status = "ready_to_prompt"
           \/ /\ aRec' = rec /\ aOps' = inj /\ aInjected' = aInjected + 1
              /\ ~aStop.requested /\ aRec.prompt # "team_task"
    BY <1>3 DEF InputReady, Fenced
  <2>5. UNCHANGED <<aStop, aStopper, aTerm, aSaved, aMade, aSpawned>>
    BY <1>3 DEF InputReady
  <2> HIDE DEF act, rec, inj
  <2> QED
    BY <1>0, <2>1, <2>2, <2>3, <2>4, <2>5
<1>4. ASSUME InputNotReady PROVE RecordInv'
  BY <1>0, <1>4, FailedFields DEF InputNotReady, FailureCode, Like, Ended, Fenced
<1>5. ASSUME NEW ok \in BOOLEAN, InviteSettles(ok) PROVE RecordInv'
  <2> DEFINE off == [aRec EXCEPT !.collab = "failed"]
             rec == [aRec EXCEPT !.collab = "ready"]
  <2>1. /\ rec \in Records /\ rec.setup = aRec.setup /\ rec.slot = aRec.slot
        /\ rec.task = aRec.task /\ rec.chan = aRec.chan /\ rec.failure = aRec.failure
        /\ rec.prompt = aRec.prompt /\ rec.status = aRec.status
    BY <1>0 DEF Records, CollabStatus
  <2>2. /\ off \in Records /\ off.setup = aRec.setup /\ off.slot = aRec.slot
        /\ off.task = aRec.task /\ off.chan = aRec.chan /\ off.failure = aRec.failure
        /\ off.prompt = aRec.prompt /\ off.status = aRec.status
    BY <1>0 DEF Records, CollabStatus
  <2>3. /\ aOps.conf = "inviting"
        /\ \/ aRec' = aRec /\ aOps' = ConfIdle
           \/ /\ ~aStop.requested /\ aRec.status = "configuring_collaborators"
              /\ Prompting(rec)
           \/ aRec' = rec /\ aOps' = ConfIdle
           \/ /\ aRec' = Failed(off, "collaborator_invitation_failed") /\ aOps' = ConfIdle
              /\ ~aStop.requested
    BY <1>5, <2>1 DEF InviteSettles, Fenced
  <2>4. UNCHANGED <<aStop, aStopper, aTerm, aSaved, aMade, aSpawned, aInjected>>
    BY <1>5 DEF InviteSettles
  <2> HIDE DEF rec, off
  <2> QED
    BY <1>0, <2>1, <2>2, <2>3, <2>4, PromptingFields, FailedFields DEF FailureCode, Like, Ended
<1>6. ASSUME NEW ok \in BOOLEAN, InjectSettles(ok) PROVE RecordInv'
  <2> DEFINE off == [aRec EXCEPT !.prompt = "failed"]
             rec == [aRec EXCEPT !.prompt = "delivered", !.status = "active"]
  <2>1. /\ rec.setup = aRec.setup /\ rec.slot = aRec.slot
        /\ rec.task = aRec.task /\ rec.chan = aRec.chan /\ rec.failure = aRec.failure
        /\ rec.prompt = "delivered" /\ rec.status = "active"
    BY <1>0 DEF Records
  <2>2. /\ off \in Records /\ off.setup = aRec.setup /\ off.slot = aRec.slot
        /\ off.task = aRec.task /\ off.chan = aRec.chan /\ off.failure = aRec.failure
        /\ off.prompt = "failed" /\ off.status = aRec.status
    BY <1>0 DEF Records, PromptStatus
  <2>3. /\ aOps.conf = "injecting" /\ aOps' = ConfIdle
        /\ \/ aRec' = aRec
           \/ ~aStop.requested /\ aRec' = rec
           \/ ~aStop.requested /\ aRec' = Failed(off, "prompt_delivery_failed")
    BY <1>6 DEF InjectSettles, Fenced
  <2>4. UNCHANGED <<aStop, aStopper, aTerm, aSaved, aMade, aSpawned, aInjected>>
    BY <1>6 DEF InjectSettles
  <2> HIDE DEF rec, off
  <2> QED
    BY <1>0, <2>1, <2>2, <2>3, <2>4, FailedFields DEF FailureCode, Like, Ended
<1> QED
  BY <1>1, <1>2, <1>3, <1>4, <1>5, <1>6 DEF Configure

\* A stop whose terminal has ended goes on to the archive or closes the record;
\* it closes it with an archive that was asked for done, and keeps the failure
\* of a channel whose creation is unresolved.
LEMMA OnwardFields ==
    ASSUME aStopper \in [Stoppers -> StopPlace], NEW s \in Stoppers,
           NEW rec \in Records, NEW stop \in Stops, Onward(s, rec, stop)
    PROVE  /\ aRec'.prompt = rec.prompt /\ aRec'.setup = rec.setup /\ aRec'.slot = rec.slot
           /\ aRec'.task = rec.task /\ aRec'.chan = rec.chan
           /\ aStop'.requested = stop.requested /\ aStop'.terminated = stop.terminated
           /\ \A t \in Stoppers : t # s => aStopper'[t] = aStopper[t]
           /\ \/ aRec' = rec /\ aStop' = stop /\ aStopper'[s] = "archive"
              \/ /\ aRec'.status = "stopped" /\ aStopper'[s] = "idle"
                 /\ aStop'.archive /\ rec.chan => aStop'.archived
                 /\ rec.setup \in {"uncertain", "interrupted"} /\ ~rec.chan
                       => aRec'.failure = rec.failure
<1>1. CASE stop.archive /\ rec.chan /\ ~stop.archived
  BY <1>1 DEF Onward
<1>2. CASE ~(stop.archive /\ rec.chan /\ ~stop.archived)
  <2> DEFINE f == IF rec.setup \in {"uncertain", "interrupted"} /\ ~rec.chan
                  THEN rec.failure ELSE "none"
             v == stop.archived \/ (stop.archive /\ ~rec.chan)
             ended == [rec EXCEPT !.status = "stopped", !.failure = f]
             over == [stop EXCEPT !.archived = v]
  <2>1. aRec' = ended /\ aStop' = over /\ aStopper' = [aStopper EXCEPT ![s] = "idle"]
    BY <1>2 DEF Onward
  <2>2. /\ ended.prompt = rec.prompt /\ ended.setup = rec.setup /\ ended.slot = rec.slot
        /\ ended.task = rec.task /\ ended.chan = rec.chan
        /\ ended.status = "stopped" /\ ended.failure = f
    BY DEF Records
  <2>3. /\ over.requested = stop.requested /\ over.terminated = stop.terminated
        /\ over.archive = stop.archive /\ over.archived = v
    BY DEF Stops
  <2>4. /\ rec.setup \in {"uncertain", "interrupted"} /\ ~rec.chan => f = rec.failure
        /\ stop.archive /\ rec.chan => v
    BY <1>2
  <2> HIDE DEF f, v, ended, over
  <2> QED
    BY <2>1, <2>2, <2>3, <2>4
<1> QED
  BY <1>1, <1>2

\* A stop is claimed before it waits for the launch, and what it finds quiet
\* stays quiet.
LEMMA StopKeeps ==
    ASSUME TypeOK, RecordInv, NEW s \in Stoppers, StopArrives(s) \/ StopGoesOn(s)
    PROVE  RecordInv'
<1> USE DEF RecordInv, EarlyInv, PrepInv, OnceInv, StopInv, ReleaseInv, MadeInv, Early, Quiet
<1>0. aRec \in Records /\ aStop \in Stops /\ aStopper \in [Stoppers -> StopPlace]
  BY DEF TypeOK, StopPlace
<1>1. ASSUME StopArrives(s) PROVE RecordInv'
  BY <1>0, <1>1 DEF StopArrives
<1>2. ASSUME NEW archive \in BOOLEAN, StopClaims(s, archive) PROVE RecordInv'
  <2> DEFINE stop == [aStop EXCEPT !.archive = aStop.archive \/ archive]
             req == [stop EXCEPT !.requested = TRUE]
             rec == [aRec EXCEPT !.status = "stopping"]
  <2>1. /\ stop.requested = aStop.requested /\ stop.terminated = aStop.terminated
        /\ stop.archived = aStop.archived /\ stop \in Stops
    BY <1>0 DEF Stops
  <2>2. /\ req.requested /\ req.terminated = aStop.terminated
    BY <2>1 DEF Stops
  <2>3. /\ rec.setup = aRec.setup /\ rec.slot = aRec.slot /\ rec.task = aRec.task
        /\ rec.chan = aRec.chan /\ rec.failure = aRec.failure
        /\ rec.prompt = aRec.prompt /\ rec.status = "stopping"
    BY <1>0 DEF Records
  <2>4. /\ aOps.prep = "idle"
        /\ \/ /\ aRec' = aRec /\ aStop' = aStop /\ aStopper' = [aStopper EXCEPT ![s] = "idle"]
           \/ /\ aRec.status = "stopped" /\ aRec' = aRec /\ aStop' = stop
              /\ stop.archive => stop.archived
              /\ aStopper' = [aStopper EXCEPT ![s] = "idle"]
           \/ /\ aRec.status \notin {"none", "released"}
              /\ aRec' = rec /\ aStop' = req /\ aStopper' = [aStopper EXCEPT ![s] = "launch"]
    BY <1>2 DEF StopClaims, StopDone
  <2>5. UNCHANGED <<aOps, aTerm, aSaved, aMade, aSpawned, aInjected>>
    BY <1>2 DEF StopClaims
  <2> HIDE DEF stop, req, rec
  <2> QED
    BY <1>0, <2>1, <2>2, <2>3, <2>4, <2>5
<1>3. ASSUME StopPastLaunch(s) PROVE RecordInv'
  <2>1. UNCHANGED <<aOps, aTerm, aSaved, aMade, aSpawned, aInjected>>
    BY <1>3 DEF StopPastLaunch
  <2>2. /\ aStopper[s] = "launch" /\ aOps.launch = "idle"
        /\ \/ aStop.terminated /\ Onward(s, aRec, aStop)
           \/ aRec' = aRec /\ aStop' = aStop /\ aStopper' = [aStopper EXCEPT ![s] = "terminate"]
    BY <1>3 DEF StopPastLaunch, LaunchSettled
  <2> QED
    BY <1>0, <2>1, <2>2, OnwardFields
<1>4. ASSUME StopTerminates(s) PROVE RecordInv'
  <2> DEFINE stop == [aStop EXCEPT !.terminated = TRUE]
             rec == Departed(aRec)
  <2>1. /\ stop \in Stops /\ stop.terminated /\ stop.requested = aStop.requested
        /\ stop.archive = aStop.archive /\ stop.archived = aStop.archived
    BY <1>0 DEF Stops
  <2>2. /\ aStopper[s] = "terminate" /\ aTerm # "starting"
        /\ aTerm' = IF aTerm = "alive" THEN "gone" ELSE aTerm
        /\ Onward(s, rec, stop) /\ aSaved' = "none"
        /\ UNCHANGED <<aOps, aMade, aSpawned, aInjected>>
    BY <1>4 DEF StopTerminates
  <2>3. aTerm \in {"none", "starting", "alive", "gone"}
    BY DEF TypeOK
  <2>4. /\ rec \in Records /\ rec.slot = "none" /\ rec.task # "held"
        /\ rec.status = aRec.status /\ rec.failure = aRec.failure
        /\ rec.prompt = aRec.prompt /\ rec.setup = aRec.setup /\ rec.chan = aRec.chan
    BY <1>0, DepartedFields
  <2> HIDE DEF stop, rec
  <2> QED
    BY <1>0, <2>1, <2>2, <2>3, <2>4, OnwardFields
<1>5. ASSUME StopArchives(s) PROVE RecordInv'
  <2> DEFINE stop == [aStop EXCEPT !.archived = TRUE]
  <2>1. /\ stop \in Stops /\ stop.terminated = aStop.terminated
        /\ stop.requested = aStop.requested /\ stop.archived
    BY <1>0 DEF Stops
  <2>2. /\ aStopper[s] = "archive" /\ Onward(s, aRec, stop)
        /\ UNCHANGED <<aOps, aTerm, aSaved, aMade, aSpawned, aInjected>>
    BY <1>5 DEF StopArchives
  <2> HIDE DEF stop
  <2> QED
    BY <1>0, <2>1, <2>2, OnwardFields
<1>6. ASSUME StopFails(s) PROVE RecordInv'
  <2>1. /\ aStopper[s] \in {"terminate", "archive"}
        /\ aRec' = Failed(aRec, "stop_failed") /\ aStopper' = [aStopper EXCEPT ![s] = "idle"]
        /\ UNCHANGED <<aStop, aOps, aTerm, aSaved, aMade, aSpawned, aInjected>>
    BY <1>6 DEF StopFails, Refusable
  <2> QED
    BY <1>0, <2>1, FailedFields DEF FailureCode, Like, Ended
<1> QED
  BY <1>1, <1>2, <1>3, <1>4, <1>5, <1>6 DEF StopGoesOn

\* A restart forgets the operations; recovery queues a launch only for a record
\* that was never claimed.
LEMMA CrashKeeps ==
    ASSUME TypeOK, RecordInv, Crash \/ Recover
    PROVE  RecordInv'
<1> USE DEF RecordInv, EarlyInv, PrepInv, OnceInv, StopInv, ReleaseInv, MadeInv, Early, Quiet
<1>0. aRec \in Records /\ aOps \in Operations /\ aStopper \in [Stoppers -> StopPlace]
  BY DEF TypeOK, StopPlace
<1>1. ASSUME Crash PROVE RecordInv'
  <2> DEFINE ops == [NoOps EXCEPT !.booted = FALSE]
  <2>1. ops.prep = "idle" /\ ops.launch = "idle" /\ ops.conf = "idle" /\ ops.hook = "idle"
    BY DEF NoOps
  <2>2. /\ aOps' = ops /\ \A t \in Stoppers : aStopper'[t] = "idle"
        /\ aOps.prep # "creating" => aMade' = aMade
        /\ UNCHANGED <<aRec, aStop, aTerm, aSaved, aSpawned, aInjected>>
    BY <1>1 DEF Crash
  <2> HIDE DEF ops
  <2> QED
    BY <1>0, <2>1, <2>2
<1>2. ASSUME Recover PROVE RecordInv'
  <2> DEFINE ops == [aOps EXCEPT !.booted = TRUE]
             queued == [ops EXCEPT !.launch = "queued"]
             cut == [Departed(aRec) EXCEPT !.setup = "interrupted"]
             late == [aRec EXCEPT !.prompt = "failed"]
  <2>1. /\ ops \in Operations /\ ops.prep = aOps.prep /\ ops.launch = aOps.launch
        /\ ops.conf = aOps.conf /\ ops.hook = aOps.hook
    BY <1>0 DEF Operations
  <2>2. /\ queued.prep = aOps.prep /\ queued.launch = "queued"
        /\ queued.conf = aOps.conf /\ queued.hook = aOps.hook
    BY <2>1 DEF Operations
  <2>3. /\ cut \in Records /\ cut.setup = "interrupted" /\ cut.status = aRec.status
        /\ cut.prompt = aRec.prompt /\ cut.slot = "none" /\ cut.task # "held"
        /\ cut.chan = aRec.chan
    BY <1>0, DepartedFields DEF Records, SetupStatus
  <2>4. /\ late \in Records /\ late.setup = aRec.setup /\ late.status = aRec.status
        /\ late.prompt = "failed" /\ late.slot = aRec.slot /\ late.task = aRec.task
        /\ late.chan = aRec.chan /\ late.failure = aRec.failure
    BY <1>0 DEF Records, PromptStatus
  <2>5. \/ /\ aSaved = "named" /\ aRec.status \notin {"none", "preparing_channel"}
           /\ Correlated(ops) /\ aStopper' = aStopper
        \/ /\ aRec' = aRec /\ aOps' = ops
           /\ aStopper' = aStopper \/ aStopper' = [aStopper EXCEPT ![Recovery] = "arrived"]
        \/ aRec' = aRec /\ aOps' = queued /\ aStopper' = aStopper /\ aRec.status = "pending"
        \/ /\ aRec.status = "preparing_channel" /\ aOps.prep = "idle"
           /\ aRec' = Failed(cut, "channel_creation_interrupted") /\ aOps' = ops
           /\ aStopper' = aStopper
        \/ /\ aRec.status = "injecting_prompt" /\ aRec.prompt = "claimed" /\ aStopper' = aStopper
           /\ aRec' = Failed(late, "prompt_delivery_interrupted") /\ aOps' = ops
    BY <1>2 DEF Recover, LaunchDue
  <2>6. UNCHANGED <<aStop, aTerm, aSaved, aMade, aSpawned, aInjected>>
    BY <1>2 DEF Recover
  <2> HIDE DEF ops, queued, cut, late
  <2>7. CASE aSaved = "named" /\ Correlated(ops) /\ aStopper' = aStopper
    BY <1>0, <2>1, <2>6, <2>7, CorrelatedFields
  <2>8. CASE /\ aRec' = aRec /\ aOps' = ops
             /\ aStopper' = aStopper \/ aStopper' = [aStopper EXCEPT ![Recovery] = "arrived"]
    BY <1>0, <2>1, <2>6, <2>8
  <2>9. CASE /\ aRec' = aRec /\ aOps' = queued /\ aStopper' = aStopper
             /\ aRec.status = "pending"
    BY <1>0, <2>2, <2>6, <2>9
  <2>10. CASE /\ aRec.status = "preparing_channel" /\ aOps.prep = "idle"
              /\ aRec' = Failed(cut, "channel_creation_interrupted") /\ aOps' = ops
              /\ aStopper' = aStopper
    BY <2>1, <2>3, <2>6, <2>10, FailedFields DEF FailureCode, Like, Ended
  <2>11. CASE /\ aRec.status = "injecting_prompt" /\ aRec.prompt = "claimed"
              /\ aStopper' = aStopper
              /\ aRec' = Failed(late, "prompt_delivery_interrupted") /\ aOps' = ops
    BY <2>1, <2>4, <2>6, <2>11, FailedFields DEF FailureCode, Like, Ended
  <2> QED
    BY <2>5, <2>7, <2>8, <2>9, <2>10, <2>11
<1> QED
  BY <1>1, <1>2

\* Requests and channel preparations happen before the launch.
LEMMA RequestKeeps ==
    ASSUME TypeOK, RecordInv,
           \/ \E text \in BOOLEAN : SubmitPlain(text)
           \/ \E slot \in {"none", "reserved"}, task \in BOOLEAN : SubmitNamed(slot, task)
           \/ Prepare
    PROVE  RecordInv'
<1> USE DEF RecordInv, EarlyInv, PrepInv, OnceInv, StopInv, ReleaseInv, MadeInv, Early, Quiet
<1>0. aRec \in Records /\ aOps \in Operations
  BY DEF TypeOK
<1>1. ASSUME NEW text \in BOOLEAN, SubmitPlain(text) PROVE RecordInv'
  BY <1>0, <1>1 DEF SubmitPlain, NoRecord, Operations
<1>2. ASSUME NEW slot \in {"none", "reserved"}, NEW task \in BOOLEAN, SubmitNamed(slot, task)
      PROVE  RecordInv'
  BY <1>0, <1>2 DEF SubmitNamed, NoRecord, Operations
<1>3. ASSUME ChannelMade PROVE RecordInv'
  BY <1>0, <1>3 DEF ChannelMade, Records, Operations
<1>4. ASSUME JoinRefused PROVE RecordInv'
  BY <1>0, <1>4 DEF JoinRefused, PrepDone, Records, Operations, Failed, Ended
<1>5. ASSUME ChannelRefused PROVE RecordInv'
  BY <1>0, <1>5 DEF ChannelRefused, PrepDone, NoRecord, NoStop, Operations
<1>6. ASSUME ChannelUncertain PROVE RecordInv'
  <2> DEFINE cut == [Departed(aRec) EXCEPT !.setup = "uncertain"]
  <2>1. /\ cut \in Records /\ cut.setup = "uncertain" /\ cut.status = aRec.status
        /\ cut.prompt = aRec.prompt /\ cut.slot = "none" /\ cut.task # "held"
        /\ cut.chan = aRec.chan
    BY <1>0, DepartedFields DEF Records, SetupStatus
  <2>2. aOps.prep = "creating" /\ aRec' = Failed(cut, "channel_creation_uncertain")
    BY <1>6 DEF ChannelUncertain
  <2>3. /\ aOps'.prep = "idle" /\ aOps'.launch = aOps.launch
        /\ aOps'.conf = aOps.conf /\ aOps'.hook = aOps.hook
    BY <1>0, <1>6 DEF ChannelUncertain, PrepDone, Operations
  <2>4. UNCHANGED <<aStop, aStopper, aTerm, aSaved, aSpawned, aInjected>>
    BY <1>6 DEF ChannelUncertain
  <2> HIDE DEF cut
  <2> QED
    BY <2>1, <2>2, <2>3, <2>4, FailedFields DEF FailureCode, Like, Ended
<1> QED
  BY <1>1, <1>2, <1>3, <1>4, <1>5, <1>6 DEF Prepare

\* The record leaves "pending" before the terminal is asked for.
LEMMA LaunchKeeps ==
    ASSUME TypeOK, RecordInv,
           \/ Launch \/ TerminalUp
           \/ SessionStart \/ Correlates \/ LaunchTimesOut \/ ReconcileCorrelates
    PROVE  RecordInv'
<1> USE DEF RecordInv, EarlyInv, PrepInv, OnceInv, StopInv, ReleaseInv, MadeInv, Early, Quiet
<1>0. aRec \in Records /\ aOps \in Operations
  BY DEF TypeOK
<1>1. ASSUME LaunchBegins PROVE RecordInv'
  BY <1>0, <1>1 DEF LaunchBegins, LaunchDue, Records, Operations
<1>2. ASSUME LaunchSpawns PROVE RecordInv'
  BY <1>0, <1>2 DEF LaunchSpawns, Operations
<1>3. ASSUME LaunchSeen PROVE RecordInv'
  BY <1>0, <1>3 DEF LaunchSeen, Records, Operations
<1>4. ASSUME LaunchFails PROVE RecordInv'
  BY <1>0, <1>4, FailedFields DEF LaunchFails, Operations, FailureCode, Like, Ended
<1>5. ASSUME TerminalUp PROVE RecordInv'
  BY <1>5 DEF TerminalUp
<1>6. ASSUME SessionStart PROVE RecordInv'
  BY <1>0, <1>6 DEF SessionStart, Operations
<1>7. ASSUME SessionNamed PROVE RecordInv'
  BY <1>7 DEF SessionNamed
<1>8. ASSUME SessionMismatch PROVE RecordInv'
  BY <1>0, <1>8, FailedFields DEF SessionMismatch, Operations, FailureCode, Like, Ended
<1>9. ASSUME LaunchTimesOut PROVE RecordInv'
  BY <1>0, <1>9, FailedFields DEF LaunchTimesOut, FailureCode, Like, Ended
<1> HIDE DEF RecordInv
<1> QED
  BY <1>1, <1>2, <1>3, <1>4, <1>5, <1>6, <1>7, <1>8, <1>9, SessionStartedKeeps, ReconcileKeeps
     DEF Launch, Correlates

\* The dispatcher and a release leave the launch and the stops alone.
LEMMA LeaveKeeps ==
    ASSUME TypeOK, RecordInv, TaskSettles \/ Release
    PROVE  RecordInv'
<1> USE DEF RecordInv, EarlyInv, PrepInv, OnceInv, StopInv, ReleaseInv, MadeInv, Early, Quiet
<1>0. aRec \in Records
  BY DEF TypeOK
<1>1. ASSUME TaskSettles PROVE RecordInv'
  BY <1>0, <1>1 DEF TaskSettles, Records
<1>2. ASSUME Release PROVE RecordInv'
  BY <1>0, <1>2 DEF Release, ReleaseReady, Records
<1> QED
  BY <1>1, <1>2

\* A step of the automation keeps the invariant.
LEMMA InvStep == TypeOK /\ RecordInv /\ [Next]_aVars => TypeOK' /\ RecordInv'
<1> SUFFICES ASSUME TypeOK, RecordInv, [Next]_aVars PROVE TypeOK' /\ RecordInv'
  OBVIOUS
<1>1. TypeOK'
  BY TypeStep
<1>2. CASE UNCHANGED aVars
  BY <1>1, <1>2
     DEF aVars, RecordInv, EarlyInv, PrepInv, OnceInv, StopInv, ReleaseInv, MadeInv, Early, Quiet
<1> QED
  BY <1>1, <1>2, RequestKeeps, LaunchKeeps, ConfigureKeeps, LeaveKeeps, StopKeeps, CrashKeeps
     DEF Next
-----------------------------------------------------------------------------
(* The theorems                                                            *)

\* The invariant holds from the first request on.
LEMMA InvHolds == Spec => [](TypeOK /\ RecordInv)
<1>1. ASSUME Init PROVE TypeOK
  <2>1. NoRecord \in Records
    BY DEF NoRecord, Records, Status, PromptStatus, SetupStatus, CollabStatus, SlotStatus,
           TaskStatus
  <2>2. NoStop \in Stops /\ NoOps \in Operations
    BY DEF NoStop, NoOps, Stops, Operations
  <2>3. aRec \in Records /\ aStop \in Stops /\ aOps \in Operations
    BY <1>1, <2>1, <2>2 DEF Init
  <2>4. aStopper \in [Stoppers -> {"idle", "arrived", "launch", "terminate", "archive"}]
    BY <1>1 DEF Init
  <2>5. /\ aSaved = "none" /\ aTerm = "none" /\ aMade = FALSE
        /\ aSpawned = 0 /\ aInjected = 0 /\ aCreates = 0 /\ aCrashes = 0
    BY <1>1 DEF Init
  <2> QED
    BY <2>3, <2>4, <2>5 DEF TypeOK
<1>2. Init => RecordInv
  BY DEF Init, NoRecord, NoStop, NoOps, RecordInv, EarlyInv, PrepInv, OnceInv, StopInv,
         ReleaseInv, MadeInv, Early, Quiet
<1> QED
  BY <1>1, <1>2, InvStep, PTL DEF Spec

\* The record, the stop, the operations and the counters keep their types, with
\* one finite set of names for each field of the record.
THEOREM TypeCorrect == Spec => []TypeOK
BY InvHolds, PTL

\* One record asks for at most one terminal and submits its first prompt at most
\* once, whatever is repeated, stopped or restarted (launchPending, configure,
\* recover).
THEOREM StepsOnce == Spec => []AtMostOnce
<1>1. RecordInv => AtMostOnce
  BY DEF RecordInv, OnceInv, AtMostOnce
<1> QED
  BY <1>1, InvHolds, PTL

\* A stop that reported success left no terminal, no launch that could make one,
\* no slot, no undelivered task and no channel that is not reported (stop,
\* terminateAutomation).
THEOREM StopLeavesNothing == Spec => []StoppedIsQuiet
<1>1. RecordInv => StoppedIsQuiet
  BY DEF RecordInv, StopInv, MadeInv, Quiet, StoppedIsQuiet
<1> QED
  BY <1>1, InvHolds, PTL

\* After a release no stop is at work and the terminal is alive (release).
THEOREM ReleaseLeavesTerminal == Spec => []ReleasedIsLeft
<1>1. TypeOK /\ RecordInv => ReleasedIsLeft
  BY DEF TypeOK, RecordInv, StopInv, ReleaseInv, ReleasedIsLeft
<1> QED
  BY <1>1, InvHolds, PTL

\* Once a stop is claimed no first prompt is submitted, although a configuration
\* may be inside one of its awaits (configure).
THEOREM StopFencesFirstPrompt == Spec => StopFencesPrompt
<1>1. [Next]_aVars => (aStop.requested => aInjected' = aInjected)
  BY DEF Next, aVars, SubmitPlain, SubmitNamed, Prepare, ChannelMade, JoinRefused,
         ChannelRefused, ChannelUncertain, Launch, LaunchBegins, LaunchSpawns, LaunchSeen,
         LaunchFails, TerminalUp, SessionStart, Correlates, SessionNamed, SessionStarted,
         SessionMismatch, LaunchTimesOut, ReconcileCorrelates, Configure, ConfigureBegins,
         CorrelationLost, InputReady, InputNotReady, InviteSettles, InjectSettles, Fenced,
         TaskSettles, Release, StopArrives, StopGoesOn, StopClaims, StopPastLaunch,
         StopTerminates, StopArchives, StopFails, Crash, Recover
<1>2. [Next]_aVars => [aStop.requested => aInjected' = aInjected]_aVars
  BY <1>1
<1> QED
  BY <1>2, PTL DEF Spec, StopFencesPrompt
=============================================================================
