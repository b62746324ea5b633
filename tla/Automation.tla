------------------------------- MODULE Automation -------------------------------
(***************************************************************************)
(* The life of one automation, a session that a script asks SAB to set up: *)
(* its Slack channel, its team slot, its terminal, its collaborators and   *)
(* its first prompt, and how it is stopped or released                     *)
(* (src/daemon/automation.mjs, automation-stop.mjs, team-automation.mjs    *)
(* and the adapters in src/daemon/daemon.mjs).                             *)
(*                                                                         *)
(* A step is the code between two awaits.  Every change of the record is   *)
(* written to disk in the step that makes it, so a restart loses only the  *)
(* operations in progress.  Requests of other external keys share nothing  *)
(* with this one and are left out.                                         *)
(***************************************************************************)
EXTENDS Naturals, FiniteSets

CONSTANTS
    Stoppers,     \* stop() calls that may run at once; Recovery is one of them
    Recovery,     \* the stop() that recover() starts
    MaxCreates,   \* bound: create requests that reach Slack or the journal
    MaxCrashes    \* bound: restarts of the daemon

VARIABLES
    aRec,         \* the record: status, failure, prompt, text (initialPrompt kept),
                  \*   setup (channelSetup), chan, sess (ids bound), collab, slot
                  \*   (the team reservation or membership) and task
    aStop,        \* record.stop: requested, archive, terminated, archived
    aOps,         \* where each operation of this process stands: prep, launch,
                  \*   conf (configure), hook (SessionStart); booted (recover() ran)
    aStopper,     \* where each stop() call stands
    aTerm,        \* the automation's tmux: "none", "starting", "alive", "gone"
    aSaved,       \* the terminal's session in state.sessions: "none", "new", or
                  \*   "named" once it has a channel
    aMade,        \* whether Slack holds a channel prepared for this record
    aSpawned, aInjected,   \* history: terminals spawned, first prompts submitted
    aCreates, aCrashes

aVars == <<aRec, aStop, aOps, aStopper, aTerm, aSaved, aMade, aSpawned, aInjected,
           aCreates, aCrashes>>

NoRecord == [status |-> "none", failure |-> "none", prompt |-> "pending", text |-> FALSE,
             setup |-> "none", chan |-> FALSE, sess |-> FALSE, collab |-> "pending",
             slot |-> "none", task |-> "none"]
NoStop == [requested |-> FALSE, archive |-> FALSE, terminated |-> FALSE, archived |-> FALSE]
NoOps == [prep |-> "idle", launch |-> "idle", conf |-> "idle", hook |-> "idle", booted |-> TRUE]

Ended(rec) == rec.status \in {"stopped", "released"}

\* setFailure: a stopped or released record keeps its status.
Failed(rec, code) == IF Ended(rec) THEN rec ELSE [rec EXCEPT !.status = "failed", !.failure = code]

\* removeTeamWorker and releaseTeamWorkerReservation; an undelivered task ends.
Departed(rec) == [rec EXCEPT !.slot = "none", !.task = IF @ = "held" THEN "ended" ELSE @]

Init ==
    /\ aRec = NoRecord /\ aStop = NoStop /\ aOps = NoOps
    /\ aStopper = [s \in Stoppers |-> "idle"]
    /\ aTerm = "none" /\ aSaved = "none" /\ aMade = FALSE
    /\ aSpawned = 0 /\ aInjected = 0 /\ aCreates = 0 /\ aCrashes = 0

-----------------------------------------------------------------------------
\* Requests.  A repeated request returns the record it finds.
SubmitPlain(text) ==
    /\ aRec.status = "none" /\ aCreates < MaxCreates
    /\ aCreates' = aCreates + 1
    /\ aRec' = [NoRecord EXCEPT !.status = "pending", !.text = text]
    /\ aOps' = [aOps EXCEPT !.launch = "queued"]
    /\ UNCHANGED <<aStop, aStopper, aTerm, aSaved, aMade, aSpawned, aInjected, aCrashes>>

\* A named or team-bound request journals the record and asks Slack for a
\* channel; a team-bound one reserves its slot in the same write.
SubmitNamed(slot, task) ==
    /\ aRec.status = "none" /\ aCreates < MaxCreates
    /\ task => slot = "reserved"
    /\ aCreates' = aCreates + 1
    /\ aRec' = [NoRecord EXCEPT !.status = "preparing_channel", !.setup = "creating",
                                !.slot = slot, !.text = ~task,
                                !.prompt = IF task THEN "team_task" ELSE "pending"]
    /\ aOps' = [aOps EXCEPT !.prep = "creating"]
    /\ UNCHANGED <<aStop, aStopper, aTerm, aSaved, aMade, aSpawned, aInjected, aCrashes>>

PrepDone == aOps' = [aOps EXCEPT !.prep = "idle"]

\* Slack made the channel: membership and task are bound with it, in one write.
ChannelMade ==
    /\ aOps.prep = "creating"
    /\ aMade' = TRUE
    /\ aRec' = [aRec EXCEPT !.setup = "created", !.chan = TRUE, !.status = "pending",
                            !.slot = IF @ = "reserved" THEN "member" ELSE @,
                            !.task = IF aRec.prompt = "team_task" THEN "held" ELSE @]
    /\ aOps' = [aOps EXCEPT !.prep = "idle", !.launch = "queued"]
    /\ UNCHANGED <<aStop, aStopper, aTerm, aSaved, aSpawned, aInjected, aCreates, aCrashes>>

\* The team refused the new member after the channel was made.
JoinRefused ==
    /\ aOps.prep = "creating" /\ aRec.slot = "reserved"
    /\ aMade' = TRUE
    /\ aRec' = Failed([aRec EXCEPT !.setup = "created", !.chan = TRUE, !.slot = "none"],
                      "team_join_failed")
    /\ PrepDone
    /\ UNCHANGED <<aStop, aStopper, aTerm, aSaved, aSpawned, aInjected, aCreates, aCrashes>>

\* Slack refused the channel: the record is deleted and its key is free again.
ChannelRefused ==
    /\ aOps.prep = "creating"
    /\ aRec' = NoRecord /\ aStop' = NoStop
    /\ PrepDone
    /\ UNCHANGED <<aStopper, aTerm, aSaved, aMade, aSpawned, aInjected, aCreates, aCrashes>>

\* No answer: the channel may exist or not.
ChannelUncertain ==
    /\ aOps.prep = "creating"
    /\ aMade' \in BOOLEAN
    /\ aRec' = Failed([Departed(aRec) EXCEPT !.setup = "uncertain"], "channel_creation_uncertain")
    /\ PrepDone
    /\ UNCHANGED <<aStop, aStopper, aTerm, aSaved, aSpawned, aInjected, aCreates, aCrashes>>

-----------------------------------------------------------------------------
\* Mutant: a launch that was already claimed is asked for again.
LaunchDue_Claimed == aRec.status \in {"pending", "launching"}
LaunchDue == aRec.status = "pending"

\* launchPending: the record leaves "pending" before the terminal is asked for.
LaunchBegins ==
    /\ aOps.launch = "queued"
    /\ IF LaunchDue
       THEN /\ aRec' = [aRec EXCEPT !.status = "launching"]
            /\ aOps' = [aOps EXCEPT !.launch = "calling"]
       ELSE /\ UNCHANGED aRec
            /\ aOps' = [aOps EXCEPT !.launch = "idle"]
    /\ UNCHANGED <<aStop, aStopper, aTerm, aSaved, aMade, aSpawned, aInjected, aCreates,
                   aCrashes>>

LaunchSpawns ==
    /\ aOps.launch = "calling"
    /\ aTerm' = "starting" /\ aSpawned' = aSpawned + 1
    /\ aOps' = [aOps EXCEPT !.launch = "watching"]
    /\ UNCHANGED <<aRec, aStop, aStopper, aSaved, aMade, aInjected, aCreates, aCrashes>>

\* The terminal appears within the window both the launcher and stop() watch.
TerminalUp ==
    /\ aTerm = "starting"
    /\ aTerm' \in {"alive", "gone"}
    /\ UNCHANGED <<aRec, aStop, aOps, aStopper, aSaved, aMade, aSpawned, aInjected, aCreates,
                   aCrashes>>

LaunchSeen ==
    /\ aOps.launch = "watching" /\ aTerm = "alive"
    /\ aRec' = IF aRec.status = "launching" THEN [aRec EXCEPT !.status = "awaiting_session"] ELSE aRec
    /\ aOps' = [aOps EXCEPT !.launch = "idle"]
    /\ UNCHANGED <<aStop, aStopper, aTerm, aSaved, aMade, aSpawned, aInjected, aCreates,
                   aCrashes>>

LaunchFails ==
    /\ aOps.launch \in {"calling", "watching"} /\ aTerm # "alive"
    /\ aRec' = Failed(aRec, "launch_failed")
    /\ aOps' = [aOps EXCEPT !.launch = "idle"]
    /\ UNCHANGED <<aStop, aStopper, aTerm, aSaved, aMade, aSpawned, aInjected, aCreates,
                   aCrashes>>

-----------------------------------------------------------------------------
\* The SessionStart hook of the terminal, at most once per terminal and process;
\* the hooks of a stopped automation are fenced off.  The session is saved
\* before the awaits that precede correlation.
SessionStart ==
    /\ aTerm = "alive" /\ aOps.hook = "idle"
    /\ ~aStop.requested /\ aRec.status \notin {"stopping", "stopped"}
    /\ aSaved' = IF aSaved = "none" THEN "new" ELSE aSaved
    /\ aOps' = [aOps EXCEPT !.hook = "starting"]
    /\ UNCHANGED <<aRec, aStop, aStopper, aTerm, aMade, aSpawned, aInjected, aCreates, aCrashes>>

\* ensureChannel; the topic and model notices are still to be awaited.
SessionNamed ==
    /\ aOps.hook = "starting" /\ aSaved = "new"
    /\ aSaved' = "named"
    /\ UNCHANGED <<aRec, aStop, aOps, aStopper, aTerm, aMade, aSpawned, aInjected, aCreates,
                   aCrashes>>

\* correlateSessionStart, with the operations it leaves behind.
Correlated(ops) ==
    IF aStop.requested \/ aRec.status \in {"stopping", "stopped", "released"}
    THEN aRec' = aRec /\ aOps' = ops
    ELSE LET bound == [aRec EXCEPT !.sess = TRUE, !.chan = TRUE]
         IN  IF aRec.status \in {"active", "failed"}
             THEN aRec' = bound /\ aOps' = ops
             ELSE /\ aRec' = [bound EXCEPT !.status = "configuring_collaborators", !.failure = "none"]
                  /\ aOps' = [ops EXCEPT !.conf = IF @ = "idle" THEN "queued" ELSE @]

SessionStarted ==
    /\ aOps.hook = "starting" /\ aSaved = "named"
    /\ Correlated([aOps EXCEPT !.hook = "done"])
    /\ UNCHANGED <<aStop, aStopper, aTerm, aSaved, aMade, aSpawned, aInjected, aCreates,
                   aCrashes>>

\* A session of another directory or channel fails the record.
SessionMismatch ==
    /\ aOps.hook = "starting" /\ aSaved = "named" /\ ~aRec.sess
    /\ ~aStop.requested /\ ~Ended(aRec) /\ aRec.status # "stopping"
    /\ aRec' = Failed(aRec, "session_mismatch")
    /\ aOps' = [aOps EXCEPT !.hook = "done"]
    /\ UNCHANGED <<aStop, aStopper, aTerm, aSaved, aMade, aSpawned, aInjected, aCreates,
                   aCrashes>>

\* reconcile: a launch whose session never registered.
LaunchTimesOut ==
    /\ aRec.status \in {"launching", "awaiting_session"} /\ ~aRec.sess /\ aSaved # "named"
    /\ aRec' = Failed(aRec, "session_start_timeout")
    /\ UNCHANGED <<aStop, aOps, aStopper, aTerm, aSaved, aMade, aSpawned, aInjected, aCreates,
                   aCrashes>>

ReconcileCorrelates ==
    /\ aRec.status \in {"launching", "awaiting_session"} /\ ~aRec.sess /\ aSaved = "named"
    /\ Correlated(aOps)
    /\ UNCHANGED <<aStop, aStopper, aTerm, aSaved, aMade, aSpawned, aInjected, aCreates,
                   aCrashes>>

-----------------------------------------------------------------------------
\* configure, one at a time.
ConfIdle == [aOps EXCEPT !.conf = "idle"]

\* After the collaborators: what the record's prompt asks for.
Prompting(rec) ==
    CASE rec.prompt = "team_task" -> /\ aRec' = [rec EXCEPT !.status = "ready_to_prompt"]
                                     /\ aOps' = [aOps EXCEPT !.conf = "waiting"]
      [] rec.prompt = "delivered" -> aRec' = [rec EXCEPT !.status = "active"] /\ aOps' = ConfIdle
      [] rec.prompt \in {"claimed", "failed"} -> /\ aRec' = [rec EXCEPT !.status = "ready_to_prompt"]
                                                 /\ aOps' = ConfIdle
      [] rec.prompt = "pending" /\ rec.text -> /\ aRec' = [rec EXCEPT !.status = "ready_to_prompt"]
                                               /\ aOps' = [aOps EXCEPT !.conf = "waiting"]
      [] OTHER -> aRec' = [rec EXCEPT !.prompt = "delivered", !.status = "active"] /\ aOps' = ConfIdle

ConfigureBegins ==
    /\ aOps.conf = "queued"
    /\ IF aStop.requested \/ aRec.status \notin {"configuring_collaborators", "ready_to_prompt"}
       THEN UNCHANGED aRec /\ aOps' = ConfIdle
       ELSE LET rec == [aRec EXCEPT !.status = "configuring_collaborators"]
            IN  CASE rec.collab = "ready" -> Prompting(rec)
                  [] rec.collab = "failed" -> aRec' = rec /\ aOps' = ConfIdle
                  [] OTHER -> aRec' = rec /\ aOps' = [aOps EXCEPT !.conf = "inviting"]
    /\ UNCHANGED <<aStop, aStopper, aTerm, aSaved, aMade, aSpawned, aInjected, aCreates,
                   aCrashes>>

\* The session of the record is gone or has another identity.
CorrelationLost ==
    /\ aOps.conf = "queued" /\ ~aStop.requested
    /\ aRec.status \in {"configuring_collaborators", "ready_to_prompt"}
    /\ aRec' = Failed(aRec, "session_correlation_lost")
    /\ aOps' = ConfIdle
    /\ UNCHANGED <<aStop, aStopper, aTerm, aSaved, aMade, aSpawned, aInjected, aCreates,
                   aCrashes>>

\* Mutant: configuration gives way only to a stop that is over.
Fenced_Late == Ended(aRec)
Fenced == aStop.requested

InviteSettles(ok) ==
    /\ aOps.conf = "inviting"
    /\ CASE Fenced -> UNCHANGED aRec /\ aOps' = ConfIdle
         [] ~Fenced /\ ~ok ->
              /\ aRec' = Failed([aRec EXCEPT !.collab = "failed"], "collaborator_invitation_failed")
              /\ aOps' = ConfIdle
         [] ~Fenced /\ ok ->
              LET rec == [aRec EXCEPT !.collab = "ready"]
              IN  IF rec.status = "configuring_collaborators" THEN Prompting(rec)
                  ELSE aRec' = rec /\ aOps' = ConfIdle
    /\ UNCHANGED <<aStop, aStopper, aTerm, aSaved, aMade, aSpawned, aInjected, aCreates,
                   aCrashes>>

InputNotReady ==
    /\ aOps.conf = "waiting"
    /\ aRec' = IF Fenced THEN aRec ELSE Failed(aRec, "input_not_ready")
    /\ aOps' = ConfIdle
    /\ UNCHANGED <<aStop, aStopper, aTerm, aSaved, aMade, aSpawned, aInjected, aCreates,
                   aCrashes>>

\* A team task is left to the dispatcher, and only if nothing changed the status
\* meanwhile; a prompt is claimed on disk before it is submitted.
InputReady ==
    /\ aOps.conf = "waiting"
    /\ CASE Fenced \/ (aRec.prompt = "team_task" /\ aRec.status # "ready_to_prompt") ->
              UNCHANGED <<aRec, aInjected>> /\ aOps' = ConfIdle
         [] ~Fenced /\ aRec.prompt = "team_task" /\ aRec.status = "ready_to_prompt" ->
              aRec' = [aRec EXCEPT !.status = "active"] /\ aOps' = ConfIdle /\ UNCHANGED aInjected
         [] ~Fenced /\ aRec.prompt # "team_task" ->
              /\ aRec' = [aRec EXCEPT !.prompt = "claimed", !.status = "injecting_prompt", !.text = FALSE]
              /\ aOps' = [aOps EXCEPT !.conf = "injecting"]
              /\ aInjected' = aInjected + 1
    /\ UNCHANGED <<aStop, aStopper, aTerm, aSaved, aMade, aSpawned, aCreates, aCrashes>>

InjectSettles(ok) ==
    /\ aOps.conf = "injecting"
    /\ aRec' = CASE Fenced -> aRec
                 [] ~Fenced /\ ok -> [aRec EXCEPT !.prompt = "delivered", !.status = "active"]
                 [] ~Fenced /\ ~ok ->
                      Failed([aRec EXCEPT !.prompt = "failed"], "prompt_delivery_failed")
    /\ aOps' = ConfIdle
    /\ UNCHANGED <<aStop, aStopper, aTerm, aSaved, aMade, aSpawned, aInjected, aCreates,
                   aCrashes>>

\* The dispatcher delivers or ends the first team task (bootstrapTaskHold).
TaskSettles ==
    /\ aRec.task = "held"
    /\ \/ /\ aRec.status \in {"active", "released"} /\ ~aStop.requested
          /\ aRec' = [aRec EXCEPT !.task = "sent"]
       \/ /\ aStop.requested \/ aRec.status \in {"failed", "stopping", "stopped"}
          /\ aRec' = [aRec EXCEPT !.task = "ended"]
    /\ UNCHANGED <<aStop, aOps, aStopper, aTerm, aSaved, aMade, aSpawned, aInjected, aCreates,
                   aCrashes>>

-----------------------------------------------------------------------------
\* stop: it waits for a channel preparation, claims the record, waits for a
\* launch, ends the terminal and archives the channel.

\* stop() calls of HTTP requests; recover() starts its own.
StopArrives(s) ==
    /\ s # Recovery /\ aStopper[s] = "idle" /\ aRec.status \notin {"none", "released"}
    /\ aStopper' = [aStopper EXCEPT ![s] = "arrived"]
    /\ UNCHANGED <<aRec, aStop, aOps, aTerm, aSaved, aMade, aSpawned, aInjected, aCreates,
                   aCrashes>>

StopDone(stop) == stop.terminated /\ (~stop.archive \/ stop.archived)

StopClaims(s, archive) ==
    /\ aStopper[s] = "arrived" /\ aOps.prep = "idle"
    /\ LET stop == [aStop EXCEPT !.archive = @ \/ archive]
       IN  CASE aRec.status \in {"none", "released"} ->
                  UNCHANGED <<aRec, aStop>> /\ aStopper' = [aStopper EXCEPT ![s] = "idle"]
             [] aRec.status = "stopped" /\ StopDone(stop) ->
                  UNCHANGED aRec /\ aStop' = stop /\ aStopper' = [aStopper EXCEPT ![s] = "idle"]
             [] OTHER ->
                  /\ aRec' = [aRec EXCEPT !.status = "stopping"]
                  /\ aStop' = [stop EXCEPT !.requested = TRUE]
                  /\ aStopper' = [aStopper EXCEPT ![s] = "launch"]
    /\ UNCHANGED <<aOps, aTerm, aSaved, aMade, aSpawned, aInjected, aCreates, aCrashes>>

\* Archives next, or closes the record; what failed before is forgotten unless
\* an unconfirmed channel may still exist.
Onward(s, rec, stop) ==
    IF stop.archive /\ rec.chan /\ ~stop.archived
    THEN aRec' = rec /\ aStop' = stop /\ aStopper' = [aStopper EXCEPT ![s] = "archive"]
    ELSE /\ aRec' = [rec EXCEPT !.status = "stopped",
                                !.failure = IF rec.setup \in {"uncertain", "interrupted"} /\ ~rec.chan
                                            THEN @ ELSE "none"]
         /\ aStop' = [stop EXCEPT !.archived = @ \/ (stop.archive /\ ~rec.chan)]
         /\ aStopper' = [aStopper EXCEPT ![s] = "idle"]

\* Mutant: stop does not wait for the launch in progress.
LaunchSettled_Never == TRUE
LaunchSettled == aOps.launch = "idle"

StopPastLaunch(s) ==
    /\ aStopper[s] = "launch" /\ LaunchSettled
    /\ IF aStop.terminated THEN Onward(s, aRec, aStop)
       ELSE UNCHANGED <<aRec, aStop>> /\ aStopper' = [aStopper EXCEPT ![s] = "terminate"]
    /\ UNCHANGED <<aOps, aTerm, aSaved, aMade, aSpawned, aInjected, aCreates, aCrashes>>

\* A session of the terminal that the record is not bound to makes stop refuse.
StopTarget == aSaved # "none" => aRec.sess

\* terminateAutomationTmux watches the whole window in which a terminal asked
\* for may still appear; the session record and the team roles end with it.
StopTerminates(s) ==
    /\ aStopper[s] = "terminate" /\ StopTarget /\ aTerm # "starting"
    /\ aTerm' = IF aTerm = "alive" THEN "gone" ELSE aTerm
    /\ aSaved' = "none"
    /\ Onward(s, Departed(aRec), [aStop EXCEPT !.terminated = TRUE])
    /\ UNCHANGED <<aOps, aMade, aSpawned, aInjected, aCreates, aCrashes>>

StopArchives(s) ==
    /\ aStopper[s] = "archive"
    /\ Onward(s, aRec, [aStop EXCEPT !.archived = TRUE])
    /\ UNCHANGED <<aOps, aTerm, aSaved, aMade, aSpawned, aInjected, aCreates, aCrashes>>

\* Mutant: a refusal of the terminal is not recorded.
Refusable_Archive == {"archive"}
Refusable == {"terminate", "archive"}

\* The terminal or Slack refuses, or the exact correlation is gone.
StopFails(s) ==
    /\ aStopper[s] \in Refusable
    /\ aRec' = Failed(aRec, "stop_failed")
    /\ aStopper' = [aStopper EXCEPT ![s] = "idle"]
    /\ UNCHANGED <<aStop, aOps, aTerm, aSaved, aMade, aSpawned, aInjected, aCreates, aCrashes>>

\* Mutant: what was checked before the process proofs is not checked again.
ReleaseReady_Stale ==
    /\ aRec.status \in {"active", "stopping"} /\ aRec.prompt \in {"delivered", "team_task"}
    /\ ~aRec.text /\ aRec.collab = "ready"
\* release: everything is checked again in the step that follows the proofs.
ReleaseReady ==
    /\ aRec.status = "active" /\ ~aStop.requested
    /\ aRec.prompt \in {"delivered", "team_task"} /\ ~aRec.text /\ aRec.collab = "ready"
    /\ aOps.launch = "idle" /\ aOps.conf = "idle"

Release ==
    /\ ReleaseReady /\ aSaved = "named" /\ aTerm = "alive"
    /\ aRec' = [aRec EXCEPT !.status = "released"]
    /\ UNCHANGED <<aStop, aOps, aStopper, aTerm, aSaved, aMade, aSpawned, aInjected, aCreates,
                   aCrashes>>

-----------------------------------------------------------------------------
Crash ==
    /\ aCrashes < MaxCrashes
    /\ aCrashes' = aCrashes + 1
    /\ aOps' = [NoOps EXCEPT !.booted = FALSE]
    /\ aStopper' = [s \in Stoppers |-> "idle"]
    /\ aMade' \in IF aOps.prep = "creating" THEN BOOLEAN ELSE {aMade}
    /\ UNCHANGED <<aRec, aStop, aTerm, aSaved, aSpawned, aInjected, aCreates>>

\* recover: requests and hooks may have come before it.
Recover ==
    /\ ~aOps.booted
    /\ LET ops == [aOps EXCEPT !.booted = TRUE]
       IN  CASE aRec.status = "preparing_channel" /\ aOps.prep = "idle" ->
                  /\ aRec' = Failed([Departed(aRec) EXCEPT !.setup = "interrupted"],
                                    "channel_creation_interrupted")
                  /\ aOps' = ops /\ UNCHANGED aStopper
             [] aRec.status = "injecting_prompt" /\ aRec.prompt = "claimed" ->
                  /\ aRec' = Failed([aRec EXCEPT !.prompt = "failed"], "prompt_delivery_interrupted")
                  /\ aOps' = ops /\ UNCHANGED aStopper
             [] /\ aSaved = "named" /\ ~aStop.terminated
                /\ aRec.status \notin {"none", "preparing_channel", "injecting_prompt", "stopping",
                                      "stopped", "released"} ->
                  Correlated(ops) /\ UNCHANGED aStopper
             [] aSaved # "named" /\ LaunchDue ->
                  UNCHANGED <<aRec, aStopper>> /\ aOps' = [ops EXCEPT !.launch = "queued"]
             [] \/ aRec.status = "stopping"
                \/ aRec.status = "stopped" /\ aStop.archive /\ ~aStop.archived ->
                  /\ aStopper' = [aStopper EXCEPT ![Recovery] = "arrived"]
                  /\ UNCHANGED aRec /\ aOps' = ops
             [] OTHER -> UNCHANGED <<aRec, aStopper>> /\ aOps' = ops
    /\ UNCHANGED <<aStop, aTerm, aSaved, aMade, aSpawned, aInjected, aCreates, aCrashes>>

-----------------------------------------------------------------------------
Prepare == ChannelMade \/ JoinRefused \/ ChannelRefused \/ ChannelUncertain
Launch == LaunchBegins \/ LaunchSpawns \/ LaunchSeen \/ LaunchFails
Configure ==
    \/ ConfigureBegins \/ CorrelationLost \/ InputReady \/ InputNotReady
    \/ \E ok \in BOOLEAN : InviteSettles(ok) \/ InjectSettles(ok)
StopGoesOn(s) ==
    \/ \E archive \in BOOLEAN : StopClaims(s, archive)
    \/ StopPastLaunch(s) \/ StopTerminates(s) \/ StopArchives(s) \/ StopFails(s)
Correlates == SessionNamed \/ SessionStarted \/ SessionMismatch

Next ==
    \/ \E text \in BOOLEAN : SubmitPlain(text)
    \/ \E slot \in {"none", "reserved"}, task \in BOOLEAN : SubmitNamed(slot, task)
    \/ Prepare \/ Launch \/ TerminalUp
    \/ SessionStart \/ Correlates \/ LaunchTimesOut \/ ReconcileCorrelates
    \/ Configure \/ TaskSettles \/ Release
    \/ \E s \in Stoppers : StopArrives(s) \/ StopGoesOn(s)
    \/ Crash \/ Recover

Spec == Init /\ [][Next]_aVars

\* Slack and the terminals answer or time out, and the daemon boots.
Fairness ==
    /\ WF_aVars(Prepare) /\ WF_aVars(Launch) /\ WF_aVars(TerminalUp)
    /\ WF_aVars(Correlates) /\ WF_aVars(LaunchTimesOut) /\ WF_aVars(ReconcileCorrelates)
    /\ WF_aVars(Configure) /\ WF_aVars(TaskSettles)
    /\ \A s \in Stoppers : WF_aVars(StopGoesOn(s))
    /\ WF_aVars(Recover)

LiveSpec == Spec /\ Fairness

-----------------------------------------------------------------------------
Status == {"none", "preparing_channel", "pending", "launching", "awaiting_session",
           "configuring_collaborators", "ready_to_prompt", "injecting_prompt", "active",
           "failed", "stopping", "stopped", "released"}
FailureCode == {"channel_creation_uncertain", "channel_creation_interrupted",
                "team_join_failed", "launch_failed", "session_start_timeout",
                "session_mismatch", "session_correlation_lost",
                "collaborator_invitation_failed", "input_not_ready",
                "prompt_delivery_failed", "prompt_delivery_interrupted", "stop_failed"}
PromptStatus == {"pending", "claimed", "delivered", "failed", "team_task"}
SetupStatus == {"none", "creating", "created", "uncertain", "interrupted"}
CollabStatus == {"pending", "ready", "failed"}
SlotStatus == {"none", "reserved", "member"}
TaskStatus == {"none", "held", "sent", "ended"}

Records ==
    [status : Status, failure : FailureCode \cup {"none"}, prompt : PromptStatus,
     text : BOOLEAN, setup : SetupStatus, chan : BOOLEAN, sess : BOOLEAN,
     collab : CollabStatus, slot : SlotStatus, task : TaskStatus]

Stops == [requested : BOOLEAN, archive : BOOLEAN, terminated : BOOLEAN, archived : BOOLEAN]

Operations ==
    [prep : {"idle", "creating"}, launch : {"idle", "queued", "calling", "watching"},
     conf : {"idle", "queued", "inviting", "waiting", "injecting"},
     hook : {"idle", "starting", "done"}, booted : BOOLEAN]

TypeOK ==
    /\ aRec \in Records /\ aStop \in Stops /\ aOps \in Operations
    /\ aStopper \in [Stoppers -> {"idle", "arrived", "launch", "terminate", "archive"}]
    /\ aSaved \in {"none", "new", "named"} /\ aTerm \in {"none", "starting", "alive", "gone"}
    /\ aMade \in BOOLEAN
    /\ aSpawned \in Nat /\ aInjected \in Nat /\ aCreates \in Nat /\ aCrashes \in Nat

\* One record asks for at most one terminal and submits its first prompt at most
\* once, whatever is retried, stopped or interrupted (launchPending, configure,
\* recover).
AtMostOnce == aSpawned <= 1 /\ aInjected <= 1

\* A stop that reported success leaves nothing behind: no terminal, no launch
\* that could still make one, no reservation or undelivered task, and, when the
\* archive was asked for, no channel that is not reported as unresolved (stop,
\* terminateAutomation).  A preparation that a restart interrupted counts from
\* its recovery on.
StoppedIsQuiet ==
    aRec.status = "stopped" =>
        /\ aTerm \in {"none", "gone"} /\ aOps.launch \notin {"calling", "watching"}
        /\ aRec.slot = "none" /\ aRec.task # "held"
        /\ aStop.archive /\ aMade /\ aRec.setup # "creating" =>
               (aRec.chan /\ aStop.archived) \/ aRec.failure # "none"

\* After a release no stop is at work and the terminal is left alone.
ReleasedIsLeft ==
    aRec.status = "released" =>
        aTerm = "alive" /\ \A s \in Stoppers : aStopper[s] \in {"idle", "arrived"}

\* Once a stop is requested, no first prompt is submitted any more (configure).
StopFencesPrompt == [][aStop.requested => aInjected' = aInjected]_aVars

\* A stop that was claimed ends, stopped or with a failure to act on.
StopSettles == aRec.status = "stopping" ~> aRec.status \in {"stopped", "failed"}

\* The first task of a team-bound automation is delivered after collaborator
\* setup, or ends with the automation (bootstrapTaskHold).
BootstrapTaskSettles == aRec.task = "held" ~> aRec.task # "held"

\* A stop repeated until it succeeds ends the terminal ("then repeat the same
\* stop request", stop()).
StopTakesEffect == aStop.requested ~> aStop.terminated
RepeatSpec ==
    /\ LiveSpec
    /\ \A s \in Stoppers \ {Recovery} : WF_aVars(StopArrives(s)) /\ SF_aVars(StopTerminates(s))
=============================================================================
