----------------------------- MODULE TeamWakes -----------------------------
(***************************************************************************)
(* The automatic wakes of one team's coordinator: the durable list of      *)
(* lifecycle events, its coalescing, the timer and the runs that turn it   *)
(* into a prompt, the turn authority they grant, and what a restart makes  *)
(* of a wake under way (src/daemon/team-continuation.mjs, and its callers  *)
(* in src/daemon/daemon.mjs).                                              *)
(*                                                                         *)
(* A step is the code between two awaits; it writes what it changes.  The  *)
(* coordinator is a Claude session: its turns begin with UserPromptSubmit  *)
(* and end with Stop, and it is modelled by the prompts it holds.          *)
(***************************************************************************)
EXTENDS Naturals, Sequences, SequencesExt

CONSTANTS
    Keys,         \* lifecycle identities of worker events (task, kind, reply, version)
    Timers,       \* identities of due scheduled wakes (schedule, occurrence)
    Runs,         \* runTeamContinuation calls that may overlap
    MaxPending,   \* TEAM_CONTINUATION_MAX_PENDING
    MaxSeen,      \* TEAM_CONTINUATION_MAX_SEEN
    Budget,       \* dispatches of one turn
    MaxOwner,     \* bound: prompts of the owner, in Slack or in the terminal
    MaxEvents,    \* bound: continuation events created
    MaxFaults,    \* bound: failed injections, lost Stops, rebinds of the channel
    MaxEnds,      \* bound: times the session ends
    MaxCrashes    \* bound: restarts of the daemon

VARIABLES
    wCont,        \* durable: mode, drain, pending, active, seen, waiting
    wTurn,        \* durable: coordinator.teamTurn
    wReserved,    \* durable: coordinator.teamInputReservation
    wTimer,       \* a continuation timer is set
    wRun,         \* where each runTeamContinuation call stands, and its event
    wTracked,     \* a poller follows the coordinator's turn
    wStop,        \* finalizeTurn is under way
    wHeld,        \* prompts held for a dormant session (pendingBySid)
    wBoot,        \* "adopt", "recover", "reconcile" or "ready"
    wSess,        \* the coordinator: live, own (the channel is its own), running, queue
    wOwed,        \* history: events that no prompt and no notice has covered
    wUncertain,   \* history: events whose delivery was under way at a restart
    wStranded,    \* history: a run met the active event of another and set no timer
    wCount        \* the bounded counters

wVars == <<wCont, wTurn, wReserved, wTimer, wRun, wTracked, wStop, wHeld, wBoot, wSess,
           wOwed, wUncertain, wStranded, wCount>>

NoEvent == [uid |-> 0, key |-> "", keys |-> <<>>]
NoTurn == [actor |-> "none", uid |-> 0, left |-> 0]
WakeTurn(e) == [actor |-> "wake", uid |-> e.uid, left |-> Budget]
Idle == [at |-> "idle", event |-> NoEvent]

Init ==
    /\ wCont = [auto |-> TRUE, drain |-> FALSE, pending |-> <<>>, active |-> NoEvent,
                seen |-> <<>>, waiting |-> "no"]
    /\ wTurn = NoTurn /\ wReserved = FALSE /\ wTimer = FALSE
    /\ wRun = [r \in Runs |-> Idle]
    /\ wTracked = FALSE /\ wStop = FALSE /\ wHeld = <<>> /\ wBoot = "ready"
    /\ wSess = [live |-> TRUE, own |-> TRUE, running |-> "", queue |-> <<>>]
    /\ wOwed = {} /\ wUncertain = {} /\ wStranded = FALSE
    /\ wCount = [owner |-> 0, events |-> 0, faults |-> 0, ends |-> 0, crashes |-> 0]

\* scheduleTeamContinuation(): nothing is scheduled before boot recovery ended.
Rung == wTimer \/ wBoot \in {"reconcile", "ready"}
Busy == wTurn # NoTurn \/ wReserved \/ wTracked
Counted(what) == [wCount EXCEPT ![what] = @ + 1]
Fault == wCount.faults < MaxFaults /\ wCount' = Counted("faults")

-----------------------------------------------------------------------------
(* The event list                                                          *)

Elems(s) == {s[i] : i \in DOMAIN s}
KeysOf(s) == FlattenSeq([i \in DOMAIN s |-> s[i].keys])
Newest(s, n) == SubSeq(s, IF Len(s) > n THEN Len(s) - n + 1 ELSE 1, Len(s))

\* The elements of s that are in T, in order.
Only(s, T) ==
    LET kept[n \in 0..Len(s)] ==
          IF n = 0 THEN <<>> ELSE IF s[n] \in T THEN Append(kept[n - 1], s[n]) ELSE kept[n - 1]
    IN kept[Len(s)]

\* coalesceContinuations(): the latest event stands for the whole list.
Coalesced(s) == IF Len(s) < 2 THEN s
                ELSE <<[s[Len(s)] EXCEPT !.keys = Newest(KeysOf(s), MaxSeen)]>>

Known(k) == k \in Elems(KeysOf(wCont.pending)) \cup Elems(wCont.active.keys) \cup Elems(wCont.seen)

NewEvent(k) == [uid |-> wCount.events + 1, key |-> k, keys |-> <<k>>]

\* Mutant: a full list refuses the event instead of being coalesced.
WithEvent_Full(s, k) == IF Len(s) >= MaxPending THEN s ELSE Append(s, NewEvent(k))
WithEvent(s, k) == Append(IF Len(s) >= MaxPending THEN Coalesced(s) ELSE s, NewEvent(k))

Claimed(c) == [c EXCEPT !.active = Head(c.pending), !.pending = Tail(c.pending)]

\* settleContinuation(): the event's keys enter the bounded record.
Settled(c) == [c EXCEPT !.active = NoEvent,
    !.seen = Newest(@ \o Only(c.active.keys, Elems(c.active.keys) \ Elems(@)), MaxSeen)]

\* deferContinuation()
Deferred(c) == [c EXCEPT !.active = NoEvent, !.pending = <<c.active>> \o @]

\* A delivered event stands for all that were queued before it.
Covered(e) == {u \in wOwed : u > e.uid}

-----------------------------------------------------------------------------
(* What is queued                                                          *)

\* queueContinuation() of a key that is not known yet.
Queue(k) ==
    IF wCont.auto /\ ~Known(k)
    THEN /\ wCount.events < MaxEvents
         /\ wCont' = [wCont EXCEPT !.pending = WithEvent(@, k)]
         /\ wOwed' = wOwed \cup {wCount.events + 1}
         /\ wCount' = Counted("events")
         /\ wTimer' = Rung
    ELSE /\ wTimer' = (IF wCont.auto /\ k \notin Elems(wCont.seen) THEN Rung ELSE wTimer)
         /\ UNCHANGED <<wCont, wOwed, wCount>>

\* stageTeamContinuation() with its task or reply; hooks and replies retry.
WorkerEvent(k) ==
    /\ Queue(k)
    /\ UNCHANGED <<wTurn, wReserved, wRun, wTracked, wStop, wHeld, wBoot, wSess, wUncertain,
                   wStranded>>

\* fireDueTeamSchedules() in the reconciler: a draining team skips the wake.
ScheduleDue(k) ==
    /\ wBoot \in {"reconcile", "ready"} /\ ~wCont.drain
    /\ Queue(k)
    /\ UNCHANGED <<wTurn, wReserved, wRun, wTracked, wStop, wHeld, wBoot, wSess, wUncertain,
                   wStranded>>

\* /sab-team auto, manual, drain and resume
SetMode ==
    /\ Fault
    /\ \/ /\ wCont' = [wCont EXCEPT !.auto = ~@, !.waiting = IF wCont.auto THEN "no" ELSE @]
          /\ wTimer' = IF wCont.auto THEN wTimer ELSE Rung
       \/ /\ wCont' = [wCont EXCEPT !.drain = ~@]
          /\ wTimer' = IF wCont.drain THEN Rung ELSE wTimer
    /\ UNCHANGED <<wTurn, wReserved, wRun, wTracked, wStop, wHeld, wBoot, wSess, wOwed,
                   wUncertain, wStranded>>

-----------------------------------------------------------------------------
(* The coordinator's provider                                              *)

\* A message of the owner: its turn and its reservation, then the paste.
OwnerMessage ==
    /\ wCount.owner < MaxOwner /\ wCount' = Counted("owner")
    /\ wTurn' = [actor |-> "owner", uid |-> 0, left |-> Budget]
    /\ wReserved' = TRUE
    /\ IF wSess.live /\ wHeld = <<>>
       THEN wSess' = [wSess EXCEPT !.queue = Append(@, "owner")] /\ UNCHANGED wHeld
       ELSE wHeld' = Append(wHeld, "owner") /\ UNCHANGED wSess
    /\ UNCHANGED <<wCont, wTimer, wRun, wTracked, wStop, wBoot, wOwed, wUncertain, wStranded>>

\* The owner types in the terminal instead.
TerminalPrompt ==
    /\ wCount.owner < MaxOwner /\ wCount' = Counted("owner")
    /\ wSess.live
    /\ wSess' = [wSess EXCEPT !.queue = Append(@, "local")]
    /\ UNCHANGED <<wCont, wTurn, wReserved, wTimer, wRun, wTracked, wStop, wHeld, wBoot, wOwed,
                   wUncertain, wStranded>>

\* UserPromptSubmit: text that SAB did not inject revokes the turn authority.
PromptStarts ==
    /\ wSess.running = "" /\ wSess.queue # <<>>
    /\ wSess' = [wSess EXCEPT !.running = Head(wSess.queue), !.queue = Tail(@)]
    /\ wReserved' = TRUE /\ wTracked' = TRUE
    /\ wTurn' = IF Head(wSess.queue) = "local" THEN NoTurn ELSE wTurn
    /\ UNCHANGED <<wCont, wTimer, wRun, wStop, wHeld, wBoot, wOwed, wUncertain, wCount,
                   wStranded>>

\* The turn ends and its Stop hook arrives: finalizeTurn claims it and waits.
TurnEnds ==
    /\ wSess.running # "" /\ ~wStop
    /\ wSess' = [wSess EXCEPT !.running = ""]
    /\ wTracked' = FALSE /\ wStop' = TRUE
    /\ UNCHANGED <<wCont, wTurn, wReserved, wTimer, wRun, wHeld, wBoot, wOwed, wUncertain,
                   wCount, wStranded>>

\* The final text is posted: finishTeamTaskForSession clears the turn.
StopSettles ==
    /\ wStop
    /\ wStop' = FALSE /\ wTurn' = NoTurn /\ wReserved' = FALSE
    /\ UNCHANGED <<wCont, wTimer, wRun, wTracked, wHeld, wBoot, wSess, wOwed, wUncertain, wCount,
                   wStranded>>

\* The turn ends and its Stop hook is lost; the poller is the fallback.
StopLost ==
    /\ wSess.running # "" /\ Fault
    /\ wSess' = [wSess EXCEPT !.running = ""]
    /\ UNCHANGED <<wCont, wTurn, wReserved, wTimer, wRun, wTracked, wStop, wHeld, wBoot, wOwed,
                   wUncertain, wStranded>>

PollerSeesEnd ==
    /\ wTracked /\ wSess.running = "" /\ ~wStop
    /\ wTracked' = FALSE /\ wStop' = TRUE
    /\ UNCHANGED <<wCont, wTurn, wReserved, wTimer, wRun, wHeld, wBoot, wSess, wOwed, wUncertain,
                   wCount, wStranded>>

\* SessionEnd: the session is dormant until a message wakes it.
SessionEnds ==
    /\ wSess.live /\ wCount.ends < MaxEnds /\ wCount' = Counted("ends")
    /\ wSess' = [wSess EXCEPT !.live = FALSE, !.running = "", !.queue = <<>>]
    /\ wTracked' = FALSE /\ wTurn' = NoTurn /\ wReserved' = FALSE
    /\ UNCHANGED <<wCont, wTimer, wRun, wStop, wHeld, wBoot, wOwed, wUncertain, wStranded>>

\* resurrect(): SessionStart, then the held prompts are pasted.
Resurrected ==
    /\ ~wSess.live /\ wHeld # <<>>
    /\ wSess' = [wSess EXCEPT !.live = TRUE, !.queue = wHeld]
    /\ wHeld' = <<>>
    /\ UNCHANGED <<wCont, wTurn, wReserved, wTimer, wRun, wTracked, wStop, wBoot, wOwed,
                   wUncertain, wCount, wStranded>>

\* The channel is rebound for a while (a provider switch, an archived channel).
Rebind ==
    /\ Fault
    /\ wSess' = [wSess EXCEPT !.own = ~@]
    /\ UNCHANGED <<wCont, wTurn, wReserved, wTimer, wRun, wTracked, wStop, wHeld, wBoot, wOwed,
                   wUncertain, wStranded>>

\* consumeCoordinatorDispatch(): a task is dispatched during the turn.
Dispatch ==
    /\ wSess.running # "" /\ wTurn.left > 0
    /\ wTurn.actor = "wake" => wCont.auto
    /\ wTurn' = [wTurn EXCEPT !.left = @ - 1]
    /\ UNCHANGED <<wCont, wReserved, wTimer, wRun, wTracked, wStop, wHeld, wBoot, wSess, wOwed,
                   wUncertain, wCount, wStranded>>

Scheduled(e) == e.key \in Timers

\* claimContinuationDispatchAuthority(): an exhausted turn is renewed from the
\* pending worker events; the scheduled wakes still on the list stay there.
Renew ==
    /\ wSess.running # "" /\ wTurn # NoTurn /\ wTurn.left = 0
    /\ wCont.auto /\ wCont.active = NoEvent
    /\ LET timed == {e \in Elems(wCont.pending) : Scheduled(e)}
           workers == Only(wCont.pending, Elems(wCont.pending) \ timed)
           others == Only(wCont.pending, timed)
           event == Coalesced(workers)[1] IN
       /\ workers # <<>>
       /\ wCont' = [Settled(Claimed([wCont EXCEPT !.pending = Coalesced(workers)]))
                      EXCEPT !.pending = others]
       /\ wTurn' = WakeTurn(event)
       /\ wOwed' = {u \in wOwed : u > event.uid \/ \E e \in Elems(others) : e.uid = u}
    /\ UNCHANGED <<wReserved, wTimer, wRun, wTracked, wStop, wHeld, wBoot, wSess, wUncertain,
                   wCount, wStranded>>

-----------------------------------------------------------------------------
(* runTeamContinuation                                                     *)

Meets(c) == c.pending # <<>> /\ c.active # NoEvent

\* The timer fires: the list is coalesced; an orphaned team is told.
TimerFires(r) ==
    /\ wTimer /\ wRun[r].at = "idle"
    /\ wTimer' = FALSE
    /\ wStranded' = (wStranded \/ (Meets(wCont) /\ ~wSess.own))
    /\ IF ~wCont.auto \/ wCont.drain THEN UNCHANGED <<wCont, wRun, wOwed>>
       ELSE LET c == [wCont EXCEPT !.pending = Coalesced(@)] IN
            IF wSess.own THEN /\ wCont' = c
                              /\ wRun' = [wRun EXCEPT ![r].at = "probing"]
                              /\ UNCHANGED wOwed
            ELSE /\ IF c.pending # <<>> /\ c.active = NoEvent
                    THEN wCont' = Settled(Claimed(c)) /\ wOwed' = Covered(c.pending[1])
                    ELSE wCont' = c /\ UNCHANGED wOwed
                 /\ UNCHANGED wRun
    /\ UNCHANGED <<wTurn, wReserved, wTracked, wStop, wHeld, wBoot, wSess, wUncertain, wCount>>

\* The inspection of the coordinator is over.  A busy coordinator is asked
\* again later, and the owner is told once; otherwise one event is claimed
\* and its turn begins.
Probed(r) ==
    /\ wRun[r].at = "probing"
    /\ wStranded' = (wStranded \/ (Meets(wCont) /\ ~Busy /\ wSess.own))
    /\ IF ~wSess.own
       THEN /\ wTimer' = TRUE /\ wRun' = [wRun EXCEPT ![r] = Idle]
            /\ UNCHANGED <<wCont, wTurn>>
       ELSE IF Busy
       THEN /\ wTimer' = TRUE /\ wRun' = [wRun EXCEPT ![r] = Idle]
            /\ wCont' = [wCont EXCEPT !.waiting = IF @ = "no" THEN "since" ELSE "told"]
            /\ UNCHANGED wTurn
       ELSE LET c == [wCont EXCEPT !.waiting = "no"] IN
            IF c.drain \/ ~c.auto \/ c.active # NoEvent \/ c.pending = <<>>
            THEN wCont' = c /\ wRun' = [wRun EXCEPT ![r] = Idle] /\ UNCHANGED <<wTurn, wTimer>>
            ELSE /\ wCont' = Claimed(c)
                 /\ wTurn' = WakeTurn(Head(c.pending))
                 /\ wRun' = [wRun EXCEPT ![r] = [at |-> "injecting", event |-> Head(c.pending)]]
                 /\ UNCHANGED wTimer
    /\ UNCHANGED <<wReserved, wTracked, wStop, wHeld, wBoot, wSess, wOwed, wUncertain, wCount>>

\* injectText() returns: the text is pasted, or held for a dormant session.
Injected(r) ==
    /\ wRun[r].at = "injecting"
    /\ LET e == wRun[r].event IN
       /\ IF wSess.live /\ wHeld = <<>>
          THEN wSess' = [wSess EXCEPT !.queue = Append(@, "wake")] /\ UNCHANGED wHeld
          ELSE wHeld' = Append(wHeld, "wake") /\ UNCHANGED wSess
       /\ wOwed' = Covered(e)
       /\ wCont' = IF wCont.active = e THEN Settled(wCont) ELSE wCont
    /\ wRun' = [wRun EXCEPT ![r] = Idle]
    /\ UNCHANGED <<wTurn, wReserved, wTimer, wTracked, wStop, wBoot, wUncertain, wCount,
                   wStranded>>

\* Mutant: a failed injection ends whatever turn the coordinator has.
OwnTurn_Any(e) == wTurn # NoTurn
OwnTurn(e) == wTurn.actor = "wake" /\ wTurn.uid = e.uid

\* injectText() throws before anything was pasted: the event is queued again.
InjectFails(r) ==
    /\ wRun[r].at = "injecting" /\ Fault
    /\ LET e == wRun[r].event IN
       /\ wTurn' = IF OwnTurn(e) THEN NoTurn ELSE wTurn
       /\ wCont' = IF wCont.active = e THEN Deferred(wCont) ELSE wCont
    /\ wTimer' = TRUE
    /\ wRun' = [wRun EXCEPT ![r] = Idle]
    /\ UNCHANGED <<wReserved, wTracked, wStop, wHeld, wBoot, wSess, wOwed, wUncertain, wStranded>>

-----------------------------------------------------------------------------
(* Restart                                                                 *)

Injecting == {r \in Runs : wRun[r].at = "injecting"}

Crash ==
    /\ wCount.crashes < MaxCrashes /\ wCount' = Counted("crashes")
    /\ wTimer' = FALSE /\ wRun' = [r \in Runs |-> Idle]
    /\ wTracked' = FALSE /\ wStop' = FALSE /\ wHeld' = <<>> /\ wBoot' = "adopt"
    /\ wUncertain' = wUncertain \cup {wRun[r].event.uid : r \in Injecting}
    /\ \E pasted \in BOOLEAN :
          wSess' = IF pasted /\ wSess.live /\ Injecting # {}
                   THEN [wSess EXCEPT !.queue = Append(@, "wake")] ELSE wSess
    /\ UNCHANGED <<wCont, wTurn, wReserved, wOwed, wStranded>>

\* readoptStatus(): a spinning coordinator is tracked again; the turn of an
\* idle one is released; a dead one keeps its turn and loses its reservation.
Adopt ==
    /\ wBoot = "adopt" /\ wBoot' = "recover"
    /\ wTracked' = (wTracked \/ (wSess.live /\ wSess.running # ""))
    /\ wTurn' = IF wSess.live /\ wSess.running = "" /\ ~wTracked THEN NoTurn ELSE wTurn
    /\ wReserved' = (wReserved /\ wSess.live /\ (wSess.running # "" \/ wTracked))
    /\ UNCHANGED <<wCont, wTimer, wRun, wStop, wHeld, wSess, wOwed, wUncertain, wCount,
                   wStranded>>

\* Mutant: an interrupted wake is queued again.
Interrupted_Again == Deferred(wCont)
Interrupted == Settled(wCont)

\* recoverInterruptedTeamContinuations(): a wake whose turn is live is taken as
\* delivered, any other is handed to the owner and never repeated.
Recover ==
    /\ wBoot = "recover" /\ wBoot' = "reconcile"
    /\ LET e == wCont.active
           live == OwnTurn(e) /\ wTracked /\ wSess.live /\ wSess.own IN
       IF e = NoEvent THEN UNCHANGED <<wCont, wTurn, wReserved, wOwed>>
       ELSE /\ wCont' = IF live THEN Settled(wCont) ELSE [Interrupted EXCEPT !.waiting = "no"]
            /\ wTurn' = IF ~live /\ OwnTurn(e) THEN NoTurn ELSE wTurn
            /\ wReserved' = (wReserved /\ (live \/ ~OwnTurn(e)))
            /\ wOwed' = Covered(e)
    /\ UNCHANGED <<wTimer, wRun, wTracked, wStop, wHeld, wSess, wUncertain, wCount, wStranded>>

\* startTeamReconciler(): after the first reconciliation every team with
\* pending events is scheduled.
Reconciled ==
    /\ wBoot = "reconcile" /\ wBoot' = "ready"
    /\ wTimer' = (wTimer \/ (wCont.auto /\ wCont.pending # <<>>))
    /\ UNCHANGED <<wCont, wTurn, wReserved, wRun, wTracked, wStop, wHeld, wSess, wOwed,
                   wUncertain, wCount, wStranded>>

-----------------------------------------------------------------------------
Next ==
    \/ \E k \in Keys : WorkerEvent(k)
    \/ \E k \in Timers : ScheduleDue(k)
    \/ SetMode \/ OwnerMessage \/ TerminalPrompt
    \/ PromptStarts \/ TurnEnds \/ StopSettles \/ StopLost \/ PollerSeesEnd
    \/ SessionEnds \/ Resurrected \/ Rebind \/ Dispatch \/ Renew
    \/ \E r \in Runs : TimerFires(r) \/ Probed(r) \/ Injected(r) \/ InjectFails(r)
    \/ Crash \/ Adopt \/ Recover \/ Reconciled

Spec == Init /\ [][Next]_wVars

\* The daemon's timers and awaits end.  Nothing is assumed of the provider:
\* a turn may last for ever.
Fairness ==
    /\ \A r \in Runs : WF_wVars(Probed(r)) /\ WF_wVars(Injected(r))
    /\ WF_wVars(\E r \in Runs : TimerFires(r))
    /\ WF_wVars(Adopt \/ Recover \/ Reconciled)

LiveSpec == Spec /\ Fairness

-----------------------------------------------------------------------------
Events == [uid : 0..MaxEvents, key : Keys \cup Timers \cup {""}, keys : Seq(Keys \cup Timers)]

TypeOK ==
    /\ wCont \in [auto : BOOLEAN, drain : BOOLEAN, pending : Seq(Events), active : Events,
                  seen : Seq(Keys \cup Timers), waiting : {"no", "since", "told"}]
    /\ Len(wCont.pending) <= MaxPending + 1 /\ Len(wCont.seen) <= MaxSeen
    /\ wTurn \in [actor : {"none", "owner", "wake"}, uid : 0..MaxEvents, left : 0..Budget]
    /\ wReserved \in BOOLEAN /\ wTimer \in BOOLEAN /\ wTracked \in BOOLEAN /\ wStop \in BOOLEAN
    /\ wRun \in [Runs -> [at : {"idle", "probing", "injecting"}, event : Events]]
    /\ wHeld \in Seq({"owner", "wake"})
    /\ wBoot \in {"adopt", "recover", "reconcile", "ready"}
    /\ wSess \in [live : BOOLEAN, own : BOOLEAN, running : {"", "owner", "local", "wake"},
                  queue : Seq({"owner", "local", "wake"})]
    /\ wOwed \subseteq 1..MaxEvents /\ wUncertain \subseteq 1..MaxEvents /\ wStranded \in BOOLEAN

\* A wake whose delivery was under way when the daemon stopped is never sent
\* again, because the provider may have it (daemon.mjs:5996-6003).
NeverReplayed ==
    \A r \in Injecting : wRun[r].event.uid \notin wUncertain

\* The turn that a message of the owner began is ended by the provider (a
\* Stop, an end of the session, a prompt typed in the terminal, an idle
\* surface after a restart) and never by the failure or the recovery of an
\* automatic wake (daemon.mjs:4849, 5997-6007).  It may be extended.
OwnerTurnSafe ==
    [][wTurn.actor = "owner" /\ wTurn' = NoTurn =>
         \/ wStop /\ ~wStop'
         \/ wSess.live /\ ~wSess'.live
         \/ wSess'.running = "local" \/ wBoot = "adopt"]_wVars

\* In an automatic team that is not draining every event that was accepted is
\* followed by a prompt to the coordinator, by a turn it extends or by a notice
\* to the owner, whatever became of the timer that it set: no path of a run, of
\* the full list or of a restart leaves it without one (daemon.mjs:4642-4655,
\* 4761-4859, 5943-5947; team-continuation.mjs:48).  The one exception is a
\* run that claims nothing because another run holds the active event: it
\* returns without a timer (daemon.mjs:4769, 4821).
EventsAreFollowed ==
    (wOwed # {}) ~> \/ wOwed = {} \/ wCont.waiting = "told" \/ wStranded
                    \/ ~wCont.auto \/ wCont.drain
=============================================================================
