------------------------------ MODULE PeerTurns ------------------------------
(***************************************************************************)
(* Turns of a worker that a message of another session reaches             *)
(* (src/daemon/teams.mjs, claude-transcript.mjs and the Stop, PreToolUse   *)
(* and prompt hooks of daemon.mjs and prompt-submit.mjs).                  *)
(*                                                                         *)
(* Claude runs one turn after another and appends records to its           *)
(* transcript; its hooks reach the daemon later, each in its own time, and *)
(* the daemon learns which turn read a message only when a reader passes   *)
(* the message's record.  A Stop waits for the transcript to settle before *)
(* it reads, while the next turn may already run.  The worker holds one    *)
(* task; each prompt of its coordinator is a new generation of it.         *)
(***************************************************************************)
EXTENDS Integers, Sequences, FiniteSets, SequencesExt

CONSTANTS
    MaxTurns,    \* bound: turns of the worker
    MaxPeers,    \* bound: messages of other sessions
    MaxGen,      \* bound: prompts of the coordinator
    MaxTools,    \* bound: tool calls of a turn
    Overtake     \* while the Stop of a turn has not read, the next one may go on past its first
                 \* tool, or be begun by a notification, and the coordinator or the owner may
                 \* speak while a message waits or its record is unread

VARIABLES
    ptLog,       \* the transcript: records [k, turn, of], of a generation or a message
    ptTurn,      \* Claude's turn, whether it runs, and the tool calls it has made
    ptInbox,     \* messages that Claude holds and has not handed to the model
    ptHooks,     \* hooks on their way
    ptStops,     \* Stops that finalizeTurn works on
    ptSess,      \* the session: read offset and its generation, accepted generation, mark
    ptSent,      \* messages sent
    ptLive,      \* ghost: marked messages nobody has spoken after
    ptReports    \* ghost: the reports of the task: texts, flag

ptVars == <<ptLog, ptTurn, ptInbox, ptHooks, ptStops, ptSess, ptSent, ptLive, ptReports>>

Rec(k, turn, of) == [k |-> k, turn |-> turn, of |-> of]
NoMark == [awaiting |-> 0, seen |-> "none", ends |-> 0, on |-> FALSE]

\* markPeerTurn: one more message is awaited.
MarkPeerTurn(m) == [m EXCEPT !.on = TRUE, !.awaiting = @ + 1]

\* The worker runs the first turn of its task, whose prompt hook was handled.
Init ==
    /\ ptLog = <<Rec("marker", 1, 1)>>
    /\ ptTurn = [n |-> 1, runs |-> TRUE, tools |-> 0]
    /\ ptInbox = <<>> /\ ptHooks = {} /\ ptStops = {}
    /\ ptSess = [offset |-> 0, offGen |-> 0, gen |-> 1, mark |-> NoMark]
    /\ ptSent = 0 /\ ptLive = {} /\ ptReports = {}

Gens(log) == {r \in Range(log) : r.k = "marker"}
\* The generation a hook's observation time gives: that of the last prompt before it.
GenNow == Cardinality(Gens(ptLog))

-----------------------------------------------------------------------------
(* Claude and the sessions around it.                                      *)

\* A Stop has not read the transcript yet.
Unread == \E p \in ptHooks \cup ptStops : p.k = "stop"

UnreadMessage == \E i \in (ptSess.offset + 1)..Len(ptLog) : ptLog[i].k \in {"started", "joined"}

Idle == ~ptTurn.runs /\ ptTurn.n < MaxTurns
Begin(rec, inbox) ==
    /\ ptTurn' = [n |-> ptTurn.n + 1, runs |-> TRUE, tools |-> 0]
    /\ ptLog' = Append(ptLog, rec) /\ ptInbox' = inbox

\* A message of another session arrives: its prompt hook marks the session at once.
PeerMessage ==
    /\ ptSent < MaxPeers
    /\ ptSent' = ptSent + 1
    /\ ptInbox' = Append(ptInbox, ptSent')
    /\ ptSess' = [ptSess EXCEPT !.mark = MarkPeerTurn(@)]
    /\ ptLive' = ptLive \cup {ptSent'}
    /\ UNCHANGED <<ptLog, ptTurn, ptHooks, ptStops, ptReports>>

\* Claude hands a message to the model: it starts a turn, or joins the one that runs.
PeerStarts ==
    /\ Idle /\ ptInbox # <<>>
    /\ Begin(Rec("started", ptTurn.n + 1, Head(ptInbox)), Tail(ptInbox))
    /\ UNCHANGED <<ptHooks, ptStops, ptSess, ptSent, ptLive, ptReports>>
PeerJoins ==
    /\ ptTurn.runs /\ ptInbox # <<>>
    /\ ptLog' = Append(ptLog, Rec("joined", ptTurn.n, Head(ptInbox)))
    /\ ptInbox' = Tail(ptInbox)
    /\ UNCHANGED <<ptTurn, ptHooks, ptStops, ptSess, ptSent, ptLive, ptReports>>

\* The coordinator's next prompt starts a turn: its hook accepts the generation and ends the
\* mark, for the turn is the coordinator's work again.
CoordinatorPrompt ==
    /\ Idle /\ ptInbox = <<>> /\ GenNow < MaxGen /\ (Overtake \/ ~UnreadMessage)
    /\ Begin(Rec("marker", ptTurn.n + 1, GenNow + 1), ptInbox)
    /\ ptSess' = [ptSess EXCEPT !.gen = GenNow + 1, !.mark = NoMark]
    /\ ptLive' = {}
    /\ UNCHANGED <<ptHooks, ptStops, ptSent, ptReports>>

\* A notification of the session's own work reaches the turn that runs, or starts one.
OwnWork ==
    /\ \/ /\ ptTurn.runs /\ Last(ptLog).k # "own"
          /\ ptLog' = Append(ptLog, Rec("own", ptTurn.n, 0)) /\ UNCHANGED <<ptTurn, ptInbox>>
       \/ /\ Idle /\ ptInbox = <<>> /\ (Overtake \/ ~Unread)
          /\ Begin(Rec("own", ptTurn.n + 1, 0), ptInbox)
    /\ UNCHANGED <<ptHooks, ptStops, ptSess, ptSent, ptLive, ptReports>>

\* The model writes prose and calls a tool, or ends its turn with its answer.
ToolCall ==
    /\ ptTurn.runs /\ ptTurn.tools < MaxTools
    /\ ptTurn' = [ptTurn EXCEPT !.tools = @ + 1]
    /\ ptLog' = Append(ptLog, Rec("text", ptTurn.n, 0))
    /\ ptHooks' = ptHooks \cup {[k |-> "tool", turn |-> ptTurn.n, of |-> ptTurn'.tools,
                                 gen |-> GenNow]}
    /\ UNCHANGED <<ptInbox, ptStops, ptSess, ptSent, ptLive, ptReports>>
TurnEnds ==
    /\ ptTurn.runs
    /\ ptTurn' = [ptTurn EXCEPT !.runs = FALSE]
    /\ ptLog' = Append(ptLog, Rec("text", ptTurn.n, 0))
    /\ ptHooks' = ptHooks \cup {[k |-> "stop", turn |-> ptTurn.n, of |-> 0, gen |-> GenNow]}
    /\ UNCHANGED <<ptInbox, ptStops, ptSess, ptSent, ptLive, ptReports>>

-----------------------------------------------------------------------------
(* The mark and the reader of the transcript.                              *)

\* notePeerMessageRecords: what a read that passes a record tells the mark; own is TRUE once
\* the session's own work was among the records of this read.
NoteRecord(acc, rec) ==
    LET m == acc.mark
    IN  CASE ~m.on -> acc
          [] rec.k \in {"started", "joined"} ->
               [acc EXCEPT !.mark.seen = IF @ # "none" THEN @
                                         ELSE IF acc.own THEN "joined" ELSE rec.k,
                           !.mark.awaiting = IF @ > 0 THEN @ - 1 ELSE 0]
          [] rec.k = "own" ->
               [acc EXCEPT !.own = TRUE, !.mark.seen = IF @ = "started" THEN "joined" ELSE @]
          [] OTHER -> acc
NotePeerRecords(mark, recs) == FoldLeft(NoteRecord, [mark |-> mark, own |-> FALSE], recs).mark

Least(S, else) == IF S = {} THEN else ELSE CHOOSE i \in S : \A j \in S : i <= j

\* Mutant: the reader does not stop at the record of a message.
BeforePeerStartedTurn_Unbounded(s, stopTurn) == SubSeq(ptLog, s.offset + 1, Len(ptLog))
\* The unread records, up to the record of a message that began a later turn: one with text
\* before it, or newer than the Stop that reads (0: no Stop).
BeforePeerStartedTurn(s, stopTurn) ==
    LET unread == SubSeq(ptLog, s.offset + 1, Len(ptLog))
        later == {i \in 1..Len(unread) :
                    /\ unread[i].k = "started"
                    /\ \/ \E j \in 1..(i - 1) : unread[j].k = "text"
                       \/ stopTurn # 0 /\ unread[i].turn > stopTurn}
    IN  IF s.mark.on THEN SubSeq(unread, 1, Least(later, Len(unread) + 1) - 1) ELSE unread

\* teamTurnAssistantTranscript: the records of the generation gen, from its prompt or, in a
\* read that goes on, from the first one, to the next generation's prompt (from 0: none).
Selected(recs, offGen, gen) ==
    LET from == IF offGen = gen THEN 1
                ELSE Least({i \in 1..Len(recs) : recs[i].k = "marker" /\ recs[i].of = gen}, 0)
    IN  [from |-> from,
         upto |-> Least({i \in from..Len(recs) :
                           i > 0 /\ recs[i].k = "marker" /\ recs[i].of # gen}, Len(recs) + 1) - 1]

\* claudeAssistantTextSinceOffset: the session after the read and the turns whose text it
\* returns.  Text before the generation's prompt is shown but does not count.
Read(s, gen, stopTurn) ==
    LET recs == BeforePeerStartedTurn(s, stopTurn)
        sel == Selected(recs, s.offGen, gen)
        isText(r) == r.k = "text"
        texts(i, j) == {r.turn : r \in Range(SelectSeq(SubSeq(recs, i, j), isText))}
        read(n, offGen) == [s EXCEPT !.offset = @ + n, !.offGen = offGen,
                                     !.mark = NotePeerRecords(@, SubSeq(recs, 1, n))]
    IN  CASE sel.from > 0 -> [sess |-> read(sel.upto, gen), texts |-> texts(sel.from, sel.upto)]
          [] sel.from = 0 /\ s.offGen # 0 -> [sess |-> s, texts |-> {}]
          [] OTHER -> [sess |-> read(Len(recs), s.offGen), texts |-> texts(1, Len(recs))]

\* staleTeamTurnTranscriptPrefixBytes: the records before a newer generation's prompt.
StalePrefix(s, gen) ==
    LET unread == SubSeq(ptLog, s.offset + 1, Len(ptLog))
    IN  IF s.offGen \notin {0, gen} THEN <<>>
        ELSE SubSeq(unread, 1, Least({i \in 1..Len(unread) :
               unread[i].k = "marker" /\ unread[i].of > gen}, Len(unread) + 1) - 1)

\* discardStaleClaudeTeamTurnTranscript: a superseded Stop passes them.
Discard(s, gen) ==
    LET old == StalePrefix(s, gen)
    IN  IF old = <<>> THEN s
        ELSE [s EXCEPT !.offset = @ + Len(old), !.offGen = gen,
                       !.mark = NotePeerRecords(@, old)]

\* Mutant: a turn's end takes a mark whose record no reader has passed.
TakePeerTurn_Unseen(mark) == [kind |-> mark.seen, mark |-> NoMark]
\* takePeerTurn: the kind of the turn that ended, and the mark that stays.
TakePeerTurn(mark) ==
    IF ~mark.on THEN [kind |-> "none", mark |-> NoMark]
    ELSE IF mark.seen = "none" THEN
      [kind |-> "none", mark |-> IF mark.ends >= 1 THEN NoMark ELSE [mark EXCEPT !.ends = @ + 1]]
    ELSE [kind |-> mark.seen,
          mark |-> IF mark.awaiting > 0 THEN [mark EXCEPT !.seen = "none", !.ends = 0] ELSE NoMark]

-----------------------------------------------------------------------------
(* The daemon's handlers.                                                  *)

Handled(h) == ptHooks' = ptHooks \ {h}

\* The owner writes in the channel: beginSlackTeamTurn ends the mark.
OwnerSpeaks ==
    /\ ptSess.mark.on /\ (Overtake \/ (~UnreadMessage /\ ptInbox = <<>>))
    /\ ptSess' = [ptSess EXCEPT !.mark = NoMark]
    /\ ptLive' = {}
    /\ UNCHANGED <<ptLog, ptTurn, ptInbox, ptHooks, ptStops, ptSent, ptReports>>

\* PreToolUse: the prose before the tool call is read for the channel.
ToolHook == \E h \in ptHooks :
    /\ h.k = "tool" /\ Handled(h)
    /\ ~\E g \in ptHooks : g.k = "tool" /\ g.turn = h.turn /\ g.of < h.of
    /\ ptTurn.runs /\ ptTurn.n = h.turn
    /\ Overtake \/ h.of = 1 \/ ~Unread
    /\ ptSess' = Read(ptSess, h.gen, 0).sess
    /\ UNCHANGED <<ptLog, ptTurn, ptInbox, ptStops, ptSent, ptLive, ptReports>>

\* Stop: finalizeTurn runs once for a generation; one that arrives meanwhile joins it.
StopHook == \E h \in ptHooks :
    /\ h.k = "stop" /\ Handled(h)
    /\ ~\E g \in ptHooks : g.k = "stop" /\ g.turn < h.turn
    /\ ptStops' = IF \E p \in ptStops : p.gen = h.gen THEN ptStops
                  ELSE ptStops \cup {[k |-> "stop", turn |-> h.turn, gen |-> h.gen, kind |-> "none",
                                      stale |-> h.gen # ptSess.gen, texts |-> {}, dirty |-> FALSE]}
    /\ UNCHANGED <<ptLog, ptTurn, ptInbox, ptSess, ptSent, ptLive, ptReports>>

\* A turn some unspoken-after message reached.
Reached(t) == \E r \in Range(ptLog) :
    r.turn = t /\ r.k \in {"started", "joined"} /\ r.of \in ptLive

\* The transcript has settled: the final read, and the mark in the same step.
Settle == \E p \in ptStops :
    /\ p.k = "stop"
    /\ IF p.stale \/ p.gen # ptSess.gen
       THEN /\ ptSess' = Discard(ptSess, p.gen)
            /\ ptStops' = ptStops \ {p}
       ELSE LET read == Read(ptSess, p.gen, p.turn)
                taken == TakePeerTurn(read.sess.mark)
            IN  /\ ptSess' = [read.sess EXCEPT !.mark = taken.mark]
                /\ ptStops' = (ptStops \ {p}) \cup
                     {[p EXCEPT !.k = "posting", !.kind = taken.kind, !.texts = read.texts,
                                !.dirty = \E t \in read.texts : Reached(t)]}
    /\ UNCHANGED <<ptLog, ptTurn, ptInbox, ptHooks, ptSent, ptLive, ptReports>>

\* finishTeamTaskForSession, after the channel has the answer: a turn a message started
\* reports nothing, one it joined reports with a flag, a superseded one is ignored.
Report == \E p \in ptStops :
    /\ p.k = "posting"
    /\ ptStops' = ptStops \ {p}
    /\ ptReports' = IF p.gen # ptSess.gen \/ p.kind = "started" THEN ptReports
                    ELSE ptReports \cup {[turn |-> p.turn, texts |-> p.texts, dirty |-> p.dirty,
                                          peerMessage |-> p.kind = "joined"]}
    /\ UNCHANGED <<ptLog, ptTurn, ptInbox, ptHooks, ptSess, ptSent, ptLive>>

-----------------------------------------------------------------------------
Next ==
    \/ PeerMessage \/ PeerStarts \/ PeerJoins \/ CoordinatorPrompt \/ OwnWork \/ ToolCall
    \/ TurnEnds \/ OwnerSpeaks \/ ToolHook \/ StopHook \/ Settle \/ Report

Spec == Init /\ [][Next]_ptVars

-----------------------------------------------------------------------------
TypeOK ==
    /\ ptSess.offset \in 0..Len(ptLog) /\ ptSess.gen \in 1..MaxGen
    /\ ptSess.offGen \in 0..MaxGen
    /\ ptSess.mark.seen \in {"none", "started", "joined"}
    /\ ptSess.mark.awaiting \in 0..MaxPeers
    /\ \A h \in ptHooks : h.k \in {"tool", "stop"} /\ h.turn \in 1..MaxTurns
    /\ \A p \in ptStops : p.k \in {"stop", "posting"} /\ p.gen \in 1..MaxGen

\* While the turn that read another session's message runs, and until it is read, the
\* worker's gates are locked, unless the coordinator or the owner has spoken: no end of
\* another turn takes its mark (takePeerTurn, beforePeerStartedTurn).
MarkHeld == \A m \in ptLive :
    \/ m \in Range(ptInbox)
    \/ \E r \in Range(ptLog) : r.k # "marker" /\ r.of = m /\ r.turn = ptTurn.n /\ ptTurn.runs
    => ptSess.mark.on

\* A report that is not flagged quotes no turn that such a message reached.
UnflaggedIsOwn == \A r \in ptReports : ~r.peerMessage => ~r.dirty
=============================================================================
