-------------------------- MODULE TaskRequestProofs --------------------------
(***************************************************************************)
(* Proofs about what a request makes of a task: its two cards (TaskCards), *)
(* for any number of revisions, failing Slack calls and crashes; and the   *)
(* journal of requests, replies and files (TeamRequests), for any ids,     *)
(* requests, limits of the journal, faults and crashes.                    *)
(***************************************************************************)
EXTENDS TaskCards, FiniteSetTheorems, TLAPS

CONSTANTS Ids, None, Asked, Files, MaxReplies, MaxControls, MaxFaults, MaxCrashes
VARIABLES rqMem, rqDisk, rqEdge, rqCall, rqOp, rqUp, rqTold, rqFaults, rqCrashes

Rq == INSTANCE TeamRequests

-----------------------------------------------------------------------------
(* The cards of a task                                                     *)

USE CardsAssumption DEF CardsAssumption

(* The inductive invariant. *)

\* No post in flight is newer than the instruction, and a card the task or a
\* call knows of exists.
PostInv ==
    /\ \A s \in Side : shown[s] <= ver
    /\ \A s \in ts : shown[s] # 0
    /\ \A c \in Caller :
         IF post[c].side = "none" THEN post[c].rev = 0
         ELSE post[c].rev <= ver /\ (post[c].rev = 0 => shown[post[c].side] # 0)

\* The current updater run: it records no more than it rendered, the source
\* card shows what it records once that edit succeeded, and what is recorded
\* already is no newer.
EditInv ==
    edit.side # "none" =>
        /\ aud <= edit.rev /\ edit.rev <= edit.text /\ edit.text <= ver
        /\ edit.side = "source" => edit.text = edit.rev
        /\ (edit.side = "target" /\ edit.ok) => shown["source"] = edit.rev /\ "source" \in ts

\* Only a run that edited both existing cards records a later revision.
AudInv ==
    /\ aud <= ver
    /\ aud > 1 => ts = Side
    /\ AuditHonest

\* A prompt is the last revision of its task, with both cards recorded.
PromptInv ==
    /\ calls # {} => ts = Side
    /\ prompt # 0 => status # "queued" /\ ts = Side /\ prompt = ver /\ aud = ver

CardsInv == TypeOK /\ PostInv /\ EditInv /\ AudInv /\ PromptInv

-----------------------------------------------------------------------------
\* The request's first post of the source card satisfies the invariant.
LEMMA InitInv == Init => CardsInv
<1> SUFFICES ASSUME Init PROVE CardsInv
    OBVIOUS
<1> USE DEF Init, Posting, NoPost, NoEdit
<1>1. /\ post["request"] = [side |-> "source", rev |-> 1]
      /\ post["sweep"] = [side |-> "none", rev |-> 0]
    BY DEF Caller
<1>2. post \in [Caller -> Post] /\ edit \in Edit
    BY DEF Caller, Post, Edit, Side
<1>3. PostInv
    BY <1>1 DEF PostInv, Caller
<1>4. /\ shown \in [Side -> 0..MaxVer] /\ ts \in SUBSET Side
      /\ calls \in SUBSET Ver /\ ver \in Ver /\ aud \in Ver
    BY DEF Ver
<1>5. prompt \in 0..MaxVer /\ fails \in 0..MaxFail /\ crashes \in 0..MaxCrash
    OBVIOUS
<1>6. /\ status \in {"queued", "claimed", "ended"} /\ waiting \in BOOLEAN
      /\ mode \in {"active", "draining"}
    OBVIOUS
<1>7. TypeOK
    BY <1>2, <1>4, <1>5, <1>6, Zenon DEF TypeOK
<1> QED BY <1>3, <1>7 DEF CardsInv, EditInv, AudInv, PromptInv, AuditHonest

\* A posting call begins, reaches Slack, returns or fails.
LEMMA PostStep ==
    ASSUME CardsInv,
           PostStart \/ \E c \in Caller : Posts(c) \/ PostFails(c)
    PROVE  CardsInv'
<1> USE DEF CardsInv, TypeOK, PostInv, EditInv, AudInv, PromptInv, AuditHonest,
            Posting, NoPost, Ver, Post, Edit, journal
<1>1. CASE PostStart
    <2>1. /\ post'["sweep"].side \in Side /\ post'["sweep"].rev = ver
          /\ \A c \in Caller \ {"sweep"} : post'[c] = post[c]
          /\ post' \in [Caller -> Post]
        BY <1>1 DEF PostStart, Caller, Post, Side
    <2> QED BY <1>1, <2>1 DEF PostStart
<1>2. ASSUME NEW c \in Caller, PostLands(c) PROVE CardsInv'
    <2>1. post[c].side \in Side /\ post[c].rev \in 1..ver
        <3>1. post[c] \in Post /\ post[c].rev # 0
            BY <1>2 DEF PostLands
        <3>2. post[c].side # "none"
            BY <1>2, <3>1
        <3> QED BY <3>1, <3>2
    <2>2. \A s \in Side : shown'[s] = shown[s] \/ (shown[s] = 0 /\ shown'[s] \in 1..ver)
        BY <1>2, <2>1 DEF PostLands
    <2>3. shown'[post[c].side] # 0
        BY <1>2, <2>1 DEF PostLands
    <2>4. \A d \in Caller : /\ post'[d].side = post[d].side
                             /\ post'[d].rev = IF d = c THEN 0 ELSE post[d].rev
        BY <1>2 DEF PostLands, Post
    <2>5. TypeOK'
        <3>1. post' \in [Caller -> Post]
            BY <1>2 DEF PostLands, Post
        <3>2. shown' \in [Side -> 0..MaxVer]
            BY <1>2, <2>1 DEF PostLands
        <3> QED BY <1>2, <3>1, <3>2 DEF PostLands
    <2>6. PostInv'
        BY <1>2, <2>1, <2>2, <2>3, <2>4 DEF PostLands
    <2> QED BY <1>2, <2>2, <2>5, <2>6 DEF PostLands
<1>3. ASSUME NEW c \in Caller, PostReturns(c) PROVE CardsInv'
    <2>1. post[c].side \in Side /\ shown[post[c].side] # 0
        BY <1>3 DEF PostReturns, Post
    <2>2. post' \in [Caller -> Post]
        BY <1>3 DEF PostReturns, Post, Side
    <2>3. PostInv'
        BY <1>3, <2>1, <2>2 DEF PostReturns, Post
    <2>4. /\ ts' = ts \cup {post[c].side}
          /\ UNCHANGED <<shown, status, ver, aud, prompt, edit, calls>>
        BY <1>3 DEF PostReturns
    <2>5. AudInv'
        <3>1. ASSUME ts' = Side, aud = ver, NEW s \in Side PROVE shown[s] = ver
            <4>1. CASE ts = Side
                BY <3>1, <4>1
            <4>2. CASE ts # Side
                BY <2>1, <2>3, <2>4, <3>1, <4>2
            <4> QED BY <4>1, <4>2
        <3>2. aud > 1 => ts' = Side
            BY <2>1, <2>4
        <3> QED BY <2>4, <3>1, <3>2
    <2>6. EditInv' /\ PromptInv'
        BY <2>1, <2>4
    <2>7. TypeOK'
        BY <1>3, <2>1, <2>2, <2>4 DEF PostReturns
    <2> QED BY <2>3, <2>5, <2>6, <2>7
<1>4. ASSUME NEW c \in Caller, PostFails(c) PROVE CardsInv'
    BY <1>4 DEF PostFails
<1> QED BY <1>1, <1>2, <1>3, <1>4 DEF Posts

\* The outcome of one card, with or without Slack having applied it.
LEMMA EditStep ==
    ASSUME CardsInv, RequestEdit \/ Edits \/ EditFails
    PROVE  CardsInv'
<1> USE DEF CardsInv, TypeOK, PostInv, EditInv, AudInv, PromptInv, AuditHonest,
            NoEdit, Ver, Post, Edit, journal, CardDone
<1>1. CASE RequestEdit
    BY <1>1 DEF RequestEdit
<1>2. CASE EditStart
    <2>1. /\ edit'.side = "source" /\ edit'.rev = ver /\ edit'.text = ver
          /\ edit' \in Edit
        BY <1>2 DEF EditStart, Edit, Side
    <2>2. /\ UNCHANGED <<status, ver, aud, prompt, shown, ts, post, calls, mode, fails, crashes>>
          /\ waiting' = FALSE
        BY <1>2 DEF EditStart
    <2>3. EditInv'
        BY <2>1, <2>2
    <2> QED BY <2>1, <2>2, <2>3
<1>3. ASSUME NEW ok \in BOOLEAN, edit.side \in Side, CardDone(ok),
             ok => edit.ok /\ edit.side \in ts /\ shown'[edit.side] = edit.text,
             UNCHANGED <<status, ver, prompt, ts, post, calls, mode, crashes>>,
             waiting' = waiting, fails' \in 0..MaxFail,
             \A s \in Side : \/ shown'[s] = shown[s]
                             \/ s = edit.side /\ s \in ts /\ shown'[s] = edit.text,
             shown' \in [Side -> 0..MaxVer]
      PROVE  CardsInv'
    <2>1. CASE edit.side = "source"
        <3>1. /\ edit'.side = "target" /\ edit'.rev = edit.rev
              /\ edit'.text = ver /\ edit'.ok = ok /\ aud' = aud
            BY <1>3, <2>1
        <3>2. edit' \in Edit
            <4>1. edit' = [edit EXCEPT !.side = "target", !.text = ver, !.ok = ok]
                BY <1>3, <2>1
            <4>2. ver \in 0..MaxVer /\ "target" \in Side /\ edit \in Edit
                BY DEF Side
            <4> QED BY <4>1, <4>2
        <3>3. ok => shown'["source"] = edit.rev /\ "source" \in ts
            BY <1>3, <2>1
        <3>4. PostInv' /\ TypeOK'
            BY <1>3, <2>1, <3>1, <3>2
        <3>5. EditInv'
            BY <1>3, <2>1, <3>1, <3>3
        <3> QED BY <1>3, <2>1, <3>1, <3>4, <3>5
    <2>2. CASE edit.side = "target"
        <3>1. edit'.side = "none" /\ edit' = NoEdit /\ aud' = IF ok THEN edit.rev ELSE aud
            BY <1>3, <2>2
        <3>2. ok => edit.ok /\ shown'["target"] = edit.text /\ ts = Side
            BY <1>3, <2>2 DEF Side
        <3>3. PostInv' /\ TypeOK'
            BY <1>3, <2>2, <3>1
        <3>4. AudInv'
            BY <1>3, <2>2, <3>1, <3>2 DEF Side
        <3> QED BY <1>3, <2>2, <3>1, <3>2, <3>3, <3>4
    <2> QED BY <1>3, <2>1, <2>2 DEF Side
<1>4. CASE EditLands
    <2>1. CASE edit.ok
        BY <1>3, <1>4, <2>1 DEF EditLands
    <2>2. CASE ~edit.ok
        BY <1>3, <1>4, <2>2 DEF EditLands
    <2> QED BY <2>1, <2>2
<1>5. CASE EditMissing
    BY <1>3, <1>5 DEF EditMissing
<1>6. CASE EditFails
    <2>1. edit.side \in Side /\ CardDone(FALSE) /\ shown' \in [Side -> 0..MaxVer]
        BY <1>6 DEF EditFails, Edit
    <2>2. \A s \in Side : \/ shown'[s] = shown[s]
                          \/ s = edit.side /\ s \in ts /\ shown'[s] = edit.text
        BY <1>6 DEF EditFails
    <2>3. /\ UNCHANGED <<status, ver, prompt, ts, post, waiting, calls, mode, crashes>>
          /\ fails' \in 0..MaxFail
        BY <1>6 DEF EditFails
    <2> QED BY <1>3, <2>1, <2>2, <2>3
<1> QED BY <1>1, <1>2, <1>4, <1>5, <1>6 DEF Edits

\* The coordinator, the dispatcher, the end of the task and a restart.
LEMMA TaskStep ==
    ASSUME CardsInv,
           \/ Replace \/ DispatchCall \/ (\E v \in Ver : Claim(v) \/ CallEnds(v))
           \/ SetMode \/ End \/ Crash
    PROVE  CardsInv'
<1> USE DEF CardsInv, TypeOK, PostInv, EditInv, AudInv, PromptInv, AuditHonest,
            NoPost, NoEdit, Ver, Post, Edit, journal
<1>1. CASE Replace
    BY <1>1 DEF Replace
<1>2. CASE DispatchCall
    BY <1>2 DEF DispatchCall
<1>3. ASSUME NEW v \in Ver, Claim(v) PROVE CardsInv'
    BY <1>3 DEF Claim, MayClaim
<1>4. ASSUME NEW v \in Ver, CallEnds(v) PROVE CardsInv'
    BY <1>4 DEF CallEnds
<1>5. CASE SetMode
    BY <1>5 DEF SetMode
<1>6. CASE End
    BY <1>6 DEF End
<1>7. CASE Crash
    <2>1. \A c \in Caller : post'[c].side = "none" /\ post'[c].rev = 0
        BY <1>7 DEF Crash
    <2>2. TypeOK'
        <3>1. post' \in [Caller -> Post] /\ edit' \in Edit
            BY <1>7 DEF Crash, Post, Edit
        <3>2. UNCHANGED <<status, ver, aud, prompt, shown, ts, mode, fails>> /\ waiting' = FALSE
              /\ calls' = {} /\ crashes' \in 0..MaxCrash
            BY <1>7 DEF Crash
        <3> QED BY <3>1, <3>2
    <2>3. edit'.side = "none" /\ calls' = {}
        BY <1>7 DEF Crash
    <2> QED BY <1>7, <2>1, <2>2, <2>3 DEF Crash
<1> QED BY <1>1, <1>2, <1>3, <1>4, <1>5, <1>6, <1>7

\* Every step preserves the invariant.
LEMMA Invariant == Spec => []CardsInv
<1>1. CardsInv /\ [Next]_vars => CardsInv'
  <2> SUFFICES ASSUME CardsInv, [Next]_vars PROVE CardsInv'
      OBVIOUS
  <2>1. CASE UNCHANGED vars
      BY <2>1 DEF CardsInv, TypeOK, PostInv, EditInv, AudInv, PromptInv, AuditHonest, vars,
                  journal
  <2> QED BY <2>1, PostStep, EditStep, TaskStep DEF Next
<1> QED BY <1>1, InitInv, PTL DEF Spec

\* Every variable keeps its type.
THEOREM TypeCorrect == Spec => []TypeOK
<1>1. CardsInv => TypeOK
    BY DEF CardsInv
<1> QED BY <1>1, Invariant, PTL

\* The recorded revision never overstates what both cards show, whatever
\* replacements, failures, lost responses and restarts happen during a run.
THEOREM CardsMatchTheRecord == Spec => []AuditHonest
<1>1. CardsInv => AuditHonest
    BY DEF CardsInv, AudInv
<1> QED BY <1>1, Invariant, PTL

\* A worker is only ever given the revision both cards show.
THEOREM VisiblePromptOnly == Spec => []PromptIsOnCards
<1>1. CardsInv => PromptIsOnCards
    BY DEF CardsInv, TypeOK, AudInv, PromptInv, AuditHonest, PromptIsOnCards
<1> QED BY <1>1, Invariant, PTL

HIDE CardsAssumption DEF CardsAssumption

-----------------------------------------------------------------------------
(* The requests around a task                                              *)

\* Request ids are neither the absent id nor the name of the task's own files.
RequestBounds ==
    /\ None \notin Ids /\ "task" \notin Ids
    /\ MaxReplies \in Nat /\ MaxFaults \in Nat /\ MaxCrashes \in Nat

\* A journal without a task has no trace of one, and only a terminal request ends it.
StatusTrue(m) ==
    /\ m.st = "none" => m = Rq!NoTask
    /\ Rq!Active(m) => m.last[2] = None
    /\ m.last[1] = "release" => m.st = "ended"
    /\ m.last[1] = "none" <=> m.last[2] = None

\* An id has one place in the journal, or two for the same request.
IdsTrue(m) ==
    \A i \in Ids :
        /\ m.reply[i] # "none" => i \notin Rq!Declarations(m)
        /\ m.sent = i => m.control[i] = "none" /\ m.last[2] # i
        /\ m.last[2] = i /\ m.control[i] # "none" => m.control[i] = m.last[1]

\* What the journal says of files agrees with the uploads.
FilesTrue(m, up) ==
    /\ \A i \in Rq!Items : /\ m.file[i] \in {"none", "pending"} => up[i] = 0
                           /\ m.file[i] = "uploaded" => up[i] = 1
    /\ \A i \in Ids : m.file[i] # "none" => m.reply[i] # "none"

\* The files of a task come before its claim; gates leave a slot.
WorkTrue(m) ==
    /\ Rq!Bound(m) => m.file["task"] \in {"none", "uploaded"}
    /\ IsFiniteSet(Rq!Replies(m))
    /\ m.gates => Cardinality(Rq!Replies(m)) < MaxReplies

Sound(m, up) ==
    m \in Rq!TaskType /\ StatusTrue(m) /\ IdsTrue(m) /\ FilesTrue(m, up) /\ WorkTrue(m)

\* m2 has all the receipts and replies of m, and what m says of the files in kept.
Follows(m, m2, kept) ==
    /\ \A kind \in Rq!Kinds, i \in Ids : Rq!Recorded(m, kind, i) => Rq!Recorded(m2, kind, i)
    /\ \A i \in Ids : m.reply[i] # "none" => m2.reply[i] = m.reply[i]
    /\ \A i \in kept \cap Rq!Items : m.file[i] # "none" => m2.file[i] = m.file[i]

\* The instance counts as this module does.
LEMMA SameCount == \A S : Rq!Cardinality(S) = Cardinality(S)
  BY DEF Rq!Cardinality, Cardinality

\* The fields that receipts are read from.
LEMMA RecordedBy ==
    ASSUME RequestBounds, NEW m \in Rq!TaskType, NEW kind \in Rq!Kinds, NEW i \in Ids
    PROVE  Rq!Recorded(m, kind, i) <=>
             IF kind \in Rq!WorkerKinds
             THEN m.reply[i] = kind \/ (kind = "complete" /\ i \in Rq!Declarations(m))
             ELSE \/ m.control[i] = kind \/ (kind = "send" /\ m.sent = i)
                  \/ (m.last[1] = kind /\ m.last[2] = i)
<1> DEFINE R(worker) == Rq!Receipts(m, i, worker)
<1>1. CASE kind \in Rq!WorkerKinds
  <2>1. R(TRUE) = ({m.reply[i]} \cup {"complete" : j \in Rq!Declarations(m) \cap {i}})
                      \ {"none"}
    BY DEF Rq!Receipts
  <2>2. kind # "none" /\ (kind \in R(TRUE) <=>
            m.reply[i] = kind \/ (kind = "complete" /\ i \in Rq!Declarations(m)))
    BY <1>1, <2>1 DEF Rq!WorkerKinds
  <2> QED BY <1>1, <2>2 DEF Rq!Recorded
<1>2. CASE kind \notin Rq!WorkerKinds
  <2>1. R(FALSE) = ({m.control[i]} \cup {"send" : j \in {m.sent} \cap {i}}
              \cup {m.last[1] : j \in {m.last[2]} \cap {i}}) \ {"none"}
    BY DEF Rq!Receipts
  <2>2. kind # "none" /\ (kind \in R(FALSE) <=>
            \/ m.control[i] = kind \/ (kind = "send" /\ m.sent = i)
            \/ (m.last[1] = kind /\ m.last[2] = i))
    <3> DEFINE A == {"send" : j \in {m.sent} \cap {i}}
               B == {m.last[1] : j \in {m.last[2]} \cap {i}}
    <3>1. R(FALSE) = ({m.control[i]} \cup A \cup B) \ {"none"}
      BY <2>1
    <3>2. kind \in A <=> kind = "send" /\ m.sent = i
      OBVIOUS
    <3>3. kind \in B <=> m.last[1] = kind /\ m.last[2] = i
      OBVIOUS
    <3>4. kind # "none"
      BY DEF Rq!Kinds, Rq!WorkerKinds
    <3> HIDE DEF A, B, R
    <3> QED BY <3>1, <3>2, <3>3, <3>4
  <2>3. (kind \in Rq!WorkerKinds) = FALSE
    BY <1>2
  <2>4. Rq!Recorded(m, kind, i) <=> kind \in R(FALSE)
    BY <2>3 DEF Rq!Recorded
  <2> HIDE DEF R
  <2> QED BY <1>2, <2>2, <2>4
<1> QED BY <1>1, <1>2

\* Before the first request.
LEMMA NoTaskSound ==
    ASSUME RequestBounds, NEW up \in [Rq!Items -> Nat], \A i \in Rq!Items : up[i] = 0
    PROVE  Sound(Rq!NoTask, up)
<1>1. Rq!NoTask \in Rq!TaskType
  BY DEF Rq!NoTask, Rq!TaskType, Rq!FileStates, Rq!Items
<1>2. StatusTrue(Rq!NoTask) /\ IdsTrue(Rq!NoTask) /\ FilesTrue(Rq!NoTask, up)
  BY DEF Rq!NoTask, StatusTrue, IdsTrue, FilesTrue, Rq!Active, Rq!Bound, Rq!Declarations,
         Rq!Items, RequestBounds
<1>3. Rq!Replies(Rq!NoTask) = {}
  BY DEF Rq!NoTask, Rq!Replies
<1>4. WorkTrue(Rq!NoTask)
  BY <1>3, FS_EmptySet DEF WorkTrue, Rq!NoTask, Rq!Bound
<1> QED BY <1>1, <1>2, <1>4 DEF Sound

\* send
LEMMA Sent ==
    ASSUME RequestBounds, NEW up \in [Rq!Items -> Nat], Sound(Rq!NoTask, up), NEW i \in Ids,
           NEW m, m = [Rq!NoTask EXCEPT !.st = "queued", !.sent = i,
                                     !.file["task"] = Rq!NewFile("task")]
    PROVE  Sound(m, up) /\ Follows(Rq!NoTask, m, Rq!Items)
<1>1. m \in Rq!TaskType
  BY DEF Rq!NoTask, Rq!TaskType, Rq!FileStates, Rq!Items, Rq!NewFile
<1>2. StatusTrue(m) /\ IdsTrue(m)
  BY DEF Rq!NoTask, StatusTrue, IdsTrue, Rq!Active, Rq!Bound, Rq!Declarations, RequestBounds
<1>3. FilesTrue(m, up)
  BY DEF Sound, FilesTrue, Rq!NoTask, Rq!NewFile, Rq!Items, RequestBounds
<1>4. Rq!Replies(m) = {}
  BY DEF Rq!NoTask, Rq!Replies
<1>5. WorkTrue(m)
  BY <1>4, FS_EmptySet DEF WorkTrue, Rq!NoTask, Rq!Bound
<1>6. Rq!NoTask \in Rq!TaskType
  BY DEF Sound
<1>7. ASSUME NEW kind \in Rq!Kinds, NEW j \in Ids PROVE ~Rq!Recorded(Rq!NoTask, kind, j)
  <2>1. /\ kind # "none" /\ Rq!NoTask.sent # j
        /\ j \notin Rq!Declarations(Rq!NoTask) /\ Rq!NoTask.last[2] # j
    BY DEF Rq!NoTask, Rq!Declarations, Rq!Kinds, Rq!WorkerKinds, RequestBounds
  <2>2. Rq!NoTask.reply[j] = "none" /\ Rq!NoTask.control[j] = "none"
    BY DEF Rq!NoTask
  <2> QED BY <1>6, <2>1, <2>2, RecordedBy
<1>8. Follows(Rq!NoTask, m, Rq!Items)
  BY <1>7 DEF Follows, Rq!NoTask
<1> QED BY <1>1, <1>2, <1>3, <1>5, <1>8 DEF Sound

\* An id that is free has no receipt of another request.
LEMMA Remembered ==
    ASSUME RequestBounds, NEW up \in [Rq!Items -> Nat], NEW m0, Sound(m0, up), NEW i \in Ids,
           NEW kind \in {"message", "replace", "cancel", "release"},
           m0.control[i] = "none", m0.sent # i, m0.st # "none",
           m0.last[2] = i => m0.last[1] = kind
    PROVE  LET m == Rq!Remember(m0, i, kind) IN Sound(m, up) /\ Follows(m0, m, Rq!Items)
<1> DEFINE m == Rq!Remember(m0, i, kind)
<1>1. m0 \in Rq!TaskType /\ m \in Rq!TaskType
  BY DEF Sound, Rq!TaskType, Rq!Remember
<1>2. /\ m.control = [m0.control EXCEPT ![i] = kind]
      /\ m.st = m0.st /\ m.sent = m0.sent /\ m.gates = m0.gates /\ m.declared = m0.declared
      /\ m.former = m0.former /\ m.reply = m0.reply /\ m.last = m0.last /\ m.file = m0.file
  BY <1>1 DEF Rq!Remember, Rq!TaskType
<1>3. m0.control \in [Ids -> {"none", "message", "replace", "cancel", "release"}]
  BY <1>1 DEF Rq!TaskType
<1> HIDE DEF m
<1>4. StatusTrue(m) /\ FilesTrue(m, up) /\ WorkTrue(m)
  BY <1>2 DEF Sound, StatusTrue, FilesTrue, WorkTrue, Rq!Active, Rq!Bound, Rq!Replies
<1>5. IdsTrue(m)
  BY <1>2, <1>3 DEF Sound, IdsTrue, Rq!Declarations
<1>6. Follows(m0, m, Rq!Items)
  BY <1>1, <1>2, <1>3, RecordedBy DEF Follows, Rq!Declarations, Rq!WorkerKinds, Rq!Kinds
<1> QED BY <1>1, <1>4, <1>5, <1>6 DEF Sound, m

\* Steps that leave every receipt, reply and file as it is.
LEMMA Alike ==
    ASSUME RequestBounds, NEW up \in [Rq!Items -> Nat], NEW m0, Sound(m0, up),
           NEW m \in Rq!TaskType,
           m.reply = m0.reply, m.sent = m0.sent, m.control = m0.control, m.file = m0.file,
           m.gates = m0.gates, m.last = m0.last, Rq!Declarations(m) = Rq!Declarations(m0),
           m0.st # "none", m.st # "none", Rq!Active(m) => Rq!Active(m0),
           m0.st = "ended" => m.st = "ended",
           Rq!Bound(m) => Rq!Bound(m0) \/ m.file["task"] \in {"none", "uploaded"}
    PROVE  Sound(m, up) /\ Follows(m0, m, Rq!Items)
<1>1. m0 \in Rq!TaskType
  BY DEF Sound
<1>2. StatusTrue(m) /\ FilesTrue(m, up) /\ WorkTrue(m)
  BY DEF Sound, StatusTrue, FilesTrue, WorkTrue, Rq!Active, Rq!Bound, Rq!Replies
<1>3. IdsTrue(m)
  BY DEF Sound, IdsTrue
<1>4. Follows(m0, m, Rq!Items)
  BY <1>1, RecordedBy DEF Follows
<1> QED BY <1>2, <1>3, <1>4 DEF Sound

\* A declaration that is withdrawn stays in the history.
LEMMA Withdraws ==
    ASSUME NEW m \in Rq!TaskType
    PROVE  LET w == Rq!Withdrawn(m) IN
           /\ w \in Rq!TaskType /\ Rq!Declarations(w) = Rq!Declarations(m) /\ w.declared = None
           /\ w.st = m.st /\ w.reply = m.reply /\ w.sent = m.sent /\ w.control = m.control
           /\ w.file = m.file /\ w.gates = m.gates /\ w.last = m.last
BY DEF Rq!TaskType, Rq!Withdrawn, Rq!Declarations

\* The request that ends a task: cancel, release.
Terminated(m, kind, st, i) == [m EXCEPT !.st = st, !.last = <<kind, i>>]

\* It is a task of the journal like any other.
LEMMA Ends ==
    ASSUME RequestBounds, NEW up \in [Rq!Items -> Nat], NEW m0, Sound(m0, up), NEW i \in Ids,
           NEW kind, NEW st,
           <<kind, st>> \in {<<"cancel", "cancelled">>, <<"release", "ended">>},
           Rq!Active(m0), m0.sent # i, m0.control[i] \in {"none", kind}
    PROVE  LET m == Terminated(m0, kind, st, i) IN Sound(m, up) /\ Follows(m0, m, Rq!Items)
<1> DEFINE m == Terminated(m0, kind, st, i)
<1>1. m0 \in Rq!TaskType /\ m0.last[2] = None /\ m0.last[1] = "none"
  BY DEF Sound, StatusTrue
<1>2. m \in Rq!TaskType
  BY <1>1 DEF Rq!TaskType, Terminated
<1>3. /\ m.st = st /\ m.last[1] = kind /\ m.last[2] = i
      /\ m.sent = m0.sent /\ m.control = m0.control /\ m.gates = m0.gates
      /\ m.declared = m0.declared /\ m.former = m0.former /\ m.reply = m0.reply
      /\ m.file = m0.file
  BY <1>1 DEF Rq!TaskType, Terminated
<1> HIDE DEF m
<1>4. StatusTrue(m) /\ FilesTrue(m, up) /\ WorkTrue(m)
  BY <1>3 DEF Sound, StatusTrue, FilesTrue, WorkTrue, Rq!Active, Rq!Bound, Rq!Replies,
              RequestBounds
<1>5. IdsTrue(m)
  BY <1>1, <1>3 DEF Sound, IdsTrue, Rq!Declarations
<1>6. Follows(m0, m, Rq!Items)
  BY <1>1, <1>2, <1>3, RecordedBy
     DEF Follows, Rq!Declarations, Rq!Kinds, Rq!WorkerKinds, RequestBounds
<1> QED BY <1>2, <1>4, <1>5, <1>6 DEF Sound, m

\* A reply or checkpoint takes a free id and a slot that is not reserved.
LEMMA Appends ==
    ASSUME RequestBounds, NEW up \in [Rq!Items -> Nat], Sound(rqMem, up), NEW i \in Ids,
           NEW kind \in {"reply", "raise", "clear"}, Rq!Bound(rqMem),
           rqMem.reply[i] = "none", i \notin Rq!Declarations(rqMem), Rq!HasSlot(kind)
    PROVE  Sound(Rq!Appended(i, kind), up) /\ Follows(rqMem, Rq!Appended(i, kind), Rq!Items)
<1> DEFINE m1 == [rqMem EXCEPT !.reply[i] = kind,
                               !.file[i] = IF kind = "reply" THEN Rq!NewFile(i) ELSE @]
           w == [Rq!Withdrawn(m1) EXCEPT !.gates = (kind = "raise")]
           m == Rq!Appended(i, kind)
<1>1. rqMem \in Rq!TaskType /\ rqMem.file[i] = "none" /\ up[i] = 0 /\ i \in Rq!Items
  BY DEF Sound, FilesTrue, Rq!Items
<1>2. m1 \in Rq!TaskType
  BY <1>1 DEF Rq!TaskType, Rq!NewFile, Rq!FileStates
<1>3. /\ m1.reply = [rqMem.reply EXCEPT ![i] = kind]
      /\ m1.file = [rqMem.file EXCEPT ![i] = IF kind = "reply" THEN Rq!NewFile(i) ELSE @]
      /\ m1.st = rqMem.st /\ m1.sent = rqMem.sent /\ m1.control = rqMem.control
      /\ m1.gates = rqMem.gates /\ m1.last = rqMem.last
      /\ m1.declared = rqMem.declared /\ m1.former = rqMem.former
  BY <1>1 DEF Rq!TaskType
<1>4. Rq!Declarations(m1) = Rq!Declarations(rqMem)
  BY <1>3 DEF Rq!Declarations
<1>5. /\ w \in Rq!TaskType /\ Rq!Declarations(w) = Rq!Declarations(m1)
      /\ w.gates = (kind = "raise")
  <2>1. /\ Rq!Withdrawn(m1) \in Rq!TaskType
        /\ Rq!Declarations(Rq!Withdrawn(m1)) = Rq!Declarations(m1)
    BY <1>2, Withdraws
  <2> QED BY <2>1 DEF Rq!TaskType, Rq!Declarations
<1>6. /\ w.st = m1.st /\ w.reply = m1.reply /\ w.sent = m1.sent
      /\ w.control = m1.control /\ w.file = m1.file /\ w.last = m1.last
  <2>1. LET v == Rq!Withdrawn(m1) IN
        /\ v \in Rq!TaskType /\ v.st = m1.st /\ v.reply = m1.reply /\ v.sent = m1.sent
        /\ v.control = m1.control /\ v.file = m1.file /\ v.last = m1.last
    BY <1>2, Withdraws
  <2> QED BY <2>1 DEF Rq!TaskType
<1>7. m = IF kind = "reply" THEN m1 ELSE w
  BY DEF Rq!Appended
<1>8. rqMem.reply \in [Ids -> {"none", "reply", "raise", "clear"}]
      /\ rqMem.file \in [Rq!Items -> Rq!FileStates]
  BY <1>1 DEF Rq!TaskType
<1> HIDE DEF m, w, m1
<1>9. /\ m \in Rq!TaskType /\ Rq!Declarations(m) = Rq!Declarations(rqMem)
      /\ m.st = rqMem.st /\ m.sent = rqMem.sent /\ m.control = rqMem.control
      /\ m.last = rqMem.last /\ m.reply = m1.reply /\ m.file = m1.file
      /\ m.gates = IF kind = "reply" THEN rqMem.gates ELSE kind = "raise"
  BY <1>2, <1>3, <1>4, <1>5, <1>6, <1>7
<1>10. /\ m.reply[i] = kind /\ \A j \in Ids \ {i} : m.reply[j] = rqMem.reply[j]
       /\ m.file[i] \in {"none", "pending"}
       /\ \A j \in Rq!Items \ {i} : m.file[j] = rqMem.file[j]
  BY <1>1, <1>3, <1>8, <1>9 DEF Rq!NewFile
<1>11. StatusTrue(m)
  BY <1>9 DEF Sound, StatusTrue, Rq!Active, Rq!Bound
<1>12. IdsTrue(m)
  BY <1>9, <1>10 DEF Sound, IdsTrue
<1>13. FilesTrue(m, up)
  BY <1>1, <1>10 DEF Sound, FilesTrue, Rq!Items
<1>14. WorkTrue(m)
  <2>1. "task" # i /\ "task" \in Rq!Items
    BY DEF RequestBounds, Rq!Items
  <2>2. Rq!Replies(m) = Rq!Replies(rqMem) \cup {i} /\ i \notin Rq!Replies(rqMem)
    BY <1>10 DEF Rq!Replies
  <2>3. IsFiniteSet(Rq!Replies(rqMem)) /\ IsFiniteSet(Rq!Replies(m))
        /\ Cardinality(Rq!Replies(m)) = Cardinality(Rq!Replies(rqMem)) + 1
        /\ Cardinality(Rq!Replies(rqMem)) \in Nat
    BY <2>2, FS_AddElement, FS_CardinalityType DEF Sound, WorkTrue
  <2>4. m.gates => Cardinality(Rq!Replies(m)) < MaxReplies
    <3>1. m.gates => kind # "clear"
      BY <1>9
    <3>2. kind # "clear" => Cardinality(Rq!Replies(rqMem)) < MaxReplies - 1
      BY SameCount DEF Rq!HasSlot
    <3> QED BY <2>3, <3>1, <3>2 DEF RequestBounds
  <2> QED BY <1>9, <1>10, <2>1, <2>3, <2>4 DEF Sound, WorkTrue, Rq!Bound
<1>15. Follows(rqMem, m, Rq!Items)
  <2>1. ASSUME NEW k \in Rq!Kinds, NEW j \in Ids, Rq!Recorded(rqMem, k, j)
        PROVE  Rq!Recorded(m, k, j)
    <3>1. m.reply[j] = rqMem.reply[j] \/ rqMem.reply[j] = "none"
      BY <1>1, <1>10
    <3>2. k # "none"
      BY DEF Rq!Kinds, Rq!WorkerKinds
    <3> QED BY <1>1, <1>9, <2>1, <3>1, <3>2, RecordedBy
  <2>2. \A j \in Ids : rqMem.reply[j] # "none" => m.reply[j] = rqMem.reply[j]
    BY <1>10
  <2>3. \A j \in Rq!Items : rqMem.file[j] # "none" => m.file[j] = rqMem.file[j]
    BY <1>1, <1>10
  <2> QED BY <2>1, <2>2, <2>3 DEF Follows
<1> QED BY <1>9, <1>11, <1>12, <1>13, <1>14, <1>15 DEF Sound, m

\* requestTeamTaskCompletion
Declared(m, i) == [m EXCEPT !.declared = i]

\* A declaration takes a free id.
LEMMA Declares ==
    ASSUME RequestBounds, NEW up \in [Rq!Items -> Nat], Sound(rqMem, up), NEW i \in Ids,
           rqMem.reply[i] = "none", rqMem.declared = None, Rq!Bound(rqMem)
    PROVE  LET m == Declared(rqMem, i) IN Sound(m, up) /\ Follows(rqMem, m, Rq!Items)
<1> DEFINE m == Declared(rqMem, i)
<1>1. rqMem \in Rq!TaskType /\ m \in Rq!TaskType
  BY DEF Sound, Rq!TaskType, Declared
<1>2. /\ m.st = rqMem.st /\ m.sent = rqMem.sent /\ m.control = rqMem.control
      /\ m.gates = rqMem.gates /\ m.last = rqMem.last /\ m.reply = rqMem.reply
      /\ m.file = rqMem.file /\ Rq!Declarations(m) = Rq!Declarations(rqMem) \cup {i}
  BY <1>1 DEF Rq!TaskType, Rq!Declarations, RequestBounds, Declared
<1> HIDE DEF m
<1>3. StatusTrue(m) /\ FilesTrue(m, up) /\ WorkTrue(m)
  BY <1>1, <1>2 DEF Sound, StatusTrue, FilesTrue, WorkTrue, Rq!Active, Rq!Bound, Rq!Replies,
                    Rq!NoTask
<1>4. IdsTrue(m)
  BY <1>2 DEF Sound, IdsTrue
<1>5. Follows(rqMem, m, Rq!Items)
  BY <1>1, <1>2, RecordedBy DEF Follows
<1> QED BY <1>1, <1>3, <1>4, <1>5 DEF Sound, m

\* fileDeliveryStatus
Moved(m, i, to) == [m EXCEPT !.file[i] = to]

\* The file of an item that has one goes on to a later stage.
LEMMA Moves ==
    ASSUME RequestBounds, NEW up \in [Rq!Items -> Nat], NEW m0, Sound(m0, up),
           NEW i \in Rq!Items,
           NEW to \in {"uploading", "uploaded", "failed"}, m0.file[i] # "none",
           to = "uploaded" => up[i] = 1,
           i = "task" => ~Rq!Bound(m0) \/ to = "uploaded"
    PROVE  LET m == Moved(m0, i, to)
           IN  /\ Sound(m, up) /\ Follows(m0, m, Rq!Items \ {i})
               /\ m.file[i] = to /\ m.st = m0.st /\ m.noted = m0.noted /\ m.text = m0.text
<1> DEFINE m == Moved(m0, i, to)
<1>1. m0 \in Rq!TaskType /\ m \in Rq!TaskType /\ m0.file \in [Rq!Items -> Rq!FileStates]
  BY DEF Sound, Rq!TaskType, Rq!FileStates, Moved
<1>2. /\ m.st = m0.st /\ m.sent = m0.sent /\ m.control = m0.control
      /\ m.gates = m0.gates /\ m.last = m0.last /\ m.reply = m0.reply
      /\ m.declared = m0.declared /\ m.former = m0.former
      /\ m.noted = m0.noted /\ m.text = m0.text
      /\ m.file = [m0.file EXCEPT ![i] = to]
  BY <1>1 DEF Rq!TaskType, Moved
<1>3. m0.st # "none"
  BY DEF Sound, StatusTrue, Rq!NoTask
<1> HIDE DEF m
<1>4. m.file[i] = to /\ \A j \in Rq!Items \ {i} : m.file[j] = m0.file[j]
  BY <1>1, <1>2
<1>5. StatusTrue(m) /\ IdsTrue(m)
  BY <1>2, <1>3 DEF Sound, StatusTrue, IdsTrue, Rq!Active, Rq!Bound, Rq!Declarations
<1>6. FilesTrue(m, up)
  BY <1>2, <1>4 DEF Sound, FilesTrue, Rq!Items
<1>7. WorkTrue(m)
  BY <1>2, <1>4 DEF Sound, WorkTrue, Rq!Bound, Rq!Replies, Rq!Items
<1>8. Follows(m0, m, Rq!Items \ {i})
  BY <1>1, <1>2, <1>4, RecordedBy DEF Follows, Rq!Declarations
<1> QED BY <1>1, <1>2, <1>4, <1>5, <1>6, <1>7, <1>8 DEF Sound, m

-----------------------------------------------------------------------------
\* The types of everything but the journals and the uploads.
Rest ==
    /\ rqEdge \in {"files", "text", "gone"}
    /\ rqCall \subseteq Rq!Kinds \X Ids \X {"begin", "wait", "answer"}
    /\ rqOp \in [Rq!Items -> {"idle", "post", "upload", "taken", "notify"}]
    /\ rqTold \subseteq Rq!Kinds \X Ids
    /\ rqFaults \in 0 .. MaxFaults /\ rqCrashes \in 0 .. MaxCrashes

\* What is confirmed is in memory and on disk.
Told == \A r \in rqTold : Rq!Recorded(rqMem, r[1], r[2]) /\ Rq!Recorded(rqDisk, r[1], r[2])

\* An upload is durable before it starts, and counted when Slack has taken it.
OpTrue(i) ==
    /\ i \in Ids /\ rqOp[i] # "idle" => rqMem.reply[i] # "none"
    /\ i = "task" => rqOp[i] \notin {"post", "notify"}
    /\ rqOp[i] \in {"upload", "taken"} =>
          /\ rqMem.file[i] = "uploading" /\ rqDisk.file[i] \notin {"none", "pending"}
          /\ rqUp[i] = (IF rqOp[i] = "upload" THEN 0 ELSE 1)

RequestsInv ==
    /\ Rest
    /\ rqUp \in [Rq!Items -> {0, 1}]
    /\ Sound(rqMem, rqUp) /\ Sound(rqDisk, rqUp)
    /\ Told
    /\ \A i \in Rq!Items : OpTrue(i)

\* The uploads that go on.
Going == {i \in Rq!Items : rqOp[i] \in {"upload", "taken"} /\ rqOp'[i] = rqOp[i]}

\* A new journal keeps the invariant, in memory only or saved too, when it follows the present
\* one and an operation that begins is entitled to.
LEMMA Journals ==
    ASSUME RequestBounds, RequestsInv, Rest', rqUp' = rqUp,
           Sound(rqMem', rqUp), Follows(rqMem, rqMem', Going),
           rqDisk' = rqDisk \/ (Sound(rqDisk', rqUp) /\ Follows(rqMem, rqDisk', Going)),
           \A r \in rqTold' \ rqTold : Rq!Recorded(rqMem', r[1], r[2]) /\ rqDisk' = rqMem',
           \A i \in Rq!Items :
              \/ rqOp'[i] \in {rqOp[i], "idle"}
              \/ rqOp'[i] \in {"post", "notify"} /\ i \in Rq!Replies(rqMem')
              \/ /\ rqOp'[i] = "upload" /\ (i \in Ids => i \in Rq!Replies(rqMem'))
                 /\ rqMem'.file[i] = "uploading" /\ rqDisk' = rqMem' /\ rqUp[i] = 0
    PROVE  RequestsInv'
<1>1. Told'
  <2> SUFFICES ASSUME NEW r \in rqTold'
               PROVE  Rq!Recorded(rqMem', r[1], r[2]) /\ Rq!Recorded(rqDisk', r[1], r[2])
    BY DEF Told
  <2>1. r[1] \in Rq!Kinds /\ r[2] \in Ids
    BY DEF Rest
  <2>2. CASE r \in rqTold
    BY <2>1, <2>2 DEF RequestsInv, Told, Follows
  <2>3. CASE r \notin rqTold
    BY <2>3
  <2> QED BY <2>2, <2>3
<1>2. ASSUME NEW i \in Rq!Items PROVE OpTrue(i)'
  <2>1. OpTrue(i) /\ "task" \notin Ids
    BY DEF RequestsInv, RequestBounds
  <2>2. CASE rqOp'[i] = rqOp[i]
    <3>1. i \in Ids /\ rqMem.reply[i] # "none" => rqMem'.reply[i] # "none"
      BY DEF Follows
    <3>2. CASE rqOp[i] \in {"upload", "taken"}
      <4>1. i \in Going
        BY <2>2, <3>2 DEF Going
      <4>2. rqMem'.file[i] = rqMem.file[i] /\ rqDisk'.file[i] \in {rqDisk.file[i], rqMem.file[i]}
        BY <2>1, <3>2, <4>1 DEF OpTrue, Follows
      <4> QED BY <2>1, <2>2, <3>1, <3>2, <4>2 DEF OpTrue
    <3> QED BY <2>1, <2>2, <3>1, <3>2 DEF OpTrue
  <2>3. CASE rqOp'[i] = "idle"
    BY <2>3 DEF OpTrue
  <2>4. CASE rqOp'[i] \in {"post", "notify"} /\ i \in Rq!Replies(rqMem')
    BY <2>1, <2>4 DEF OpTrue, Rq!Replies
  <2>5. CASE /\ rqOp'[i] = "upload" /\ (i \in Ids => i \in Rq!Replies(rqMem'))
             /\ rqMem'.file[i] = "uploading" /\ rqDisk' = rqMem' /\ rqUp[i] = 0
    BY <2>5 DEF OpTrue, Rq!Replies
  <2> QED BY <2>2, <2>3, <2>4, <2>5
<1>3. Sound(rqMem', rqUp') /\ Sound(rqDisk', rqUp')
  BY DEF RequestsInv
<1> QED BY <1>1, <1>2, <1>3 DEF RequestsInv

\* A journal follows itself, and what follows it is followed in turn.
LEMMA Itself == \A m, kept : Follows(m, m, kept)
BY DEF Follows

\* Saves that touch no operation.
LEMMA Saves ==
    ASSUME RequestBounds, RequestsInv, NEW m, NEW ok \in BOOLEAN, Rq!Keep(m, ok),
           Sound(m, rqUp), Follows(rqMem, m, Rq!Items),
           rqUp' = rqUp, rqOp' = rqOp, rqCrashes' = rqCrashes,
           rqEdge' \in {"files", "text", "gone"},
           rqCall' \subseteq Rq!Kinds \X Ids \X {"begin", "wait", "answer"},
           rqTold' = rqTold \/ (ok /\ \E kind \in Rq!Kinds, i \in Ids :
                                  rqTold' = rqTold \cup {<<kind, i>>} /\ Rq!Recorded(m, kind, i))
    PROVE  RequestsInv'
<1>1. rqMem' = m /\ rqDisk' \in {rqDisk, m} /\ (ok => rqDisk' = m)
  BY DEF Rq!Keep, Rq!Write
<1>2. rqFaults' \in 0 .. MaxFaults
  BY DEF Rq!Keep, Rq!Write, RequestsInv, Rest, RequestBounds
<1>3. Rest'
  BY <1>2 DEF RequestsInv, Rest
<1>4. Follows(rqMem, m, Going)
  BY DEF Follows, Going
<1>5. \A r \in rqTold' \ rqTold : Rq!Recorded(m, r[1], r[2]) /\ rqDisk' = m
  BY <1>1
<1> QED BY <1>1, <1>3, <1>4, <1>5, Journals

\* A request that is accepted.
LEMMA Accepts ==
    ASSUME RequestBounds, RequestsInv, NEW kind \in Rq!Kinds, NEW i \in Ids, NEW m,
           NEW ok \in BOOLEAN,
           NEW at \in {"begin", "answer"}, Rq!Accept(kind, i, m, ok, at),
           Sound(m, rqUp), Follows(rqMem, m, Rq!Items)
    PROVE  RequestsInv'
<1>1. rqCall' \subseteq Rq!Kinds \X Ids \X {"begin", "wait", "answer"}
  BY DEF Rq!Accept, RequestsInv, Rest
<1>2. rqEdge' \in {"files", "text", "gone"}
  BY DEF Rq!Accept, RequestsInv, Rest
<1> QED BY <1>1, <1>2, Saves DEF Rq!Accept

\* A request that is confirmed again.
LEMMA Reconfirms ==
    ASSUME RequestBounds, RequestsInv, NEW kind \in Rq!Kinds, NEW i \in Ids, NEW ok \in BOOLEAN,
           Rq!Reconfirm(kind, i, ok)
    PROVE  RequestsInv'
<1>1. Sound(rqMem, rqUp) /\ Follows(rqMem, rqMem, Rq!Items)
  BY Itself DEF RequestsInv
<1>2. /\ rqCall' \subseteq Rq!Kinds \X Ids \X {"begin", "wait", "answer"}
      /\ rqEdge' \in {"files", "text", "gone"}
  BY DEF Rq!Reconfirm, RequestsInv, Rest
<1>3. rqTold' = rqTold \/ (ok /\ \E k \in Rq!Kinds, j \in Ids :
                            rqTold' = rqTold \cup {<<k, j>>} /\ Rq!Recorded(rqMem, k, j))
  BY DEF Rq!Reconfirm
<1> QED BY <1>1, <1>2, <1>3, Saves DEF Rq!Reconfirm

\* The end of a handler.
LEMMA HandlerEnds ==
    ASSUME RequestBounds, RequestsInv, NEW c \in rqCall, NEW ok \in BOOLEAN,
           Rq!Confirm(c, ok) \/ Rq!HandlerFails(c)
    PROVE  RequestsInv'
<1>1. c[1] \in Rq!Kinds /\ c[2] \in Ids
  BY DEF RequestsInv, Rest
<1>2. Sound(rqMem, rqUp) /\ \A kept : Follows(rqMem, rqMem, kept)
  BY Itself DEF RequestsInv
<1>3. CASE Rq!Confirm(c, ok)
  <2>1. /\ rqCall' \subseteq Rq!Kinds \X Ids \X {"begin", "wait", "answer"}
        /\ rqEdge' \in {"files", "text", "gone"}
    BY <1>3 DEF Rq!Confirm, RequestsInv, Rest
  <2>2. rqTold' = rqTold \/ (ok /\ \E k \in Rq!Kinds, j \in Ids :
                              rqTold' = rqTold \cup {<<k, j>>} /\ Rq!Recorded(rqMem, k, j))
    BY <1>1, <1>3 DEF Rq!Confirm
  <2> QED BY <1>2, <1>3, <2>1, <2>2, Saves DEF Rq!Confirm
<1>4. CASE Rq!HandlerFails(c)
  <2>1. Rest'
    BY <1>4 DEF Rq!HandlerFails, RequestsInv, Rest, RequestBounds
  <2>2. \A i \in Rq!Items : rqOp'[i] \in {rqOp[i], "idle"}
    BY <1>4 DEF Rq!HandlerFails
  <2>3. /\ rqUp' = rqUp /\ rqMem' = rqMem /\ rqDisk' = rqDisk
        /\ \A r \in rqTold' \ rqTold : FALSE
    BY <1>4 DEF Rq!HandlerFails
  <2> QED BY <1>2, <2>1, <2>2, <2>3, Journals
<1> QED BY <1>3, <1>4

\* What follows in two steps follows.
LEMMA Twice ==
    ASSUME NEW m0 \in Rq!TaskType, NEW m1 \in Rq!TaskType, NEW m2, Follows(m0, m1, Rq!Items),
           Follows(m1, m2, Rq!Items)
    PROVE  Follows(m0, m2, Rq!Items)
BY DEF Follows

\* The requests of the coordinator.
LEMMA CoordinatorStep ==
    ASSUME RequestBounds, RequestsInv, NEW i \in Ids, NEW ok \in BOOLEAN,
           \/ Rq!Send(i, ok) \/ Rq!SendAgain(i, ok) \/ Rq!Message(i, ok) \/ Rq!Replace(i, ok)
           \/ Rq!Cancel(i, ok) \/ Rq!Release(i, ok) \/ Rq!ReleaseAgain(i, ok)
    PROVE  RequestsInv'
<1> USE DEF RequestsInv
<1>0. /\ rqUp \in [Rq!Items -> Nat] /\ Sound(rqMem, rqUp) /\ rqMem \in Rq!TaskType
      /\ Follows(rqMem, rqMem, Rq!Items)
      /\ {"send", "message", "replace", "cancel", "release"} \subseteq Rq!Kinds
  BY Itself DEF Sound, Rq!Kinds
<1>1. CASE Rq!Send(i, ok)
  <2>1. rqMem = Rq!NoTask
    BY <1>0, <1>1 DEF Rq!Send, Sound, StatusTrue
  <2> QED BY <1>0, <1>1, <2>1, Sent, Accepts DEF Rq!Send
<1>2. CASE Rq!SendAgain(i, ok) \/ Rq!ReleaseAgain(i, ok)
  BY <1>0, <1>2, Reconfirms DEF Rq!SendAgain, Rq!ReleaseAgain
<1>3. CASE Rq!Message(i, ok)
  <2>1. CASE rqMem.control[i] = "message" /\ Rq!Accept("message", i, rqMem, ok, "answer")
    BY <1>0, <2>1, Accepts
  <2>2. CASE rqMem.control[i] = "none" /\ Rq!Bound(rqMem)
             /\ Rq!Accept("message", i,
                          [Rq!Withdrawn(Rq!Remember(rqMem, i, "message")) EXCEPT !.open = TRUE],
                          ok, "answer")
    <3> DEFINE r == Rq!Remember(rqMem, i, "message")
               m == [Rq!Withdrawn(r) EXCEPT !.open = TRUE]
    <3>1. rqMem.last[2] = None /\ rqMem.st # "none" /\ rqMem.sent # i
      BY <1>0, <1>3, <2>2 DEF Sound, StatusTrue, Rq!Active, Rq!Bound, Rq!Message, Rq!Free
    <3>2. Sound(r, rqUp) /\ Follows(rqMem, r, Rq!Items)
      BY <1>0, <2>2, <3>1, Remembered DEF RequestBounds
    <3>3. r \in Rq!TaskType /\ r.st = rqMem.st
      BY <1>0, <3>2 DEF Sound, Rq!Remember, Rq!TaskType
    <3>4. /\ Rq!Withdrawn(r) \in Rq!TaskType
          /\ Rq!Declarations(Rq!Withdrawn(r)) = Rq!Declarations(r)
          /\ Rq!Withdrawn(r).st = r.st /\ Rq!Withdrawn(r).reply = r.reply
          /\ Rq!Withdrawn(r).sent = r.sent
          /\ Rq!Withdrawn(r).control = r.control /\ Rq!Withdrawn(r).file = r.file
          /\ Rq!Withdrawn(r).gates = r.gates /\ Rq!Withdrawn(r).last = r.last
      BY <3>3, Withdraws
    <3> HIDE DEF r
    <3>5. /\ m \in Rq!TaskType /\ Rq!Declarations(m) = Rq!Declarations(r)
          /\ m.st = r.st /\ m.reply = r.reply /\ m.sent = r.sent /\ m.control = r.control
          /\ m.file = r.file /\ m.gates = r.gates /\ m.last = r.last
      BY <3>4 DEF Rq!TaskType, Rq!Declarations
    <3> HIDE DEF m
    <3>6. Sound(m, rqUp) /\ Follows(r, m, Rq!Items)
      BY <1>0, <3>1, <3>2, <3>3, <3>5, Alike DEF Rq!Active, Rq!Bound
    <3>7. Follows(rqMem, m, Rq!Items)
      BY <1>0, <3>2, <3>3, <3>6, Twice
    <3> QED BY <1>0, <2>2, <3>6, <3>7, Accepts DEF m, r
  <2> QED BY <1>3, <2>1, <2>2 DEF Rq!Message
<1>4. CASE Rq!Replace(i, ok)
  <2>1. CASE rqMem.control[i] = "replace" /\ Rq!Accept("replace", i, rqMem, ok, "answer")
    BY <1>0, <2>1, Accepts
  <2>2. CASE rqMem.control[i] = "none" /\ rqMem.st = "queued"
             /\ Rq!Accept("replace", i, Rq!Remember(rqMem, i, "replace"), ok, "answer")
    <3>1. rqMem.last[2] = None /\ rqMem.sent # i
      BY <1>0, <1>4, <2>2 DEF Sound, StatusTrue, Rq!Active, Rq!Replace, Rq!Free
    <3>2. Sound(Rq!Remember(rqMem, i, "replace"), rqUp)
          /\ Follows(rqMem, Rq!Remember(rqMem, i, "replace"), Rq!Items)
      BY <1>0, <2>2, <3>1, Remembered DEF RequestBounds
    <3> QED BY <1>0, <2>2, <3>2, Accepts
  <2> QED BY <1>4, <2>1, <2>2 DEF Rq!Replace
<1>5. ASSUME NEW kind \in {"cancel", "release"}, rqMem.control[i] = "none", rqMem.sent # i,
             rqMem.st # "none", rqMem.last[2] = i => rqMem.last[1] = kind
      PROVE  LET n == IF Rq!Room THEN Rq!Remember(rqMem, i, kind) ELSE rqMem
             IN  /\ Sound(n, rqUp) /\ Follows(rqMem, n, Rq!Items) /\ n \in Rq!TaskType
                 /\ n.st = rqMem.st /\ n.sent = rqMem.sent /\ n.control[i] \in {"none", kind}
  <2> DEFINE r == Rq!Remember(rqMem, i, kind)
  <2>1. Sound(r, rqUp) /\ Follows(rqMem, r, Rq!Items)
    BY <1>0, <1>5, Remembered
  <2>2. r.st = rqMem.st /\ r.sent = rqMem.sent /\ r.control[i] = kind /\ r \in Rq!TaskType
    BY <1>0, <2>1 DEF Rq!Remember, Rq!TaskType, Sound
  <2> HIDE DEF r
  <2>3. CASE Rq!Room
    BY <2>1, <2>2, <2>3 DEF r
  <2>4. CASE ~Rq!Room
    BY <1>0, <1>5, <2>4
  <2> QED BY <2>3, <2>4
<1>6. CASE Rq!Cancel(i, ok)
  <2> DEFINE n == IF Rq!Room THEN Rq!Remember(rqMem, i, "cancel") ELSE rqMem
             m == [n EXCEPT !.st = "cancelled", !.last = <<"cancel", i>>]
  <2>1. rqMem.sent # i /\ rqMem.control[i] \in {"none", "cancel"}
    BY <1>6 DEF Rq!Cancel, Rq!Free
  <2>2. CASE Rq!Accept("cancel", i, rqMem, ok, "answer")
    BY <1>0, <2>2, Accepts
  <2>3. CASE /\ rqMem.control[i] = "none" /\ rqMem.st = "queued"
             /\ Rq!Accept("cancel", i, m, ok, "answer")
    <3>1. rqMem.last[2] = None
      BY <1>0, <2>3 DEF Sound, StatusTrue, Rq!Active
    <3>2. /\ Sound(n, rqUp) /\ Follows(rqMem, n, Rq!Items) /\ n \in Rq!TaskType
          /\ n.st = rqMem.st /\ n.sent = rqMem.sent /\ n.control[i] \in {"none", "cancel"}
      BY <1>5, <2>1, <2>3, <3>1 DEF RequestBounds
    <3> HIDE DEF n
    <3>3. Sound(m, rqUp) /\ Follows(n, m, Rq!Items)
      <4>1. m = Terminated(n, "cancel", "cancelled", i)
        BY DEF Terminated
      <4>2. Rq!Active(n) /\ n.sent # i
        BY <2>1, <2>3, <3>2 DEF Rq!Active
      <4> HIDE DEF m
      <4> QED BY <1>0, <3>2, <4>1, <4>2, Ends
    <3>4. m \in Rq!TaskType
      BY <3>3 DEF Sound
    <3> HIDE DEF m
    <3>5. Follows(rqMem, m, Rq!Items)
      BY <1>0, <3>2, <3>3, <3>4, Twice
    <3> QED BY <1>0, <2>3, <3>3, <3>5, Accepts
  <2>4. CASE /\ rqMem.control[i] = "none" /\ rqMem.last # <<"cancel", i>>
             /\ rqMem.st = "cancelled" /\ Rq!Accept("cancel", i, n, ok, "answer")
    <3>1. rqMem.last[2] = i => rqMem.last[1] = "cancel"
      BY <1>0, <2>4 DEF Sound, StatusTrue, Rq!TaskType, RequestBounds
    <3>2. Sound(n, rqUp) /\ Follows(rqMem, n, Rq!Items)
      BY <1>5, <2>1, <2>4, <3>1
    <3> HIDE DEF n
    <3> QED BY <1>0, <2>4, <3>2, Accepts
  <2> QED BY <1>6, <2>2, <2>3, <2>4 DEF Rq!Cancel
<1>7. CASE Rq!Release(i, ok)
  <2> DEFINE n == IF Rq!Room THEN Rq!Remember(rqMem, i, "release") ELSE rqMem
             m == [n EXCEPT !.st = "ended", !.last = <<"release", i>>]
  <2>1. /\ rqMem.sent # i /\ rqMem.control[i] \in {"none", "release"} /\ rqMem.st = "ready"
        /\ Rq!Accept("release", i, m, ok, "answer") /\ ~Rq!Recorded(rqMem, "release", i)
    BY <1>7 DEF Rq!Release, Rq!Free
  <2>2. rqMem.control[i] = "none"
    BY <1>0, <2>1, RecordedBy DEF Rq!WorkerKinds
  <2>3. rqMem.last[2] = None
    BY <1>0, <2>1 DEF Sound, StatusTrue, Rq!Active, Rq!Bound
  <2>4. /\ Sound(n, rqUp) /\ Follows(rqMem, n, Rq!Items) /\ n \in Rq!TaskType
        /\ n.st = rqMem.st /\ n.sent = rqMem.sent /\ n.control[i] \in {"none", "release"}
    BY <1>5, <2>1, <2>2, <2>3 DEF RequestBounds
  <2> HIDE DEF n
  <2>5. Sound(m, rqUp) /\ Follows(n, m, Rq!Items)
    <3>1. m = Terminated(n, "release", "ended", i)
      BY DEF Terminated
    <3>2. Rq!Active(n) /\ n.sent # i
      BY <2>1, <2>4 DEF Rq!Active, Rq!Bound
    <3> HIDE DEF m
    <3> QED BY <1>0, <2>4, <3>1, <3>2, Ends
  <2>6. m \in Rq!TaskType
    BY <2>5 DEF Sound
  <2> HIDE DEF m
  <2>7. Follows(rqMem, m, Rq!Items)
    BY <1>0, <2>4, <2>5, <2>6, Twice
  <2> QED BY <1>0, <2>1, <2>5, <2>7, Accepts
<1> QED BY <1>1, <1>2, <1>3, <1>4, <1>6, <1>7

\* The requests of the worker.
LEMMA WorkerStep ==
    ASSUME RequestBounds, RequestsInv, NEW i \in Ids, NEW ok \in BOOLEAN,
           \/ \E kind \in {"reply", "raise", "clear"} : Rq!Reply(kind, i, ok)
           \/ Rq!Complete(i, ok) \/ \E kind \in Rq!Kinds : Rq!Lookup(kind, i, ok)
    PROVE  RequestsInv'
<1>0. /\ rqUp \in [Rq!Items -> Nat] /\ Sound(rqMem, rqUp) /\ Follows(rqMem, rqMem, Rq!Items)
      /\ Rq!WorkerKinds \subseteq Rq!Kinds
  BY Itself DEF RequestsInv, Rq!Kinds
<1>1. ASSUME NEW kind \in {"reply", "raise", "clear"}, Rq!Reply(kind, i, ok) PROVE RequestsInv'
  <2>0. kind \in Rq!Kinds
    BY DEF Rq!Kinds, Rq!WorkerKinds
  <2>1. CASE Rq!Accept(kind, i, rqMem, ok, "begin")
    BY <1>0, <2>0, <2>1, Accepts
  <2>2. CASE /\ rqMem.reply[i] = "none" /\ Rq!Bound(rqMem) /\ i \notin Rq!Declarations(rqMem)
             /\ Rq!HasSlot(kind) /\ Rq!Accept(kind, i, Rq!Appended(i, kind), ok, "begin")
    BY <1>0, <2>0, <2>2, Appends, Accepts
  <2> QED BY <1>1, <2>1, <2>2 DEF Rq!Reply
<1>2. CASE Rq!Complete(i, ok)
  <2>0. "complete" \in Rq!Kinds
    BY DEF Rq!Kinds, Rq!WorkerKinds
  <2>1. CASE Rq!Accept("complete", i, rqMem, ok, "answer")
    BY <1>0, <2>0, <2>1, Accepts
  <2>2. CASE /\ rqMem.reply[i] = "none" /\ Rq!Bound(rqMem) /\ rqMem.declared = None
             /\ Rq!Accept("complete", i, Declared(rqMem, i), ok, "answer")
    BY <1>0, <2>0, <2>2, Declares, Accepts
  <2> QED BY <1>2, <2>1, <2>2 DEF Rq!Complete, Declared
<1>3. ASSUME NEW kind \in Rq!Kinds, Rq!Lookup(kind, i, ok) PROVE RequestsInv'
  BY <1>3, Reconfirms DEF Rq!Lookup
<1> QED BY <1>1, <1>2, <1>3

\* The task in another status, its message delivered or not.
At(st, open) == [rqMem EXCEPT !.st = st, !.open = open]

\* What else happens to the task.
LEMMA OtherStep ==
    ASSUME RequestBounds, RequestsInv,
           \/ Rq!MessageDelivered \/ Rq!Reported \/ Rq!Fails \/ Rq!Remove \/ Rq!OtherSave
           \/ \E to \in {"files", "text"} : Rq!Permit(to)
           \/ \E ok \in BOOLEAN : Rq!Claim(ok)
    PROVE  RequestsInv'
<1>0. /\ rqUp \in [Rq!Items -> Nat] /\ Sound(rqMem, rqUp) /\ Follows(rqMem, rqMem, Rq!Items)
      /\ rqMem \in Rq!TaskType
  BY Itself DEF RequestsInv, Sound
<1>1. /\ rqEdge \in {"files", "text", "gone"}
      /\ rqCall \subseteq Rq!Kinds \X Ids \X {"begin", "wait", "answer"}
  BY DEF RequestsInv, Rest
<1>2. ASSUME NEW m, NEW ok \in BOOLEAN, Rq!Keep(m, ok), Sound(m, rqUp),
             Follows(rqMem, m, Rq!Items),
             UNCHANGED <<rqCall, rqOp, rqUp, rqTold, rqCrashes>>,
             rqEdge' \in {rqEdge, "files", "text", "gone"}
      PROVE  RequestsInv'
  BY <1>1, <1>2, Saves
<1>3. ASSUME NEW st \in {"bound", "ready", "cancelled", "ended"}, NEW open \in BOOLEAN,
             Rq!Active(rqMem),
             st \in {"bound", "ready"} =>
                Rq!Bound(rqMem) \/ rqMem.file["task"] \in {"none", "uploaded"}
      PROVE  LET m == At(st, open) IN Sound(m, rqUp) /\ Follows(rqMem, m, Rq!Items)
  <2> DEFINE m == At(st, open)
  <2>1. /\ m \in Rq!TaskType /\ m.st = st /\ Rq!Declarations(m) = Rq!Declarations(rqMem)
        /\ m.reply = rqMem.reply /\ m.sent = rqMem.sent /\ m.control = rqMem.control
        /\ m.file = rqMem.file /\ m.gates = rqMem.gates /\ m.last = rqMem.last
    BY <1>0 DEF Rq!TaskType, Rq!Declarations, At
  <2> HIDE DEF m
  <2>2. Sound(m, rqUp) /\ Follows(rqMem, m, Rq!Items)
    BY <1>0, <1>3, <2>1, Alike DEF Rq!Active, Rq!Bound
  <2> QED BY <2>2 DEF m
<1>4. rqMem.open \in BOOLEAN
  BY <1>0 DEF Rq!TaskType
<1> DEFINE Same == UNCHANGED <<rqCall, rqOp, rqUp, rqTold, rqCrashes>>
<1>5. CASE Rq!MessageDelivered \/ Rq!Reported \/ Rq!Fails
  <2>1. ASSUME Rq!MessageDelivered
        PROVE  Rq!Keep(At("bound", FALSE), TRUE) /\ Same /\ UNCHANGED rqEdge
    <3>1. At("bound", FALSE) = [rqMem EXCEPT !.open = FALSE, !.st = "bound"]
      BY <1>0 DEF Rq!TaskType, At
    <3> QED BY <2>1, <3>1 DEF Rq!MessageDelivered, Rq!Changed
  <2>2. ASSUME Rq!Reported
        PROVE  Rq!Keep(At("ready", rqMem.open), TRUE) /\ Same /\ UNCHANGED rqEdge
    <3>1. At("ready", rqMem.open) = [rqMem EXCEPT !.st = "ready"]
      BY <1>0 DEF Rq!TaskType, At
    <3> QED BY <2>2, <3>1 DEF Rq!Reported, Rq!Changed
  <2>3. ASSUME Rq!Fails PROVE Rq!Keep(At("ended", rqMem.open), TRUE) /\ Same /\ UNCHANGED rqEdge
    <3>1. At("ended", rqMem.open) = [rqMem EXCEPT !.st = "ended"]
      BY <1>0 DEF Rq!TaskType, At
    <3> QED BY <2>3, <3>1 DEF Rq!Fails, Rq!Changed
  <2>4. Rq!Bound(rqMem) /\ Rq!Active(rqMem)
    BY <1>5 DEF Rq!MessageDelivered, Rq!Reported, Rq!Fails, Rq!Bound, Rq!Active
  <2> QED BY <1>2, <1>3, <1>4, <1>5, <2>1, <2>2, <2>3, <2>4
<1>6. CASE Rq!Remove
  <2>1. CASE Rq!Active(rqMem)
    <3>1. At("cancelled", rqMem.open) = [rqMem EXCEPT !.st = "cancelled"]
      BY <1>0 DEF Rq!TaskType, At
    <3>2. Rq!Keep(At("cancelled", rqMem.open), TRUE) /\ Same /\ rqEdge' = "gone"
      BY <1>6, <2>1, <3>1 DEF Rq!Remove, Rq!Changed
    <3>3. PICK m : m = At("cancelled", rqMem.open)
      OBVIOUS
    <3>4. Sound(m, rqUp) /\ Follows(rqMem, m, Rq!Items)
      BY <1>3, <1>4, <2>1, <3>3
    <3> QED BY <1>1, <3>2, <3>3, <3>4, Saves
  <2>2. CASE ~Rq!Active(rqMem)
    <3>1. Rq!Keep(rqMem, TRUE) /\ Same /\ rqEdge' = "gone"
      BY <1>6, <2>2 DEF Rq!Remove, Rq!Changed
    <3> QED BY <1>0, <1>1, <3>1, Saves
  <2> QED BY <2>1, <2>2
<1>7. CASE Rq!OtherSave
  BY <1>0, <1>2, <1>7 DEF Rq!OtherSave
<1>8. ASSUME NEW to \in {"files", "text"}, Rq!Permit(to) PROVE RequestsInv'
  <2>1. Rq!Keep(rqMem, TRUE) /\ Same /\ rqEdge' \in {"files", "text", "gone"}
    BY <1>8 DEF Rq!Permit, Rq!Changed
  <2> QED BY <1>0, <1>1, <2>1, Saves
<1>9. ASSUME NEW ok \in BOOLEAN, Rq!Claim(ok) PROVE RequestsInv'
  <2>1. At("bound", rqMem.open) = [rqMem EXCEPT !.st = "bound"]
    BY <1>0 DEF Rq!TaskType, At
  <2>2. Rq!Keep(At("bound", rqMem.open), ok) /\ Same /\ UNCHANGED rqEdge
    BY <1>9, <2>1 DEF Rq!Claim
  <2>3. Rq!Active(rqMem) /\ rqMem.file["task"] \in {"none", "uploaded"}
    BY <1>9 DEF Rq!Claim, Rq!Active
  <2> QED BY <1>2, <1>3, <1>4, <2>2, <2>3
<1> QED BY <1>5, <1>6, <1>7, <1>8, <1>9

\* Handlers that wait.
Calls == Rq!Kinds \X Ids \X {"begin", "wait", "answer"}

\* The end of a delivery, and its next await.
LEMMA Ending ==
    ASSUME RequestsInv, NEW i \in Rq!Items, NEW held \in SUBSET Calls, NEW good,
           Rq!Finish(i, good, held)
    PROVE  rqCall' \subseteq Calls /\ rqOp' = [rqOp EXCEPT ![i] = "idle"]
<1>1. \A c \in held : <<c[1], c[2], "answer">> \in Calls
  BY DEF Calls
<1> QED BY <1>1 DEF Rq!Finish

\* An operation that goes on awaits what it names.
LEMMA Awaiting ==
    ASSUME RequestsInv, NEW i \in Rq!Items, NEW held \in SUBSET Calls, NEW what,
           Rq!Await(i, what, held)
    PROVE  rqCall' \subseteq Calls /\ rqOp' = [rqOp EXCEPT ![i] = what]
BY DEF Rq!Await

\* One step of an operation: it ends, goes on to a post, or begins an upload that is durable.
LEMMA Operates ==
    ASSUME RequestBounds, RequestsInv, NEW i \in Rq!Items,
           NEW to \in {"idle", "post", "notify", "upload"},
           rqOp' = [rqOp EXCEPT ![i] = to], rqCall' \subseteq Calls,
           rqFaults' \in 0 .. MaxFaults,
           UNCHANGED <<rqEdge, rqUp, rqTold, rqCrashes>>,
           Sound(rqMem', rqUp), Follows(rqMem, rqMem', Rq!Items \ {i}),
           rqDisk' = rqDisk \/ (Sound(rqDisk', rqUp) /\ Follows(rqMem, rqDisk', Rq!Items \ {i})),
           to # "idle" /\ i \in Ids => rqMem'.reply[i] # "none",
           to \in {"post", "notify"} => i \in Ids,
           to = "upload" => /\ rqMem'.file[i] = "uploading" /\ rqDisk' = rqMem'
                            /\ rqUp[i] = 0 /\ rqOp[i] # "upload"
    PROVE  RequestsInv'
<1>1. rqOp \in [Rq!Items -> {"idle", "post", "upload", "taken", "notify"}]
  BY DEF RequestsInv, Rest
<1>2. Rest'
  BY <1>1 DEF RequestsInv, Rest, Calls
<1>3. i \notin Going /\ Going \subseteq Rq!Items
  BY <1>1 DEF Going
<1>4. Follows(rqMem, rqMem', Going)
      /\ (Follows(rqMem, rqDisk', Rq!Items \ {i}) => Follows(rqMem, rqDisk', Going))
  BY <1>3 DEF Follows
<1>5. ASSUME NEW j \in Rq!Items
      PROVE  \/ rqOp'[j] \in {rqOp[j], "idle"}
             \/ rqOp'[j] \in {"post", "notify"} /\ j \in Rq!Replies(rqMem')
             \/ /\ rqOp'[j] = "upload" /\ (j \in Ids => j \in Rq!Replies(rqMem'))
                /\ rqMem'.file[j] = "uploading" /\ rqDisk' = rqMem' /\ rqUp[j] = 0
  <2>1. CASE j # i
    BY <1>1, <2>1
  <2>2. CASE j = i
    BY <1>1, <2>2 DEF Rq!Replies
  <2> QED BY <2>1, <2>2
<1> QED BY <1>2, <1>4, <1>5, Journals

\* The step after the text of a reply, from a journal that follows the present one.
LEMMA FileSteps ==
    ASSUME RequestBounds, RequestsInv, NEW i \in Ids, NEW m, NEW d, NEW held \in SUBSET Calls,
           NEW ok \in BOOLEAN, Sound(m, rqUp), Follows(rqMem, m, Rq!Items), m.reply[i] # "none",
           d \in {rqDisk, m}, Rq!FileStep(i, m, d, held, ok),
           UNCHANGED <<rqEdge, rqUp, rqTold, rqCrashes>>
    PROVE  RequestsInv'
<1>0. /\ rqUp \in [Rq!Items -> Nat] /\ i \in Rq!Items /\ i # "task"
      /\ rqFaults \in 0 .. MaxFaults /\ MaxFaults \in Nat /\ m \in Rq!TaskType
  BY DEF RequestsInv, Rest, Rq!Items, RequestBounds, Sound
<1>1. Follows(rqMem, m, Rq!Items \ {i})
  BY DEF Follows
<1>2. CASE /\ m.file[i] \in {"none", "uploaded"} /\ Rq!Finish(i, TRUE, held)
           /\ rqMem' = m /\ rqDisk' = d /\ UNCHANGED rqFaults
  BY <1>0, <1>1, <1>2, Ending, Operates
<1>3. CASE /\ rqMem' = m /\ rqDisk' = d /\ UNCHANGED rqFaults
           /\ IF i \in m.noted THEN Rq!Finish(i, FALSE, held) ELSE Rq!Await(i, "notify", held)
  <2>1. PICK to \in {"idle", "notify"} :
             rqOp' = [rqOp EXCEPT ![i] = to] /\ rqCall' \subseteq Calls
    BY <1>0, <1>3, Ending, Awaiting
  <2> QED BY <1>0, <1>1, <1>3, <2>1, Operates
<1>4. ASSUME NEW to \in {"uploading", "failed"}, m.file[i] # "none"
      PROVE  LET n == Moved(m, i, to) IN
             /\ Sound(n, rqUp) /\ Follows(rqMem, n, Rq!Items \ {i})
             /\ n.file[i] = to /\ n.reply[i] # "none"
  <2> DEFINE n == Moved(m, i, to)
  <2>1. Sound(n, rqUp) /\ Follows(m, n, Rq!Items \ {i}) /\ n.file[i] = to
    BY <1>0, <1>4, Moves
  <2> HIDE DEF n
  <2>2. Follows(rqMem, n, Rq!Items \ {i}) /\ n.reply[i] # "none"
    BY <1>1, <2>1 DEF Follows
  <2> QED BY <2>1, <2>2 DEF n
<1>5. CASE /\ m.file[i] \in {"pending", "uploading"}
           /\ Rq!Write([m EXCEPT !.file[i] = "failed"], d, ok)
           /\ IF ok THEN Rq!Await(i, "notify", held) ELSE Rq!Finish(i, FALSE, held)
  <2>1. PICK n : n = Moved(m, i, "failed")
    OBVIOUS
  <2>2. Sound(n, rqUp) /\ Follows(rqMem, n, Rq!Items \ {i}) /\ n.reply[i] # "none"
    BY <1>4, <1>5, <2>1
  <2>3. rqMem' = n /\ rqDisk' \in {n, d} /\ rqFaults' \in 0 .. MaxFaults
    BY <1>0, <1>5, <2>1 DEF Rq!Write, Moved
  <2>4. PICK to \in {"idle", "notify"} :
             rqOp' = [rqOp EXCEPT ![i] = to] /\ rqCall' \subseteq Calls
    BY <1>0, <1>5, Ending, Awaiting
  <2> QED BY <1>0, <1>1, <2>2, <2>3, <2>4, Operates
<1>6. CASE /\ m.file[i] = "pending"
           /\ Rq!Write([m EXCEPT !.file[i] = "uploading"], d, ok)
           /\ IF ok THEN Rq!Await(i, "upload", held) ELSE Rq!Finish(i, FALSE, held)
  <2>1. PICK n : n = Moved(m, i, "uploading")
    OBVIOUS
  <2>2. /\ Sound(n, rqUp) /\ Follows(rqMem, n, Rq!Items \ {i}) /\ n.reply[i] # "none"
        /\ n.file[i] = "uploading" /\ rqUp[i] = 0
    BY <1>0, <1>4, <1>6, <2>1 DEF Sound, FilesTrue
  <2>3. /\ rqMem' = n /\ rqDisk' \in {n, d} /\ (ok => rqDisk' = n)
        /\ rqFaults' \in 0 .. MaxFaults
    BY <1>0, <1>6, <2>1 DEF Rq!Write, Moved
  <2>4. rqOp[i] # "upload"
    BY <1>0, <1>6 DEF RequestsInv, OpTrue, Follows
  <2>5. CASE ok
    BY <1>0, <1>1, <1>6, <2>2, <2>3, <2>4, <2>5, Awaiting, Operates
  <2>6. CASE ~ok
    BY <1>0, <1>1, <1>6, <2>2, <2>3, <2>6, Ending, Operates
  <2> QED BY <2>5, <2>6
<1> QED BY <1>2, <1>3, <1>5, <1>6 DEF Rq!FileStep

\* A field that no receipt, file or status depends on.
LEMMA Notes ==
    ASSUME RequestBounds, RequestsInv, NEW i \in Ids, rqMem.reply[i] # "none",
           NEW m, m \in {[rqMem EXCEPT !.text = @ \cup {i}], [rqMem EXCEPT !.noted = @ \cup {i}]}
    PROVE  Sound(m, rqUp) /\ Follows(rqMem, m, Rq!Items) /\ m.reply[i] # "none"
<1>0. /\ Sound(rqMem, rqUp) /\ rqMem \in Rq!TaskType /\ rqUp \in [Rq!Items -> Nat]
      /\ rqMem.st # "none"
  BY DEF RequestsInv, Sound, StatusTrue, Rq!NoTask
<1>1. /\ m \in Rq!TaskType /\ m.st = rqMem.st /\ Rq!Declarations(m) = Rq!Declarations(rqMem)
      /\ m.reply = rqMem.reply /\ m.sent = rqMem.sent /\ m.control = rqMem.control
      /\ m.file = rqMem.file /\ m.gates = rqMem.gates /\ m.last = rqMem.last
  BY <1>0 DEF Rq!TaskType, Rq!Declarations
<1> QED BY <1>0, <1>1, Alike DEF Rq!Active, Rq!Bound

\* A delivery of a reply begins.
LEMMA Begins ==
    ASSUME RequestBounds, RequestsInv, NEW i \in Ids, NEW held \in SUBSET Calls,
           NEW ok \in BOOLEAN,
           Rq!Begin(i, held, ok), UNCHANGED <<rqEdge, rqUp, rqTold, rqCrashes>>
    PROVE  RequestsInv'
<1>0. /\ Sound(rqMem, rqUp) /\ \A kept : Follows(rqMem, rqMem, kept)
      /\ rqMem.reply[i] # "none" /\ i \in Rq!Items /\ rqFaults \in 0 .. MaxFaults
  BY Itself DEF RequestsInv, Rest, Rq!Begin, Rq!Replies, Rq!Items
<1>1. CASE i \in rqMem.text
  BY <1>0, <1>1, FileSteps DEF Rq!Begin
<1>2. CASE i \notin rqMem.text
  <2>1. Rq!Await(i, "post", held) /\ UNCHANGED <<rqMem, rqDisk, rqFaults>>
    BY <1>2 DEF Rq!Begin
  <2> QED BY <1>0, <2>1, Awaiting, Operates
<1> QED BY <1>1, <1>2

\* A reply's delivery, from a handler, the reconciler or its post.
LEMMA DeliveryStep ==
    ASSUME RequestBounds, RequestsInv,
           \/ \E c \in rqCall, ok \in BOOLEAN : Rq!Deliver(c, ok)
           \/ \E i \in Rq!Items, ok \in BOOLEAN : Rq!Sweep(i, ok) \/ Rq!Notified(i, ok)
           \/ \E i \in Rq!Items, saved, ok \in BOOLEAN : Rq!Posted(i, saved, ok)
           \/ \E i \in Rq!Items : Rq!PostFails(i)
    PROVE  RequestsInv'
<1>0. /\ rqCall \in SUBSET Calls /\ rqFaults \in 0 .. MaxFaults /\ MaxFaults \in Nat
      /\ Sound(rqMem, rqUp) /\ \A kept : Follows(rqMem, rqMem, kept)
  BY Itself DEF RequestsInv, Rest, Calls, RequestBounds
<1>1. ASSUME NEW i \in Rq!Items, rqOp[i] \in {"post", "notify"}
      PROVE  i \in Ids /\ rqMem.reply[i] # "none"
  BY <1>1 DEF RequestsInv, OpTrue, Rq!Items
<1>2. ASSUME NEW c \in rqCall, NEW ok \in BOOLEAN, Rq!Deliver(c, ok) PROVE RequestsInv'
  <2> DEFINE joined == (rqCall \ {c}) \cup {<<c[1], c[2], "wait">>}
  <2>1. c[2] \in Ids /\ joined \in SUBSET Calls
    BY <1>0 DEF Calls
  <2>2. CASE rqOp[c[2]] # "idle"
    <3>1. /\ rqCall' = joined
          /\ UNCHANGED <<rqMem, rqDisk, rqOp, rqFaults, rqEdge, rqUp, rqTold, rqCrashes>>
      BY <1>2, <2>2 DEF Rq!Deliver
    <3>2. Rest'
      BY <2>1, <3>1 DEF RequestsInv, Rest, Calls
    <3> QED BY <1>0, <3>1, <3>2, Journals
  <2>3. CASE rqOp[c[2]] = "idle"
    <3>1. Rq!Begin(c[2], joined, ok) /\ UNCHANGED <<rqEdge, rqUp, rqTold, rqCrashes>>
      BY <1>2, <2>3 DEF Rq!Deliver
    <3> QED BY <2>1, <3>1, Begins
  <2> QED BY <2>2, <2>3
<1>3. ASSUME NEW i \in Rq!Items, NEW ok \in BOOLEAN, Rq!Sweep(i, ok) PROVE RequestsInv'
  <2>1. i \in Ids
    BY <1>3 DEF Rq!Sweep, Rq!Unsettled, Rq!Replies
  <2> QED BY <1>0, <1>3, <2>1, Begins DEF Rq!Sweep
<1>4. ASSUME NEW i \in Rq!Items, NEW ok \in BOOLEAN, Rq!Notified(i, ok) PROVE RequestsInv'
  <2>1. i \in Ids /\ rqMem.reply[i] # "none"
    BY <1>1, <1>4 DEF Rq!Notified
  <2>2. PICK m : m = [rqMem EXCEPT !.noted = @ \cup {i}]
    OBVIOUS
  <2>3. Sound(m, rqUp) /\ Follows(rqMem, m, Rq!Items \ {i}) /\ m.reply[i] # "none"
    BY <2>1, <2>2, Notes DEF Follows
  <2>4. Rq!Finish(i, FALSE, rqCall) /\ UNCHANGED <<rqEdge, rqUp, rqTold, rqCrashes>>
    BY <1>4 DEF Rq!Notified
  <2>5. rqMem' = m /\ rqDisk' \in {m, rqDisk} /\ rqFaults' \in 0 .. MaxFaults
    BY <1>0, <1>4, <2>2 DEF Rq!Notified, Rq!Keep, Rq!Write
  <2> QED BY <1>0, <2>3, <2>4, <2>5, Ending, Operates
<1>5. ASSUME NEW i \in Rq!Items, NEW saved \in BOOLEAN, NEW ok \in BOOLEAN,
             Rq!Posted(i, saved, ok)
      PROVE  RequestsInv'
  <2>1. i \in Ids /\ rqMem.reply[i] # "none"
    BY <1>1, <1>5 DEF Rq!Posted
  <2>2. PICK m : m = [rqMem EXCEPT !.text = @ \cup {i}]
    OBVIOUS
  <2>3. Sound(m, rqUp) /\ Follows(rqMem, m, Rq!Items) /\ m.reply[i] # "none"
    BY <2>1, <2>2, Notes
  <2>4. UNCHANGED <<rqEdge, rqUp, rqTold, rqCrashes>>
    BY <1>5 DEF Rq!Posted
  <2>5. CASE saved
    <3>1. Rq!FileStep(i, m, m, rqCall, ok)
      BY <1>5, <2>2, <2>5 DEF Rq!Posted
    <3> QED BY <1>0, <2>1, <2>3, <2>4, <3>1, FileSteps
  <2>6. CASE ~saved
    <3>1. Rq!Finish(i, FALSE, rqCall)
      BY <1>5, <2>6 DEF Rq!Posted
    <3>3. rqMem' = m /\ rqDisk' = rqDisk /\ rqFaults' \in 0 .. MaxFaults
      BY <1>0, <1>5, <2>2, <2>6 DEF Rq!Posted, Rq!Write
    <3>2. Follows(rqMem, m, Rq!Items \ {i})
      BY <2>3 DEF Follows
    <3> QED BY <1>0, <2>3, <2>4, <3>1, <3>2, <3>3, Ending, Operates
  <2> QED BY <2>5, <2>6
<1>6. ASSUME NEW i \in Rq!Items, Rq!PostFails(i) PROVE RequestsInv'
  <2>1. Rq!Finish(i, FALSE, rqCall) /\ UNCHANGED <<rqEdge, rqUp, rqTold, rqCrashes>>
    BY <1>6 DEF Rq!PostFails
  <2>2. rqMem' = rqMem /\ rqDisk' = rqDisk /\ rqFaults' \in 0 .. MaxFaults
    BY <1>0, <1>6 DEF Rq!PostFails
  <2> QED BY <1>0, <2>1, <2>2, Ending, Operates
<1> QED BY <1>2, <1>3, <1>4, <1>5, <1>6

\* Uploads: Slack takes one, the daemon learns of it or of a failure.
LEMMA UploadStep ==
    ASSUME RequestBounds, RequestsInv, NEW i \in Rq!Items,
           Rq!SlackTakes(i) \/ Rq!Uploaded(i) \/ \E ok \in BOOLEAN : Rq!UploadFails(i, ok)
    PROVE  RequestsInv'
<1>0. /\ rqCall \in SUBSET Calls /\ rqFaults \in 0 .. MaxFaults /\ MaxFaults \in Nat
      /\ Sound(rqMem, rqUp) /\ rqUp \in [Rq!Items -> Nat] /\ rqMem \in Rq!TaskType
      /\ rqOp \in [Rq!Items -> {"idle", "post", "upload", "taken", "notify"}]
  BY DEF RequestsInv, Rest, Calls, RequestBounds, Sound
<1>1. /\ rqMem.file[i] = "uploading" /\ rqDisk.file[i] \notin {"none", "pending"}
      /\ rqUp[i] = (IF rqOp[i] = "upload" THEN 0 ELSE 1)
      /\ i \in Ids => rqMem.reply[i] # "none"
  BY DEF Rq!SlackTakes, Rq!Uploaded, Rq!UploadFails, RequestsInv, OpTrue
<1>2. CASE Rq!SlackTakes(i)
  <2>1. /\ rqMem' = rqMem /\ rqDisk' = rqDisk /\ rqUp' = [rqUp EXCEPT ![i] = @ + 1]
        /\ rqOp' = [rqOp EXCEPT ![i] = "taken"] /\ rqOp[i] = "upload" /\ rqUp[i] = 0
        /\ UNCHANGED <<rqEdge, rqCall, rqTold, rqFaults, rqCrashes>>
    BY <1>1, <1>2 DEF Rq!SlackTakes
  <2>2. /\ rqUp' \in [Rq!Items -> {0, 1}] /\ rqUp'[i] = 1
        /\ \A j \in Rq!Items \ {i} : rqUp'[j] = rqUp[j]
    BY <2>1 DEF RequestsInv
  <2>3. FilesTrue(rqMem, rqUp') /\ FilesTrue(rqDisk, rqUp')
    BY <1>1, <2>2 DEF RequestsInv, Sound, FilesTrue
  <2>4. Sound(rqMem, rqUp') /\ Sound(rqDisk, rqUp')
    BY <2>3 DEF RequestsInv, Sound
  <2>5. Rest' /\ Told'
    BY <1>0, <2>1 DEF RequestsInv, Rest, Told
  <2>6. ASSUME NEW j \in Rq!Items PROVE OpTrue(j)'
    <3>1. OpTrue(j)
      BY DEF RequestsInv
    <3> QED BY <1>0, <1>1, <2>1, <2>2, <3>1 DEF OpTrue
  <2> QED BY <2>1, <2>2, <2>4, <2>5, <2>6 DEF RequestsInv
<1>3. CASE Rq!Uploaded(i)
  <2>1. PICK m : m = Moved(rqMem, i, "uploaded")
    OBVIOUS
  <2>2. rqUp[i] = 1
    BY <1>1, <1>3 DEF Rq!Uploaded
  <2>3. Sound(m, rqUp) /\ Follows(rqMem, m, Rq!Items \ {i})
    BY <1>0, <1>1, <2>1, <2>2, Moves
  <2>4. rqMem' = m /\ rqDisk' = m /\ rqFaults' \in 0 .. MaxFaults
    BY <1>0, <1>3, <2>1 DEF Rq!Uploaded, Rq!Keep, Rq!Write, Moved
  <2>5. Rq!Finish(i, TRUE, rqCall) /\ UNCHANGED <<rqEdge, rqUp, rqTold, rqCrashes>>
    BY <1>3 DEF Rq!Uploaded
  <2> QED BY <1>0, <2>3, <2>4, <2>5, Ending, Operates
<1>4. ASSUME NEW ok \in BOOLEAN, Rq!UploadFails(i, ok) PROVE RequestsInv'
  <2> DEFINE m == [rqMem EXCEPT !.file[i] = "failed"]
             n == IF i = "task" /\ Rq!Active(m) THEN [m EXCEPT !.st = "ended"] ELSE m
  <2>1. i = "task" => ~Rq!Bound(rqMem)
    BY <1>0, <1>1 DEF Sound, WorkTrue
  <2>2. Sound(m, rqUp) /\ Follows(rqMem, m, Rq!Items \ {i})
    <3>1. m = Moved(rqMem, i, "failed")
      BY DEF Moved
    <3> HIDE DEF m
    <3> QED BY <1>0, <1>1, <2>1, <3>1, Moves
  <2>3. m \in Rq!TaskType
    BY <2>2 DEF Sound
  <2> HIDE DEF m
  <2>4. Sound(n, rqUp) /\ Follows(m, n, Rq!Items)
    <3>1. CASE i = "task" /\ Rq!Active(m)
      <4>1. PICK e : e = [m EXCEPT !.st = "ended"]
        OBVIOUS
      <4>2. /\ e \in Rq!TaskType /\ e.st = "ended" /\ Rq!Declarations(e) = Rq!Declarations(m)
            /\ e.reply = m.reply /\ e.sent = m.sent /\ e.control = m.control
            /\ e.file = m.file /\ e.gates = m.gates /\ e.last = m.last
        BY <2>3, <4>1 DEF Rq!TaskType, Rq!Declarations
      <4>3. Sound(e, rqUp) /\ Follows(m, e, Rq!Items)
        BY <1>0, <2>2, <3>1, <4>2, Alike DEF Rq!Active, Rq!Bound
      <4> QED BY <3>1, <4>1, <4>3
    <3>2. CASE ~(i = "task" /\ Rq!Active(m))
      BY <2>2, <3>2, Itself
    <3> QED BY <3>1, <3>2
  <2>5. /\ rqMem' = n /\ rqDisk' \in {n, rqDisk} /\ rqFaults' = rqFaults + 1
        /\ rqFaults < MaxFaults
        /\ IF ok /\ i # "task"
           THEN Rq!Await(i, "notify", rqCall) ELSE Rq!Finish(i, FALSE, rqCall)
        /\ UNCHANGED <<rqEdge, rqUp, rqTold, rqCrashes>>
    BY <1>4 DEF Rq!UploadFails, m
  <2> HIDE DEF n
  <2>6. Follows(rqMem, n, Rq!Items \ {i})
    BY <2>2, <2>3, <2>4, <1>0 DEF Follows
  <2>7. i # "task" => i \in Ids /\ n.reply[i] # "none"
    BY <1>1, <2>6 DEF Rq!Items, Follows
  <2>8. rqFaults' \in 0 .. MaxFaults
    BY <1>0, <2>5
  <2>9. CASE ok /\ i # "task"
    BY <1>0, <2>4, <2>5, <2>6, <2>7, <2>8, <2>9, Awaiting, Operates
  <2>10. CASE ~(ok /\ i # "task")
    BY <1>0, <2>4, <2>5, <2>6, <2>8, <2>10, Ending, Operates
  <2> QED BY <2>9, <2>10
<1> QED BY <1>2, <1>3, <1>4

\* The files of the task, before its claim.
LEMMA TaskFilesStep ==
    ASSUME RequestBounds, RequestsInv, NEW ok \in BOOLEAN, Rq!TaskFiles(ok)
    PROVE  RequestsInv'
<1> DEFINE i == "task"
<1>0. /\ rqCall \subseteq Calls /\ rqFaults \in 0 .. MaxFaults /\ MaxFaults \in Nat
      /\ Sound(rqMem, rqUp) /\ rqUp \in [Rq!Items -> Nat] /\ rqMem \in Rq!TaskType
      /\ rqOp \in [Rq!Items -> {"idle", "post", "upload", "taken", "notify"}]
      /\ i \in Rq!Items /\ i \notin Ids
  BY DEF RequestsInv, Rest, Calls, RequestBounds, Sound, Rq!Items
<1>1. /\ rqMem.st = "queued" /\ rqOp[i] = "idle" /\ rqMem.file[i] # "none" /\ ~Rq!Bound(rqMem)
      /\ UNCHANGED <<rqEdge, rqCall, rqUp, rqTold, rqCrashes>>
  BY DEF Rq!TaskFiles, Rq!Bound
<1>2. ASSUME NEW to \in {"uploading", "failed"}
      PROVE  LET m == Moved(rqMem, i, to) IN
             /\ Sound(m, rqUp) /\ Follows(rqMem, m, Rq!Items \ {i})
             /\ m.file[i] = to /\ m.st = "queued"
  BY <1>0, <1>1, Moves
<1>3. CASE /\ Rq!Keep([rqMem EXCEPT !.file["task"] = "failed", !.st = "ended"], ok)
           /\ UNCHANGED rqOp
  <2>1. PICK m : m = Moved(rqMem, i, "failed")
    OBVIOUS
  <2>2. PICK e : e = [rqMem EXCEPT !.file["task"] = "failed", !.st = "ended"]
    OBVIOUS
  <2>3. /\ Sound(m, rqUp) /\ Follows(rqMem, m, Rq!Items \ {i})
        /\ m.st = "queued" /\ m \in Rq!TaskType
    BY <1>2, <2>1 DEF Sound
  <2>4. /\ e \in Rq!TaskType /\ e.st = "ended" /\ Rq!Declarations(e) = Rq!Declarations(m)
        /\ e.reply = m.reply /\ e.sent = m.sent /\ e.control = m.control
        /\ e.file = m.file /\ e.gates = m.gates /\ e.last = m.last
    BY <1>0, <2>1, <2>2 DEF Rq!TaskType, Rq!Declarations, Moved, Rq!FileStates
  <2>5. Sound(e, rqUp) /\ Follows(m, e, Rq!Items)
    BY <1>0, <2>3, <2>4, Alike DEF Rq!Active, Rq!Bound
  <2>6. Follows(rqMem, e, Rq!Items \ {i})
    BY <2>3, <2>5 DEF Follows
  <2>7. rqMem' = e /\ rqDisk' \in {e, rqDisk} /\ rqFaults' \in 0 .. MaxFaults
    BY <1>0, <1>3, <2>2 DEF Rq!Keep, Rq!Write
  <2>8. rqOp' = [rqOp EXCEPT ![i] = "idle"]
    BY <1>0, <1>1, <1>3
  <2> QED BY <1>0, <1>1, <2>5, <2>6, <2>7, <2>8, Operates
<1>4. CASE /\ rqMem.file["task"] = "pending"
           /\ Rq!Keep([rqMem EXCEPT !.file["task"] = "uploading"], ok)
           /\ rqOp' = [rqOp EXCEPT !["task"] = IF ok THEN "upload" ELSE @]
  <2>1. PICK m : m = Moved(rqMem, i, "uploading")
    OBVIOUS
  <2>2. /\ Sound(m, rqUp) /\ Follows(rqMem, m, Rq!Items \ {i}) /\ m.file[i] = "uploading"
        /\ rqUp[i] = 0
    BY <1>0, <1>2, <1>4, <2>1 DEF Sound, FilesTrue
  <2>3. /\ rqMem' = m /\ rqDisk' \in {m, rqDisk} /\ (ok => rqDisk' = m)
        /\ rqFaults' \in 0 .. MaxFaults
    BY <1>0, <1>4, <2>1 DEF Rq!Keep, Rq!Write, Moved
  <2>4. CASE ok
    <3>1. rqOp' = [rqOp EXCEPT ![i] = "upload"]
      BY <1>4, <2>4
    <3> QED BY <1>0, <1>1, <2>2, <2>3, <2>4, <3>1, Operates
  <2>5. CASE ~ok
    <3>1. rqOp' = [rqOp EXCEPT ![i] = "idle"]
      BY <1>0, <1>1, <1>4, <2>5
    <3> QED BY <1>0, <1>1, <2>2, <2>3, <3>1, Operates
  <2> QED BY <2>4, <2>5
<1> QED BY <1>3, <1>4 DEF Rq!TaskFiles

\* A restart goes on from the disk.
LEMMA CrashStep ==
    ASSUME RequestBounds, RequestsInv, Rq!Crash
    PROVE  RequestsInv'
<1>1. rqMem' = rqDisk /\ rqDisk' = rqDisk /\ rqUp' = rqUp /\ rqTold' = rqTold
      /\ rqOp' = [i \in Rq!Items |-> "idle"]
  BY DEF Rq!Crash
<1>2. Rest'
  BY DEF Rq!Crash, RequestsInv, Rest, RequestBounds
<1>3. Told' /\ \A i \in Rq!Items : OpTrue(i)'
  BY <1>1 DEF RequestsInv, Told, OpTrue
<1> QED BY <1>1, <1>2, <1>3 DEF RequestsInv

\* The first state.
LEMMA Initially ==
    ASSUME RequestBounds, Rq!Init
    PROVE  RequestsInv
<1>1. /\ rqUp \in [Rq!Items -> Nat] /\ rqUp \in [Rq!Items -> {0, 1}]
      /\ \A i \in Rq!Items : rqUp[i] = 0
  BY DEF Rq!Init
<1>2. Sound(rqMem, rqUp) /\ Sound(rqDisk, rqUp)
  BY <1>1, NoTaskSound DEF Rq!Init
<1>3. Rest /\ Told /\ \A i \in Rq!Items : OpTrue(i)
  BY DEF Rq!Init, Rest, Told, OpTrue, RequestBounds
<1> QED BY <1>1, <1>2, <1>3 DEF RequestsInv

\* Every step.
LEMMA Stepwise ==
    ASSUME RequestBounds, RequestsInv, [Rq!Next]_(Rq!rqVars)
    PROVE  RequestsInv'
<1>1. CASE Rq!Next
  <2>1. ASSUME NEW i \in Ids, NEW ok \in BOOLEAN,
               \/ Rq!Send(i, ok) \/ Rq!SendAgain(i, ok) \/ Rq!Message(i, ok) \/ Rq!Replace(i, ok)
               \/ Rq!Cancel(i, ok) \/ Rq!Release(i, ok) \/ Rq!ReleaseAgain(i, ok)
               \/ Rq!Complete(i, ok)
               \/ \E kind \in {"reply", "raise", "clear"} : Rq!Reply(kind, i, ok)
               \/ \E kind \in Rq!Kinds : Rq!Lookup(kind, i, ok)
        PROVE  RequestsInv'
    BY <2>1, CoordinatorStep, WorkerStep
  <2>2. ASSUME NEW c \in rqCall,
               Rq!HandlerFails(c) \/ \E ok \in BOOLEAN : Rq!Confirm(c, ok) \/ Rq!Deliver(c, ok)
        PROVE  RequestsInv'
    BY <2>2, HandlerEnds, DeliveryStep
  <2>3. ASSUME NEW i \in Rq!Items, Rq!Delivering(i) PROVE RequestsInv'
    BY <2>3, DeliveryStep, UploadStep DEF Rq!Delivering
  <2>4. ASSUME NEW ok \in BOOLEAN, Rq!TaskFiles(ok) \/ Rq!Claim(ok) PROVE RequestsInv'
    BY <2>4, TaskFilesStep, OtherStep
  <2>5. CASE \/ Rq!MessageDelivered \/ Rq!Reported \/ Rq!Fails
             \/ Rq!Remove \/ Rq!OtherSave \/ Rq!Crash
             \/ \E to \in {"files", "text"} : Rq!Permit(to)
    BY <2>5, OtherStep, CrashStep
  <2> QED BY <1>1, <2>1, <2>2, <2>3, <2>4, <2>5 DEF Rq!Next
<1>2. CASE UNCHANGED Rq!rqVars
  BY <1>2 DEF Rq!rqVars, RequestsInv, Rest, Told, OpTrue
<1> QED BY <1>1, <1>2

\* The invariant, from the first state on.
LEMMA RequestsInvariant == RequestBounds => (Rq!Spec => []RequestsInv)
<1> SUFFICES ASSUME RequestBounds PROVE Rq!Spec => []RequestsInv
  OBVIOUS
<1>1. Rq!Init => RequestsInv
  BY Initially
<1>2. RequestsInv /\ [Rq!Next]_(Rq!rqVars) => RequestsInv'
  BY Stepwise
<1> QED BY <1>1, <1>2, PTL DEF Rq!Spec

\* What it says of the properties.
LEMMA Consequences ==
    ASSUME RequestBounds, RequestsInv
    PROVE  /\ Rq!TypeOK /\ Rq!ConfirmedIsDurable /\ Rq!OneReceipt
           /\ Rq!FilesOnce /\ Rq!WorkerCanFinish
<1>1. Rq!TypeOK
  BY DEF RequestsInv, Rest, Sound, Rq!TypeOK
<1>2. Rq!ConfirmedIsDurable
  BY DEF RequestsInv, Told, Rq!ConfirmedIsDurable
<1>3. ASSUME NEW i \in Ids, NEW worker \in BOOLEAN
      PROVE  Cardinality(Rq!Receipts(rqMem, i, worker)) <= 1
  <2> DEFINE R == Rq!Receipts(rqMem, i, worker)
  <2>0. Sound(rqMem, rqUp) /\ rqMem \in Rq!TaskType
    BY DEF RequestsInv, Sound
  <2>1. ASSUME NEW a \in R, NEW b \in R PROVE a = b
    <3>1. CASE worker
      <4>1. R = ({rqMem.reply[i]} \cup {"complete" : j \in Rq!Declarations(rqMem) \cap {i}})
                    \ {"none"}
        BY <3>1 DEF Rq!Receipts
      <4>2. rqMem.reply[i] = "none" \/ i \notin Rq!Declarations(rqMem)
        BY <2>0 DEF Sound, IdsTrue
      <4> QED BY <4>1, <4>2
    <3>2. CASE ~worker
      <4> DEFINE A == {"send" : j \in {rqMem.sent} \cap {i}}
                 B == {rqMem.last[1] : j \in {rqMem.last[2]} \cap {i}}
      <4>1. R = ({rqMem.control[i]} \cup A \cup B) \ {"none"}
        BY <3>2 DEF Rq!Receipts
      <4>2. \A x : x \in A <=> x = "send" /\ rqMem.sent = i
        OBVIOUS
      <4>3. \A x : x \in B <=> rqMem.last[1] = x /\ rqMem.last[2] = i
        OBVIOUS
      <4>4. /\ rqMem.sent = i => rqMem.control[i] = "none" /\ rqMem.last[2] # i
            /\ rqMem.last[2] = i /\ rqMem.control[i] # "none"
                  => rqMem.control[i] = rqMem.last[1]
        BY <2>0 DEF Sound, IdsTrue
      <4> HIDE DEF A, B, R
      <4> QED BY <2>1, <4>1, <4>2, <4>3, <4>4
    <3> QED BY <3>1, <3>2
  <2>2. R = {} \/ \E a : R = {a}
    BY <2>1
  <2>3. Cardinality({}) = 0 /\ \A a : Cardinality({a}) = 1
    BY FS_EmptySet, FS_Singleton
  <2> HIDE DEF R
  <2>4. Cardinality(R) <= 1
    <3>1. CASE R = {}
      <4>1. Cardinality(R) = 0
        BY <2>3, <3>1
      <4> QED BY <4>1
    <3>2. ASSUME NEW a, R = {a} PROVE Cardinality(R) <= 1
      <4>1. Cardinality(R) = 1
        BY <2>3, <3>2
      <4> QED BY <4>1
    <3> QED BY <2>2, <3>1, <3>2
  <2> QED BY <2>4 DEF R
<1>4. Rq!FilesOnce
  BY DEF RequestsInv, Sound, FilesTrue, Rq!FilesOnce
<1>5. Rq!WorkerCanFinish
  BY SameCount DEF RequestsInv, Sound, WorkTrue, Rq!WorkerCanFinish
<1>6. Rq!OneReceipt
  BY <1>3, SameCount DEF Rq!OneReceipt
<1> QED BY <1>1, <1>2, <1>4, <1>5, <1>6

-----------------------------------------------------------------------------
\* The types of the requests' variables, with at most MaxFaults faults.
THEOREM RequestTypes == RequestBounds => (Rq!Spec => []Rq!TypeOK)
<1> SUFFICES ASSUME RequestBounds PROVE Rq!Spec => []Rq!TypeOK
  OBVIOUS
<1>1. RequestsInv => Rq!TypeOK
  BY Consequences
<1> QED BY <1>1, RequestsInvariant, PTL

\* What a caller was told is accepted is in the state file, whatever saves failed before and
\* whichever retry or lookup gave the answer (acceptedTeamMutation).
THEOREM ConfirmationDurable == RequestBounds => (Rq!Spec => []Rq!ConfirmedIsDurable)
<1> SUFFICES ASSUME RequestBounds PROVE Rq!Spec => []Rq!ConfirmedIsDurable
  OBVIOUS
<1>1. RequestsInv => Rq!ConfirmedIsDurable
  BY Consequences
<1> QED BY <1>1, RequestsInvariant, PTL

\* An id of a caller stands for one request, also where a receipt no longer fits into the
\* journal of controls and only the terminal request remembers it (taskControlRequest).
THEOREM ReceiptsUnique == RequestBounds => (Rq!Spec => []Rq!OneReceipt)
<1> SUFFICES ASSUME RequestBounds PROVE Rq!Spec => []Rq!OneReceipt
  OBVIOUS
<1>1. RequestsInv => Rq!OneReceipt
  BY Consequences
<1> QED BY <1>1, RequestsInvariant, PTL

\* The files of a task or reply go to Slack at most once, and the journal never says less than
\* what happened (performTeamTaskFileDelivery, performTeamReplyDelivery).
THEOREM UploadsOnce == RequestBounds => (Rq!Spec => []Rq!FilesOnce)
<1> SUFFICES ASSUME RequestBounds PROVE Rq!Spec => []Rq!FilesOnce
  OBVIOUS
<1>1. RequestsInv => Rq!FilesOnce
  BY Consequences
<1> QED BY <1>1, RequestsInvariant, PTL

\* A task that is claimed has its files in Slack, and pending gates always leave a slot for the
\* checkpoint that clears them (appendTeamTaskReply).
THEOREM GatesCanClear == RequestBounds => (Rq!Spec => []Rq!WorkerCanFinish)
<1> SUFFICES ASSUME RequestBounds PROVE Rq!Spec => []Rq!WorkerCanFinish
  OBVIOUS
<1>1. RequestsInv => Rq!WorkerCanFinish
  BY Consequences
<1> QED BY <1>1, RequestsInvariant, PTL

=============================================================================
