------------------------- MODULE ReportsAndWakesProofs -------------------------
(***************************************************************************)
(* Proofs about the report journal of a task (TeamReports): it is bounded, *)
(* keeps the worker's answer, and is shown before the result.              *)
(*                                                                         *)
(* The least turn after the declaration is the answer.  It stays because   *)
(* what ages out is never it, and because the journal holds two reports at *)
(* least: a full one gives up another.  The rest of the invariant ties the *)
(* journal to the turns accepted and to what the channel shows.            *)
(*                                                                         *)
(* And about the wakes of a coordinator (TeamWakes): an event is claimed   *)
(* once at a time, by one run, and is on the list or claimed but not both; *)
(* so an event that a restart made uncertain is on no list, and the        *)
(* recovery settles it.                                                    *)
(***************************************************************************)
EXTENDS TeamReports, SequenceTheorems, WellFoundedInduction, TLAPS

\* The journal holds at least two reports; the other limits are any naturals.
Bounds == MaxReports \in Nat /\ MaxReports >= 2 /\ MaxTurns \in Nat /\ MaxFaults \in Nat

\* A set of naturals that is not empty has a least element.
LEMMA LeastOf ==
    ASSUME NEW S, S \subseteq Nat, S # {}
    PROVE  Min(S) \in S /\ \A y \in S : Min(S) <= y
<1>1. \E x \in S : \A y \in S : ~(<<y, x>> \in OpToRel(<, Nat))
  BY NatLessThanWellFounded, WFMin
<1>2. \A x \in S, y \in S : ~(<<y, x>> \in OpToRel(<, Nat)) => x <= y
  BY DEF OpToRel
<1>3. \E x \in S : \A y \in S : x <= y
  BY <1>1, <1>2
<1> QED
  BY <1>3 DEF Min

\* Removing an element keeps the others, in order.
LEMMA Removal ==
    ASSUME NEW X, NEW s \in Seq(X), NEW i \in 1 .. Len(s)
    PROVE  /\ RemoveAt(s, i) \in Seq(X) /\ Len(RemoveAt(s, i)) = Len(s) - 1
           /\ ToSet(RemoveAt(s, i)) \subseteq ToSet(s)
           /\ \A j \in 1 .. Len(s) : j # i => s[j] \in ToSet(RemoveAt(s, i))
<1> DEFINE n == Len(s)
           a == SubSeq(s, 1, i - 1)
           b == SubSeq(s, i + 1, n)
<1>1. n \in Nat /\ DOMAIN s = 1 .. n /\ i \in 1 .. n /\ \A j \in 1 .. n : s[j] \in X
  BY LenProperties, ElementOfSeq
<1>2. /\ a \in Seq(X) /\ Len(a) = i - 1
      /\ \A j \in 1 .. i - 1 : a[j] = s[j]
  <2>1. i - 1 \in Int /\ \A j \in 1 .. i - 1 : s[j] \in X
    BY <1>1
  <2>2. /\ a \in Seq(X) /\ Len(a) = (IF 1 <= i - 1 THEN i - 1 - 1 + 1 ELSE 0)
        /\ \A j \in 1 .. i - 1 - 1 + 1 : a[j] = s[1 + j - 1]
    BY <2>1, SubSeqProperties
  <2> QED
    BY <1>1, <2>2
<1>3. /\ b \in Seq(X) /\ Len(b) = n - i
      /\ \A j \in 1 .. n - i : b[j] = s[i + j]
  <2>1. i + 1 \in Int /\ n \in Int /\ \A j \in i + 1 .. n : s[j] \in X
    BY <1>1
  <2>2. /\ b \in Seq(X) /\ Len(b) = (IF i + 1 <= n THEN n - (i + 1) + 1 ELSE 0)
        /\ \A j \in 1 .. n - (i + 1) + 1 : b[j] = s[i + 1 + j - 1]
    BY <2>1, SubSeqProperties
  <2>3. n - (i + 1) + 1 = n - i
    BY <1>1
  <2>4. i + 1 <= n \/ n - i = 0
    <3>1. \A m \in Nat : \A q \in 1 .. m : q + 1 <= m \/ m - q = 0
      OBVIOUS
    <3> QED
      BY <1>1, <3>1
  <2>5. \A j \in 1 .. n - i : i + 1 + j - 1 = i + j
    BY <1>1
  <2> QED
    BY <2>2, <2>3, <2>4, <2>5
<1> HIDE DEF n, a, b
<1>4. RemoveAt(s, i) = a \o b
  BY DEF RemoveAt, a, b, n
<1>5. /\ a \o b \in Seq(X) /\ Len(a \o b) = n - 1
      /\ \A j \in 1 .. n - 1 : (a \o b)[j] = IF j <= i - 1 THEN a[j] ELSE b[j - (i - 1)]
  <2>1. /\ a \o b \in Seq(X) /\ Len(a \o b) = Len(a) + Len(b)
        /\ \A j \in 1 .. Len(a) + Len(b) :
              (a \o b)[j] = IF j <= Len(a) THEN a[j] ELSE b[j - Len(a)]
    BY <1>2, <1>3, ConcatProperties
  <2>2. Len(a) + Len(b) = n - 1 /\ Len(a) = i - 1
    BY <1>1, <1>2, <1>3
  <2> QED
    BY <2>1, <2>2
<1>6. DOMAIN (a \o b) = 1 .. n - 1
  BY <1>5, LenProperties
<1>7. \A j \in 1 .. n - 1 : (a \o b)[j] = IF j < i THEN s[j] ELSE s[j + 1]
  <2>1. ASSUME NEW j \in 1 .. n - 1, j < i PROVE (a \o b)[j] = s[j]
    BY <1>1, <1>2, <1>5, <2>1
  <2>2. ASSUME NEW j \in 1 .. n - 1, ~(j < i) PROVE (a \o b)[j] = s[j + 1]
    <3>1. j - (i - 1) \in 1 .. n - i /\ i + (j - (i - 1)) = j + 1
      BY <1>1, <2>2
    <3>2. (a \o b)[j] = b[j - (i - 1)]
      BY <1>1, <1>5, <2>2
    <3> QED
      BY <1>3, <3>1, <3>2
  <2> QED
    BY <2>1, <2>2
<1>8. \A j \in 1 .. n - 1 : \E k \in 1 .. n : (a \o b)[j] = s[k]
  <2>1. \A j \in 1 .. n - 1 : j \in 1 .. n /\ j + 1 \in 1 .. n
    BY <1>1
  <2> QED
    BY <1>7, <2>1
<1>9. \A j \in 1 .. n : j # i => \E k \in 1 .. n - 1 : (a \o b)[k] = s[j]
  <2> SUFFICES ASSUME NEW j \in 1 .. n, j # i PROVE \E k \in 1 .. n - 1 : (a \o b)[k] = s[j]
    OBVIOUS
  <2>1. CASE j < i
    <3>1. j \in 1 .. n - 1
      BY <1>1, <2>1
    <3> QED
      BY <1>7, <2>1, <3>1
  <2>2. CASE ~(j < i)
    <3>1. j - 1 \in 1 .. n - 1 /\ ~(j - 1 < i) /\ (j - 1) + 1 = j
      BY <1>1, <2>2
    <3> QED
      BY <1>7, <3>1
  <2> QED
    BY <2>1, <2>2
<1>10. n = Len(s)
  BY DEF n
<1>11. ToSet(a \o b) \subseteq ToSet(s)
  BY <1>1, <1>6, <1>8 DEF ToSet
<1>12. \A j \in 1 .. n : j # i => s[j] \in ToSet(a \o b)
  BY <1>6, <1>9 DEF ToSet
<1> QED
  BY <1>4, <1>5, <1>10, <1>11, <1>12

-----------------------------------------------------------------------------
\* The turns of a journal are those of its entries.
LEMMA JournalEntries ==
    ASSUME NEW rs \in Seq(Report)
    PROVE  /\ Journal(rs) = {r.turn : r \in ToSet(rs)}
           /\ ToSet(rs) \subseteq Report /\ Journal(rs) \subseteq Turn
           /\ \A i \in DOMAIN rs : rs[i] \in ToSet(rs) /\ rs[i] \in Report
           /\ DOMAIN rs = 1 .. Len(rs) /\ Len(rs) \in Nat
<1>1. /\ DOMAIN rs = 1 .. Len(rs) /\ Len(rs) \in Nat
      /\ \A i \in 1 .. Len(rs) : rs[i] \in Report
  BY LenProperties, ElementOfSeq
<1>2. \A i \in DOMAIN rs : rs[i] \in ToSet(rs) /\ rs[i].turn \in Turn
  BY <1>1 DEF ToSet, Report
<1>3. ToSet(rs) \subseteq Report
  BY <1>1 DEF ToSet
<1>4. Journal(rs) = {r.turn : r \in ToSet(rs)}
  BY DEF Journal, ToSet
<1>5. Journal(rs) \subseteq Turn
  BY <1>2 DEF Journal
<1> QED
  BY <1>1, <1>2, <1>3, <1>4, <1>5

\* The report that answers is the first covering one of the journal.
LEMMA AnswerIsFirst ==
    ASSUME MaxTurns \in Nat, NEW rs \in Seq(Report), NEW decl \in Nat
    PROVE  /\ CompletionReport(rs, decl) \in 0 .. Len(rs)
           /\ CompletionReport(rs, decl) = 0 <=> {t \in Journal(rs) : t > decl} = {}
           /\ CompletionReport(rs, decl) # 0 =>
                 rs[CompletionReport(rs, decl)].turn = Min({t \in Journal(rs) : t > decl})
<1> DEFINE C == Covering(rs, decl)
           T == {t \in Journal(rs) : t > decl}
           i == CompletionReport(rs, decl)
<1>1. /\ DOMAIN rs = 1 .. Len(rs) /\ Len(rs) \in Nat
      /\ Journal(rs) \subseteq Turn /\ Turn \subseteq Nat
  BY JournalEntries DEF Turn
<1>2. C \subseteq 1 .. Len(rs) /\ \A j \in C : rs[j].turn \in T
  BY <1>1 DEF Covering, Journal
<1>3. \A t \in T : \E j \in C : rs[j].turn = t
  BY DEF Covering, Journal
<1>4. CASE C = {}
  <2>1. i = 0 /\ T = {}
    BY <1>3, <1>4 DEF CompletionReport
  <2> QED
    BY <1>1, <2>1
<1>5. CASE C # {}
  <2>1. T # {} /\ T \subseteq Nat
    BY <1>1, <1>2, <1>5
  <2> HIDE DEF T, C
  <2>2. Min(T) \in T /\ \A t \in T : Min(T) <= t
    BY <2>1, LeastOf
  <2>3. \E j \in C : \A k \in C : rs[j].turn <= rs[k].turn
    BY <1>2, <1>3, <2>2
  <2>4. i = CHOOSE j \in C : \A k \in C : rs[j].turn <= rs[k].turn
    BY <1>5 DEF CompletionReport, C
  <2>5. i \in C /\ \A k \in C : rs[i].turn <= rs[k].turn
    BY <2>3, <2>4
  <2>6. rs[i].turn \in T /\ \A t \in T : rs[i].turn <= t
    BY <1>2, <1>3, <2>5
  <2>7. rs[i].turn \in Nat /\ Min(T) \in Nat
    BY <2>1, <2>2, <2>6
  <2>8. rs[i].turn <= Min(T) /\ Min(T) <= rs[i].turn
    BY <2>2, <2>6
  <2> HIDE DEF i
  <2>9. rs[i].turn = Min(T)
    BY <2>7, <2>8
  <2>10. i \in 1 .. Len(rs)
    BY <1>2, <2>5
  <2>11. i \in 0 .. Len(rs) /\ i # 0
    BY <1>1, <2>10
  <2> QED
    BY <2>1, <2>9, <2>11 DEF i, T
<1> QED
  BY <1>4, <1>5

\* The journal gives up delivered reports, never the answer.
LEMMA AgedKeeps ==
    ASSUME NEW rs \in Seq(Report), NEW answer \in 0 .. Len(rs)
    PROVE  /\ Aged(rs, answer) \in Seq(Report) /\ Len(Aged(rs, answer)) <= Len(rs)
           /\ ToSet(Aged(rs, answer)) \subseteq ToSet(rs)
           /\ answer # 0 => rs[answer] \in ToSet(Aged(rs, answer))
<1> DEFINE out == {i \in DOMAIN rs : rs[i].st = "delivered" /\ i # answer}
<1>1. DOMAIN rs = 1 .. Len(rs) /\ Len(rs) \in Nat
  BY LenProperties
<1>2. CASE Len(rs) < MaxReports \/ out = {}
  <2>1. Aged(rs, answer) = rs
    BY <1>2 DEF Aged
  <2> QED
    BY <1>1, <2>1 DEF ToSet
<1>3. CASE ~(Len(rs) < MaxReports \/ out = {})
  <2>1. Aged(rs, answer) = RemoveAt(rs, Min(out)) /\ out # {}
    BY <1>3 DEF Aged
  <2>2. out \subseteq Nat /\ out \subseteq 1 .. Len(rs) /\ answer \notin out
    BY <1>1
  <2> HIDE DEF out
  <2>3. Min(out) \in out
    BY <2>1, <2>2, LeastOf
  <2>4. Min(out) \in 1 .. Len(rs) /\ Min(out) # answer
    BY <2>2, <2>3
  <2>5. /\ RemoveAt(rs, Min(out)) \in Seq(Report)
        /\ Len(RemoveAt(rs, Min(out))) = Len(rs) - 1
        /\ ToSet(RemoveAt(rs, Min(out))) \subseteq ToSet(rs)
        /\ \A j \in 1 .. Len(rs) : j # Min(out) => rs[j] \in ToSet(RemoveAt(rs, Min(out)))
    BY <2>4, Removal
  <2> QED
    BY <1>1, <2>1, <2>4, <2>5
<1> QED
  BY <1>2, <1>3

\* A full journal of undelivered reports gives up one, never the answer.
LEMMA DisplaceKeeps ==
    ASSUME Bounds, NEW rs \in Seq(Report), NEW kept, Len(rs) <= MaxReports
    PROVE  /\ Displace(rs, kept) \in Seq(Report) /\ Len(Displace(rs, kept)) <= MaxReports - 1
           /\ ToSet(Displace(rs, kept)) \subseteq ToSet(rs)
           /\ kept \in Journal(rs) => kept \in Journal(Displace(rs, kept))
<1> DEFINE n == Len(rs)
<1>1. DOMAIN rs = 1 .. n /\ n \in Nat
  BY LenProperties
<1>2. CASE n < MaxReports
  <2>1. Displace(rs, kept) = rs
    BY <1>2 DEF Displace
  <2> QED
    BY <1>1, <1>2, <2>1 DEF Bounds
<1>3. CASE ~(n < MaxReports)
  <2> DEFINE k == IF rs[n].turn = kept THEN n - 1 ELSE n
             short == RemoveAt(rs, k)
  <2>1. n = MaxReports /\ n >= 2 /\ k \in 1 .. n
    <3> HIDE DEF n
    <3>0. n \in Nat /\ MaxReports \in Nat /\ MaxReports >= 2 /\ n <= MaxReports
      BY <1>1 DEF Bounds, n
    <3>1. n = MaxReports /\ n >= 2
      BY <1>3, <3>0
    <3>2. n \in 1 .. n /\ n - 1 \in 1 .. n
      BY <1>1, <3>1
    <3> QED
      BY <3>1, <3>2
  <2>2. Displace(rs, kept) = short
    BY <1>3 DEF Displace
  <2>3. /\ short \in Seq(Report) /\ Len(short) = n - 1 /\ ToSet(short) \subseteq ToSet(rs)
        /\ \A j \in 1 .. n : j # k => rs[j] \in ToSet(short)
    BY <2>1, Removal
  <2>4. kept \in Journal(rs) => \E j \in 1 .. n : j # k /\ rs[j].turn = kept
    BY <1>1, <2>1 DEF Journal
  <2> HIDE DEF k, short
  <2>5. Journal(short) = {r.turn : r \in ToSet(short)}
    BY <2>3, JournalEntries
  <2>6. kept \in Journal(rs) => kept \in Journal(short)
    BY <2>3, <2>4, <2>5
  <2> QED
    BY <1>1, <2>1, <2>2, <2>3, <2>6
<1> QED
  BY <1>2, <1>3

\* A new report joins the journal, which stays within its limit and keeps the
\* answer.
LEMMA JournaledKeeps ==
    ASSUME Bounds, NEW rs \in Seq(Report), Len(rs) <= MaxReports, NEW decl \in Nat,
           NEW report \in Report
    PROVE  /\ Journaled(rs, decl, report) \in Seq(Report)
           /\ Len(Journaled(rs, decl, report)) <= MaxReports
           /\ ToSet(Journaled(rs, decl, report)) \subseteq ToSet(rs) \cup {report}
           /\ report.turn \in Journal(Journaled(rs, decl, report))
           /\ {t \in Journal(rs) : t > decl} # {} =>
                 Min({t \in Journal(rs) : t > decl}) \in Journal(Journaled(rs, decl, report))
<1> DEFINE i == CompletionReport(rs, decl)
           kept == IF i = 0 THEN 0 ELSE rs[i].turn
           aged == Aged(rs, i)
           short == Displace(aged, kept)
           T == {t \in Journal(rs) : t > decl}
<1>1. i \in 0 .. Len(rs) /\ (i = 0 <=> T = {}) /\ (i # 0 => rs[i].turn = Min(T))
  BY AnswerIsFirst DEF Bounds
<1>2. /\ aged \in Seq(Report) /\ Len(aged) <= Len(rs) /\ ToSet(aged) \subseteq ToSet(rs)
      /\ i # 0 => rs[i] \in ToSet(aged)
  BY <1>1, AgedKeeps
<1>3. Len(aged) <= MaxReports /\ Len(aged) \in Nat /\ Len(rs) \in Nat
  BY <1>2, LenProperties DEF Bounds
<1> HIDE DEF i, kept, aged
<1>4. /\ short \in Seq(Report) /\ Len(short) <= MaxReports - 1
      /\ ToSet(short) \subseteq ToSet(aged)
      /\ kept \in Journal(aged) => kept \in Journal(short)
  BY <1>2, <1>3, DisplaceKeeps
<1>5. Journaled(rs, decl, report) = Append(short, report)
  BY DEF Journaled, short, aged, kept, i
<1> HIDE DEF short
<1>6. /\ Append(short, report) \in Seq(Report)
      /\ Len(Append(short, report)) = Len(short) + 1 /\ Len(short) \in Nat
      /\ \A j \in 1 .. Len(short) : Append(short, report)[j] = short[j]
      /\ Append(short, report)[Len(short) + 1] = report
      /\ DOMAIN Append(short, report) = 1 .. Len(short) + 1 /\ DOMAIN short = 1 .. Len(short)
  BY <1>4, AppendProperties, LenProperties
<1>7. ToSet(Append(short, report)) = ToSet(short) \cup {report}
  BY <1>6 DEF ToSet
<1>8. /\ Journal(Append(short, report)) = {r.turn : r \in ToSet(Append(short, report))}
      /\ Journal(short) = {r.turn : r \in ToSet(short)}
      /\ Journal(aged) = {r.turn : r \in ToSet(aged)}
  BY <1>2, <1>4, <1>6, JournalEntries
<1>9. T # {} => Min(T) \in Journal(short)
  <2>1. T # {} => i # 0 /\ kept = Min(T)
    BY <1>1 DEF kept
  <2>2. i # 0 => kept \in Journal(aged)
    BY <1>2, <1>8 DEF kept
  <2> QED
    BY <1>4, <2>1, <2>2
<1> HIDE DEF T
<1>10. T # {} => Min(T) \in Journal(Append(short, report))
  BY <1>7, <1>8, <1>9
<1>11. Len(Append(short, report)) <= MaxReports
  BY <1>4, <1>6 DEF Bounds
<1>12. report.turn \in Journal(Append(short, report))
  BY <1>7, <1>8
<1>13. ToSet(Append(short, report)) \subseteq ToSet(rs) \cup {report}
  BY <1>2, <1>4, <1>7
<1> QED
  BY <1>5, <1>6, <1>10, <1>11, <1>12, <1>13 DEF T

\* A new status for the report of one turn changes nothing else of a journal.
LEMMA StatusOnly ==
    ASSUME NEW rs \in Seq(Report), NEW t, NEW st \in ReportStatus
    PROVE  /\ SetStatus(rs, t, st) \in Seq(Report) /\ Len(SetStatus(rs, t, st)) = Len(rs)
           /\ DOMAIN SetStatus(rs, t, st) = DOMAIN rs
           /\ \A i \in DOMAIN rs :
                 /\ SetStatus(rs, t, st)[i].turn = rs[i].turn
                 /\ SetStatus(rs, t, st)[i].peer = rs[i].peer
                 /\ SetStatus(rs, t, st)[i].st = IF rs[i].turn = t THEN st ELSE rs[i].st
           /\ Journal(SetStatus(rs, t, st)) = Journal(rs)
<1> DEFINE n == Len(rs)
           new == SetStatus(rs, t, st)
<1>1. DOMAIN rs = 1 .. n /\ n \in Nat /\ \A i \in 1 .. n : rs[i] \in Report
  BY JournalEntries
<1> HIDE DEF n
<1>2. \A r \in Report : /\ [r EXCEPT !.st = st] \in Report
                        /\ [r EXCEPT !.st = st].turn = r.turn
                        /\ [r EXCEPT !.st = st].peer = r.peer
                        /\ [r EXCEPT !.st = st].st = st
  BY DEF Report
<1>3. new = [i \in 1 .. n |-> IF rs[i].turn = t THEN [rs[i] EXCEPT !.st = st] ELSE rs[i]]
  BY <1>1 DEF SetStatus
<1>4. \A i \in 1 .. n : /\ new[i] \in Report /\ new[i].turn = rs[i].turn
                        /\ new[i].peer = rs[i].peer
                        /\ new[i].st = IF rs[i].turn = t THEN st ELSE rs[i].st
  <2> SUFFICES ASSUME NEW i \in 1 .. n
               PROVE  /\ new[i] \in Report /\ new[i].turn = rs[i].turn
                      /\ new[i].peer = rs[i].peer
                      /\ new[i].st = IF rs[i].turn = t THEN st ELSE rs[i].st
    OBVIOUS
  <2>1. new[i] = IF rs[i].turn = t THEN [rs[i] EXCEPT !.st = st] ELSE rs[i]
    BY <1>3
  <2>2. CASE rs[i].turn = t
    <3>1. new[i] = [rs[i] EXCEPT !.st = st]
      BY <2>1, <2>2
    <3> HIDE DEF new
    <3> QED
      BY <1>1, <1>2, <2>2, <3>1
  <2>3. CASE rs[i].turn # t
    <3>1. new[i] = rs[i]
      BY <2>1, <2>3
    <3> HIDE DEF new
    <3> QED
      BY <1>1, <2>3, <3>1
  <2> QED
    BY <2>2, <2>3
<1>5. DOMAIN new = 1 .. n
  BY <1>3
<1>6. new \in [1 .. n -> Report]
  BY <1>3, <1>4
<1> HIDE DEF new
<1>7. new \in Seq(Report) /\ Len(new) = n
  BY <1>1, <1>6, <1>5, LenProperties, SeqDef
<1>8. Journal(new) = Journal(rs)
  BY <1>1, <1>4, <1>5 DEF Journal
<1> QED
  BY <1>1, <1>4, <1>5, <1>7, <1>8 DEF n, new

\* The card of the result stays one under every update the delivery makes.
LEMMA CardKinds ==
    ASSUME NEW c \in ResultCard, NEW s \in CardStatus, NEW a \in CardPlace,
           NEW w \in 0 .. MaxTurns, NEW b \in BOOLEAN
    PROVE  /\ [c EXCEPT !.st = s, !.at = a] \in ResultCard
           /\ [c EXCEPT !.at = a] \in ResultCard
           /\ [c EXCEPT !.wait = w] \in ResultCard
           /\ [c EXCEPT !.at = a, !.wait = w] \in ResultCard
           /\ [c EXCEPT !.st = s, !.at = a, !.shown = b] \in ResultCard
           /\ [c EXCEPT !.at = a, !.wait = w, !.shown = b] \in ResultCard
  BY DEF ResultCard

\* What every step that decides nothing keeps.
SameReports ==
    /\ Len(rReports') = Len(rReports) /\ rReports' \in Seq(Report)
    /\ DOMAIN rReports' = DOMAIN rReports
    /\ \A i \in DOMAIN rReports : /\ rReports'[i].turn = rReports[i].turn
                                  /\ rReports'[i].peer = rReports[i].peer
    /\ Journal(rReports') = Journal(rReports)

\* A journal that is left alone.
LEMMA SameWhenUnchanged ==
    ASSUME TypeOK, rReports' = rReports
    PROVE  SameReports
  BY DEF SameReports, TypeOK

\* Starting a report's delivery, and settling one, keep the journal's turns.
LEMMA SameWhenSet ==
    ASSUME TypeOK, NEW t, NEW st \in ReportStatus, rReports' = SetStatus(rReports, t, st)
    PROVE  SameReports
<1>1. rReports \in Seq(Report)
  BY DEF TypeOK
<1> QED
  BY <1>1, StatusOnly DEF SameReports

-----------------------------------------------------------------------------
\* The task as its acceptance leaves it is typed.
LEMMA InitTyped ==
    ASSUME Bounds, Init
    PROVE  TypeOK
<1>1. /\ rStatus \in {"running", "awaiting_release", "completed", "failed"}
      /\ rPolicy \in {"release", "final"} /\ rGates \in BOOLEAN /\ rFinals \subseteq Turn
      /\ rSending \subseteq Turn /\ rShown \subseteq Turn /\ rAuto \in BOOLEAN
      /\ rAccepted \subseteq Turn
  BY DEF Init
<1>2. /\ rDecl \in 0 .. NoDecl /\ rEnded \in 0 .. MaxTurns /\ rResult \in 0 .. MaxTurns
      /\ rFaults \in 0 .. MaxFaults
  BY DEF Init, Bounds, NoDecl
<1>3. rReports \in Seq(Report) /\ Len(rReports) <= MaxReports
  BY EmptySeq DEF Init, Bounds
<1>4. rCard \in ResultCard
  BY DEF Init, Bounds, Idle, ResultCard, CardStatus, CardPlace
<1> QED
  BY <1>1, <1>2, <1>3, <1>4 DEF TypeOK

\* A journal whose reports only change their status stays one of bounded length.
LEMMA SameTyped ==
    ASSUME TypeOK, SameReports
    PROVE  rReports' \in Seq(Report) /\ Len(rReports') <= MaxReports
  BY DEF TypeOK, SameReports

\* A turn ends, and finals are taken from the pile.
LEMMA TurnsTyped ==
    ASSUME Bounds, TypeOK, TurnEnds
    PROVE  TypeOK'
<1>1. rEnded' \in 0 .. MaxTurns /\ rEnded + 1 \in Turn
  BY DEF TypeOK, TurnEnds, Bounds, Turn
<1>2. rFinals' \subseteq Turn
  BY <1>1 DEF TypeOK, TurnEnds
<1> QED
  BY <1>1, <1>2 DEF TypeOK, TurnEnds, Terminal, NoDecl, Turn, Report

\* A declaration dates from the present turn, a checkpoint withdraws it.
LEMMA DeclaresTyped ==
    ASSUME Bounds, TypeOK, Declare \/ Checkpoint
    PROVE  TypeOK'
<1>1. rDecl' \in 0 .. NoDecl /\ rGates' \in BOOLEAN
  BY DEF TypeOK, Declare, Checkpoint, Bounds, NoDecl
<1> QED
  BY <1>1 DEF TypeOK, Declare, Checkpoint

\* What a step that ends the task leaves typed.
LEMMA EndTyped ==
    ASSUME Bounds, TypeOK, NEW s \in {"completed", "failed"}, NEW v \in 0 .. MaxTurns,
           Ends(s, v)
    PROVE  /\ rStatus' \in {"running", "awaiting_release", "completed", "failed"}
           /\ rResult' \in 0 .. MaxTurns /\ rCard' \in ResultCard /\ rFinals' \subseteq Turn
<1>1. rCard \in ResultCard /\ "pending" \in CardStatus /\ "reports" \in CardPlace
  BY DEF TypeOK, CardStatus, CardPlace
<1>2. 0 \in 0 .. MaxTurns
  BY DEF Bounds
<1>3. [rCard EXCEPT !.st = "pending", !.at = "reports"] \in ResultCard
  BY <1>1, <1>2, CardKinds
<1> QED
  BY <1>3 DEF Ends

\* A task that fails, and a legacy task that ends with its first final.
LEMMA FailureTyped ==
    ASSUME Bounds, TypeOK, NEW t \in rFinals, TaskFails \/ FinalEnds(t)
    PROVE  TypeOK'
<1>1. t \in 0 .. MaxTurns /\ 0 \in 0 .. MaxTurns
  BY DEF TypeOK, Turn, Bounds
<1>2. Ends("failed", 0) \/ Ends("completed", t)
  BY DEF TaskFails, FinalEnds
<1>3. /\ rStatus' \in {"running", "awaiting_release", "completed", "failed"}
      /\ rResult' \in 0 .. MaxTurns /\ rCard' \in ResultCard /\ rFinals' \subseteq Turn
  BY <1>1, <1>2, EndTyped
<1> QED
  BY <1>3 DEF TypeOK, TaskFails, FinalEnds

\* The answer of a task that may be released, and where it stands.
LEMMA AnswerOfRelease ==
    ASSUME Bounds, TypeOK, ReleaseReady
    PROVE  LET i == CompletionReport(rReports, rDecl)
               T == {t \in Journal(rReports) : t > rDecl}
           IN  /\ i \in DOMAIN rReports /\ rReports[i].turn = Min(T) /\ T # {}
               /\ rReports[i].turn \in Turn /\ rReports[i].turn > rDecl
<1> DEFINE i == CompletionReport(rReports, rDecl)
           T == {t \in Journal(rReports) : t > rDecl}
<1>1. rReports \in Seq(Report) /\ rDecl \in Nat /\ MaxTurns \in Nat
  BY DEF TypeOK, Bounds, NoDecl
<1>2. /\ i \in 0 .. Len(rReports) /\ (i = 0 <=> T = {})
      /\ i # 0 => rReports[i].turn = Min(T)
  BY <1>1, AnswerIsFirst
<1>3. T # {}
  BY DEF ReleaseReady, Covering, Journal
<1>4. DOMAIN rReports = 1 .. Len(rReports) /\ Len(rReports) \in Nat
      /\ \A j \in DOMAIN rReports : rReports[j] \in Report
  BY <1>1, JournalEntries
<1> HIDE DEF i
<1>5. i \in DOMAIN rReports /\ rReports[i].turn = Min(T)
  BY <1>2, <1>3, <1>4
<1>6. rReports[i].turn \in Turn
  BY <1>4, <1>5 DEF Report
<1>7. T \subseteq Nat
  BY <1>1, JournalEntries DEF Turn
<1> HIDE DEF T
<1>8. Min(T) \in T
  BY <1>3, <1>7, LeastOf
<1>9. \A m \in T : m > rDecl
  BY DEF T
<1> QED
  BY <1>3, <1>5, <1>6, <1>8, <1>9 DEF i, T

\* A release returns a turn of the journal.
LEMMA ReleaseTyped ==
    ASSUME Bounds, TypeOK, NEW auto \in BOOLEAN, Released(auto)
    PROVE  TypeOK'
<1> DEFINE v == rReports[CompletionReport(rReports, rDecl)].turn
<1>1. v \in Turn
  BY AnswerOfRelease DEF Released
<1>2. v \in 0 .. MaxTurns
  BY <1>1 DEF Turn, Bounds
<1>3. Ends("completed", v)
  BY DEF Released
<1> HIDE DEF v
<1>4. /\ rStatus' \in {"running", "awaiting_release", "completed", "failed"}
      /\ rResult' \in 0 .. MaxTurns /\ rCard' \in ResultCard /\ rFinals' \subseteq Turn
  BY <1>2, <1>3, EndTyped
<1> QED
  BY <1>4 DEF TypeOK, Released

\* A new report is typed, and so is the journal it joins.
LEMMA ReportTyped ==
    ASSUME Bounds, TypeOK, NEW t \in rFinals, NEW peer \in BOOLEAN, FinalReported(t, peer)
    PROVE  TypeOK'
<1> DEFINE report == [turn |-> t, peer |-> peer, st |-> "delivering"]
<1>1. t \in Turn /\ rReports \in Seq(Report) /\ Len(rReports) <= MaxReports
  BY DEF TypeOK
<1>2. report \in Report
  BY <1>1 DEF Report, ReportStatus
<1>3. rDecl \in Nat
  BY DEF TypeOK, Bounds, NoDecl
<1>4. rReports' = Journaled(rReports, rDecl, report)
  BY DEF FinalReported
<1> HIDE DEF report
<1>5. rReports' \in Seq(Report) /\ Len(rReports') <= MaxReports
  BY <1>1, <1>2, <1>3, <1>4, JournaledKeeps
<1>6. /\ rSending' \subseteq Turn /\ rAccepted' \subseteq Turn /\ rFinals' \subseteq Turn
      /\ rStatus' = "awaiting_release"
  BY <1>1 DEF FinalReported, TypeOK, Again
<1> QED
  BY <1>5, <1>6 DEF TypeOK, FinalReported

\* Deliveries of reports change the reports' status alone.
LEMMA DeliveryTyped ==
    ASSUME Bounds, TypeOK, NEW t \in Turn,
           Redeliver(t) \/ ReportConfirmed(t) \/ ReportRefused(t)
    PROVE  TypeOK' /\ SameReports
<1>1. /\ rCard \in ResultCard /\ 0 \in 0 .. MaxTurns /\ "idle" \in CardPlace
      /\ {"delivering", "delivered", "pending"} \subseteq ReportStatus
  BY DEF TypeOK, Bounds, CardPlace, ReportStatus
<1>2. /\ [rCard EXCEPT !.wait = 0] \in ResultCard
      /\ [rCard EXCEPT !.at = "idle", !.wait = 0] \in ResultCard
  BY <1>1, CardKinds DEF CardStatus
<1>3. rCard' \in ResultCard
  BY <1>1, <1>2 DEF Redeliver, ReportConfirmed, ReportRefused
<1>4. SameReports
  BY <1>1, SameWhenSet DEF Redeliver, StartDelivery, ReportConfirmed, ReportRefused
<1>5. rReports' \in Seq(Report) /\ Len(rReports') <= MaxReports
  BY <1>4, SameTyped
<1>6. rSending' \subseteq Turn /\ rShown' \subseteq Turn
  BY DEF TypeOK, Redeliver, StartDelivery, ReportConfirmed, ReportRefused
<1>7. rFaults' \in 0 .. MaxFaults
  BY DEF TypeOK, Redeliver, ReportConfirmed, ReportRefused, Bounds
<1> QED
  BY <1>3, <1>4, <1>5, <1>6, <1>7 DEF TypeOK, Redeliver, ReportConfirmed, ReportRefused

\* The first report still to be delivered is one of the journal.
LEMMA FirstUndelivered ==
    ASSUME TypeOK, Undelivered # {}
    PROVE  Min(Undelivered) \in DOMAIN rReports /\ rReports[Min(Undelivered)].turn \in Turn
<1>1. DOMAIN rReports = 1 .. Len(rReports) /\ Len(rReports) \in Nat
      /\ \A j \in DOMAIN rReports : rReports[j] \in Report
  BY JournalEntries DEF TypeOK
<1>2. Undelivered \subseteq DOMAIN rReports /\ Undelivered \subseteq Nat
  BY <1>1 DEF Undelivered
<1>3. Min(Undelivered) \in Undelivered
  BY <1>2, LeastOf
<1> QED
  BY <1>1, <1>2, <1>3 DEF Report

\* The card's delivery changes the card and what it starts.
LEMMA CardTyped ==
    ASSUME Bounds, TypeOK, CardRetry \/ CardAwaits \/ CardPosts \/ CardConfirmed \/ CardRefused
    PROVE  TypeOK' /\ SameReports
<1> DEFINE t == rReports[Min(Undelivered)].turn
<1>1. /\ rCard \in ResultCard /\ 0 \in 0 .. MaxTurns /\ rCard.shown \in BOOLEAN
      /\ {"idle", "reports", "posting"} \subseteq CardPlace
      /\ {"pending", "delivering", "delivered"} \subseteq CardStatus
  BY DEF TypeOK, Bounds, CardPlace, CardStatus, ResultCard
<1>2. CASE CardAwaits
  <2>1. t \in Turn
    BY <1>2, FirstUndelivered DEF CardAwaits
  <2>2. /\ StartDelivery(t) /\ rCard' = [rCard EXCEPT !.wait = t]
    BY <1>2 DEF CardAwaits
  <2>3. t \in 0 .. MaxTurns
    BY <2>1 DEF Turn, Bounds
  <2> HIDE DEF t
  <2>4. rCard' \in ResultCard
    BY <1>1, <2>2, <2>3, CardKinds
  <2>5. SameReports
    BY <2>2, SameWhenSet DEF StartDelivery, ReportStatus
  <2>6. rReports' \in Seq(Report) /\ Len(rReports') <= MaxReports
    BY <2>5, SameTyped
  <2>7. rSending' \subseteq Turn
    BY <2>1, <2>2 DEF TypeOK, StartDelivery
  <2> QED
    BY <1>2, <2>4, <2>5, <2>6, <2>7 DEF TypeOK, CardAwaits
<1>3. CASE CardRetry \/ CardPosts \/ CardConfirmed \/ CardRefused
  <2>1. rCard' \in ResultCard
    <3>1. /\ [rCard EXCEPT !.at = "reports"] \in ResultCard
          /\ [rCard EXCEPT !.st = "delivering", !.at = "posting"] \in ResultCard
          /\ \A b \in BOOLEAN :
                /\ [rCard EXCEPT !.st = "delivered", !.at = "idle", !.shown = b] \in ResultCard
                /\ [rCard EXCEPT !.st = "pending", !.at = "idle", !.shown = b] \in ResultCard
      BY <1>1, CardKinds
    <3>2. CASE CardRetry \/ CardPosts \/ CardConfirmed
      BY <3>1, <3>2 DEF CardRetry, CardPosts, CardConfirmed
    <3>3. CASE CardRefused
      <4>1. PICK seen \in {rCard.shown, TRUE} :
               rCard' = [rCard EXCEPT !.st = "pending", !.at = "idle", !.shown = seen]
        BY <3>3 DEF CardRefused
      <4>2. seen \in BOOLEAN
        BY <1>1, <4>1
      <4> QED
        BY <3>1, <4>1, <4>2
    <3> QED
      BY <1>3, <3>2, <3>3
  <2>2. rFaults' \in 0 .. MaxFaults
    BY <1>3 DEF TypeOK, CardRetry, CardPosts, CardConfirmed, CardRefused, Bounds
  <2>3. SameReports
    BY <1>3, SameWhenUnchanged DEF CardRetry, CardPosts, CardConfirmed, CardRefused
  <2> QED
    BY <1>3, <2>1, <2>2, <2>3 DEF TypeOK, CardRetry, CardPosts, CardConfirmed, CardRefused
<1> QED
  BY <1>2, <1>3

\* A restart ends the operations and leaves the journal.
LEMMA CrashTyped ==
    ASSUME Bounds, TypeOK, Crash
    PROVE  TypeOK' /\ SameReports
<1>1. /\ rCard \in ResultCard /\ 0 \in 0 .. MaxTurns /\ "idle" \in CardPlace
      /\ rCard.shown \in BOOLEAN /\ "none" \in CardStatus
  BY DEF TypeOK, Bounds, CardPlace, CardStatus, ResultCard
<1>2. PICK seen \in {rCard.shown, rCard.shown \/ rCard.at = "posting"} :
         rCard' = [rCard EXCEPT !.at = "idle", !.wait = 0, !.shown = seen]
  BY DEF Crash
<1>3. seen \in BOOLEAN
  BY <1>1, <1>2
<1>4. rCard' \in ResultCard
  BY <1>1, <1>2, <1>3, CardKinds
<1>5. rSending' \subseteq Turn /\ rShown' \subseteq Turn
  BY DEF TypeOK, Crash
<1>6. rFaults' \in 0 .. MaxFaults
  BY DEF TypeOK, Crash, Bounds
<1>7. SameReports
  BY SameWhenUnchanged DEF Crash
<1> QED
  BY <1>4, <1>5, <1>6, <1>7 DEF TypeOK, Crash

\* Every step keeps the types.
LEMMA StepTyped ==
    ASSUME Bounds, TypeOK, [Next]_rVars
    PROVE  TypeOK'
<1>1. CASE TurnEnds
  BY <1>1, TurnsTyped
<1>2. CASE Declare \/ Checkpoint
  BY <1>2, DeclaresTyped
<1>3. CASE TaskFails
  <2>1. Ends("failed", 0) /\ 0 \in 0 .. MaxTurns
    BY <1>3 DEF TaskFails, Bounds
  <2>2. /\ rStatus' \in {"running", "awaiting_release", "completed", "failed"}
        /\ rResult' \in 0 .. MaxTurns /\ rCard' \in ResultCard /\ rFinals' \subseteq Turn
    BY <2>1, EndTyped
  <2> QED
    BY <1>3, <2>2 DEF TypeOK, TaskFails
<1>4. ASSUME NEW t \in rFinals, FinalIgnored(t) PROVE TypeOK'
  BY <1>4 DEF TypeOK, FinalIgnored
<1>5. ASSUME NEW t \in rFinals, FinalEnds(t) PROVE TypeOK'
  BY <1>5, FailureTyped
<1>6. ASSUME NEW t \in rFinals, NEW peer \in BOOLEAN, FinalReported(t, peer) PROVE TypeOK'
  BY <1>6, ReportTyped
<1>7. CASE Release \/ AutoRelease
  BY <1>7, ReleaseTyped DEF Release, AutoRelease
<1>8. ASSUME NEW t \in Turn, Redeliver(t) \/ ReportConfirmed(t) \/ ReportRefused(t)
      PROVE  TypeOK'
  BY <1>8, DeliveryTyped
<1>9. CASE CardRetry \/ CardAwaits \/ CardPosts \/ CardConfirmed \/ CardRefused
  BY <1>9, CardTyped
<1>10. CASE Crash
  BY <1>10, CrashTyped
<1>11. CASE UNCHANGED rVars
  BY <1>11 DEF TypeOK, rVars
<1> QED
  BY <1>1, <1>2, <1>3, <1>4, <1>5, <1>6, <1>7, <1>8, <1>9, <1>10, <1>11 DEF Next

\* The journal never holds more than its limit, and its records keep their shape,
\* whatever the limit, the number of turns and the faults (reportTeamTaskTurn).
THEOREM TypeCorrect ==
    ASSUME Bounds
    PROVE  Spec => []TypeOK
<1>1. Init => TypeOK
  BY InitTyped
<1>2. TypeOK /\ [Next]_rVars => TypeOK'
  BY StepTyped
<1> QED
  BY <1>1, <1>2, PTL DEF Spec

-----------------------------------------------------------------------------
\* Reports are of turns that have ended, and the journal holds accepted ones.
JournalInv ==
    /\ rFinals \subseteq 1 .. rEnded
    /\ rAccepted \subseteq 1 .. rEnded
    /\ Journal(rReports) \subseteq rAccepted

\* What auto-release released stays the untouched answer.
ReleaseInv == rAuto => rStatus = "completed" /\ AutoReleaseUntouched

\* What a report's and the card's progress say of the coordinator's channel:
\* a delivered report is shown, the card is posted when all are, and only the
\* end of the task stages it.
ShownInv ==
    /\ \A r \in ToSet(rReports) : r.st = "delivered" => r.turn \in rShown
    /\ rCard.at = "posting" \/ rCard.shown => Journal(rReports) \subseteq rShown
    /\ rCard.at # "idle" \/ rCard.shown => Terminal(rStatus)

\* The inductive invariant.
DeliveryInv == JournalInv /\ AnswerKept /\ ReleaseInv /\ ShownInv

\* The least element of a set is the least of each subset that has it.
LEMMA LeastOfPart ==
    ASSUME NEW S, S \subseteq Nat, NEW T, T \subseteq S, Min(S) \in T
    PROVE  Min(T) = Min(S)
<1>1. T # {} /\ T \subseteq Nat /\ S # {}
  OBVIOUS
<1>2. Min(T) \in T /\ \A y \in T : Min(T) <= y
  BY <1>1, LeastOf
<1>3. \A y \in S : Min(S) <= y
  BY <1>1, LeastOf
<1>4. Min(T) <= Min(S) /\ Min(S) <= Min(T) /\ Min(T) \in Nat /\ Min(S) \in Nat
  BY <1>1, <1>2, <1>3
<1> QED
  BY <1>4

\* A new element is the least one, or leaves it as it was.
LEMMA LeastWith ==
    ASSUME NEW S, S \subseteq Nat, NEW t \in Nat, S # {}
    PROVE  Min(S \cup {t}) \in {Min(S), t}
<1> DEFINE W == S \cup {t}
<1>1. Min(W) \in W
  <2>1. W \subseteq Nat /\ W # {}
    OBVIOUS
  <2> HIDE DEF W
  <2> QED
    BY <2>1, LeastOf
<1>2. CASE Min(W) = t
  BY <1>2
<1>3. CASE Min(W) \in S
  <2>1. S \subseteq W /\ W \subseteq Nat
    OBVIOUS
  <2> HIDE DEF W
  <2>2. Min(S) = Min(W)
    BY <1>3, <2>1, LeastOfPart
  <2> QED
    BY <2>2 DEF W
<1> QED
  BY <1>1, <1>2, <1>3

\* The least element of a singleton.
LEMMA LeastOfOne ==
    ASSUME NEW t \in Nat
    PROVE  Min({t}) = t
<1>1. {t} \subseteq Nat /\ {t} # {}
  OBVIOUS
<1> QED
  BY <1>1, LeastOf

\* Steps that neither accept a report nor decide the task.
Undecided ==
    /\ SameReports
    /\ rStatus' = rStatus /\ rPolicy' = rPolicy /\ rDecl' = rDecl /\ rResult' = rResult
    /\ rAuto' = rAuto /\ rAccepted' = rAccepted

\* What was decided stays decided.
LEMMA UndecidedKeeps ==
    ASSUME TypeOK, AnswerKept, ReleaseInv, Undecided
    PROVE  AnswerKept' /\ ReleaseInv'
<1>1. AnswerKept'
  BY DEF AnswerKept, Undecided, SameReports, WorkerBound
<1>2. AutoReleaseUntouched => AutoReleaseUntouched'
  <2>1. rAuto' = rAuto /\ rResult' = rResult
    BY DEF Undecided
  <2>2. /\ DOMAIN rReports' = DOMAIN rReports
        /\ \A i \in DOMAIN rReports : /\ rReports'[i].turn = rReports[i].turn
                                      /\ rReports'[i].peer = rReports[i].peer
    BY DEF Undecided, SameReports
  <2> QED
    BY <2>1, <2>2 DEF AutoReleaseUntouched
<1>3. ReleaseInv'
  BY <1>2 DEF ReleaseInv, Undecided
<1> QED
  BY <1>1, <1>3

\* A failure, or a legacy completion: neither returns an answer of the journal.
LEMMA FailureKeeps ==
    ASSUME TypeOK, AnswerKept, ReleaseInv, WorkerBound, rAuto' = rAuto, rPolicy' = rPolicy,
           NEW s \in {"completed", "failed"}, rStatus' = s, s = "completed" => rPolicy = "final"
    PROVE  AnswerKept' /\ ReleaseInv'
<1>1. ~rAuto
  BY DEF ReleaseInv, WorkerBound
<1>2. ~WorkerBound'
  BY DEF WorkerBound
<1>3. rStatus' = "completed" => rPolicy' = "final"
  OBVIOUS
<1>4. AnswerKept'
  BY <1>2, <1>3 DEF AnswerKept
<1> QED
  BY <1>1, <1>4 DEF ReleaseInv

\* No accepted turn ends after a declaration that is made now, or withdrawn.
LEMMA DeclarationKeeps ==
    ASSUME Bounds, TypeOK, JournalInv, AnswerKept, ReleaseInv, Declare \/ Checkpoint
    PROVE  AnswerKept' /\ ReleaseInv'
<1>1. rAccepted' = rAccepted /\ rDecl' \in {rEnded, NoDecl}
  BY DEF Declare, Checkpoint
<1>2. \A t \in rAccepted : ~(t > rEnded) /\ ~(t > NoDecl)
  BY DEF TypeOK, JournalInv, Bounds, NoDecl, Turn
<1>3. {t \in rAccepted' : t > rDecl'} = {}
  BY <1>1, <1>2
<1>4. AnswerKept'
  BY <1>3 DEF AnswerKept
<1>5. ~rAuto
  BY DEF ReleaseInv, WorkerBound, Declare, Checkpoint
<1>6. rAuto' = rAuto
  BY DEF Declare, Checkpoint
<1> QED
  BY <1>4, <1>5, <1>6 DEF ReleaseInv

\* A new report: the answer so far stays in the journal, or the new report is
\* the answer.
LEMMA ReportKeeps ==
    ASSUME Bounds, TypeOK, JournalInv, AnswerKept, ReleaseInv, NEW t \in rFinals,
           NEW peer \in BOOLEAN, FinalReported(t, peer)
    PROVE  AnswerKept' /\ ReleaseInv' /\ Journal(rReports') \subseteq rAccepted'
           /\ ToSet(rReports') \subseteq
                 ToSet(rReports) \cup {[turn |-> t, peer |-> peer, st |-> "delivering"]}
<1> DEFINE report == [turn |-> t, peer |-> peer, st |-> "delivering"]
           T == {m \in Journal(rReports) : m > rDecl}
           C == {m \in rAccepted : m > rDecl}
<1>1. t \in Turn /\ t \in Nat /\ rReports \in Seq(Report) /\ Len(rReports) <= MaxReports
  BY DEF TypeOK, Turn
<1>2. report \in Report /\ report.turn = t
  BY <1>1 DEF Report, ReportStatus
<1>3. rDecl \in Nat /\ C \subseteq Nat /\ T \subseteq C
  <2>1. rDecl \in Nat
    BY DEF TypeOK, Bounds, NoDecl
  <2>2. rAccepted \subseteq Nat /\ Journal(rReports) \subseteq rAccepted
    BY DEF TypeOK, Turn, JournalInv
  <2> QED
    BY <2>1, <2>2
<1>4. rReports' = Journaled(rReports, rDecl, report)
  BY DEF FinalReported
<1>5. /\ rStatus' = "awaiting_release" /\ rAccepted' = rAccepted \cup {t} /\ rDecl' = rDecl
      /\ rPolicy = "release" /\ rPolicy' = "release" /\ rAuto' = rAuto /\ WorkerBound
  BY DEF FinalReported
<1> HIDE DEF report
<1>6. /\ rReports' \in Seq(Report)
      /\ ToSet(rReports') \subseteq ToSet(rReports) \cup {report}
      /\ t \in Journal(rReports')
      /\ T # {} => Min(T) \in Journal(rReports')
  BY <1>1, <1>2, <1>3, <1>4, JournaledKeeps
<1>7. /\ Journal(rReports') = {r.turn : r \in ToSet(rReports')}
      /\ Journal(rReports) = {r.turn : r \in ToSet(rReports)}
  BY <1>1, <1>6, JournalEntries
<1>8. Journal(rReports') \subseteq rAccepted'
  BY <1>2, <1>5, <1>6, <1>7 DEF JournalInv
<1>9. ReleaseInv'
  BY <1>5 DEF ReleaseInv, WorkerBound
<1>10. {m \in rAccepted' : m > rDecl'} = IF t > rDecl THEN C \cup {t} ELSE C
  BY <1>1, <1>5
<1>11. C # {} => Min(C) \in Journal(rReports')
  <2> SUFFICES ASSUME C # {} PROVE Min(C) \in Journal(rReports')
    OBVIOUS
  <2>1. Min(C) \in Journal(rReports)
    BY <1>5 DEF AnswerKept
  <2>2. C = {m \in rAccepted : m > rDecl} /\ \A m \in C : m > rDecl
    OBVIOUS
  <2>3. T = {m \in Journal(rReports) : m > rDecl}
    OBVIOUS
  <2> HIDE DEF C, T
  <2>4. Min(C) \in C
    BY <1>3, LeastOf
  <2>5. Min(C) \in T
    BY <2>1, <2>2, <2>3, <2>4
  <2>6. Min(T) = Min(C)
    BY <1>3, <2>5, LeastOfPart
  <2> QED
    BY <1>6, <2>5, <2>6
<1> HIDE DEF C, T
<1>12. LET D == {m \in rAccepted' : m > rDecl'} IN D # {} => Min(D) \in Journal(rReports')
  <2>1. CASE ~(t > rDecl)
    BY <1>10, <1>11, <2>1
  <2>2. CASE t > rDecl /\ C = {}
    <3>1. {m \in rAccepted' : m > rDecl'} = {t}
      BY <1>10, <2>2
    <3> QED
      BY <1>1, <1>6, <3>1, LeastOfOne
  <2>3. CASE t > rDecl /\ C # {}
    <3>1. {m \in rAccepted' : m > rDecl'} = C \cup {t}
      BY <1>10, <2>3
    <3>2. Min(C \cup {t}) \in {Min(C), t}
      BY <1>1, <1>3, <2>3, LeastWith
    <3> QED
      BY <1>6, <1>11, <2>3, <3>1, <3>2
  <2> QED
    BY <2>1, <2>2, <2>3
<1>13. AnswerKept'
  BY <1>5, <1>12 DEF AnswerKept
<1> QED
  BY <1>6, <1>8, <1>9, <1>13 DEF report

\* A release returns the first journaled turn after the declaration.
LEMMA ReleaseKeeps ==
    ASSUME Bounds, TypeOK, JournalInv, AnswerKept, ReleaseInv, Release \/ AutoRelease
    PROVE  AnswerKept' /\ ReleaseInv'
<1> DEFINE i == CompletionReport(rReports, rDecl)
           v == rReports[i].turn
           T == {m \in Journal(rReports) : m > rDecl}
           C == {m \in rAccepted : m > rDecl}
<1>1. ReleaseReady /\ rStatus' = "completed" /\ rResult' = v /\ rReports' = rReports
      /\ rAccepted' = rAccepted /\ rDecl' = rDecl /\ rPolicy' = rPolicy
  BY DEF Release, AutoRelease, Released, Ends
<1>2. v = Min(T) /\ T # {} /\ v > rDecl
  BY <1>1, AnswerOfRelease
<1>3. T \subseteq C /\ C \subseteq Nat /\ C # {}
  <2>1. rAccepted \subseteq Nat /\ Journal(rReports) \subseteq rAccepted
    BY DEF TypeOK, Turn, JournalInv
  <2>2. T \subseteq C /\ C \subseteq Nat
    BY <2>1
  <2> QED
    BY <1>2, <2>2
<1>4. rPolicy = "release" => Min(C) \in Journal(rReports)
  BY <1>1, <1>3 DEF AnswerKept, WorkerBound, ReleaseReady
<1>5. \A m \in C : m > rDecl
  OBVIOUS
<1>6. \A m \in Journal(rReports) : m > rDecl => m \in T
  OBVIOUS
<1>7. C = {m \in rAccepted' : m > rDecl'}
  BY <1>1
<1> HIDE DEF v, C
<1>8. rPolicy = "release" => Min(T) = Min(C)
  <2>1. Min(C) > rDecl
    BY <1>3, <1>5, LeastOf
  <2> HIDE DEF T
  <2>2. rPolicy = "release" => Min(C) \in T
    BY <1>4, <1>6, <2>1
  <2> QED
    BY <1>3, <2>2, LeastOfPart
<1>9. AnswerKept'
  BY <1>1, <1>2, <1>7, <1>8 DEF AnswerKept, WorkerBound
<1>10. CASE AutoRelease
  <2>1. \A j \in DOMAIN rReports : rReports[j].turn > rDecl => ~rReports[j].peer
    <3>1. ~PeerCovers
      BY <1>10 DEF AutoRelease, MayAutoRelease
    <3> QED
      BY <3>1 DEF PeerCovers, Covering
  <2>2. \A j \in DOMAIN rReports : rReports[j].turn = v => ~rReports[j].peer
    BY <1>2, <2>1
  <2> QED
    BY <1>1, <1>9, <2>2 DEF ReleaseInv, AutoReleaseUntouched
<1>11. CASE Release
  BY <1>9, <1>11 DEF ReleaseInv, Release, Released
<1> QED
  BY <1>10, <1>11

-----------------------------------------------------------------------------
\* Steps that touch no report, no card and no status.
LEMMA ShownUnmoved ==
    ASSUME ShownInv, UNCHANGED <<rReports, rShown, rCard, rStatus>>
    PROVE  ShownInv'
  BY DEF ShownInv, Terminal

\* Reports in terms of their places in the journal.
LEMMA DeliveredPlaces ==
    ASSUME NEW rs \in Seq(Report)
    PROVE  (\A r \in ToSet(rs) : r.st = "delivered" => r.turn \in rShown)
              <=> (\A i \in DOMAIN rs : rs[i].st = "delivered" => rs[i].turn \in rShown)
  BY DEF ToSet

\* The end of a task stages its card.
LEMMA EndShown ==
    ASSUME TypeOK, ShownInv, WorkerBound, NEW s \in {"completed", "failed"}, NEW v,
           Ends(s, v), rReports' = rReports, rShown' = rShown
    PROVE  ShownInv'
<1>1. ~rCard.shown /\ rCard.at = "idle" /\ rCard \in ResultCard
  BY DEF ShownInv, WorkerBound, Terminal, TypeOK
<1>2. rCard'.at = "reports" /\ ~rCard'.shown
  <2>1. rCard' = [rCard EXCEPT !.st = "pending", !.at = "reports"]
    BY DEF Ends
  <2> QED
    BY <1>1, <2>1 DEF ResultCard
<1>3. Terminal(rStatus')
  BY DEF Ends, Terminal
<1> QED
  BY <1>2, <1>3 DEF ShownInv

\* A new report joins while the card is still at rest.
LEMMA ReportShown ==
    ASSUME TypeOK, ShownInv, WorkerBound, WorkerBound', NEW t,  NEW peer,
           ToSet(rReports') \subseteq
                 ToSet(rReports) \cup {[turn |-> t, peer |-> peer, st |-> "delivering"]},
           rShown' = rShown, rCard' = rCard
    PROVE  ShownInv'
<1>1. ~rCard.shown /\ rCard.at = "idle"
  BY DEF ShownInv, WorkerBound, Terminal
<1> QED
  BY <1>1 DEF ShownInv

\* A delivery that starts: no report is more shown or more delivered than it was.
LEMMA StartShown ==
    ASSUME TypeOK, ShownInv, NEW t, StartDelivery(t), rShown' = rShown, rStatus' = rStatus,
           rCard'.at = rCard.at, rCard'.shown = rCard.shown
    PROVE  ShownInv'
<1>1. rReports \in Seq(Report) /\ "delivering" \in ReportStatus
  BY DEF TypeOK, ReportStatus
<1>2. rReports' = SetStatus(rReports, t, "delivering")
  BY DEF StartDelivery
<1>3. /\ rReports' \in Seq(Report) /\ DOMAIN rReports' = DOMAIN rReports
      /\ \A i \in DOMAIN rReports :
            /\ rReports'[i].turn = rReports[i].turn
            /\ rReports'[i].st = IF rReports[i].turn = t THEN "delivering" ELSE rReports[i].st
      /\ Journal(rReports') = Journal(rReports)
  BY <1>1, <1>2, StatusOnly
<1>4. \A i \in DOMAIN rReports : rReports[i].st = "delivered" => rReports[i].turn \in rShown
  BY <1>1, DeliveredPlaces DEF ShownInv
<1>5. \A i \in DOMAIN rReports' :
         rReports'[i].st = "delivered" => rReports'[i].turn \in rShown'
  BY <1>3, <1>4
<1>6. \A r \in ToSet(rReports') : r.st = "delivered" => r.turn \in rShown'
  BY <1>5 DEF ToSet
<1> QED
  BY <1>3, <1>6 DEF ShownInv, Terminal

\* A delivery that ends: what is marked delivered is shown.
LEMMA SettleShown ==
    ASSUME Bounds, TypeOK, ShownInv, NEW t \in Turn, ReportConfirmed(t) \/ ReportRefused(t)
    PROVE  ShownInv'
<1> DEFINE st == IF ReportConfirmed(t) THEN "delivered" ELSE "pending"
<1>1. rReports \in Seq(Report) /\ st \in ReportStatus
  BY DEF TypeOK, ReportStatus
<1>2. rReports' = SetStatus(rReports, t, st)
  BY DEF ReportConfirmed, ReportRefused
<1>3. /\ rShown \subseteq rShown' /\ (st = "delivered" => t \in rShown')
      /\ rStatus' = rStatus
  BY DEF ReportConfirmed, ReportRefused
<1>4. rCard \in ResultCard /\ 0 \in 0 .. MaxTurns
  BY DEF TypeOK, Bounds
<1>5. rCard'.at \in {rCard.at, "idle"} /\ rCard'.shown = rCard.shown
  <2>1. rCard' \in {rCard, [rCard EXCEPT !.wait = 0], [rCard EXCEPT !.at = "idle", !.wait = 0]}
    BY DEF ReportConfirmed, ReportRefused
  <2>2. /\ [rCard EXCEPT !.wait = 0].at = rCard.at
        /\ [rCard EXCEPT !.wait = 0].shown = rCard.shown
        /\ [rCard EXCEPT !.at = "idle", !.wait = 0].at = "idle"
        /\ [rCard EXCEPT !.at = "idle", !.wait = 0].shown = rCard.shown
    BY <1>4 DEF ResultCard
  <2> QED
    BY <2>1, <2>2
<1> HIDE DEF st
<1>6. /\ rReports' \in Seq(Report) /\ DOMAIN rReports' = DOMAIN rReports
      /\ \A i \in DOMAIN rReports :
            /\ rReports'[i].turn = rReports[i].turn
            /\ rReports'[i].st = IF rReports[i].turn = t THEN st ELSE rReports[i].st
      /\ Journal(rReports') = Journal(rReports)
  BY <1>1, <1>2, StatusOnly
<1>7. \A i \in DOMAIN rReports : rReports[i].st = "delivered" => rReports[i].turn \in rShown
  BY <1>1, DeliveredPlaces DEF ShownInv
<1>8. \A i \in DOMAIN rReports' :
         rReports'[i].st = "delivered" => rReports'[i].turn \in rShown'
  BY <1>3, <1>6, <1>7
<1>9. \A r \in ToSet(rReports') : r.st = "delivered" => r.turn \in rShown'
  BY <1>8 DEF ToSet
<1>10. rCard'.at = "posting" \/ rCard'.shown => Journal(rReports') \subseteq rShown'
  BY <1>3, <1>5, <1>6 DEF ShownInv
<1>11. rCard'.at # "idle" \/ rCard'.shown => Terminal(rStatus')
  BY <1>3, <1>5 DEF ShownInv, Terminal
<1> QED
  BY <1>9, <1>10, <1>11 DEF ShownInv

\* The card: it is posted when every report is delivered.
LEMMA CardShown ==
    ASSUME Bounds, TypeOK, ShownInv, CardRetry \/ CardPosts \/ CardConfirmed \/ CardRefused
    PROVE  ShownInv'
<1>1. rCard \in ResultCard /\ rReports \in Seq(Report)
  BY DEF TypeOK
<1>2. rReports' = rReports /\ rShown' = rShown /\ rStatus' = rStatus
  BY DEF CardRetry, CardPosts, CardConfirmed, CardRefused
<1>3. CASE CardRetry
  <2>1. rCard' = [rCard EXCEPT !.at = "reports"] /\ Terminal(rStatus)
    BY <1>3 DEF CardRetry
  <2>2. rCard'.at = "reports" /\ rCard'.shown = rCard.shown
    BY <1>1, <2>1 DEF ResultCard
  <2> QED
    BY <1>2, <2>1, <2>2 DEF ShownInv
<1>4. CASE CardPosts
  <2>1. rCard' = [rCard EXCEPT !.st = "delivering", !.at = "posting"] /\ rCard.at = "reports"
    BY <1>4 DEF CardPosts
  <2>2. rCard'.at = "posting" /\ rCard'.shown = rCard.shown
    BY <1>1, <2>1 DEF ResultCard
  <2>3. Undelivered = {}
    BY <1>4 DEF CardPosts, CardMayPost
  <2>4. \A i \in DOMAIN rReports : rReports[i].st = "delivered" => rReports[i].turn \in rShown
    BY <1>1, DeliveredPlaces DEF ShownInv
  <2>5. Journal(rReports) \subseteq rShown
    BY <2>3, <2>4 DEF Undelivered, Journal
  <2> QED
    BY <1>2, <2>1, <2>2, <2>5 DEF ShownInv, Terminal
<1>5. CASE CardConfirmed \/ CardRefused
  <2>1. rCard.at = "posting"
    BY <1>5 DEF CardConfirmed, CardRefused
  <2>2. rCard'.at = "idle"
    <3>1. CASE CardConfirmed
      <4>1. rCard' = [rCard EXCEPT !.st = "delivered", !.at = "idle", !.shown = TRUE]
        BY <3>1 DEF CardConfirmed
      <4> QED
        BY <1>1, <4>1 DEF ResultCard
    <3>2. CASE CardRefused
      <4>1. PICK seen \in {rCard.shown, TRUE} :
               rCard' = [rCard EXCEPT !.st = "pending", !.at = "idle", !.shown = seen]
        BY <3>2 DEF CardRefused
      <4> QED
        BY <1>1, <4>1 DEF ResultCard
    <3> QED
      BY <1>5, <3>1, <3>2
  <2> QED
    BY <1>2, <2>1, <2>2 DEF ShownInv, Terminal
<1> QED
  BY <1>3, <1>4, <1>5

\* A restart shows what Slack took, and only that.
LEMMA CrashShown ==
    ASSUME Bounds, TypeOK, ShownInv, Crash
    PROVE  ShownInv'
<1>1. PICK seen \in {rCard.shown, rCard.shown \/ rCard.at = "posting"} :
         rCard' = [rCard EXCEPT !.at = "idle", !.wait = 0, !.shown = seen]
  BY DEF Crash
<1>2. rCard \in ResultCard
  BY DEF TypeOK
<1>3. rCard'.at = "idle" /\ rCard'.shown = seen
  BY <1>1, <1>2 DEF ResultCard
<1>4. rReports' = rReports /\ rStatus' = rStatus /\ rShown \subseteq rShown'
  BY DEF Crash
<1>5. \A r \in ToSet(rReports') : r.st = "delivered" => r.turn \in rShown'
  BY <1>4 DEF ShownInv
<1>6. rCard'.shown => rCard.shown \/ rCard.at = "posting"
  BY <1>1, <1>3
<1>7. rCard'.shown => Journal(rReports') \subseteq rShown' /\ Terminal(rStatus')
  BY <1>4, <1>6 DEF ShownInv, Terminal
<1> QED
  BY <1>3, <1>5, <1>7 DEF ShownInv

\* Accepted turns have ended, and so have those whose final is at hand.
LEMMA EndedKeeps ==
    ASSUME Bounds, TypeOK, JournalInv, [Next]_rVars, Journal(rReports') \subseteq rAccepted'
    PROVE  JournalInv'
<1>1. CASE TurnEnds
  <2>1. rEnded \in Nat /\ rEnded' = rEnded + 1
    BY <1>1 DEF TypeOK, TurnEnds
  <2>2. 1 .. rEnded \subseteq 1 .. rEnded' /\ rEnded + 1 \in 1 .. rEnded'
    BY <2>1
  <2>3. rFinals' = rFinals \cup {rEnded + 1} /\ rAccepted' = rAccepted
    BY <1>1 DEF TurnEnds
  <2>4. rFinals' \subseteq 1 .. rEnded' /\ rAccepted' \subseteq 1 .. rEnded'
    BY <2>2, <2>3 DEF JournalInv
  <2> QED
    BY <2>4 DEF JournalInv
<1>2. CASE \E t \in rFinals, peer \in BOOLEAN : FinalReported(t, peer)
  <2>1. /\ rEnded' = rEnded /\ rFinals' \subseteq rFinals
        /\ rAccepted' \subseteq rAccepted \cup rFinals
    BY <1>2 DEF FinalReported, Again
  <2> QED
    BY <2>1 DEF JournalInv
<1>3. CASE rEnded' = rEnded /\ rFinals' \subseteq rFinals /\ rAccepted' = rAccepted
  BY <1>3 DEF JournalInv
<1>4. \/ TurnEnds \/ \E t \in rFinals, peer \in BOOLEAN : FinalReported(t, peer)
      \/ rEnded' = rEnded /\ rFinals' \subseteq rFinals /\ rAccepted' = rAccepted
  <2>1. CASE Declare \/ Checkpoint \/ TaskFails \/ Release \/ AutoRelease \/ Crash
    BY <2>1 DEF Declare, Checkpoint, TaskFails, Release, AutoRelease, Released, Ends, Crash
  <2>2. CASE \E t \in rFinals : FinalIgnored(t) \/ FinalEnds(t)
    BY <2>2 DEF FinalIgnored, FinalEnds, Ends
  <2>3. CASE \E t \in Turn : Redeliver(t) \/ ReportConfirmed(t) \/ ReportRefused(t)
    BY <2>3 DEF Redeliver, ReportConfirmed, ReportRefused
  <2>4. CASE CardRetry \/ CardAwaits \/ CardPosts \/ CardConfirmed \/ CardRefused
    BY <2>4 DEF CardRetry, CardAwaits, CardPosts, CardConfirmed, CardRefused
  <2>5. CASE UNCHANGED rVars
    BY <2>5 DEF rVars
  <2> QED
    BY <2>1, <2>2, <2>3, <2>4, <2>5 DEF Next
<1> QED
  BY <1>1, <1>2, <1>3, <1>4

\* Every step keeps the answer, the release and what is shown.
LEMMA StepKeeps ==
    ASSUME Bounds, TypeOK, DeliveryInv, [Next]_rVars
    PROVE  AnswerKept' /\ ReleaseInv' /\ ShownInv' /\ Journal(rReports') \subseteq rAccepted'
<1> USE DEF DeliveryInv
<1>0. Journal(rReports) \subseteq rAccepted
  BY DEF JournalInv
<1>1. CASE TurnEnds \/ UNCHANGED rVars \/ \E t \in rFinals : FinalIgnored(t)
  <2>1. /\ rReports' = rReports /\ rShown' = rShown /\ rCard' = rCard /\ rStatus' = rStatus
        /\ rPolicy' = rPolicy /\ rDecl' = rDecl /\ rResult' = rResult /\ rAuto' = rAuto
        /\ rAccepted' = rAccepted
    BY <1>1 DEF TurnEnds, FinalIgnored, rVars
  <2>2. Undecided
    BY <2>1, SameWhenUnchanged DEF Undecided
  <2>3. ShownInv'
    BY <2>1, ShownUnmoved
  <2> QED
    BY <1>0, <2>1, <2>2, <2>3, UndecidedKeeps
<1>2. CASE Declare \/ Checkpoint
  <2>1. rReports' = rReports /\ rShown' = rShown /\ rCard' = rCard /\ rStatus' = rStatus
        /\ rAccepted' = rAccepted
    BY <1>2 DEF Declare, Checkpoint
  <2>2. ShownInv'
    BY <2>1, ShownUnmoved
  <2> QED
    BY <1>0, <1>2, <2>1, <2>2, DeclarationKeeps
<1>3. CASE TaskFails \/ \E t \in rFinals : FinalEnds(t)
  <2>1. PICK s \in {"completed", "failed"}, v \in Turn \cup {0} :
           Ends(s, v) /\ (s = "completed" => rPolicy = "final")
    <3>1. rFinals \subseteq Turn
      BY DEF TypeOK
    <3> QED
      BY <1>3, <3>1 DEF TaskFails, FinalEnds
  <2>2. /\ WorkerBound /\ rReports' = rReports /\ rShown' = rShown /\ rAuto' = rAuto
        /\ rPolicy' = rPolicy /\ rAccepted' = rAccepted
    BY <1>3 DEF TaskFails, FinalEnds
  <2>3. rStatus' = s
    BY <2>1 DEF Ends
  <2>4. ShownInv'
    BY <2>1, <2>2, EndShown
  <2>6. AnswerKept' /\ ReleaseInv'
    BY <2>1, <2>2, <2>3, FailureKeeps
  <2> QED
    BY <1>0, <2>2, <2>4, <2>6
<1>4. ASSUME NEW t \in rFinals, NEW peer \in BOOLEAN, FinalReported(t, peer)
      PROVE  AnswerKept' /\ ReleaseInv' /\ ShownInv' /\ Journal(rReports') \subseteq rAccepted'
  <2>1. /\ AnswerKept' /\ ReleaseInv' /\ Journal(rReports') \subseteq rAccepted'
        /\ ToSet(rReports') \subseteq
              ToSet(rReports) \cup {[turn |-> t, peer |-> peer, st |-> "delivering"]}
    BY <1>4, ReportKeeps
  <2>2. WorkerBound /\ WorkerBound' /\ rShown' = rShown /\ rCard' = rCard
    BY <1>4 DEF FinalReported, WorkerBound
  <2>3. ShownInv'
    BY <2>1, <2>2, ReportShown
  <2> QED
    BY <2>1, <2>3
<1>5. CASE Release \/ AutoRelease
  <2>1. AnswerKept' /\ ReleaseInv'
    BY <1>5, ReleaseKeeps
  <2>2. PICK v : Ends("completed", v)
    BY <1>5 DEF Release, AutoRelease, Released
  <2>3. WorkerBound /\ rReports' = rReports /\ rShown' = rShown /\ rAccepted' = rAccepted
    BY <1>5 DEF Release, AutoRelease, Released, ReleaseReady, WorkerBound
  <2>4. ShownInv'
    BY <2>2, <2>3, EndShown
  <2> QED
    BY <1>0, <2>1, <2>3, <2>4
<1>6. ASSUME NEW t \in Turn, Redeliver(t) \/ ReportConfirmed(t) \/ ReportRefused(t)
      PROVE  AnswerKept' /\ ReleaseInv' /\ ShownInv' /\ Journal(rReports') \subseteq rAccepted'
  <2>1. SameReports
    BY <1>6, DeliveryTyped
  <2>2. /\ rStatus' = rStatus /\ rPolicy' = rPolicy /\ rDecl' = rDecl /\ rResult' = rResult
        /\ rAuto' = rAuto /\ rAccepted' = rAccepted
    BY <1>6 DEF Redeliver, ReportConfirmed, ReportRefused
  <2>3. Undecided
    BY <2>1, <2>2 DEF Undecided
  <2>4. CASE Redeliver(t)
    <3>1. StartDelivery(t) /\ rShown' = rShown /\ rCard' = rCard
      BY <2>4 DEF Redeliver
    <3>2. ShownInv'
      BY <2>2, <3>1, StartShown
    <3> QED
      BY <1>0, <2>1, <2>2, <2>3, <3>2, UndecidedKeeps DEF SameReports
  <2>5. CASE ReportConfirmed(t) \/ ReportRefused(t)
    BY <1>0, <2>1, <2>2, <2>3, <2>5, UndecidedKeeps, SettleShown DEF SameReports
  <2> QED
    BY <1>6, <2>4, <2>5
<1>7. CASE CardRetry \/ CardAwaits \/ CardPosts \/ CardConfirmed \/ CardRefused
  <2>1. SameReports
    BY <1>7, CardTyped
  <2>2. /\ rStatus' = rStatus /\ rPolicy' = rPolicy /\ rDecl' = rDecl /\ rResult' = rResult
        /\ rAuto' = rAuto /\ rAccepted' = rAccepted
    BY <1>7 DEF CardRetry, CardAwaits, CardPosts, CardConfirmed, CardRefused
  <2>3. AnswerKept' /\ ReleaseInv'
    BY <2>1, <2>2, UndecidedKeeps DEF Undecided
  <2>4. CASE CardAwaits
    <3> DEFINE t == rReports[Min(Undelivered)].turn
    <3>1. StartDelivery(t) /\ rShown' = rShown /\ rCard' = [rCard EXCEPT !.wait = t]
      BY <2>4 DEF CardAwaits
    <3>2. rCard \in ResultCard
      BY DEF TypeOK
    <3> HIDE DEF t
    <3>3. rCard'.at = rCard.at /\ rCard'.shown = rCard.shown
      BY <3>1, <3>2 DEF ResultCard
    <3>4. ShownInv'
      BY <2>2, <3>1, <3>3, StartShown
    <3> QED
      BY <1>0, <2>1, <2>2, <2>3, <3>4 DEF SameReports
  <2>5. CASE CardRetry \/ CardPosts \/ CardConfirmed \/ CardRefused
    BY <1>0, <2>1, <2>2, <2>3, <2>5, CardShown DEF SameReports
  <2> QED
    BY <1>7, <2>4, <2>5
<1>8. CASE Crash
  <2>1. SameReports
    BY <1>8, CrashTyped
  <2>2. /\ rStatus' = rStatus /\ rPolicy' = rPolicy /\ rDecl' = rDecl /\ rResult' = rResult
        /\ rAuto' = rAuto /\ rAccepted' = rAccepted
    BY <1>8 DEF Crash
  <2>3. AnswerKept' /\ ReleaseInv'
    BY <2>1, <2>2, UndecidedKeeps DEF Undecided
  <2> QED
    BY <1>0, <1>8, <2>1, <2>2, <2>3, CrashShown DEF SameReports
<1> QED
  BY <1>1, <1>2, <1>3, <1>4, <1>5, <1>6, <1>7, <1>8 DEF Next

\* The invariant holds of a task that has begun.
LEMMA InitKeeps ==
    ASSUME Bounds, Init
    PROVE  DeliveryInv
<1>1. /\ rReports = <<>> /\ rAccepted = {} /\ rFinals = {} /\ rAuto = FALSE /\ rCard = Idle
  BY DEF Init
<1>2. Journal(rReports) = {} /\ ToSet(rReports) = {}
  BY <1>1 DEF Journal, ToSet
<1>3. JournalInv
  BY <1>1, <1>2 DEF JournalInv
<1>4. AnswerKept
  BY <1>1 DEF AnswerKept
<1>5. ReleaseInv
  BY <1>1 DEF ReleaseInv
<1>6. rCard.at = "idle" /\ rCard.shown = FALSE
  BY <1>1 DEF Idle
<1>7. ShownInv
  BY <1>2, <1>6 DEF ShownInv
<1> QED
  BY <1>3, <1>4, <1>5, <1>7 DEF DeliveryInv

\* The inductive invariant of the journal and its deliveries.
LEMMA Delivers ==
    ASSUME Bounds
    PROVE  Spec => []DeliveryInv
<1>1. Init => DeliveryInv
  BY InitKeeps
<1>2. TypeOK /\ DeliveryInv /\ [Next]_rVars => DeliveryInv'
  <2> SUFFICES ASSUME TypeOK, DeliveryInv, [Next]_rVars PROVE DeliveryInv'
    OBVIOUS
  <2>1. AnswerKept' /\ ReleaseInv' /\ ShownInv' /\ Journal(rReports') \subseteq rAccepted'
    BY StepKeeps
  <2>2. JournalInv'
    BY <2>1, EndedKeeps DEF DeliveryInv
  <2> QED
    BY <2>1, <2>2 DEF DeliveryInv
<1> QED
  BY <1>1, <1>2, TypeCorrect, PTL DEF Spec

\* For every limit, number of turns and order of finals: the worker's answer is
\* in the journal while the task is bound, and is what a release returns
\* (reportTeamTaskTurn, completionReport, releaseTeamTask).
THEOREM AnswerSurvives ==
    ASSUME Bounds
    PROVE  Spec => []AnswerKept
<1>1. DeliveryInv => AnswerKept
  BY DEF DeliveryInv
<1> QED
  BY <1>1, Delivers, PTL

\* Auto-release never returns an answer another session's message reached, and no
\* later step makes it one (autoReleaseTeamTask).
THEOREM NoAutoReleaseOfPeers ==
    ASSUME Bounds
    PROVE  Spec => []AutoReleaseUntouched
<1>1. DeliveryInv => AutoReleaseUntouched
  BY DEF DeliveryInv, ReleaseInv, AutoReleaseUntouched
<1> QED
  BY <1>1, Delivers, PTL

\* Whatever Slack refuses and whenever the daemon restarts, the result is not seen
\* before a report the journal holds (performTeamCompletionDelivery).
THEOREM ReportsBeforeResult ==
    ASSUME Bounds
    PROVE  Spec => []ResultAfterReports
<1>1. DeliveryInv => ResultAfterReports
  BY DEF DeliveryInv, ShownInv, ResultAfterReports
<1> QED
  BY <1>1, Delivers, PTL

-----------------------------------------------------------------------------
(* The wakes of a coordinator (TeamWakes).                                 *)

CONSTANTS Keys, Timers, Runs, MaxPending, MaxSeen, Budget, MaxOwner, MaxEvents, MaxEnds, MaxCrashes
VARIABLES wCont, wTurn, wReserved, wTimer, wRun, wTracked, wStop, wHeld, wBoot, wSess,
          wOwed, wUncertain, wStranded, wCount

Wk == INSTANCE TeamWakes

\* The list holds two events at least before it is coalesced (the code has 64).
WakeBounds ==
    /\ MaxPending \in Nat /\ MaxPending >= 2 /\ MaxSeen \in Nat /\ Budget \in Nat
    /\ MaxOwner \in Nat /\ MaxEvents \in Nat /\ MaxFaults \in Nat /\ MaxEnds \in Nat
    /\ MaxCrashes \in Nat

(* What a definition by recursion over the length of a sequence computes.  *)

\* What starts with a and takes step R[i] at i exists.
Iterable(X, a, R, m) ==
    \E g \in [0 .. m -> X] : g[0] = a /\ \A i \in 1 .. m : g[i] = R[i][g[i - 1]]

LEMMA Iterates ==
    ASSUME NEW X, NEW a \in X, NEW m \in Nat, NEW R \in [1 .. m -> [X -> X]]
    PROVE  Iterable(X, a, R, m)
<1> DEFINE Goes(g, n) == g[0] = a /\ \A i \in 1 .. n : g[i] = R[i][g[i - 1]]
           bad == {n \in 0 .. m : ~ \E g \in [0 .. n -> X] : Goes(g, n)}
<1>1. SUFFICES ASSUME bad # {} PROVE FALSE
  <2>1. m \in 0 .. m
    OBVIOUS
  <2> QED BY <2>1 DEF Iterable
<1>2. PICK n \in bad : \A y \in bad : n <= y
  <2>1. bad \subseteq Nat
    OBVIOUS
  <2> HIDE DEF bad
  <2> QED BY <1>1, <2>1, LeastOf
<1>0. n \in 0 .. m
  OBVIOUS
<1>3. n # 0
  <2> DEFINE g == [i \in 0 .. 0 |-> a]
  <2>1. g \in [0 .. 0 -> X] /\ Goes(g, 0)
    OBVIOUS
  <2> QED BY <2>1
<1>4. PICK g \in [0 .. n - 1 -> X] : Goes(g, n - 1)
  <2>1. n - 1 \in 0 .. m
    BY <1>0, <1>3
  <2>2. n - 1 \notin bad
    <3> HIDE DEF bad
    <3> QED BY <1>0, <1>2, <2>1
  <2> QED BY <2>1, <2>2
<1> DEFINE h == [i \in 0 .. n |-> IF i = n THEN R[n][g[n - 1]] ELSE g[i]]
<1>5. n \in 1 .. m /\ n - 1 \in 0 .. n - 1 /\ n \in 0 .. n /\ \A i \in 0 .. n : i # n => i \in 0 .. n - 1
  BY <1>0, <1>3
<1>6. R[n][g[n - 1]] \in X
  BY <1>5
<1>7. h \in [0 .. n -> X]
  BY <1>5, <1>6
<1>8. h[n] = R[n][g[n - 1]] /\ \A i \in 0 .. n - 1 : h[i] = g[i]
  BY <1>0, <1>3
<1>9. Goes(h, n)
  <2> HIDE DEF h
  <2>1. \A i \in 1 .. n : i = n \/ (i \in 1 .. n - 1 /\ i \in 0 .. n - 1)
    BY <1>5
  <2>2. \A i \in 1 .. n : i - 1 \in 0 .. n - 1
    BY <1>5
  <2>3. 0 \in 0 .. n - 1
    BY <1>5
  <2> QED BY <1>4, <1>8, <2>1, <2>2, <2>3
<1> QED BY <1>0, <1>7, <1>9

\* q has elements of the first n of s, each at most once.
KeptOf(X, s, q, n) ==
    /\ q \in Seq(X) /\ Len(q) <= n
    /\ \E e \in [1 .. Len(q) -> 1 .. n] :
          /\ \A j \in 1 .. Len(q) : q[j] = s[e[j]]
          /\ \A i, j \in 1 .. Len(q) : e[i] = e[j] => i = j

LEMMA KeptMore ==
    ASSUME NEW X, NEW s \in Seq(X), NEW n \in 1 .. Len(s), NEW q, KeptOf(X, s, q, n - 1)
    PROVE  KeptOf(X, s, q, n) /\ KeptOf(X, s, Append(q, s[n]), n)
<1> DEFINE m == Len(q)
<1>1. /\ q \in Seq(X) /\ m \in Nat /\ m <= n - 1 /\ n \in Nat /\ n >= 1 /\ s[n] \in X
      /\ 1 .. n - 1 \subseteq 1 .. n /\ n \in 1 .. n /\ n \notin 1 .. n - 1
  BY LenProperties, ElementOfSeq DEF KeptOf
<1>2. PICK e \in [1 .. m -> 1 .. n - 1] :
          /\ \A j \in 1 .. m : q[j] = s[e[j]]
          /\ \A i, j \in 1 .. m : e[i] = e[j] => i = j
  BY DEF KeptOf
<1>3. KeptOf(X, s, q, n)
  <2>1. e \in [1 .. m -> 1 .. n]
    BY <1>1
  <2>2. m <= n
    BY <1>1
  <2> QED BY <1>1, <1>2, <2>1, <2>2 DEF KeptOf
<1> DEFINE p == Append(q, s[n])
           f == [j \in 1 .. m + 1 |-> IF j = m + 1 THEN n ELSE e[j]]
<1>4. /\ p \in Seq(X) /\ Len(p) = m + 1 /\ p[m + 1] = s[n]
      /\ \A j \in 1 .. m : p[j] = q[j]
  BY <1>1, AppendProperties, LenProperties
<1>5. \A j \in 1 .. m + 1 : j = m + 1 \/ j \in 1 .. m
  BY <1>1
<1>6. f \in [1 .. m + 1 -> 1 .. n] /\ f[m + 1] = n /\ \A j \in 1 .. m : f[j] = e[j] /\ f[j] # n
  <2>1. \A j \in 1 .. m : j # m + 1 /\ j \in 1 .. m + 1 /\ e[j] \in 1 .. n - 1
    BY <1>1
  <2>2. m + 1 \in 1 .. m + 1
    BY <1>1
  <2> QED BY <1>1, <1>5, <2>1, <2>2
<1> HIDE DEF p, f, m
<1>7. \A j \in 1 .. m + 1 : p[j] = s[f[j]]
  BY <1>2, <1>4, <1>5, <1>6
<1>8. \A i, j \in 1 .. m + 1 : f[i] = f[j] => i = j
  BY <1>2, <1>5, <1>6
<1>9. m + 1 <= n
  BY <1>1
<1>10. KeptOf(X, s, p, n)
  <2>1. f \in [1 .. Len(p) -> 1 .. n] /\ \A j \in 1 .. Len(p) : p[j] = s[f[j]]
    BY <1>4, <1>6, <1>7
  <2>2. \A i, j \in 1 .. Len(p) : f[i] = f[j] => i = j
    BY <1>4, <1>8
  <2>3. Len(p) <= n
    BY <1>4, <1>9
  <2> QED BY <1>4, <2>1, <2>2, <2>3 DEF KeptOf
<1> QED BY <1>3, <1>10 DEF p

\* Only returns elements of the sequence, each at most once.
LEMMA OnlySelects ==
    ASSUME NEW X, NEW s \in Seq(X), NEW T
    PROVE  KeptOf(X, s, Wk!Only(s, T), Len(s))
<1> DEFINE m == Len(s)
           Y == Seq(X)
           Body(h) == [n \in 0 .. Len(s) |->
              IF n = 0 THEN <<>> ELSE IF s[n] \in T THEN Append(h[n - 1], s[n]) ELSE h[n - 1]]
           R == [n \in 1 .. m |-> [q \in Y |-> IF s[n] \in T THEN Append(q, s[n]) ELSE q]]
<1>1. m \in Nat /\ \A n \in 1 .. m : s[n] \in X
  BY LenProperties, ElementOfSeq
<1>2. R \in [1 .. m -> [Y -> Y]]
  BY <1>1, AppendProperties
<1>3. <<>> \in Y /\ Len(<<>>) = 0
  BY EmptySeq
<1>4. PICK g \in [0 .. m -> Y] : g[0] = <<>> /\ \A i \in 1 .. m : g[i] = R[i][g[i - 1]]
  <2> HIDE DEF R, Y, m
  <2>1. Iterable(Y, <<>>, R, m)
    BY <1>1, <1>2, <1>3, Iterates
  <2> QED BY <2>1 DEF Iterable
<1>5. g = Body(g)
  <2>1. g = [n \in 0 .. m |-> g[n]]
    OBVIOUS
  <2>2. ASSUME NEW n \in 1 .. m
        PROVE  g[n] = IF s[n] \in T THEN Append(g[n - 1], s[n]) ELSE g[n - 1]
    <3>1. n - 1 \in 0 .. m
      BY <1>1
    <3>2. g[n - 1] \in Y
      BY <3>1
    <3> HIDE DEF Y
    <3> QED BY <1>4, <3>2
  <2>3. \A n \in 0 .. m : n = 0 \/ n \in 1 .. m
    BY <1>1
  <2>4. \A n \in 0 .. m : g[n] = IF n = 0 THEN <<>> ELSE IF s[n] \in T THEN Append(g[n - 1], s[n]) ELSE g[n - 1]
    <3> HIDE DEF R, Y, m
    <3> QED BY <1>4, <2>2, <2>3
  <2> HIDE DEF R, Y
  <2> QED BY <2>1, <2>4
<1> DEFINE k == CHOOSE h : h = Body(h)
<1>6. Wk!Only(s, T) = k[m]
  BY DEF Wk!Only
<1>7. k = Body(k)
  <2> HIDE DEF Body
  <2> QED BY <1>5
<1>8. /\ k[0] = <<>>
      /\ \A n \in 1 .. m : k[n] = IF s[n] \in T THEN Append(k[n - 1], s[n]) ELSE k[n - 1]
  <2>1. 0 \in 0 .. m /\ \A n \in 1 .. m : n \in 0 .. m /\ n # 0
    BY <1>1
  <2> HIDE DEF k
  <2> QED BY <1>7, <2>1
<1> HIDE DEF k, Body
<1> DEFINE bad == {n \in 0 .. m : ~KeptOf(X, s, k[n], n)}
<1>9. bad = {}
  <2> SUFFICES ASSUME bad # {} PROVE FALSE
    OBVIOUS
  <2>1. PICK n \in bad : \A y \in bad : n <= y
    <3>1. bad \subseteq Nat
      BY <1>1
    <3> HIDE DEF bad
    <3> QED BY <3>1, LeastOf
  <2>2. n # 0
    <3> DEFINE none == [j \in 1 .. 0 |-> 0]
    <3>1. PICK q \in Seq(X) : q = <<>> /\ Len(q) = 0
      BY <1>3
    <3>2. none \in [1 .. Len(q) -> 1 .. 0] /\ 1 .. Len(q) = {}
      BY <3>1
    <3>3. KeptOf(X, s, q, 0)
      <4> HIDE DEF none
      <4>1. q \in Seq(X) /\ Len(q) <= 0
        BY <3>1
      <4>2. \E e \in [1 .. Len(q) -> 1 .. 0] :
               /\ \A j \in 1 .. Len(q) : q[j] = s[e[j]]
               /\ \A i, j \in 1 .. Len(q) : e[i] = e[j] => i = j
        <5>1. /\ \A j \in 1 .. Len(q) : q[j] = s[none[j]]
              /\ \A i, j \in 1 .. Len(q) : none[i] = none[j] => i = j
          BY <3>2
        <5> QED BY <3>2, <5>1
      <4> QED BY <4>1, <4>2 DEF KeptOf
    <3> QED BY <1>8, <3>1, <3>3
  <2>3. n \in 1 .. m /\ n - 1 \in 0 .. m
    BY <1>1, <2>2
  <2>4. KeptOf(X, s, k[n - 1], n - 1)
    <3>1. n - 1 \notin bad
      <4> HIDE DEF bad
      <4> QED BY <2>1, <2>3
    <3> QED BY <2>3, <3>1
  <2>5. KeptOf(X, s, k[n], n)
    <3>1. KeptOf(X, s, k[n - 1], n) /\ KeptOf(X, s, Append(k[n - 1], s[n]), n)
      BY <2>3, <2>4, KeptMore
    <3> QED BY <1>8, <2>3, <3>1
  <2> QED BY <2>5
<1>10. KeptOf(X, s, k[m], m)
  <2>1. m \in 0 .. m
    BY <1>1
  <2> QED BY <1>9, <2>1
<1> HIDE DEF bad, m
<1> QED BY <1>6, <1>10 DEF m

\* FlattenSeq returns a sequence of what the sequences hold.
LEMMA FlatTyped ==
    ASSUME NEW X, NEW ss \in Seq(Seq(X))
    PROVE  Wk!FlattenSeq(ss) \in Seq(X)
<1> DEFINE m == Len(ss)
           Y == Seq(X)
           Body(h) == [i \in 1 .. Len(ss) |-> IF i = 1 THEN ss[i] ELSE h[i - 1] \o ss[i]]
           R == [n \in 1 .. m |-> [q \in Y |-> IF n = 1 THEN ss[n] ELSE q \o ss[n]]]
<1>1. m \in Nat /\ \A n \in 1 .. m : ss[n] \in Y
  BY LenProperties, ElementOfSeq
<1>2. R \in [1 .. m -> [Y -> Y]]
  BY <1>1, ConcatProperties
<1>3. <<>> \in Y
  BY EmptySeq
<1>4. PICK g \in [0 .. m -> Y] : g[0] = <<>> /\ \A i \in 1 .. m : g[i] = R[i][g[i - 1]]
  <2> HIDE DEF R, Y, m
  <2>1. Iterable(Y, <<>>, R, m)
    BY <1>1, <1>2, <1>3, Iterates
  <2> QED BY <2>1 DEF Iterable
<1>5. CASE m = 0
  <2>1. Wk!FlattenSeq(ss) = ss /\ ss = <<>>
    BY <1>5, EmptySeq DEF Wk!FlattenSeq
  <2> QED BY <1>3, <2>1
<1>6. CASE m # 0
  <2> DEFINE f == [i \in 1 .. m |-> g[i]]
  <2>1. \A n \in 1 .. m : g[n] = IF n = 1 THEN ss[n] ELSE g[n - 1] \o ss[n]
    <3> SUFFICES ASSUME NEW n \in 1 .. m PROVE g[n] = IF n = 1 THEN ss[n] ELSE g[n - 1] \o ss[n]
      OBVIOUS
    <3>1. n - 1 \in 0 .. m
      BY <1>1
    <3>2. g[n - 1] \in Y
      BY <3>1
    <3> HIDE DEF Y
    <3> QED BY <1>4, <3>2
  <2>2. f = Body(f)
    <3>1. \A n \in 1 .. m : n # 1 => n - 1 \in 1 .. m
      BY <1>1
    <3> HIDE DEF R, Y
    <3> QED BY <2>1, <3>1
  <2> DEFINE k == CHOOSE h : h = Body(h)
  <2>3. Wk!FlattenSeq(ss) = k[Len(ss)]
    BY <1>6 DEF Wk!FlattenSeq
  <2>4. k = Body(k)
    <3> HIDE DEF Body, f
    <3> QED BY <2>2
  <2> HIDE DEF k
  <2>5. \A n \in 1 .. m : k[n] = IF n = 1 THEN ss[n] ELSE k[n - 1] \o ss[n]
    BY <2>4
  <2> HIDE DEF Body
  <2> DEFINE bad == {n \in 1 .. m : k[n] \notin Y}
  <2>6. bad = {}
    <3> SUFFICES ASSUME bad # {} PROVE FALSE
      OBVIOUS
    <3>1. PICK n \in bad : \A y \in bad : n <= y
      <4>1. bad \subseteq Nat
        BY <1>1
      <4> HIDE DEF bad
      <4> QED BY <4>1, LeastOf
    <3>0. n \in 1 .. m
      OBVIOUS
    <3>2. n # 1
      BY <1>1, <2>5
    <3>3. n - 1 \in 1 .. m
      BY <1>1, <3>2
    <3>4. k[n - 1] \in Y
      <4>1. n - 1 \notin bad
        <5> HIDE DEF bad
        <5> QED BY <1>1, <3>0, <3>1, <3>3
      <4> QED BY <3>3, <4>1
    <3>5. ss[n] \in Y /\ k[n] = k[n - 1] \o ss[n]
      BY <1>1, <2>5, <3>2
    <3>6. k[n] \in Y
      <4> HIDE DEF bad, m
      <4> QED BY <3>4, <3>5, ConcatProperties
    <3> QED BY <3>6
  <2>7. m \in 1 .. m
    BY <1>1, <1>6
  <2> QED BY <2>3, <2>6, <2>7
<1> QED BY <1>5, <1>6

-----------------------------------------------------------------------------
(* The list of events.                                                     *)

WakeKeys == Keys \cup Timers
Uids(s) == {s[i].uid : i \in 1 .. Len(s)}
Apart(s) == \A i, j \in 1 .. Len(s) : s[i].uid = s[j].uid => i = j

\* A list of events that were created among the first n, each once.
Row(s, n) == s \in Seq(Wk!Events) /\ Apart(s) /\ Uids(s) \subseteq 1 .. n

LEMMA NewestTyped ==
    ASSUME NEW X, NEW s \in Seq(X), NEW n \in Nat
    PROVE  Wk!Newest(s, n) \in Seq(X) /\ Len(Wk!Newest(s, n)) <= n
<1> DEFINE a == IF Len(s) > n THEN Len(s) - n + 1 ELSE 1
<1>1. Len(s) \in Nat /\ \A i \in 1 .. Len(s) : s[i] \in X
  BY LenProperties, ElementOfSeq
<1>2. a \in Int /\ a >= 1 /\ Len(s) \in Int /\ \A i \in a .. Len(s) : i \in 1 .. Len(s)
  BY <1>1
<1>3. (a <= Len(s) => Len(s) - a + 1 <= n) /\ 0 <= n
  BY <1>1
<1> HIDE DEF a
<1>4. /\ SubSeq(s, a, Len(s)) \in Seq(X)
      /\ Len(SubSeq(s, a, Len(s))) = IF a <= Len(s) THEN Len(s) - a + 1 ELSE 0
  BY <1>1, <1>2, SubSeqProperties
<1>5. Wk!Newest(s, n) = SubSeq(s, a, Len(s))
  BY DEF Wk!Newest, a
<1> QED BY <1>3, <1>4, <1>5

LEMMA KeysTyped ==
    ASSUME NEW s \in Seq(Wk!Events)
    PROVE  Wk!KeysOf(s) \in Seq(WakeKeys)
<1> DEFINE ks == [i \in DOMAIN s |-> s[i].keys]
<1>1. Len(s) \in Nat /\ DOMAIN s = 1 .. Len(s) /\ \A i \in 1 .. Len(s) : s[i] \in Wk!Events
  BY LenProperties, ElementOfSeq
<1>2. ks \in [1 .. Len(s) -> Seq(WakeKeys)]
  BY <1>1 DEF Wk!Events, WakeKeys
<1> HIDE DEF ks
<1>3. ks \in Seq(Seq(WakeKeys))
  BY <1>1, <1>2, SeqDef
<1>4. Wk!KeysOf(s) = Wk!FlattenSeq(ks)
  BY DEF Wk!KeysOf, ks
<1> QED BY <1>3, <1>4, FlatTyped

LEMMA RowCoalesced ==
    ASSUME WakeBounds, NEW n \in Nat, NEW s, Row(s, n)
    PROVE  /\ Row(Wk!Coalesced(s), n) /\ Uids(Wk!Coalesced(s)) \subseteq Uids(s)
           /\ Len(Wk!Coalesced(s)) \in Nat /\ Len(Wk!Coalesced(s)) <= 1
           /\ s # <<>> => Wk!Coalesced(s) # <<>>
<1>1. Len(s) \in Nat /\ s \in Seq(Wk!Events)
  BY LenProperties DEF Row
<1>2. CASE Len(s) < 2
  BY <1>1, <1>2 DEF Wk!Coalesced
<1>3. CASE ~(Len(s) < 2)
  <2> DEFINE e == [s[Len(s)] EXCEPT !.keys = Wk!Newest(Wk!KeysOf(s), MaxSeen)]
  <2>1. Len(s) \in 1 .. Len(s) /\ s[Len(s)] \in Wk!Events
    BY <1>1, <1>3, ElementOfSeq
  <2>2. Wk!Newest(Wk!KeysOf(s), MaxSeen) \in Seq(WakeKeys)
    BY <1>1, KeysTyped, NewestTyped DEF WakeBounds
  <2>3. e \in Wk!Events /\ e.uid = s[Len(s)].uid
    BY <2>1, <2>2 DEF Wk!Events, WakeKeys
  <2> HIDE DEF e
  <2>4. <<e>> \in Seq(Wk!Events) /\ Len(<<e>>) = 1 /\ <<e>>[1] = e
    BY <2>3
  <2>5. Wk!Coalesced(s) = <<e>>
    BY <1>3 DEF Wk!Coalesced, e
  <2>6. e.uid \in Uids(s)
    BY <2>1, <2>3 DEF Uids
  <2>7. Uids(<<e>>) = {e.uid} /\ Apart(<<e>>)
    BY <2>4 DEF Uids, Apart
  <2>8. <<e>> # <<>>
    OBVIOUS
  <2> QED BY <2>4, <2>5, <2>6, <2>7, <2>8 DEF Row
<1> QED BY <1>2, <1>3

LEMMA RowTail ==
    ASSUME NEW n \in Nat, NEW s, Row(s, n), s # <<>>
    PROVE  /\ Head(s) \in Wk!Events /\ Head(s).uid \in Uids(s) /\ Head(s).uid \notin Uids(Tail(s))
           /\ Row(Tail(s), n) /\ Uids(Tail(s)) \subseteq Uids(s)
           /\ Len(s) \in Nat /\ Len(Tail(s)) = Len(s) - 1
<1>1. /\ s \in Seq(Wk!Events) /\ Len(s) \in Nat /\ Len(s) >= 1
      /\ \A i \in 1 .. Len(s) : s[i] \in Wk!Events
  BY LenProperties, ElementOfSeq, EmptySeq DEF Row
<1>2. /\ Head(s) = s[1] /\ Tail(s) \in Seq(Wk!Events) /\ Len(Tail(s)) = Len(s) - 1
      /\ \A i \in 1 .. Len(Tail(s)) : Tail(s)[i] = s[i + 1]
  BY <1>1, HeadTailProperties
<1>3. \A i \in 1 .. Len(Tail(s)) : i + 1 \in 1 .. Len(s) /\ i + 1 # 1
  BY <1>1, <1>2
<1>4. 1 \in 1 .. Len(s)
  BY <1>1
<1>5. Head(s).uid \notin Uids(Tail(s)) /\ Uids(Tail(s)) \subseteq Uids(s)
  BY <1>2, <1>3, <1>4 DEF Uids, Row, Apart
<1>6. Apart(Tail(s))
  <2> SUFFICES ASSUME NEW i \in 1 .. Len(Tail(s)), NEW j \in 1 .. Len(Tail(s)),
                      Tail(s)[i].uid = Tail(s)[j].uid
               PROVE  i = j
    BY DEF Apart
  <2>1. i + 1 = j + 1
    BY <1>2, <1>3 DEF Row, Apart
  <2> QED BY <1>1, <1>2, <2>1
<1> QED BY <1>1, <1>2, <1>4, <1>5, <1>6 DEF Row, Uids

LEMMA RowFront ==
    ASSUME NEW n \in Nat, NEW s, Row(s, n), NEW e \in Wk!Events, e.uid \in 1 .. n, e.uid \notin Uids(s)
    PROVE  /\ Row(<<e>> \o s, n) /\ Uids(<<e>> \o s) = Uids(s) \cup {e.uid}
           /\ Len(s) \in Nat /\ Len(<<e>> \o s) = Len(s) + 1
<1> DEFINE q == <<e>> \o s
<1>1. s \in Seq(Wk!Events) /\ Len(s) \in Nat
  BY LenProperties DEF Row
<1>2. <<e>> \in Seq(Wk!Events) /\ Len(<<e>>) = 1 /\ <<e>>[1] = e
  OBVIOUS
<1>3. /\ q \in Seq(Wk!Events) /\ Len(q) = 1 + Len(s)
      /\ \A i \in 1 .. 1 + Len(s) : q[i] = IF i <= 1 THEN <<e>>[i] ELSE s[i - 1]
  BY <1>1, <1>2, ConcatProperties
<1>4. /\ q[1] = e /\ 1 \in 1 .. 1 + Len(s)
      /\ \A i \in 1 .. 1 + Len(s) : i = 1 \/ (i - 1 \in 1 .. Len(s) /\ q[i] = s[i - 1])
      /\ \A i \in 1 .. Len(s) : i + 1 \in 1 .. 1 + Len(s) /\ q[i + 1] = s[i]
  BY <1>1, <1>2, <1>3
<1> HIDE DEF q
<1>5. Uids(q) = Uids(s) \cup {e.uid}
  <2>1. Uids(q) \subseteq Uids(s) \cup {e.uid}
    BY <1>3, <1>4 DEF Uids
  <2>2. e.uid \in Uids(q)
    BY <1>3, <1>4 DEF Uids
  <2>3. Uids(s) \subseteq Uids(q)
    BY <1>3, <1>4 DEF Uids
  <2> QED BY <2>1, <2>2, <2>3
<1>6. Apart(q)
  <2> SUFFICES ASSUME NEW i \in 1 .. 1 + Len(s), NEW j \in 1 .. 1 + Len(s), q[i].uid = q[j].uid
               PROVE  i = j
    BY <1>3 DEF Apart
  <2>1. CASE i = 1 \/ j = 1
    BY <1>4, <2>1 DEF Uids
  <2>2. CASE i # 1 /\ j # 1
    <3>1. i - 1 = j - 1
      BY <1>4, <2>2 DEF Row, Apart
    <3> QED BY <1>1, <3>1
  <2> QED BY <2>1, <2>2
<1>7. Uids(q) \subseteq 1 .. n
  BY <1>5 DEF Row
<1> QED BY <1>1, <1>3, <1>5, <1>6, <1>7 DEF Row, q

LEMMA RowOnly ==
    ASSUME NEW n \in Nat, NEW s, Row(s, n), NEW T
    PROVE  /\ Row(Wk!Only(s, T), n) /\ Uids(Wk!Only(s, T)) \subseteq Uids(s)
           /\ Len(Wk!Only(s, T)) \in Nat /\ Len(Wk!Only(s, T)) <= Len(s)
<1> DEFINE q == Wk!Only(s, T)
<1>1. KeptOf(Wk!Events, s, q, Len(s))
  BY OnlySelects DEF Row
<1> HIDE DEF q
<1>2. PICK e \in [1 .. Len(q) -> 1 .. Len(s)] :
          /\ \A j \in 1 .. Len(q) : q[j] = s[e[j]]
          /\ \A i, j \in 1 .. Len(q) : e[i] = e[j] => i = j
  BY <1>1 DEF KeptOf
<1>3. q \in Seq(Wk!Events) /\ Len(q) \in Nat /\ Len(q) <= Len(s)
  BY <1>1, LenProperties DEF KeptOf
<1>4. Apart(q)
  BY <1>2 DEF Row, Apart
<1>5. Uids(q) \subseteq Uids(s)
  BY <1>2 DEF Uids
<1> QED BY <1>3, <1>4, <1>5 DEF Row, q

LEMMA RowEnd ==
    ASSUME WakeBounds, NEW s, Row(s, wCount.events), Len(s) <= MaxPending + 1,
           wCount.events \in Nat, wCount.events < MaxEvents, NEW k \in WakeKeys
    PROVE  /\ Row(Wk!WithEvent(s, k), wCount.events + 1) /\ Len(Wk!WithEvent(s, k)) \in Nat
           /\ Len(Wk!WithEvent(s, k)) <= MaxPending
           /\ Uids(Wk!WithEvent(s, k)) \subseteq Uids(s) \cup {wCount.events + 1}
<1> DEFINE n == wCount.events
           e == Wk!NewEvent(k)
           r == IF Len(s) >= MaxPending THEN Wk!Coalesced(s) ELSE s
           q == Append(r, e)
<1>1. s \in Seq(Wk!Events) /\ Len(s) \in Nat
  BY LenProperties DEF Row
<1>2. e \in Wk!Events /\ e.uid = n + 1
  <2>1. <<k>> \in Seq(WakeKeys)
    OBVIOUS
  <2>2. n + 1 \in 0 .. MaxEvents
    BY DEF WakeBounds
  <2>3. e = [uid |-> n + 1, key |-> k, keys |-> <<k>>]
    BY DEF Wk!NewEvent
  <2>4. k \in Keys \cup Timers \cup {""}
    BY DEF WakeKeys
  <2> HIDE DEF e, n
  <2> QED BY <2>1, <2>2, <2>3, <2>4 DEF Wk!Events, WakeKeys
<1>3. Row(r, n) /\ Uids(r) \subseteq Uids(s) /\ Len(r) \in Nat /\ Len(r) + 1 <= MaxPending
  <2>1. CASE Len(s) >= MaxPending
    <3>1. Row(Wk!Coalesced(s), n) /\ Uids(Wk!Coalesced(s)) \subseteq Uids(s)
          /\ Len(Wk!Coalesced(s)) \in Nat /\ Len(Wk!Coalesced(s)) <= 1
      BY RowCoalesced
    <3> QED BY <2>1, <3>1 DEF WakeBounds
  <2>2. CASE ~(Len(s) >= MaxPending)
    BY <1>1, <2>2 DEF WakeBounds
  <2> QED BY <2>1, <2>2
<1> HIDE DEF r, e
<1>4. /\ q \in Seq(Wk!Events) /\ Len(q) = Len(r) + 1 /\ q[Len(r) + 1] = e
      /\ \A i \in 1 .. Len(r) : q[i] = r[i]
  BY <1>2, <1>3, AppendProperties DEF Row
<1>5. \A i \in 1 .. Len(r) + 1 : i = Len(r) + 1 \/ i \in 1 .. Len(r)
  BY <1>3
<1> HIDE DEF q
<1>6. Uids(q) \subseteq Uids(r) \cup {n + 1}
  BY <1>2, <1>4, <1>5 DEF Uids
<1>7. n + 1 \notin Uids(r)
  BY <1>3 DEF Row
<1>8. Apart(q)
  <2> SUFFICES ASSUME NEW i \in 1 .. Len(r) + 1, NEW j \in 1 .. Len(r) + 1, q[i].uid = q[j].uid
               PROVE  i = j
    BY <1>4 DEF Apart
  <2>1. CASE i \in 1 .. Len(r) /\ j \in 1 .. Len(r)
    BY <1>3, <1>4, <2>1 DEF Row, Apart
  <2>2. CASE i \in 1 .. Len(r) /\ j = Len(r) + 1
    BY <1>2, <1>4, <1>7, <2>2 DEF Uids
  <2>3. CASE i = Len(r) + 1 /\ j \in 1 .. Len(r)
    BY <1>2, <1>4, <1>7, <2>3 DEF Uids
  <2> QED BY <1>5, <2>1, <2>2, <2>3
<1>9. Uids(q) \subseteq 1 .. n + 1 /\ Uids(q) \subseteq Uids(s) \cup {n + 1}
  <2>1. 1 .. n \subseteq 1 .. n + 1 /\ n + 1 \in 1 .. n + 1
    OBVIOUS
  <2> QED BY <1>3, <1>6, <2>1 DEF Row
<1>10. Wk!WithEvent(s, k) = q
  BY DEF Wk!WithEvent, q, r, e
<1> QED BY <1>3, <1>4, <1>8, <1>9, <1>10 DEF Row

-----------------------------------------------------------------------------
(* The continuation record.                                                *)

ContType == [auto : BOOLEAN, drain : BOOLEAN, pending : Seq(Wk!Events), active : Wk!Events,
             seen : Seq(WakeKeys), waiting : {"no", "since", "told"}]

\* The claimed event is none of the list, and leaves room to be put back.
Listed(c, n) ==
    /\ c \in ContType /\ Row(c.pending, n)
    /\ Len(c.pending) <= MaxPending + 1 /\ Len(c.seen) <= MaxSeen
    /\ c.active # Wk!NoEvent => /\ c.active.uid \in 1 .. n /\ c.active.uid \notin Uids(c.pending)
                                /\ Len(c.pending) <= MaxPending

LEMMA NoEventTyped ==
    ASSUME WakeBounds
    PROVE  Wk!NoEvent \in Wk!Events /\ Wk!NoEvent.uid = 0
<1>1. <<>> \in Seq(Keys \cup Timers)
  BY EmptySeq
<1> QED BY <1>1 DEF Wk!NoEvent, Wk!Events, WakeBounds

LEMMA ListedFields ==
    ASSUME NEW n, NEW c, Listed(c, n), NEW d \in ContType,
           d.pending = c.pending, d.active = c.active, d.seen = c.seen
    PROVE  Listed(d, n)
BY DEF Listed

\* A record whose list has one more event, or is coalesced.
Queued(c, k) == [c EXCEPT !.pending = Wk!WithEvent(c.pending, k)]
Gathered(c) == [c EXCEPT !.pending = Wk!Coalesced(c.pending)]

LEMMA ListedQueue ==
    ASSUME WakeBounds, NEW c, Listed(c, wCount.events), wCount.events \in Nat,
           wCount.events < MaxEvents, NEW k \in WakeKeys
    PROVE  /\ Listed(Queued(c, k), wCount.events + 1) /\ Queued(c, k).active = c.active
           /\ Uids(Queued(c, k).pending) \subseteq Uids(c.pending) \cup {wCount.events + 1}
<1> DEFINE n == wCount.events
           d == Queued(c, k)
           q == Wk!WithEvent(c.pending, k)
<1>1. /\ Row(q, n + 1) /\ Len(q) \in Nat /\ Len(q) <= MaxPending
      /\ Uids(q) \subseteq Uids(c.pending) \cup {n + 1}
  BY RowEnd DEF Listed
<1> HIDE DEF q
<1>2. /\ d = [c EXCEPT !.pending = q] /\ c \in ContType /\ q \in Seq(Wk!Events)
  BY <1>1 DEF q, Listed, Row, Queued
<1> HIDE DEF d
<1>3. d \in ContType /\ d.pending = q /\ d.active = c.active /\ d.seen = c.seen
  BY <1>2 DEF ContType
<1>4. Len(q) <= MaxPending + 1
  BY <1>1 DEF WakeBounds
<1>5. c.active # Wk!NoEvent => c.active.uid \in 1 .. n + 1 /\ c.active.uid # n + 1
  BY DEF Listed
<1> QED BY <1>1, <1>3, <1>4, <1>5 DEF Listed, d

LEMMA ListedCoalesced ==
    ASSUME WakeBounds, NEW n \in Nat, NEW c, Listed(c, n)
    PROVE  /\ Listed(Gathered(c), n) /\ Gathered(c).active = c.active
           /\ Gathered(c).pending = Wk!Coalesced(c.pending)
           /\ Uids(Gathered(c).pending) \subseteq Uids(c.pending)
           /\ c.pending # <<>> => Gathered(c).pending # <<>>
<1> DEFINE q == Wk!Coalesced(c.pending)
           d == Gathered(c)
<1>1. /\ Row(q, n) /\ Uids(q) \subseteq Uids(c.pending) /\ Len(q) \in Nat /\ Len(q) <= 1
      /\ c.pending # <<>> => q # <<>>
  BY RowCoalesced DEF Listed
<1> HIDE DEF q
<1>2. /\ d = [c EXCEPT !.pending = q] /\ c \in ContType /\ q \in Seq(Wk!Events)
  BY <1>1 DEF q, Listed, Row, Gathered
<1> HIDE DEF d
<1>3. /\ d \in ContType /\ d.pending = q /\ d.active = c.active /\ d.seen = c.seen
  BY <1>2 DEF ContType
<1>4. Len(q) <= MaxPending + 1 /\ Len(q) <= MaxPending
  BY <1>1 DEF WakeBounds
<1> QED BY <1>1, <1>3, <1>4 DEF Listed, d, q

LEMMA ListedClaimed ==
    ASSUME WakeBounds, NEW n \in Nat, NEW c, Listed(c, n), c.pending # <<>>
    PROVE  /\ Listed(Wk!Claimed(c), n) /\ Wk!Claimed(c).active = Head(c.pending)
           /\ Wk!Claimed(c).active # Wk!NoEvent /\ Wk!Claimed(c).active \in Wk!Events
           /\ Wk!Claimed(c).active.uid \in Uids(c.pending)
           /\ Wk!Claimed(c).pending = Tail(c.pending)
           /\ Uids(Wk!Claimed(c).pending) \subseteq Uids(c.pending)
<1> DEFINE s == c.pending
           d == Wk!Claimed(c)
<1>1. /\ Head(s) \in Wk!Events /\ Head(s).uid \in Uids(s) /\ Head(s).uid \notin Uids(Tail(s))
      /\ Row(Tail(s), n) /\ Uids(Tail(s)) \subseteq Uids(s)
      /\ Len(s) \in Nat /\ Len(Tail(s)) = Len(s) - 1
  BY RowTail DEF Listed
<1>2. Head(s).uid \in 1 .. n /\ Head(s) # Wk!NoEvent
  BY <1>1, NoEventTyped DEF Listed, Row
<1>3. Len(Tail(s)) <= MaxPending /\ Len(Tail(s)) <= MaxPending + 1
  BY <1>1 DEF Listed, WakeBounds
<1>4. d = [c EXCEPT !.active = Head(s), !.pending = Tail(s)]
  BY DEF Wk!Claimed
<1>5. c \in ContType /\ Tail(s) \in Seq(Wk!Events)
  BY <1>1 DEF Listed, Row
<1> HIDE DEF d
<1>6. d \in ContType /\ d.active = Head(s) /\ d.pending = Tail(s) /\ d.seen = c.seen
  BY <1>1, <1>4, <1>5 DEF ContType
<1> QED BY <1>1, <1>2, <1>3, <1>6 DEF Listed, d

LEMMA ListedSettled ==
    ASSUME WakeBounds, NEW n \in Nat, NEW c, Listed(c, n)
    PROVE  /\ Listed(Wk!Settled(c), n) /\ Wk!Settled(c).active = Wk!NoEvent
           /\ Wk!Settled(c).pending = c.pending
<1> DEFINE ks == Wk!Only(c.active.keys, Wk!Elems(c.active.keys) \ Wk!Elems(c.seen))
           q == Wk!Newest(c.seen \o ks, MaxSeen)
           d == Wk!Settled(c)
<1>1. c \in ContType /\ c.active \in Wk!Events /\ c.active.keys \in Seq(WakeKeys) /\ c.seen \in Seq(WakeKeys)
  BY DEF Listed, ContType, Wk!Events, WakeKeys
<1>2. ks \in Seq(WakeKeys)
  BY <1>1, OnlySelects DEF KeptOf
<1> HIDE DEF ks
<1>3. c.seen \o ks \in Seq(WakeKeys)
  BY <1>1, <1>2, ConcatProperties
<1>4. q \in Seq(WakeKeys) /\ Len(q) <= MaxSeen
  BY <1>3, NewestTyped DEF WakeBounds
<1>5. d = [c EXCEPT !.active = Wk!NoEvent, !.seen = q]
  BY DEF Wk!Settled, ks
<1> HIDE DEF d, q
<1>6. d \in ContType /\ d.active = Wk!NoEvent /\ d.pending = c.pending /\ d.seen = q
  BY <1>1, <1>4, <1>5, NoEventTyped DEF ContType
<1> QED BY <1>4, <1>6 DEF Listed, d

LEMMA ListedDeferred ==
    ASSUME WakeBounds, NEW n \in Nat, NEW c, Listed(c, n), c.active # Wk!NoEvent
    PROVE  /\ Listed(Wk!Deferred(c), n) /\ Wk!Deferred(c).active = Wk!NoEvent
           /\ Uids(Wk!Deferred(c).pending) = Uids(c.pending) \cup {c.active.uid}
<1> DEFINE q == <<c.active>> \o c.pending
           d == Wk!Deferred(c)
<1>1. c \in ContType /\ c.active \in Wk!Events
  BY DEF Listed, ContType
<1>2. /\ Row(q, n) /\ Uids(q) = Uids(c.pending) \cup {c.active.uid}
      /\ Len(c.pending) \in Nat /\ Len(q) = Len(c.pending) + 1
  BY <1>1, RowFront DEF Listed
<1>3. Len(q) <= MaxPending + 1
  BY <1>2 DEF Listed, WakeBounds
<1>4. d = [c EXCEPT !.active = Wk!NoEvent, !.pending = q]
  BY DEF Wk!Deferred
<1> HIDE DEF d, q
<1>5. d \in ContType /\ d.active = Wk!NoEvent /\ d.pending = q /\ d.seen = c.seen
  BY <1>1, <1>2, <1>4, NoEventTyped DEF ContType, Row
<1> QED BY <1>2, <1>3, <1>5 DEF Listed, d

-----------------------------------------------------------------------------
(* The invariant of the wakes.                                             *)

Turns == [actor : {"none", "owner", "wake"}, uid : 0 .. MaxEvents, left : 0 .. Budget]
RunType == [at : {"idle", "probing", "injecting"}, event : Wk!Events]
SessType == [live : BOOLEAN, own : BOOLEAN, running : {"", "owner", "local", "wake"},
             queue : Seq({"owner", "local", "wake"})]
CountType == [owner : Nat, events : 0 .. MaxEvents, faults : Nat, ends : Nat, crashes : Nat]

Shapes ==
    /\ wTurn \in Turns
    /\ wReserved \in BOOLEAN /\ wTimer \in BOOLEAN /\ wTracked \in BOOLEAN /\ wStop \in BOOLEAN
    /\ wRun \in [Runs -> RunType]
    /\ wHeld \in Seq({"owner", "wake"})
    /\ wBoot \in {"adopt", "recover", "reconcile", "ready"}
    /\ wSess \in SessType
    /\ wOwed \subseteq 1 .. MaxEvents /\ wUncertain \subseteq 1 .. wCount.events /\ wStranded \in BOOLEAN
    /\ wCount \in CountType

\* One run at most injects, and what it injects is the active event.
RunsTrue ==
    /\ \A r \in Runs : wRun[r].at = "injecting" => wRun[r].event = wCont.active /\ wCont.active # Wk!NoEvent
    /\ \A r, q \in Runs : wRun[r].at = "injecting" /\ wRun[q].at = "injecting" => r = q

\* Between a restart and the recovery nothing runs.
Booting == wBoot \in {"adopt", "recover"}
BootTrue == Booting => ~wTimer /\ \A r \in Runs : wRun[r] = Wk!Idle

\* An event whose delivery a restart made uncertain is on no list, and is the active one only
\* until the recovery.
UncertainTrue ==
    /\ wUncertain \cap Uids(wCont.pending) = {}
    /\ wCont.active.uid \in wUncertain => Booting

ListInv == Listed(wCont, wCount.events) /\ RunsTrue /\ BootTrue /\ UncertainTrue
WakeInv == Shapes /\ ListInv

\* A step that leaves the list and the runs alone.
LEMMA WakeFrame ==
    ASSUME WakeInv, wCont' = wCont, wRun' = wRun, wUncertain' = wUncertain,
           wCount'.events = wCount.events, wBoot' = wBoot, Booting => ~wTimer'
    PROVE  ListInv'
BY DEF WakeInv, ListInv, RunsTrue, BootTrue, UncertainTrue, Booting

LEMMA CountedIs ==
    ASSUME wCount \in CountType, NEW w \in {"owner", "faults", "ends", "crashes"}
    PROVE  Wk!Counted(w) \in CountType /\ Wk!Counted(w).events = wCount.events
BY DEF Wk!Counted, CountType

\* The provider's side: what is queued there, what runs and what ends.
ProviderStep ==
    \/ Wk!OwnerMessage \/ Wk!TerminalPrompt \/ Wk!PromptStarts \/ Wk!TurnEnds \/ Wk!StopSettles
    \/ Wk!StopLost \/ Wk!PollerSeesEnd \/ Wk!SessionEnds \/ Wk!Resurrected \/ Wk!Rebind \/ Wk!Dispatch

LEMMA TurnTyped ==
    ASSUME WakeBounds
    PROVE  /\ Wk!NoTurn \in Turns
           /\ [actor |-> "owner", uid |-> 0, left |-> Budget] \in Turns
           /\ \A e \in Wk!Events : Wk!WakeTurn(e) \in Turns
<1>1. Budget \in 0 .. Budget /\ 0 \in 0 .. Budget /\ 0 \in 0 .. MaxEvents
  BY DEF WakeBounds
<1>2. \A e \in Wk!Events : e.uid \in 0 .. MaxEvents
  BY DEF Wk!Events
<1> QED BY <1>1, <1>2 DEF Turns, Wk!NoTurn, Wk!WakeTurn

LEMMA QueueTyped ==
    ASSUME wSess \in SessType, NEW w \in {"owner", "local", "wake"}
    PROVE  [wSess EXCEPT !.queue = Append(@, w)] \in SessType
<1>1. Append(wSess.queue, w) \in Seq({"owner", "local", "wake"})
  BY AppendProperties DEF SessType
<1> QED BY <1>1 DEF SessType

LEMMA HeldTyped ==
    ASSUME wHeld \in Seq({"owner", "wake"}), NEW w \in {"owner", "wake"}
    PROVE  Append(wHeld, w) \in Seq({"owner", "wake"}) /\ wHeld \in Seq({"owner", "local", "wake"})
           /\ <<>> \in Seq({"owner", "wake"})
<1>1. {"owner", "wake"} \subseteq {"owner", "local", "wake"}
  OBVIOUS
<1> QED BY <1>1, AppendProperties, SeqMonotonic, EmptySeq

LEMMA ProviderTyped ==
    ASSUME WakeBounds, WakeInv, ProviderStep
    PROVE  Shapes'
<1> USE DEF WakeInv
<1>0. wCount \in CountType /\ wSess \in SessType /\ wHeld \in Seq({"owner", "wake"}) /\ wTurn \in Turns
  BY DEF Shapes
<1>1. CASE Wk!OwnerMessage
  <2>1. wCount' \in CountType /\ wCount'.events = wCount.events
    BY <1>0, <1>1, CountedIs DEF Wk!OwnerMessage
  <2>2. wSess' \in SessType /\ wHeld' \in Seq({"owner", "wake"}) /\ wTurn' \in Turns
    BY <1>0, <1>1, QueueTyped, HeldTyped, TurnTyped DEF Wk!OwnerMessage
  <2> QED BY <1>1, <2>1, <2>2 DEF Wk!OwnerMessage, Shapes
<1>2. CASE Wk!TerminalPrompt
  <2>1. wCount' \in CountType /\ wCount'.events = wCount.events
    BY <1>0, <1>2, CountedIs DEF Wk!TerminalPrompt
  <2>2. wSess' \in SessType
    BY <1>0, <1>2, QueueTyped DEF Wk!TerminalPrompt
  <2> QED BY <1>2, <2>1, <2>2 DEF Wk!TerminalPrompt, Shapes
<1>3. CASE Wk!PromptStarts
  <2>1. /\ Head(wSess.queue) \in {"owner", "local", "wake"}
        /\ Tail(wSess.queue) \in Seq({"owner", "local", "wake"})
    BY <1>0, <1>3, HeadTailProperties DEF Wk!PromptStarts, SessType
  <2>2. wSess' \in SessType
    BY <1>0, <1>3, <2>1 DEF Wk!PromptStarts, SessType
  <2>3. wTurn' \in Turns
    BY <1>0, <1>3, TurnTyped DEF Wk!PromptStarts
  <2> QED BY <1>3, <2>2, <2>3 DEF Wk!PromptStarts, Shapes
<1>4. CASE Wk!TurnEnds
  <2>1. wSess' \in SessType
    BY <1>0, <1>4 DEF Wk!TurnEnds, SessType
  <2> QED BY <1>4, <2>1 DEF Wk!TurnEnds, Shapes
<1>5. CASE Wk!StopSettles
  BY <1>5, TurnTyped DEF Wk!StopSettles, Shapes
<1>6. CASE Wk!StopLost
  <2>1. wCount' \in CountType /\ wCount'.events = wCount.events
    BY <1>0, <1>6, CountedIs DEF Wk!StopLost, Wk!Fault
  <2>2. wSess' \in SessType
    BY <1>0, <1>6 DEF Wk!StopLost, SessType
  <2> QED BY <1>6, <2>1, <2>2 DEF Wk!StopLost, Shapes
<1>7. CASE Wk!PollerSeesEnd
  BY <1>7 DEF Wk!PollerSeesEnd, Shapes
<1>8. CASE Wk!SessionEnds
  <2>1. wCount' \in CountType /\ wCount'.events = wCount.events
    BY <1>0, <1>8, CountedIs DEF Wk!SessionEnds
  <2>2. wSess' \in SessType
    BY <1>0, <1>8, EmptySeq DEF Wk!SessionEnds, SessType
  <2>3. wTurn' \in Turns
    BY <1>8, TurnTyped DEF Wk!SessionEnds
  <2> QED BY <1>8, <2>1, <2>2, <2>3 DEF Wk!SessionEnds, Shapes
<1>9. CASE Wk!Resurrected
  <2>1. wSess' \in SessType /\ wHeld' \in Seq({"owner", "wake"})
    BY <1>0, <1>9, HeldTyped DEF Wk!Resurrected, SessType
  <2> QED BY <1>9, <2>1 DEF Wk!Resurrected, Shapes
<1>10. CASE Wk!Rebind
  <2>1. wCount' \in CountType /\ wCount'.events = wCount.events
    BY <1>0, <1>10, CountedIs DEF Wk!Rebind, Wk!Fault
  <2>2. wSess' \in SessType
    BY <1>0, <1>10 DEF Wk!Rebind, SessType
  <2> QED BY <1>10, <2>1, <2>2 DEF Wk!Rebind, Shapes
<1>11. CASE Wk!Dispatch
  <2>1. wTurn' \in Turns
    <3>1. /\ wTurn.left \in 0 .. Budget /\ wTurn.left > 0 /\ wTurn' = [wTurn EXCEPT !.left = wTurn.left - 1]
      BY <1>0, <1>11 DEF Wk!Dispatch, Turns
    <3>2. wTurn.left - 1 \in 0 .. Budget
      BY <3>1 DEF WakeBounds
    <3> QED BY <1>0, <3>1, <3>2 DEF Turns
  <2> QED BY <1>11, <2>1 DEF Wk!Dispatch, Shapes
<1> QED BY <1>1, <1>2, <1>3, <1>4, <1>5, <1>6, <1>7, <1>8, <1>9, <1>10, <1>11 DEF ProviderStep

LEMMA ProviderKeeps ==
    ASSUME WakeBounds, WakeInv, ProviderStep
    PROVE  WakeInv'
<1>0. wCount \in CountType
  BY DEF WakeInv, Shapes
<1>1. /\ wCont' = wCont /\ wRun' = wRun /\ wUncertain' = wUncertain /\ wBoot' = wBoot
      /\ wTimer' = wTimer
  BY DEF ProviderStep, Wk!OwnerMessage, Wk!TerminalPrompt, Wk!PromptStarts, Wk!TurnEnds,
     Wk!StopSettles, Wk!StopLost, Wk!PollerSeesEnd, Wk!SessionEnds, Wk!Resurrected, Wk!Rebind,
     Wk!Dispatch
<1>2. wCount'.events = wCount.events
  <2>1. \/ wCount' = wCount
        \/ \E w \in {"owner", "faults", "ends", "crashes"} : wCount' = Wk!Counted(w)
    BY DEF ProviderStep, Wk!OwnerMessage, Wk!TerminalPrompt, Wk!PromptStarts, Wk!TurnEnds,
       Wk!StopSettles, Wk!StopLost, Wk!PollerSeesEnd, Wk!SessionEnds, Wk!Resurrected, Wk!Rebind,
       Wk!Dispatch, Wk!Fault
  <2> QED BY <1>0, <2>1, CountedIs
<1>3. ListInv'
  BY <1>1, <1>2, WakeFrame DEF WakeInv, ListInv, BootTrue
<1> QED BY <1>3, ProviderTyped DEF WakeInv

\* Queueing an event.
LEMMA QueueKeeps ==
    ASSUME WakeBounds, WakeInv, NEW k \in WakeKeys, Wk!Queue(k),
           UNCHANGED <<wTurn, wReserved, wRun, wTracked, wStop, wHeld, wBoot, wSess, wUncertain, wStranded>>
    PROVE  WakeInv'
<1>0. /\ wCount \in CountType /\ wCount.events \in Nat /\ Listed(wCont, wCount.events)
      /\ wUncertain \subseteq 1 .. wCount.events
  BY DEF WakeInv, Shapes, CountType, ListInv
<1>1. wTimer' \in BOOLEAN /\ (Booting => ~wTimer')
  BY DEF Wk!Queue, Wk!Rung, WakeInv, Shapes, ListInv, BootTrue, Booting
<1>2. CASE wCont' = wCont /\ wOwed' = wOwed /\ wCount' = wCount
  <2>1. ListInv'
    BY <1>1, <1>2, WakeFrame
  <2> QED BY <1>1, <1>2, <2>1 DEF WakeInv, Shapes
<1>3. CASE ~(wCont' = wCont /\ wOwed' = wOwed /\ wCount' = wCount)
  <2> DEFINE n == wCount.events
  <2>1. /\ n < MaxEvents /\ wCont' = [wCont EXCEPT !.pending = Wk!WithEvent(@, k)]
        /\ wOwed' = wOwed \cup {n + 1} /\ wCount' = [wCount EXCEPT !.events = @ + 1]
    BY <1>3 DEF Wk!Queue, Wk!Counted
  <2>2. wCount' \in CountType /\ wCount'.events = n + 1
    BY <1>0, <2>1 DEF CountType, WakeBounds
  <2>3. /\ Listed(wCont', n + 1) /\ wCont'.active = wCont.active
        /\ Uids(wCont'.pending) \subseteq Uids(wCont.pending) \cup {n + 1}
    <3>1. wCont' = Queued(wCont, k)
      BY <2>1 DEF Queued
    <3>2. /\ Listed(Queued(wCont, k), n + 1) /\ Queued(wCont, k).active = wCont.active
          /\ Uids(Queued(wCont, k).pending) \subseteq Uids(wCont.pending) \cup {n + 1}
      BY <1>0, <2>1, ListedQueue
    <3> HIDE DEF n
    <3> QED BY <3>1, <3>2
  <2>4. n + 1 \notin wUncertain /\ 1 .. n \subseteq 1 .. n + 1 /\ n + 1 \in 1 .. MaxEvents
    BY <1>0, <2>1 DEF WakeBounds
  <2> HIDE DEF n
  <2>5. Listed(wCont, wCount.events)'
    BY <2>2, <2>3
  <2>6. RunsTrue' /\ BootTrue' /\ UncertainTrue'
    BY <1>1, <2>3, <2>4 DEF WakeInv, ListInv, RunsTrue, BootTrue, UncertainTrue, Booting
  <2>7. Shapes'
    BY <1>0, <1>1, <2>1, <2>2, <2>4 DEF WakeInv, Shapes, n
  <2> QED BY <2>5, <2>6, <2>7 DEF WakeInv, ListInv
<1> QED BY <1>2, <1>3

\* The owner's settings.
LEMMA ModeKeeps ==
    ASSUME WakeBounds, WakeInv, Wk!SetMode
    PROVE  WakeInv'
<1>0. wCount \in CountType /\ wCont \in ContType
  BY DEF WakeInv, Shapes, ListInv, Listed
<1>1. wCount' \in CountType /\ wCount'.events = wCount.events
  BY <1>0, CountedIs DEF Wk!SetMode, Wk!Fault
<1>2. /\ wCont' \in ContType /\ wCont'.pending = wCont.pending /\ wCont'.active = wCont.active
      /\ wCont'.seen = wCont.seen
  BY <1>0 DEF Wk!SetMode, ContType
<1>3. Listed(wCont', wCount'.events)
  BY <1>1, <1>2, ListedFields DEF WakeInv, ListInv
<1>4. wTimer' \in BOOLEAN /\ (Booting => ~wTimer')
  BY DEF Wk!SetMode, Wk!Rung, WakeInv, Shapes, ListInv, BootTrue, Booting
<1>5. RunsTrue' /\ BootTrue' /\ UncertainTrue'
  BY <1>2, <1>4 DEF Wk!SetMode, WakeInv, ListInv, RunsTrue, BootTrue, UncertainTrue, Booting
<1>6. Shapes'
  BY <1>1, <1>4 DEF Wk!SetMode, WakeInv, Shapes
<1> QED BY <1>3, <1>5, <1>6 DEF WakeInv, ListInv

LEMMA ListedPending ==
    ASSUME NEW n \in Nat, NEW c, Listed(c, n), c.active = Wk!NoEvent,
           NEW q, Row(q, n), Len(q) <= MaxPending + 1
    PROVE  LET d == [c EXCEPT !.pending = q] IN
           Listed(d, n) /\ d.active = Wk!NoEvent /\ d.pending = q
<1> DEFINE d == [c EXCEPT !.pending = q]
<1>1. c \in ContType /\ q \in Seq(Wk!Events)
  BY DEF Listed, Row
<1>2. d \in ContType /\ d.active = c.active /\ d.pending = q /\ d.seen = c.seen
  BY <1>1 DEF ContType
<1> HIDE DEF d
<1>3. Listed(d, n)
  BY <1>2 DEF Listed
<1> QED BY <1>2, <1>3 DEF d

\* A step after which no event is claimed: the list has no new event that is uncertain.
LEMMA ReleasedKeeps ==
    ASSUME WakeBounds, WakeInv, Listed(wCont', wCount'.events), wCont'.active = Wk!NoEvent,
           wUncertain' = wUncertain, wUncertain \cap Uids(wCont'.pending) = {},
           \A r \in Runs : wRun'[r].at # "injecting", BootTrue'
    PROVE  ListInv'
<1>1. wCont'.active.uid \notin wUncertain
  <2>1. 0 \notin 1 .. wCount.events
    BY DEF WakeInv, Shapes, CountType
  <2> QED BY <2>1, NoEventTyped DEF WakeInv, Shapes
<1>2. Listed(wCont, wCount.events)'
  OBVIOUS
<1> QED BY <1>1, <1>2 DEF ListInv, RunsTrue, UncertainTrue

LEMMA NoInjection ==
    ASSUME WakeInv, wCont.active = Wk!NoEvent, NEW r \in Runs
    PROVE  wRun[r].at # "injecting"
BY DEF WakeInv, ListInv, RunsTrue

LEMMA OneInjection ==
    ASSUME WakeInv, NEW r \in Runs, wRun[r].at = "injecting"
    PROVE  /\ wRun[r].event = wCont.active /\ wCont.active # Wk!NoEvent /\ ~Booting
           /\ \A q \in Runs : q # r => wRun[q].at # "injecting"
BY DEF WakeInv, ListInv, RunsTrue, BootTrue, Wk!Idle

LEMMA IdleTyped ==
    ASSUME WakeBounds
    PROVE  Wk!Idle \in RunType /\ Wk!Idle.at = "idle"
BY NoEventTyped DEF Wk!Idle, RunType

LEMMA RenewKeeps ==
    ASSUME WakeBounds, WakeInv, Wk!Renew
    PROVE  WakeInv'
<1> DEFINE n == wCount.events
           timed == {e \in Wk!Elems(wCont.pending) : Wk!Scheduled(e)}
           workers == Wk!Only(wCont.pending, Wk!Elems(wCont.pending) \ timed)
           others == Wk!Only(wCont.pending, timed)
           few == Wk!Coalesced(workers)
           a == [wCont EXCEPT !.pending = few]
           b == Wk!Settled(Wk!Claimed(a))
<1>0. n \in Nat /\ Listed(wCont, n) /\ wCont.active = Wk!NoEvent /\ Row(wCont.pending, n)
      /\ Len(wCont.pending) <= MaxPending + 1 /\ Len(wCont.pending) \in Nat
  <2>1. n \in Nat /\ Listed(wCont, n)
    BY DEF WakeInv, Shapes, CountType, ListInv
  <2>2. wCont.active = Wk!NoEvent
    BY DEF Wk!Renew
  <2>3. Row(wCont.pending, n) /\ Len(wCont.pending) <= MaxPending + 1
    BY <2>1 DEF Listed
  <2>4. Len(wCont.pending) \in Nat
    BY <2>3, LenProperties DEF Row
  <2> QED BY <2>1, <2>2, <2>3, <2>4
<1>1. /\ workers # <<>> /\ wCont' = [b EXCEPT !.pending = others] /\ wTurn' = Wk!WakeTurn(few[1])
      /\ wOwed' \subseteq wOwed
      /\ UNCHANGED <<wReserved, wTimer, wRun, wTracked, wStop, wHeld, wBoot, wSess, wUncertain,
                     wCount, wStranded>>
  BY DEF Wk!Renew
<1>2. /\ Row(workers, n)
      /\ Row(others, n) /\ Uids(others) \subseteq Uids(wCont.pending)
      /\ Len(others) \in Nat /\ Len(others) <= Len(wCont.pending)
  BY <1>0, RowOnly
<1> HIDE DEF workers, others
<1>3. Row(few, n) /\ Len(few) \in Nat /\ Len(few) <= 1 /\ few # <<>>
  BY <1>0, <1>1, <1>2, RowCoalesced
<1>4. few[1] \in Wk!Events
  <2>1. 1 \in 1 .. Len(few) /\ few \in Seq(Wk!Events)
    BY <1>3, EmptySeq DEF Row
  <2> QED BY <2>1, ElementOfSeq
<1> HIDE DEF few
<1>5. Listed(a, n) /\ a.pending = few
  <2>1. Len(few) <= MaxPending + 1
    BY <1>3 DEF WakeBounds
  <2> QED BY <1>0, <1>3, <2>1, ListedPending
<1> HIDE DEF a
<1>6. Listed(Wk!Claimed(a), n)
  BY <1>0, <1>3, <1>5, ListedClaimed
<1>7. Listed(b, n) /\ b.active = Wk!NoEvent
  BY <1>0, <1>6, ListedSettled
<1> HIDE DEF b
<1>8. Listed(wCont', n) /\ wCont'.active = Wk!NoEvent /\ wCont'.pending = others
  <2>1. Len(others) <= MaxPending + 1
    BY <1>0, <1>2 DEF WakeBounds
  <2> QED BY <1>0, <1>1, <1>2, <1>7, <2>1, ListedPending
<1>9. wUncertain \cap Uids(wCont'.pending) = {}
  BY <1>2, <1>8 DEF WakeInv, ListInv, UncertainTrue
<1>10. \A r \in Runs : wRun'[r].at # "injecting"
  BY <1>0, <1>1, NoInjection
<1>11. BootTrue'
  BY <1>1 DEF WakeInv, ListInv, BootTrue, Booting
<1>12. Listed(wCont', wCount'.events)
  BY <1>1, <1>8
<1>13. ListInv'
  BY <1>1, <1>8, <1>9, <1>10, <1>11, <1>12, ReleasedKeeps
<1>14. wTurn' \in Turns
  BY <1>1, <1>4, TurnTyped
<1>15. Shapes'
  BY <1>1, <1>14 DEF WakeInv, Shapes
<1> QED BY <1>13, <1>15 DEF WakeInv

LEMMA FiresKeeps ==
    ASSUME WakeBounds, WakeInv, NEW r \in Runs, Wk!TimerFires(r)
    PROVE  WakeInv'
<1> DEFINE n == wCount.events
           c == Gathered(wCont)
<1>0. n \in Nat /\ Listed(wCont, n) /\ ~Booting /\ wRun \in [Runs -> RunType]
  BY DEF WakeInv, Shapes, CountType, ListInv, BootTrue, Wk!TimerFires
<1>1. /\ wTimer' = FALSE /\ wStranded' \in BOOLEAN /\ wRun[r].at = "idle"
      /\ UNCHANGED <<wTurn, wReserved, wTracked, wStop, wHeld, wBoot, wSess, wUncertain, wCount>>
      /\ \/ UNCHANGED <<wCont, wRun, wOwed>>
         \/ wCont' = c /\ wRun' = [wRun EXCEPT ![r].at = "probing"] /\ wOwed' = wOwed
         \/ /\ c.pending # <<>> /\ c.active = Wk!NoEvent
            /\ wCont' = Wk!Settled(Wk!Claimed(c)) /\ wOwed' \subseteq wOwed /\ wRun' = wRun
         \/ wCont' = c /\ wOwed' = wOwed /\ wRun' = wRun
  BY DEF Wk!TimerFires, Gathered, Wk!Covered, WakeInv, Shapes
<1>2. /\ Listed(c, n) /\ c.active = wCont.active /\ Uids(c.pending) \subseteq Uids(wCont.pending)
  BY <1>0, ListedCoalesced
<1> HIDE DEF c
<1>3. Shapes'
  <2>1. wRun' \in [Runs -> RunType]
    BY <1>0, <1>1 DEF RunType
  <2> QED BY <1>1, <2>1 DEF WakeInv, Shapes
<1>4. BootTrue'
  BY <1>0, <1>1 DEF BootTrue, Booting
<1>5. CASE wCont' = wCont /\ wRun' = wRun
  BY <1>0, <1>1, <1>3, <1>4, <1>5 DEF WakeInv, ListInv, RunsTrue, UncertainTrue, Booting
<1>6. CASE wCont' = c /\ (wRun' = wRun \/ wRun' = [wRun EXCEPT ![r].at = "probing"])
  <2>1. \A q \in Runs : wRun'[q].at = "injecting" => wRun[q].at = "injecting" /\ wRun'[q] = wRun[q]
    BY <1>0, <1>6 DEF RunType
  <2>2. RunsTrue' /\ UncertainTrue'
    BY <1>0, <1>1, <1>2, <1>6, <2>1 DEF WakeInv, ListInv, RunsTrue, UncertainTrue, Booting
  <2>3. Listed(wCont, wCount.events)'
    BY <1>1, <1>2, <1>6
  <2> QED BY <1>3, <1>4, <2>2, <2>3 DEF WakeInv, ListInv
<1>7. CASE /\ c.pending # <<>> /\ c.active = Wk!NoEvent
           /\ wCont' = Wk!Settled(Wk!Claimed(c)) /\ wRun' = wRun
  <2>1. Listed(Wk!Claimed(c), n) /\ Uids(Wk!Claimed(c).pending) \subseteq Uids(c.pending)
    BY <1>0, <1>2, <1>7, ListedClaimed
  <2>2. Listed(wCont', n) /\ wCont'.active = Wk!NoEvent /\ wCont'.pending = Wk!Claimed(c).pending
    BY <1>0, <1>7, <2>1, ListedSettled
  <2>3. wUncertain \cap Uids(wCont'.pending) = {}
    BY <1>2, <2>1, <2>2 DEF WakeInv, ListInv, UncertainTrue
  <2>4. \A q \in Runs : wRun'[q].at # "injecting"
    BY <1>2, <1>7, NoInjection
  <2>5. Listed(wCont', wCount'.events) /\ wUncertain' = wUncertain
    BY <1>1, <2>2
  <2>6. ListInv'
    BY <1>4, <2>2, <2>3, <2>4, <2>5, ReleasedKeeps
  <2> QED BY <1>3, <2>6 DEF WakeInv
<1> QED BY <1>1, <1>5, <1>6, <1>7

LEMMA ProbedKeeps ==
    ASSUME WakeBounds, WakeInv, NEW r \in Runs, Wk!Probed(r)
    PROVE  WakeInv'
<1> DEFINE n == wCount.events
           c == [wCont EXCEPT !.waiting = "no"]
           d == [wCont EXCEPT !.waiting = IF @ = "no" THEN "since" ELSE "told"]
<1>0. n \in Nat /\ Listed(wCont, n) /\ ~Booting /\ wRun \in [Runs -> RunType] /\ wCont \in ContType
  BY DEF WakeInv, Shapes, CountType, ListInv, Listed, BootTrue, Wk!Probed, Wk!Idle
<1>1. /\ wStranded' \in BOOLEAN /\ wTimer' \in BOOLEAN
      /\ UNCHANGED <<wReserved, wTracked, wStop, wHeld, wBoot, wSess, wOwed, wUncertain, wCount>>
      /\ \/ wCont' \in {wCont, c, d} /\ wTurn' = wTurn /\ wRun' = [wRun EXCEPT ![r] = Wk!Idle]
         \/ /\ c.active = Wk!NoEvent /\ c.pending # <<>> /\ wCont' = Wk!Claimed(c)
            /\ wTurn' = Wk!WakeTurn(Head(c.pending))
            /\ wRun' = [wRun EXCEPT ![r] = [at |-> "injecting", event |-> Head(c.pending)]]
  BY DEF Wk!Probed, WakeInv, Shapes
<1>2. /\ c \in ContType /\ c.pending = wCont.pending /\ c.active = wCont.active /\ c.seen = wCont.seen
      /\ d \in ContType /\ d.pending = wCont.pending /\ d.active = wCont.active /\ d.seen = wCont.seen
  BY <1>0 DEF ContType
<1> HIDE DEF c, d
<1>3. Listed(c, n) /\ Listed(d, n)
  BY <1>0, <1>2, ListedFields
<1>4. BootTrue'
  BY <1>0, <1>1 DEF BootTrue, Booting
<1>5. CASE wCont' \in {wCont, c, d} /\ wTurn' = wTurn /\ wRun' = [wRun EXCEPT ![r] = Wk!Idle]
  <2>1. Listed(wCont, wCount.events)'
    BY <1>0, <1>1, <1>3, <1>5
  <2>2. wCont'.pending = wCont.pending /\ wCont'.active = wCont.active
    BY <1>2, <1>5
  <2>3. \A q \in Runs : wRun'[q].at = "injecting" => wRun[q].at = "injecting" /\ wRun'[q] = wRun[q]
    BY <1>0, <1>5, IdleTyped
  <2>4. RunsTrue' /\ UncertainTrue'
    BY <1>0, <1>1, <2>2, <2>3 DEF WakeInv, ListInv, RunsTrue, UncertainTrue, Booting
  <2>5. wRun' \in [Runs -> RunType]
    BY <1>0, <1>5, IdleTyped
  <2>6. Shapes'
    BY <1>1, <1>5, <2>5 DEF WakeInv, Shapes
  <2> QED BY <1>4, <2>1, <2>4, <2>6 DEF WakeInv, ListInv
<1>6. CASE /\ c.active = Wk!NoEvent /\ c.pending # <<>> /\ wCont' = Wk!Claimed(c)
           /\ wTurn' = Wk!WakeTurn(Head(c.pending))
           /\ wRun' = [wRun EXCEPT ![r] = [at |-> "injecting", event |-> Head(c.pending)]]
  <2>1. /\ Listed(wCont', n) /\ wCont'.active = Head(c.pending) /\ wCont'.active # Wk!NoEvent
        /\ wCont'.active \in Wk!Events /\ wCont'.active.uid \in Uids(c.pending)
        /\ Uids(wCont'.pending) \subseteq Uids(c.pending)
    BY <1>0, <1>3, <1>6, ListedClaimed
  <2>2. \A q \in Runs : wRun[q].at # "injecting"
    BY <1>2, <1>6, NoInjection
  <2>3. /\ wRun'[r].event = wCont'.active
        /\ \A q \in Runs : wRun'[q].at = "injecting" => q = r
    BY <1>0, <1>6, <2>1, <2>2
  <2>4. RunsTrue'
    BY <2>1, <2>3 DEF RunsTrue
  <2>5. UncertainTrue'
    BY <1>1, <1>2, <2>1 DEF WakeInv, ListInv, UncertainTrue
  <2>6. Listed(wCont, wCount.events)'
    BY <1>1, <2>1
  <2>7. wRun' \in [Runs -> RunType] /\ wTurn' \in Turns
    BY <1>0, <1>6, <2>1, TurnTyped DEF RunType
  <2>8. Shapes'
    BY <1>1, <2>7 DEF WakeInv, Shapes
  <2> QED BY <1>4, <2>4, <2>5, <2>6, <2>8 DEF WakeInv, ListInv
<1> QED BY <1>1, <1>5, <1>6

\* The injection returns: the event is settled.
LEMMA InjectedKeeps ==
    ASSUME WakeBounds, WakeInv, NEW r \in Runs, Wk!Injected(r)
    PROVE  WakeInv'
<1> DEFINE n == wCount.events
           e == wRun[r].event
<1>0. /\ n \in Nat /\ Listed(wCont, n) /\ wRun \in [Runs -> RunType]
      /\ wSess \in SessType /\ wHeld \in Seq({"owner", "wake"})
  BY DEF WakeInv, Shapes, CountType, ListInv
<1>1. /\ e = wCont.active /\ wCont.active # Wk!NoEvent /\ ~Booting
      /\ \A q \in Runs : q # r => wRun[q].at # "injecting"
  BY OneInjection DEF Wk!Injected
<1>2. /\ wCont' = Wk!Settled(wCont) /\ wOwed' \subseteq wOwed
      /\ wRun' = [wRun EXCEPT ![r] = Wk!Idle]
      /\ UNCHANGED <<wTurn, wReserved, wTimer, wTracked, wStop, wBoot, wUncertain, wCount, wStranded>>
  BY <1>1 DEF Wk!Injected, Wk!Covered
<1>3. wSess' \in SessType /\ wHeld' \in Seq({"owner", "wake"})
  BY <1>0, QueueTyped, HeldTyped DEF Wk!Injected
<1> HIDE DEF e
<1>4. Listed(wCont', n) /\ wCont'.active = Wk!NoEvent /\ wCont'.pending = wCont.pending
  BY <1>0, <1>2, ListedSettled
<1>5. wUncertain \cap Uids(wCont'.pending) = {}
  BY <1>4 DEF WakeInv, ListInv, UncertainTrue
<1>6. wRun' \in [Runs -> RunType] /\ \A q \in Runs : wRun'[q].at # "injecting"
  BY <1>0, <1>1, <1>2, IdleTyped
<1>7. BootTrue'
  BY <1>1, <1>2 DEF BootTrue, Booting
<1>8. Listed(wCont', wCount'.events) /\ wUncertain' = wUncertain
  BY <1>2, <1>4
<1>9. ListInv'
  BY <1>4, <1>5, <1>6, <1>7, <1>8, ReleasedKeeps
<1>10. Shapes'
  BY <1>2, <1>3, <1>6 DEF WakeInv, Shapes
<1> QED BY <1>9, <1>10 DEF WakeInv

\* The injection fails: the event, which no restart made uncertain, is queued again.
LEMMA FailsKeeps ==
    ASSUME WakeBounds, WakeInv, NEW r \in Runs, Wk!InjectFails(r)
    PROVE  WakeInv'
<1> DEFINE n == wCount.events
           e == wRun[r].event
<1>0. n \in Nat /\ Listed(wCont, n) /\ wRun \in [Runs -> RunType] /\ wCount \in CountType /\ wTurn \in Turns
  BY DEF WakeInv, Shapes, CountType, ListInv
<1>1. /\ e = wCont.active /\ wCont.active # Wk!NoEvent /\ ~Booting
      /\ \A q \in Runs : q # r => wRun[q].at # "injecting"
  BY OneInjection DEF Wk!InjectFails
<1>2. /\ wCont' = Wk!Deferred(wCont) /\ wTimer' = TRUE
      /\ wTurn' \in {wTurn, Wk!NoTurn}
      /\ wRun' = [wRun EXCEPT ![r] = Wk!Idle] /\ wCount' = Wk!Counted("faults")
      /\ UNCHANGED <<wReserved, wTracked, wStop, wHeld, wBoot, wSess, wOwed, wUncertain, wStranded>>
  BY <1>1 DEF Wk!InjectFails, Wk!Fault
<1> HIDE DEF e
<1>3. wCount' \in CountType /\ wCount'.events = n
  BY <1>0, <1>2, CountedIs
<1>4. /\ Listed(wCont', n) /\ wCont'.active = Wk!NoEvent
      /\ Uids(wCont'.pending) = Uids(wCont.pending) \cup {wCont.active.uid}
  BY <1>0, <1>1, <1>2, ListedDeferred
<1>5. wUncertain \cap Uids(wCont'.pending) = {}
  BY <1>1, <1>4 DEF WakeInv, ListInv, UncertainTrue
<1>6. wRun' \in [Runs -> RunType] /\ \A q \in Runs : wRun'[q].at # "injecting"
  BY <1>0, <1>1, <1>2, IdleTyped
<1>7. BootTrue'
  BY <1>1, <1>2 DEF BootTrue, Booting
<1>8. Listed(wCont', wCount'.events) /\ wUncertain' = wUncertain
  BY <1>2, <1>3, <1>4
<1>9. ListInv'
  BY <1>4, <1>5, <1>6, <1>7, <1>8, ReleasedKeeps
<1>10. wTurn' \in Turns
  BY <1>0, <1>2, TurnTyped
<1>11. Shapes'
  BY <1>2, <1>3, <1>6, <1>10 DEF WakeInv, Shapes
<1> QED BY <1>9, <1>11 DEF WakeInv

\* The daemon restarts: what was being injected is the active event, and becomes uncertain.
LEMMA WakeCrashKeeps ==
    ASSUME WakeBounds, WakeInv, Wk!Crash
    PROVE  WakeInv'
<1> DEFINE lost == {wRun[r].event.uid : r \in Wk!Injecting}
<1>0. /\ wCount \in CountType /\ wCount.events \in Nat /\ Listed(wCont, wCount.events)
      /\ wRun \in [Runs -> RunType] /\ wSess \in SessType
  BY DEF WakeInv, Shapes, CountType, ListInv
<1>1. /\ wCount' = Wk!Counted("crashes") /\ wTimer' = FALSE /\ wRun' = [r \in Runs |-> Wk!Idle]
      /\ wTracked' = FALSE /\ wStop' = FALSE /\ wHeld' = <<>> /\ wBoot' = "adopt"
      /\ wUncertain' = wUncertain \cup lost
      /\ UNCHANGED <<wCont, wTurn, wReserved, wOwed, wStranded>>
  BY DEF Wk!Crash
<1>2. \A u \in lost : u = wCont.active.uid /\ wCont.active # Wk!NoEvent
  <2> SUFFICES ASSUME NEW r \in Runs, wRun[r].at = "injecting"
               PROVE  wRun[r].event.uid = wCont.active.uid /\ wCont.active # Wk!NoEvent
    BY DEF Wk!Injecting
  <2> QED BY OneInjection
<1> HIDE DEF lost
<1>3. \A u \in lost : u \in 1 .. wCount.events /\ u \notin Uids(wCont.pending)
  BY <1>0, <1>2 DEF Listed
<1>4. wCount' \in CountType /\ wCount'.events = wCount.events
  BY <1>0, <1>1, CountedIs
<1>5. wSess' \in SessType
  BY <1>0, QueueTyped DEF Wk!Crash
<1>6. wRun' \in [Runs -> RunType] /\ \A q \in Runs : wRun'[q] = Wk!Idle /\ wRun'[q].at # "injecting"
  BY <1>1, IdleTyped
<1>7. wHeld' \in Seq({"owner", "wake"})
  BY <1>1, EmptySeq
<1>8. Shapes'
  BY <1>0, <1>1, <1>3, <1>4, <1>5, <1>6, <1>7 DEF WakeInv, Shapes
<1>9. Listed(wCont, wCount.events)'
  BY <1>0, <1>1, <1>4
<1>10. RunsTrue' /\ BootTrue' /\ UncertainTrue'
  BY <1>1, <1>3, <1>6 DEF WakeInv, ListInv, RunsTrue, BootTrue, UncertainTrue, Booting
<1> QED BY <1>8, <1>9, <1>10 DEF WakeInv, ListInv

\* The recovery, in its three steps.
LEMMA AdoptKeeps ==
    ASSUME WakeBounds, WakeInv, Wk!Adopt
    PROVE  WakeInv'
<1>1. wTurn' \in Turns /\ wTracked' \in BOOLEAN /\ wReserved' \in BOOLEAN
  BY TurnTyped DEF Wk!Adopt, WakeInv, Shapes
<1>2. Shapes'
  BY <1>1 DEF Wk!Adopt, WakeInv, Shapes
<1>3. ListInv'
  BY DEF Wk!Adopt, WakeInv, ListInv, RunsTrue, BootTrue, UncertainTrue, Booting
<1> QED BY <1>2, <1>3 DEF WakeInv

LEMMA RecoverKeeps ==
    ASSUME WakeBounds, WakeInv, Wk!Recover
    PROVE  WakeInv'
<1> DEFINE n == wCount.events
           s == Wk!Settled(wCont)
           d == [s EXCEPT !.waiting = "no"]
<1>0. n \in Nat /\ Listed(wCont, n) /\ Booting
  BY DEF WakeInv, Shapes, CountType, ListInv, Booting, Wk!Recover
<1>1. /\ wBoot' = "reconcile" /\ wTurn' \in {wTurn, Wk!NoTurn} /\ wReserved' \in BOOLEAN
      /\ wOwed' \subseteq wOwed
      /\ UNCHANGED <<wTimer, wRun, wTracked, wStop, wHeld, wSess, wUncertain, wCount, wStranded>>
      /\ (wCont.active = Wk!NoEvent /\ wCont' = wCont) \/ wCont' = s \/ wCont' = d
  BY DEF Wk!Recover, Wk!Interrupted, Wk!Covered, WakeInv, Shapes
<1>2. Listed(s, n) /\ s.active = Wk!NoEvent /\ s.pending = wCont.pending
  BY <1>0, ListedSettled
<1> HIDE DEF s
<1>3. Listed(d, n) /\ d.active = Wk!NoEvent /\ d.pending = wCont.pending
  <2>1. s \in ContType
    BY <1>2 DEF Listed
  <2>2. d \in ContType /\ d.pending = s.pending /\ d.active = s.active /\ d.seen = s.seen
    BY <2>1 DEF ContType
  <2> HIDE DEF d
  <2> QED BY <1>2, <2>2, ListedFields
<1> HIDE DEF d
<1>4. Listed(wCont', wCount'.events) /\ wCont'.active = Wk!NoEvent /\ wCont'.pending = wCont.pending
  BY <1>0, <1>1, <1>2, <1>3
<1>5. wUncertain \cap Uids(wCont'.pending) = {} /\ wUncertain' = wUncertain
  BY <1>1, <1>4 DEF WakeInv, ListInv, UncertainTrue
<1>6. \A r \in Runs : wRun'[r].at # "injecting"
  BY <1>0, <1>1, IdleTyped DEF WakeInv, ListInv, BootTrue
<1>7. BootTrue'
  BY <1>1 DEF BootTrue, Booting
<1>8. ListInv'
  BY <1>4, <1>5, <1>6, <1>7, ReleasedKeeps
<1>9. wTurn' \in Turns
  BY <1>1, TurnTyped DEF WakeInv, Shapes
<1>10. Shapes'
  BY <1>1, <1>9 DEF WakeInv, Shapes
<1> QED BY <1>8, <1>10 DEF WakeInv

LEMMA ReconciledKeeps ==
    ASSUME WakeBounds, WakeInv, Wk!Reconciled
    PROVE  WakeInv'
<1>1. /\ wBoot = "reconcile" /\ wBoot' = "ready" /\ wTimer' \in BOOLEAN
      /\ UNCHANGED <<wCont, wTurn, wReserved, wRun, wTracked, wStop, wHeld, wSess, wOwed,
                     wUncertain, wCount, wStranded>>
  BY DEF Wk!Reconciled, WakeInv, Shapes
<1>2. Shapes'
  BY <1>1 DEF WakeInv, Shapes
<1>3. ListInv'
  BY <1>1 DEF WakeInv, ListInv, RunsTrue, BootTrue, UncertainTrue, Booting
<1> QED BY <1>2, <1>3 DEF WakeInv

LEMMA WakeInit ==
    ASSUME WakeBounds, Wk!Init
    PROVE  WakeInv
<1>1. <<>> \in Seq(Wk!Events) /\ <<>> \in Seq(WakeKeys) /\ Len(<<>>) = 0
      /\ <<>> \in Seq({"owner", "wake"}) /\ <<>> \in Seq({"owner", "local", "wake"})
  BY EmptySeq
<1>2. /\ wCont \in ContType /\ wCont.pending = <<>> /\ wCont.active = Wk!NoEvent /\ wCont.seen = <<>>
  BY <1>1, NoEventTyped DEF Wk!Init, ContType
<1>3. wCount \in CountType /\ wCount.events = 0
  <2>1. 0 \in 0 .. MaxEvents
    BY DEF WakeBounds
  <2> QED BY <2>1 DEF Wk!Init, CountType
<1>4. Uids(<<>>) = {} /\ Apart(<<>>)
  BY <1>1 DEF Uids, Apart
<1>5. Listed(wCont, wCount.events)
  <2>1. Len(<<>>) <= MaxPending + 1 /\ Len(<<>>) <= MaxSeen
    BY <1>1 DEF WakeBounds
  <2> QED BY <1>1, <1>2, <1>4, <2>1 DEF Listed, Row
<1>6. wRun \in [Runs -> RunType] /\ \A r \in Runs : wRun[r].at = "idle"
  BY IdleTyped DEF Wk!Init
<1>7. wTurn \in Turns /\ wSess \in SessType
  BY <1>1, TurnTyped DEF Wk!Init, SessType
<1>8. Shapes
  BY <1>1, <1>3, <1>6, <1>7 DEF Wk!Init, Shapes
<1>9. RunsTrue /\ BootTrue /\ UncertainTrue
  BY <1>6 DEF Wk!Init, RunsTrue, BootTrue, UncertainTrue, Booting
<1> QED BY <1>5, <1>8, <1>9 DEF WakeInv, ListInv

LEMMA WakeStep ==
    ASSUME WakeBounds, WakeInv, [Wk!Next]_(Wk!wVars)
    PROVE  WakeInv'
<1>1. CASE \/ \E k \in Keys : Wk!WorkerEvent(k)
           \/ \E k \in Timers : Wk!ScheduleDue(k)
  <2>1. PICK k \in WakeKeys :
           /\ Wk!Queue(k)
           /\ UNCHANGED <<wTurn, wReserved, wRun, wTracked, wStop, wHeld, wBoot, wSess, wUncertain, wStranded>>
    BY <1>1 DEF Wk!WorkerEvent, Wk!ScheduleDue, WakeKeys
  <2> QED BY <2>1, QueueKeeps
<1>2. CASE Wk!SetMode
  BY <1>2, ModeKeeps
<1>3. CASE ProviderStep
  BY <1>3, ProviderKeeps
<1>4. CASE Wk!Renew
  BY <1>4, RenewKeeps
<1>5. CASE \E r \in Runs : Wk!TimerFires(r) \/ Wk!Probed(r) \/ Wk!Injected(r) \/ Wk!InjectFails(r)
  BY <1>5, FiresKeeps, ProbedKeeps, InjectedKeeps, FailsKeeps
<1>6. CASE Wk!Crash \/ Wk!Adopt \/ Wk!Recover \/ Wk!Reconciled
  BY <1>6, WakeCrashKeeps, AdoptKeeps, RecoverKeeps, ReconciledKeeps
<1>7. CASE UNCHANGED Wk!wVars
  BY <1>7 DEF Wk!wVars, WakeInv, Shapes, ListInv, RunsTrue, BootTrue, UncertainTrue, Booting
<1> QED BY <1>1, <1>2, <1>3, <1>4, <1>5, <1>6, <1>7 DEF Wk!Next, ProviderStep

LEMMA WakesHold ==
    ASSUME WakeBounds
    PROVE  Wk!Spec => []WakeInv
<1>1. Wk!Init => WakeInv
  BY WakeInit
<1>2. WakeInv /\ [Wk!Next]_(Wk!wVars) => WakeInv'
  BY WakeStep
<1> QED BY <1>1, <1>2, PTL DEF Wk!Spec

\* The types of the wakes, and that neither the list nor the record of what was delivered
\* outgrows its limit, whatever is queued, coalesced and put back (queueContinuation,
\* coalesceContinuations, settleContinuation, deferContinuation).
THEOREM WakeTypes ==
    ASSUME WakeBounds
    PROVE  Wk!Spec => []Wk!TypeOK
<1>1. WakeInv => Wk!TypeOK
  <2> SUFFICES ASSUME WakeInv PROVE Wk!TypeOK
    OBVIOUS
  <2>1. wUncertain \subseteq 1 .. MaxEvents
    <3>1. wCount.events \in 0 .. MaxEvents /\ wUncertain \subseteq 1 .. wCount.events
      BY DEF WakeInv, Shapes, CountType
    <3> QED BY <3>1 DEF WakeBounds
  <2> QED BY <2>1 DEF WakeInv, Shapes, ListInv, Listed, ContType, WakeKeys, Turns, RunType, SessType, Wk!TypeOK
<1> QED BY <1>1, WakesHold, PTL

\* An event whose delivery was under way at a restart is injected by no later run, for every
\* number of events, runs, restarts and failures and every limit of the list
\* (recoverInterruptedTeamContinuations, runTeamContinuation).
THEOREM InterruptedNotReplayed ==
    ASSUME WakeBounds
    PROVE  Wk!Spec => []Wk!NeverReplayed
<1>1. WakeInv => Wk!NeverReplayed
  BY OneInjection DEF WakeInv, ListInv, UncertainTrue, Wk!NeverReplayed, Wk!Injecting
<1> QED BY <1>1, WakesHold, PTL

\* Only the provider's side ends a turn of the owner: no wake that fails or is recovered does
\* (the catch of runTeamContinuation, recoverInterruptedTeamContinuations).
THEOREM OwnersTurnStays ==
    ASSUME WakeBounds
    PROVE  Wk!Spec => Wk!OwnerTurnSafe
<1> DEFINE Ended == \/ wStop /\ ~wStop'
                    \/ wSess.live /\ ~wSess'.live
                    \/ wSess'.running = "local" \/ wBoot = "adopt"
<1>1. WakeInv /\ [Wk!Next]_(Wk!wVars) =>
        [wTurn.actor = "owner" /\ wTurn' = Wk!NoTurn => Ended]_(Wk!wVars)
  <2> SUFFICES ASSUME WakeInv, Wk!Next, wTurn.actor = "owner", wTurn' = Wk!NoTurn PROVE Ended
    OBVIOUS
  <2>1. wTurn' # wTurn /\ wTurn # Wk!NoTurn /\ wTurn'.actor = "none"
    BY DEF Wk!NoTurn
  <2>2. CASE Wk!Dispatch
    <3>1. wTurn'.actor = wTurn.actor
      BY <2>2 DEF Wk!Dispatch, WakeInv, Shapes, Turns
    <3> QED BY <2>1, <3>1
  <2>3. CASE Wk!OwnerMessage
    BY <2>1, <2>3 DEF Wk!OwnerMessage
  <2>4. CASE Wk!PromptStarts
    BY <2>1, <2>4 DEF Wk!PromptStarts, WakeInv, Shapes, SessType
  <2>5. CASE Wk!StopSettles
    BY <2>5 DEF Wk!StopSettles
  <2>6. CASE Wk!SessionEnds
    BY <2>6 DEF Wk!SessionEnds, WakeInv, Shapes, SessType
  <2>7. CASE Wk!Renew
    <3> DEFINE workers == Wk!Only(wCont.pending, Wk!Elems(wCont.pending)
                                  \ {e \in Wk!Elems(wCont.pending) : Wk!Scheduled(e)})
    <3>1. wTurn' = Wk!WakeTurn(Wk!Coalesced(workers)[1])
      BY <2>7 DEF Wk!Renew
    <3> HIDE DEF workers
    <3>2. wTurn'.actor = "wake"
      BY <3>1 DEF Wk!WakeTurn
    <3> QED BY <2>1, <3>2
  <2>8. ASSUME NEW r \in Runs, Wk!Probed(r) PROVE Ended
    BY <2>1, <2>8 DEF Wk!Probed, Wk!WakeTurn
  <2>9. ASSUME NEW r \in Runs, Wk!InjectFails(r) PROVE Ended
    BY <2>1, <2>9 DEF Wk!InjectFails, Wk!OwnTurn
  <2>10. CASE Wk!Adopt
    BY <2>10 DEF Wk!Adopt
  <2>11. CASE Wk!Recover
    BY <2>1, <2>11 DEF Wk!Recover, Wk!OwnTurn
  <2>12. CASE \/ \E k \in Keys : Wk!WorkerEvent(k)
              \/ \E k \in Timers : Wk!ScheduleDue(k)
              \/ Wk!SetMode \/ Wk!TerminalPrompt \/ Wk!TurnEnds \/ Wk!StopLost \/ Wk!PollerSeesEnd
              \/ Wk!Resurrected \/ Wk!Rebind
              \/ \E r \in Runs : Wk!TimerFires(r) \/ Wk!Injected(r)
              \/ Wk!Crash \/ Wk!Reconciled
    <3>1. wTurn' = wTurn
      BY <2>12 DEF Wk!WorkerEvent, Wk!ScheduleDue, Wk!SetMode, Wk!TerminalPrompt, Wk!TurnEnds,
         Wk!StopLost, Wk!PollerSeesEnd, Wk!Resurrected, Wk!Rebind, Wk!TimerFires, Wk!Injected,
         Wk!Crash, Wk!Reconciled
    <3> QED BY <2>1, <3>1
  <2> QED BY <2>2, <2>3, <2>4, <2>5, <2>6, <2>7, <2>8, <2>9, <2>10, <2>11, <2>12 DEF Wk!Next
<1> QED BY <1>1, WakesHold, PTL DEF Wk!Spec, Wk!OwnerTurnSafe
================================================================================
