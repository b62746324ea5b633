--------------------------- MODULE HandoverProofs ---------------------------
(***************************************************************************)
(* Proofs about the two ways a channel's session changes hands: to another *)
(* account (AccountHandover), for any channels, accounts and requests, any *)
(* number of changes of a task and of restarts; and to another provider    *)
(* (ProviderSwitch), for any number of switches, runs, messages, failures  *)
(* and restarts.                                                           *)
(***************************************************************************)
EXTENDS AccountHandover, FiniteSetTheorems, SequenceTheorems, TLAPS

CONSTANTS MaxSwitches, MaxRuns, MaxMsgs, MaxFaults, MaxCrashes, Reruns, Overlap
VARIABLES pChan, pActive, pSess, pLive, pCur, pTrs, pPending, pRun, pHandoff, pValid, pAlign,
          pHeld, pMoving, pBooted, pGot, pBegun, pSent, pFaults, pCrashes

Sw == INSTANCE ProviderSwitch

-----------------------------------------------------------------------------
(* Account handovers: types                                                *)

Void == [phase |-> "none"]
Records == Journals \cup {Void}
Flights == {Idle} \cup Move \cup Inspect \cup Check

\* A journal with a new phase is the same journal in that phase.
LEMMA NewPhase ==
    ASSUME NEW x \in Journals, NEW p \in Phase
    PROVE  LET y == [x EXCEPT !.phase = p] IN
           /\ y \in Journals /\ y.phase = p /\ y.ch = x.ch /\ y.to = x.to
           /\ y.task = x.task /\ y.limit = x.limit /\ y.auto = x.auto /\ y.ver = x.ver
BY DEF Journals

\* Only a request that was never journaled has no phase.
LEMMA Journaled ==
    ASSUME NEW x \in Records
    PROVE  x.phase # "none" <=> x \in Journals
BY DEF Records, Void, Journals, Phase

\* A journal is in a phase, of a channel, to an account.
LEMMA JournalFields ==
    ASSUME NEW x \in Journals
    PROVE  x.phase \in Phase /\ x.phase # "none" /\ x.ch \in Channels /\ x.to \in Accounts
BY DEF Journals, Phase

\* What the stage of a flight says about its form.
LEMMA Stages ==
    ASSUME NEW f \in Flights
    PROVE  /\ f = Idle <=> f.at = "off"
           /\ f \in Move <=> f.at \in Moving
           /\ f \in Inspect <=> f.at = "proof"
           /\ f \in Check <=> f.at \in {"adopt", "certify"}
           /\ f # Idle => f.req \in Requests
BY DEF Flights, Idle, Move, Inspect, Check, Moving

\* A switch that goes on to another await is the same switch.
LEMMA NextStage ==
    ASSUME NEW f \in Move, NEW a \in Moving
    PROVE  LET g == [f EXCEPT !.at = a] IN g \in Move /\ g.at = a /\ g.req = f.req
BY DEF Move

\* A change of the registry leaves every flight where it is.
LEMMA NotCurrent ==
    ASSUME NEW f \in Flights, f # Idle
    PROVE  LET g == [f EXCEPT !.current = FALSE] IN
           g \in Flights /\ g # Idle /\ g.at = f.at /\ g.req = f.req
<1>1. CASE f \in Move
  BY <1>1 DEF Flights, Idle, Move, Moving
<1>2. CASE f \in Inspect
  BY <1>2 DEF Flights, Idle, Inspect
<1>3. CASE f \in Check
  BY <1>3 DEF Flights, Idle, Check
<1> QED
  BY <1>1, <1>2, <1>3 DEF Flights

-----------------------------------------------------------------------------
(* What ties the flights of this process to the journal on disk            *)

\* The journal of a channel is its own; an await of a switch works on the channel's last
\* request, in the phase its stage implies; a check works on an uncertain one.
Ties(c) ==
    /\ xLast[c] # None => xRec[xLast[c]].phase # "none" /\ xRec[xLast[c]].ch = c
    /\ xFlight[c].at \in Moving =>
          /\ xLast[c] = xFlight[c].req
          /\ xRec[xLast[c]].phase = IF xFlight[c].at \in {"dormant", "credential"}
                                    THEN "prepared" ELSE "restarting"
    /\ xFlight[c].at \in {"adopt", "certify"} =>
          xLast[c] = xFlight[c].req /\ xRec[xLast[c]].phase = "interrupted"
    /\ xFlight[c].at \in {"preflight", "last"} => xKills[xLast[c]] = 0
    /\ xFlight[c].at = "proof" => xFlight[c].j.phase = "prepared" /\ xFlight[c].j.ch = c

\* A live process runs on the saved account, which is that of a settled journal.
Runs(c) ==
    /\ xProc[c] = None \/ xProc[c] = xSess[c].acct
    /\ PhaseOf(c) \in {"committed", "reconciled"} => xSess[c].acct = xRec[xLast[c]].to

Sound(c) == Ties(c) /\ Runs(c)

Spared == {"none", "prepared", "rejected", "selected"}
Once(r) == xKills[r] \in {0, 1} /\ (xRec[r].phase \in Spared => xKills[r] = 0)

IInv == TypeOK /\ (\A c \in Channels : Sound(c)) /\ (\A r \in Requests : Once(r))

\* The type invariant by the names above.
Typed ==
    /\ xSess \in [Channels -> [acct : Accounts, pid : BOOLEAN]]
    /\ xProc \in [Channels -> Accounts \cup {None}]
    /\ xTurn \in [Channels -> {"idle", "busy", "limit"}]
    /\ xTask \in [Channels -> [st : {"none", "running", "reported"}, ver : 0..MaxTask]]
    /\ xRec \in [Requests -> Records] /\ xLast \in [Channels -> Requests \cup {None}]
    /\ xFlight \in [Channels -> Flights] /\ xKills \in [Requests -> Nat]
    /\ xClosed \in [Channels -> BOOLEAN]

LEMMA TypesNamed == (TypeOK <=> Typed) /\ (TypeOK' <=> Typed')
BY DEF TypeOK, Typed, Records, Void, Flights

\* Whether a session has a process says nothing of its account.
LEMMA PidOnly ==
    ASSUME Typed, NEW c \in Channels, NEW b \in BOOLEAN, xSess' = [xSess EXCEPT ![c].pid = b]
    PROVE  /\ xSess' \in [Channels -> [acct : Accounts, pid : BOOLEAN]]
           /\ \A d \in Channels : /\ xSess'[d].acct = xSess[d].acct
                                  /\ d # c => xSess'[d] = xSess[d]
<1>1. PICK n : n = [xSess[c] EXCEPT !.pid = b]
  OBVIOUS
<1>2. n \in [acct : Accounts, pid : BOOLEAN] /\ n.acct = xSess[c].acct
  BY <1>1 DEF Typed
<1>3. xSess' = [xSess EXCEPT ![c] = n]
  BY <1>1
<1>4. xSess'[c] = n /\ \A d \in Channels : d # c => xSess'[d] = xSess[d]
  BY <1>2, <1>3 DEF Typed
<1> QED
  BY <1>2, <1>3, <1>4 DEF Typed

\* The channels and requests a step does not work on keep what they had: it is enough to
\* look at its own.
LEMMA Locally ==
    ASSUME IInv, TypeOK', NEW c \in Channels, Sound(c)',
           \A d \in Channels : d # c =>
               /\ xSess'[d] = xSess[d] /\ xProc'[d] = xProc[d]
               /\ xLast'[d] = xLast[d] /\ xFlight'[d] = xFlight[d],
           \A r \in Requests :
               \/ xRec'[r] = xRec[r] /\ xKills'[r] = xKills[r]
               \/ (xRec[r].phase = "none" \/ xRec[r].ch = c) /\ Once(r)'
    PROVE  IInv'
<1>1. \A r \in Requests : Once(r)'
  BY DEF IInv, Once
<1>2. ASSUME NEW d \in Channels, d # c, xLast[d] # None
      PROVE  xLast[d] \in Requests /\ xRec'[xLast[d]] = xRec[xLast[d]]
                /\ xKills'[xLast[d]] = xKills[xLast[d]]
  <2>1. xLast[d] \in Requests
    BY <1>2, TypesNamed DEF IInv, Typed
  <2>2. xRec[xLast[d]].phase # "none" /\ xRec[xLast[d]].ch = d
    BY <1>2 DEF IInv, Sound, Ties
  <2> QED
    BY <1>2, <2>1, <2>2
<1>3. ASSUME NEW d \in Channels, d # c PROVE Sound(d)'
  <2>1. CASE xLast[d] = None
    <3>1. xFlight[d].at \notin Moving /\ xFlight[d].at \notin {"adopt", "certify"}
      <4>1. xFlight[d] \in Flights
        BY TypesNamed DEF IInv, Typed
      <4>2. xFlight[d].at \in Moving \cup {"adopt", "certify"} => xFlight[d].req \in Requests
        BY <4>1, Stages DEF Moving, Idle
      <4> QED
        BY <2>1, <4>2, HandoverAssumption DEF IInv, Sound, Ties, HandoverAssumption
    <3> QED
      BY <1>3, <2>1, <3>1 DEF IInv, Sound, Ties, Runs, PhaseOf, Moving
  <2>2. CASE xLast[d] # None
    BY <1>2, <1>3, <2>2 DEF IInv, Sound, Ties, Runs, PhaseOf
  <2> QED
    BY <2>1, <2>2
<1> QED
  BY <1>1, <1>3 DEF IInv

\* A request that is over, and what the session and the process are then.
LEMMA Ends ==
    ASSUME IInv, NEW c \in Channels, xFlight[c].at \in Moving \cup {"certify"},
           NEW p \in Phase, Ended(c, p), UNCHANGED <<xTurn, xTask, xLast, xKills, xClosed>>,
           xSess' \in [Channels -> [acct : Accounts, pid : BOOLEAN]],
           xProc' \in [Channels -> Accounts \cup {None}],
           \A d \in Channels : d # c => xSess'[d] = xSess[d] /\ xProc'[d] = xProc[d],
           xProc'[c] = None \/ xProc'[c] = xSess'[c].acct,
           p \in Spared => xKills[xLast[c]] = 0,
           p \in {"committed", "reconciled"} => xSess'[c].acct = xRec[xLast[c]].to
    PROVE  IInv'
<1>1. Typed
  BY TypesNamed DEF IInv
<1>2. xFlight[c] \in Flights /\ xFlight[c] # Idle
  BY <1>1 DEF Typed, Idle, Moving
<1>3. xLast[c] = xFlight[c].req /\ xLast[c] \in Requests
  BY <1>2, Stages DEF IInv, Sound, Ties
<1>4. xLast[c] # None
  BY <1>3, HandoverAssumption DEF HandoverAssumption
<1>5. xRec[xLast[c]] \in Journals /\ xRec[xLast[c]].ch = c
  BY <1>1, <1>3, <1>4, Journaled DEF IInv, Sound, Ties, Typed
<1> DEFINE y == [xRec[xLast[c]] EXCEPT !.phase = p]
<1>6. y \in Journals /\ y.phase = p /\ y.ch = c /\ y.to = xRec[xLast[c]].to
  BY <1>5, NewPhase
<1>7. xRec' = [xRec EXCEPT ![xLast[c]] = y] /\ xFlight' = [xFlight EXCEPT ![c] = Idle]
  BY <1>1, <1>3 DEF Ended, WithPhase, Set, Typed
<1> HIDE DEF y
<1>8. Typed'
  BY <1>1, <1>3, <1>6, <1>7 DEF Typed, Records, Flights
<1>9. /\ xRec'[xLast[c]] = y /\ xFlight'[c] = Idle
      /\ \A r \in Requests : r # xLast[c] => xRec'[r] = xRec[r]
      /\ \A d \in Channels : d # c => xFlight'[d] = xFlight[d]
  BY <1>1, <1>3, <1>7 DEF Typed
<1>10. Sound(c)'
  BY <1>4, <1>6, <1>9, JournalFields DEF Sound, Ties, Runs, PhaseOf, Idle, Moving
<1>11. Once(xLast[c])'
  BY <1>3, <1>6, <1>9 DEF IInv, Once
<1> QED
  BY <1>3, <1>5, <1>8, <1>9, <1>10, <1>11, TypesNamed, Locally

-----------------------------------------------------------------------------
(* The steps                                                               *)

\* A switch that goes on to its next await without touching its journal or the session.
LEMMA GoesOn ==
    ASSUME IInv, NEW c \in Channels, xFlight[c] \in Move, NEW a \in Moving,
           xFlight' = [xFlight EXCEPT ![c] = [xFlight[c] EXCEPT !.at = a]],
           UNCHANGED <<xTurn, xTask, xRec, xLast, xKills, xClosed>>,
           xSess' \in [Channels -> [acct : Accounts, pid : BOOLEAN]],
           xProc' \in [Channels -> Accounts \cup {None}],
           \A d \in Channels : d # c => xSess'[d] = xSess[d] /\ xProc'[d] = xProc[d],
           xProc'[c] = None \/ xProc'[c] = xSess'[c].acct,
           xRec[xLast[c]].phase = IF a \in {"dormant", "credential"} THEN "prepared"
                                  ELSE "restarting",
           a \in {"preflight", "last"} => xKills[xLast[c]] = 0
    PROVE  IInv'
<1>1. Typed
  BY TypesNamed DEF IInv
<1> DEFINE g == [xFlight[c] EXCEPT !.at = a]
<1>2. g \in Move /\ g.at = a /\ g.req = xFlight[c].req /\ xFlight' = [xFlight EXCEPT ![c] = g]
  BY NextStage
<1> HIDE DEF g
<1>3. Typed'
  <2>1. xFlight' \in [Channels -> Flights]
    BY <1>1, <1>2 DEF Typed, Flights
  <2> QED
    BY <1>1, <2>1 DEF Typed
<1>4. xFlight'[c] = g /\ \A d \in Channels : d # c => xFlight'[d] = xFlight[d]
  BY <1>1, <1>2 DEF Typed
<1>5. xFlight[c] \in Flights /\ xFlight[c].at \in Moving
  <2>1. xFlight[c] \in Flights
    BY DEF Flights
  <2> QED
    BY <2>1, Stages
<1>6. xLast[c] = xFlight[c].req /\ xLast[c] # None /\ xLast[c] \in Requests
  BY <1>5, Stages, HandoverAssumption DEF IInv, Sound, Ties, HandoverAssumption, Idle, Moving
<1>7. Ties(c)'
  BY <1>2, <1>4, <1>6 DEF IInv, Sound, Ties, Moving
<1>8. Runs(c)'
  <2>1. PhaseOf(c)' \notin {"committed", "reconciled"}
    BY <1>6 DEF PhaseOf
  <2> QED
    BY <2>1 DEF Runs
<1> QED
  BY <1>3, <1>4, <1>7, <1>8, TypesNamed, Locally DEF Sound

\* The process is killed and the new account saved, once for a request.
LEMMA TearsDown ==
    ASSUME IInv, NEW c \in Channels, xFlight[c].at \in {"preflight", "last"}, TearDown(c),
           UNCHANGED <<xTask, xLast, xClosed>>
    PROVE  IInv'
<1>1. Typed
  BY TypesNamed DEF IInv
<1>2. xFlight[c] \in Move
  BY <1>1, Stages DEF Typed, Moving
<1>3. /\ xLast[c] = xFlight[c].req /\ xLast[c] # None /\ xLast[c] \in Requests
      /\ xRec[xLast[c]].phase = "restarting" /\ xKills[xLast[c]] = 0
  BY <1>1, <1>2, Stages, HandoverAssumption
     DEF Typed, IInv, Sound, Ties, HandoverAssumption, Idle, Moving, Flights
<1>4. xRec[xLast[c]] \in Journals /\ xRec[xLast[c]].ch = c
  BY <1>1, <1>3, Journaled DEF Typed, IInv, Sound, Ties
<1>5. CASE ~xFlight[c].current
  <2>1. Ended(c, "rejected") /\ UNCHANGED <<xSess, xProc, xTurn, xKills>>
    BY <1>5 DEF TearDown
  <2>2. xProc[c] = None \/ xProc[c] = xSess[c].acct
    BY DEF IInv, Sound, Runs
  <2> QED
    BY <1>1, <1>3, <2>1, <2>2, Ends DEF Typed, Phase, Moving
<1>6. CASE xFlight[c].current
  <2> DEFINE g == [xFlight[c] EXCEPT !.at = "stopped"]
  <2>1. g \in Move /\ g.at = "stopped" /\ g.req = xFlight[c].req
    BY <1>2, NextStage DEF Moving
  <2>2. /\ xFlight' = [xFlight EXCEPT ![c] = g] /\ xRec' = xRec
        /\ xSess' = [xSess EXCEPT ![c] = [acct |-> xRec[xLast[c]].to, pid |-> FALSE]]
        /\ xProc' = [xProc EXCEPT ![c] = None] /\ xTurn' = [xTurn EXCEPT ![c] = "idle"]
        /\ xKills' = [xKills EXCEPT ![xLast[c]] = 1]
    BY <1>1, <1>3, <1>6 DEF TearDown, Set, Typed
  <2> HIDE DEF g
  <2>3. xRec[xLast[c]].to \in Accounts
    BY <1>4, JournalFields
  <2>4. Typed'
    BY <1>1, <1>3, <2>1, <2>2, <2>3 DEF Typed, Flights
  <2>5. /\ xFlight'[c] = g /\ xProc'[c] = None /\ xKills'[xLast[c]] = 1
        /\ \A r \in Requests : r # xLast[c] => xKills'[r] = xKills[r]
        /\ \A d \in Channels : d # c => /\ xFlight'[d] = xFlight[d] /\ xSess'[d] = xSess[d]
                                       /\ xProc'[d] = xProc[d]
    BY <1>1, <1>3, <2>2 DEF Typed
  <2>6. Sound(c)'
    BY <1>3, <1>4, <2>1, <2>2, <2>5 DEF Sound, Ties, Runs, PhaseOf, Moving
  <2>7. Once(xLast[c])'
    BY <1>3, <2>2, <2>5 DEF Once, Spared
  <2> QED
    BY <1>3, <1>4, <2>2, <2>4, <2>5, <2>6, <2>7, TypesNamed, Locally
<1> QED
  BY <1>5, <1>6

\* A request is journaled, and its switch begins.
LEMMA Begins ==
    ASSUME IInv, NEW c \in Channels, NEW r \in Requests, Fresh(r), NEW j \in Journals,
           j.phase = "prepared", j.ch = c, NEW stage \in {"dormant", "credential"},
           Prepare(c, r, j, stage), UNCHANGED <<xSess, xProc, xTurn, xTask, xKills, xClosed>>
    PROVE  IInv'
<1>1. Typed
  BY TypesNamed DEF IInv
<1> DEFINE g == [at |-> stage, req |-> r, auto |-> j.auto, current |-> TRUE]
<1>2. g \in Move /\ g.at = stage /\ g.req = r
  BY DEF Move, Moving, Journals
<1>3. /\ xRec' = [xRec EXCEPT ![r] = j] /\ xLast' = [xLast EXCEPT ![c] = r]
      /\ xFlight' = [xFlight EXCEPT ![c] = g]
  BY DEF Prepare, Set
<1> HIDE DEF g
<1>4. Typed'
  BY <1>1, <1>2, <1>3 DEF Typed, Flights, Records
<1>5. /\ xRec'[r] = j /\ xLast'[c] = r /\ xFlight'[c] = g /\ r # None
      /\ \A s \in Requests : s # r => xRec'[s] = xRec[s]
      /\ \A d \in Channels : d # c => xFlight'[d] = xFlight[d] /\ xLast'[d] = xLast[d]
  BY <1>1, <1>3, HandoverAssumption DEF Typed, HandoverAssumption
<1>6. xKills[r] = 0
  BY DEF IInv, Once, Fresh, Spared
<1>7. Sound(c)'
  BY <1>2, <1>5 DEF IInv, Sound, Ties, Runs, PhaseOf, Moving
<1>8. Once(r)'
  BY <1>6 DEF Once
<1> QED
  BY <1>4, <1>5, <1>7, <1>8, TypesNamed, Locally DEF Fresh

\* Every await of a switch, of a proof or of a check that comes back.
LEMMA FlightStep == ASSUME IInv, NEW c \in Channels, Flies(c) PROVE IInv'
<1>1. Typed
  BY TypesNamed DEF IInv
<1>2. xFlight[c] \in Flights
  BY <1>1 DEF Typed
<1>3. xProc[c] = None \/ xProc[c] = xSess[c].acct
  BY DEF IInv, Sound, Runs
<1>m. ASSUME xFlight[c].at \in Moving
      PROVE  /\ xFlight[c] \in Move /\ xLast[c] = xFlight[c].req
             /\ xLast[c] \in Requests /\ xLast[c] # None
             /\ xRec[xLast[c]] \in Journals /\ xRec[xLast[c]].ch = c
             /\ xRec[xLast[c]].phase = IF xFlight[c].at \in {"dormant", "credential"}
                                       THEN "prepared" ELSE "restarting"
  <2>1. xFlight[c] \in Move /\ xLast[c] = xFlight[c].req /\ xLast[c] \in Requests
    BY <1>2, <1>m, Stages DEF IInv, Sound, Ties, Idle, Moving
  <2>2. xLast[c] # None
    BY <2>1, HandoverAssumption DEF HandoverAssumption
  <2> QED
    BY <1>1, <1>m, <2>1, <2>2, Journaled DEF Typed, IInv, Sound, Ties
<1>n. ASSUME xRec[xLast[c]].phase \in Spared, xLast[c] \in Requests PROVE xKills[xLast[c]] = 0
  BY <1>n DEF IInv, Once
<1>4. CASE LimitProved(c)
  <2>1. xFlight[c] \in Inspect /\ xFlight[c].req \in Requests /\ xFlight[c].j \in Journals
    BY <1>2, <1>4, Stages DEF LimitProved, Idle, Inspect
  <2>2. CASE xFlight' = Set(xFlight, c, Idle) /\ UNCHANGED <<xRec, xLast>>
    <3>1. Typed'
      BY <1>1, <1>4, <2>2 DEF LimitProved, Typed, Set, Flights
    <3>2. /\ xFlight'[c] = Idle
          /\ \A d \in Channels : d # c => xFlight'[d] = xFlight[d]
      BY <1>1, <2>2 DEF Set, Typed
    <3>3. Sound(c)'
      BY <1>4, <2>2, <3>2 DEF LimitProved, IInv, Sound, Ties, Runs, PhaseOf, Idle, Moving
    <3> QED
      BY <1>4, <2>2, <3>1, <3>2, <3>3, TypesNamed, Locally DEF LimitProved
  <2>3. CASE Fresh(xFlight[c].req) /\ Prepare(c, xFlight[c].req, xFlight[c].j, "credential")
    <3>1. xFlight[c].j.phase = "prepared" /\ xFlight[c].j.ch = c
      BY <1>4 DEF LimitProved, IInv, Sound, Ties
    <3> QED
      BY <1>4, <2>1, <2>3, <3>1, Begins DEF LimitProved
  <2> QED
    BY <1>4, <2>2, <2>3 DEF LimitProved
<1>5. CASE Selected(c)
  <2>1. xFlight[c].at = "dormant" /\ xFlight[c].at \in Moving
    BY <1>5 DEF Selected, Moving
  <2>2. xRec[xLast[c]].phase = "prepared" /\ xKills[xLast[c]] = 0
    BY <1>m, <1>n, <2>1 DEF Spared
  <2>3. CASE Ended(c, "rejected") /\ UNCHANGED xSess
    BY <1>1, <1>3, <1>5, <2>1, <2>2, <2>3, Ends DEF Selected, Phase, Typed
  <2>4. CASE /\ xProc[c] = None /\ Ended(c, "selected")
             /\ xSess' = [xSess EXCEPT ![c].acct = xRec[xFlight[c].req].to]
    <3>1. xRec[xFlight[c].req].to \in Accounts
      BY <1>m, <2>1, JournalFields
    <3>2. /\ xSess' \in [Channels -> [acct : Accounts, pid : BOOLEAN]]
          /\ \A d \in Channels : d # c => xSess'[d] = xSess[d]
      <4>1. PICK n : n = [xSess[c] EXCEPT !.acct = xRec[xFlight[c].req].to]
        OBVIOUS
      <4>2. n \in [acct : Accounts, pid : BOOLEAN]
        BY <1>1, <3>1, <4>1 DEF Typed
      <4>3. xSess' = [xSess EXCEPT ![c] = n]
        BY <2>4, <4>1
      <4> QED
        BY <1>1, <4>2, <4>3 DEF Typed
    <3> QED
      BY <1>1, <1>5, <2>1, <2>2, <2>4, <3>2, Ends DEF Selected, Phase, Typed
  <2> QED
    BY <1>5, <2>3, <2>4 DEF Selected
<1>6. CASE CredentialChecked(c)
  <2>1. xFlight[c].at = "credential" /\ xFlight[c].at \in Moving
    BY <1>6 DEF CredentialChecked, Moving
  <2>2. xRec[xLast[c]].phase = "prepared" /\ xKills[xLast[c]] = 0
    BY <1>m, <1>n, <2>1 DEF Spared
  <2>3. CASE Ended(c, "rejected")
    BY <1>1, <1>3, <1>6, <2>1, <2>2, <2>3, Ends DEF CredentialChecked, Phase, Typed
  <2>4. CASE /\ xRec' = WithPhase(xFlight[c].req, "restarting")
             /\ xFlight' = [xFlight EXCEPT ![c].at = "preflight"]
    <3> DEFINE y == [xRec[xLast[c]] EXCEPT !.phase = "restarting"]
               g == [xFlight[c] EXCEPT !.at = "preflight"]
    <3>1. y \in Journals /\ y.phase = "restarting" /\ y.ch = c
      BY <1>m, <2>1, NewPhase DEF Phase
    <3>2. g \in Move /\ g.at = "preflight" /\ g.req = xLast[c]
      BY <1>m, <2>1, NextStage DEF Moving
    <3>3. xRec' = [xRec EXCEPT ![xLast[c]] = y] /\ xFlight' = [xFlight EXCEPT ![c] = g]
      BY <1>1, <1>m, <2>1, <2>4 DEF WithPhase, Typed
    <3> HIDE DEF y, g
    <3>4. /\ xRec'[xLast[c]] = y /\ xFlight'[c] = g
          /\ \A r \in Requests : r # xLast[c] => xRec'[r] = xRec[r]
          /\ \A d \in Channels : d # c => xFlight'[d] = xFlight[d]
      BY <1>1, <1>m, <2>1, <3>3 DEF Typed
    <3>5. Typed'
      <4>1. xRec' \in [Requests -> Records] /\ xFlight' \in [Channels -> Flights]
        BY <1>1, <1>m, <2>1, <3>1, <3>2, <3>3 DEF Typed, Records, Flights
      <4> QED
        BY <1>1, <1>6, <4>1 DEF CredentialChecked, Typed
    <3>6. Sound(c)'
      BY <1>m, <1>3, <1>6, <2>1, <2>2, <3>1, <3>2, <3>4
         DEF CredentialChecked, Sound, Ties, Runs, PhaseOf, Moving
    <3>7. Once(xLast[c])'
      BY <1>6, <1>m, <2>1, <2>2, <3>1, <3>4 DEF CredentialChecked, Once, Spared
    <3> QED
      BY <1>6, <1>m, <2>1, <3>4, <3>5, <3>6, <3>7, TypesNamed, Locally DEF CredentialChecked
  <2> QED
    BY <1>6, <2>3, <2>4 DEF CredentialChecked
<1>7. CASE Preflight(c)
  <2>1. xFlight[c].at = "preflight" /\ xFlight[c].at \in Moving
    BY <1>7 DEF Preflight, Moving
  <2>2. xRec[xLast[c]].phase = "restarting" /\ xKills[xLast[c]] = 0
    BY <1>m, <2>1 DEF IInv, Sound, Ties
  <2>3. CASE Ended(c, "rejected") /\ UNCHANGED <<xSess, xProc, xTurn, xKills>>
    BY <1>1, <1>3, <1>7, <2>1, <2>2, <2>3, Ends DEF Preflight, Phase, Typed
  <2>4. CASE /\ xFlight' = [xFlight EXCEPT ![c].at = "last"]
             /\ UNCHANGED <<xSess, xProc, xTurn, xRec, xKills>>
    <3>1. xFlight' = [xFlight EXCEPT ![c] = [xFlight[c] EXCEPT !.at = "last"]]
      BY <2>4
    <3> QED
      BY <1>1, <1>3, <1>7, <1>m, <2>1, <2>2, <2>4, <3>1, GoesOn DEF Preflight, Moving, Typed
  <2>5. CASE TearDown(c)
    BY <1>7, <2>1, <2>5, TearsDown DEF Preflight
  <2> QED
    BY <1>7, <2>3, <2>4, <2>5 DEF Preflight
<1>8. CASE Stopped(c)
  <2>1. xFlight[c].at = "last" /\ xFlight[c].at \in Moving
    BY <1>8 DEF Stopped, Moving
  <2>2. xKills[xLast[c]] = 0
    BY <2>1 DEF IInv, Sound, Ties
  <2>3. CASE Ended(c, "rejected") /\ UNCHANGED <<xSess, xProc, xTurn, xKills>>
    BY <1>1, <1>3, <1>8, <2>1, <2>2, <2>3, Ends DEF Stopped, Phase, Typed
  <2>4. CASE TearDown(c)
    BY <1>8, <2>1, <2>4, TearsDown DEF Stopped
  <2> QED
    BY <1>8, <2>3, <2>4 DEF Stopped
<1>9. CASE Spawned(c)
  <2>1. xFlight[c].at = "stopped" /\ xFlight[c].at \in Moving
    BY <1>9 DEF Spawned, Moving
  <2>2. CASE Ended(c, "interrupted") /\ UNCHANGED xProc
    BY <1>1, <1>3, <1>9, <2>1, <2>2, Ends DEF Spawned, Phase, Spared, Typed
  <2>3. CASE /\ xProc' = Set(xProc, c, xSess[c].acct) /\ UNCHANGED xRec
             /\ xFlight' = [xFlight EXCEPT ![c].at = "starting"]
    <3>1. /\ xFlight' = [xFlight EXCEPT ![c] = [xFlight[c] EXCEPT !.at = "starting"]]
          /\ xProc' = [xProc EXCEPT ![c] = xSess[c].acct]
      BY <2>3 DEF Set
    <3>2. /\ xProc' \in [Channels -> Accounts \cup {None}] /\ xProc'[c] = xSess[c].acct
          /\ \A d \in Channels : d # c => xProc'[d] = xProc[d]
      BY <1>1, <3>1 DEF Typed
    <3>3. xRec[xLast[c]].phase = "restarting"
      BY <1>m, <2>1
    <3> QED
      BY <1>1, <1>9, <1>m, <2>1, <2>3, <3>1, <3>2, <3>3, GoesOn DEF Spawned, Moving, Typed
  <2> QED
    BY <1>9, <2>2, <2>3 DEF Spawned
<1>10. CASE Started(c)
  <2>1. xFlight[c].at = "starting" /\ xFlight[c].at \in Moving
    BY <1>10 DEF Started, Moving
  <2>2. CASE Ended(c, "interrupted") /\ xProc' = Set(xProc, c, None) /\ UNCHANGED xSess
    <3>1. /\ xProc' \in [Channels -> Accounts \cup {None}] /\ xProc'[c] = None
          /\ \A d \in Channels : d # c => xProc'[d] = xProc[d]
      BY <1>1, <2>2 DEF Typed, Set
    <3> QED
      BY <1>1, <1>10, <2>1, <2>2, <3>1, Ends DEF Started, Phase, Spared, Typed
  <2>3. CASE /\ UNCHANGED xProc /\ xSess' = [xSess EXCEPT ![c].pid = TRUE]
             /\ IF xFlight[c].current
                THEN xFlight' = [xFlight EXCEPT ![c].at = "verify"] /\ UNCHANGED xRec
                ELSE Ended(c, "interrupted")
    <3>1. /\ xSess' \in [Channels -> [acct : Accounts, pid : BOOLEAN]]
          /\ xSess'[c].acct = xSess[c].acct
          /\ \A d \in Channels : d # c => xSess'[d] = xSess[d]
      BY <1>1, <2>3, PidOnly
    <3>2. CASE xFlight[c].current
      <4>1. xFlight' = [xFlight EXCEPT ![c] = [xFlight[c] EXCEPT !.at = "verify"]]
        BY <2>3, <3>2
      <4>2. xRec[xLast[c]].phase = "restarting"
        BY <1>m, <2>1
      <4> QED
        <5>1. /\ UNCHANGED <<xTurn, xTask, xRec, xLast, xKills, xClosed, xProc>>
              /\ xFlight[c] \in Move
          BY <1>10, <1>m, <2>1, <2>3, <3>2 DEF Started
        <5>2. xProc \in [Channels -> Accounts \cup {None}]
          BY <1>1 DEF Typed
        <5>3. xProc[c] = None \/ xProc[c] = xSess[c].acct
          BY <1>3, <1>10, <1>m, <2>1 DEF Started, Moving
        <5>4. /\ "verify" \in Moving
              /\ "verify" \notin {"dormant", "credential", "preflight", "last"}
          BY DEF Moving
        <5> QED
          BY <3>1, <4>1, <4>2, <5>1, <5>2, <5>3, <5>4, GoesOn
    <3>3. CASE ~xFlight[c].current
      BY <1>1, <1>3, <1>10, <2>1, <2>3, <3>1, <3>3, Ends DEF Started, Phase, Spared, Typed
    <3> QED
      BY <3>2, <3>3
  <2> QED
    BY <1>10, <2>2, <2>3 DEF Started
<1>11. CASE Verified(c)
  <2>1. xFlight[c].at = "verify" /\ xFlight[c].at \in Moving
    BY <1>11 DEF Verified, Moving
  <2>2. CASE Ended(c, "interrupted")
    BY <1>1, <1>3, <1>11, <2>1, <2>2, Ends DEF Verified, Phase, Spared, Typed
  <2>3. CASE OnTarget(c, xRec[xFlight[c].req]) /\ Ended(c, "committed")
    BY <1>1, <1>3, <1>11, <1>m, <2>1, <2>3, Ends DEF Verified, Phase, Spared, Typed, OnTarget
  <2> QED
    BY <1>11, <2>2, <2>3 DEF Verified
<1>c. ASSUME xFlight[c].at \in {"adopt", "certify"}, UNCHANGED <<xProc, xRec, xLast, xKills>>,
             Typed', xSess'[c].acct = xSess[c].acct,
             \A d \in Channels : d # c => xSess'[d] = xSess[d] /\ xFlight'[d] = xFlight[d],
             \/ xFlight'[c] = Idle
             \/ xFlight'[c].at = "certify" /\ xFlight'[c].req = xFlight[c].req
      PROVE  IInv'
  <2>1. Sound(c)'
    BY <1>c DEF IInv, Sound, Ties, Runs, PhaseOf, Idle, Moving
  <2> QED
    BY <1>c, <2>1, TypesNamed, Locally
<1>12. CASE Adopted(c)
  <2>1. xFlight[c].at = "adopt" /\ xFlight[c] \in Check
    BY <1>2, <1>12, Stages DEF Adopted
  <2>2. CASE xFlight' = Set(xFlight, c, Idle) /\ UNCHANGED xSess
    <3>1. xFlight' \in [Channels -> Flights] /\ xFlight'[c] = Idle
             /\ \A d \in Channels : d # c => xFlight'[d] = xFlight[d]
      BY <1>1, <2>2 DEF Set, Typed, Flights
    <3>2. Typed'
      BY <1>1, <1>12, <2>2, <3>1 DEF Adopted, Typed
    <3> QED
      BY <1>12, <1>c, <2>1, <2>2, <3>1, <3>2 DEF Adopted
  <2>3. CASE /\ xSess' = [xSess EXCEPT ![c].pid = TRUE]
             /\ xFlight' = [xFlight EXCEPT ![c].at = "certify"]
    <3> DEFINE g == [xFlight[c] EXCEPT !.at = "certify"]
    <3>1. g \in Check /\ g.at = "certify" /\ g.req = xFlight[c].req
      BY <2>1 DEF Check
    <3>2. xFlight' = [xFlight EXCEPT ![c] = g]
      BY <2>3
    <3> HIDE DEF g
    <3>3. /\ xFlight' \in [Channels -> Flights] /\ xFlight'[c] = g
          /\ \A d \in Channels : d # c => xFlight'[d] = xFlight[d]
      BY <1>1, <3>1, <3>2 DEF Typed, Flights
    <3>4. /\ xSess' \in [Channels -> [acct : Accounts, pid : BOOLEAN]]
          /\ xSess'[c].acct = xSess[c].acct
          /\ \A d \in Channels : d # c => xSess'[d] = xSess[d]
      BY <1>1, <2>3 DEF Typed
    <3>5. Typed'
      BY <1>1, <1>12, <3>3, <3>4 DEF Adopted, Typed
    <3> QED
      BY <1>12, <1>c, <2>1, <3>1, <3>3, <3>4, <3>5 DEF Adopted
  <2> QED
    BY <1>12, <2>2, <2>3 DEF Adopted
<1>13. CASE Certified(c)
  <2>1. xFlight[c].at = "certify"
    BY <1>13 DEF Certified
  <2>2. CASE OnTarget(c, xRec[xFlight[c].req]) /\ Ended(c, "reconciled")
    <3>1. xLast[c] = xFlight[c].req
      BY <2>1 DEF IInv, Sound, Ties
    <3> QED
      BY <1>1, <1>3, <1>13, <2>1, <2>2, <3>1, Ends DEF Certified, Phase, Spared, Typed, OnTarget
  <2>3. CASE xFlight' = Set(xFlight, c, Idle) /\ UNCHANGED xRec
    <3>1. xFlight' \in [Channels -> Flights] /\ xFlight'[c] = Idle
             /\ \A d \in Channels : d # c => xFlight'[d] = xFlight[d]
      BY <1>1, <2>3 DEF Set, Typed, Flights
    <3>2. Typed'
      BY <1>1, <1>13, <2>3, <3>1 DEF Certified, Typed
    <3> QED
      BY <1>13, <1>c, <2>1, <2>3, <3>1, <3>2 DEF Certified
  <2> QED
    BY <1>13, <2>2, <2>3 DEF Certified
<1> QED
  BY <1>4, <1>5, <1>6, <1>7, <1>8, <1>9, <1>10, <1>11, <1>12, <1>13 DEF Flies

\* The channel is held while the daemon looks at a usage limit or an uncertain handover.
LEMMA Looks ==
    ASSUME IInv, NEW c \in Channels, xFlight[c] = Idle, NEW g \in Flights,
           xFlight' = [xFlight EXCEPT ![c] = g],
           UNCHANGED <<xSess, xProc, xTurn, xTask, xRec, xLast, xKills, xClosed>>,
           \/ g.at = "proof" /\ g.j.phase = "prepared" /\ g.j.ch = c
           \/ /\ g.at \in {"adopt", "certify"} /\ g.req = xLast[c]
              /\ xRec[xLast[c]].phase = "interrupted"
    PROVE  IInv'
<1>1. Typed
  BY TypesNamed DEF IInv
<1>2. /\ xFlight' \in [Channels -> Flights] /\ xFlight'[c] = g
      /\ \A d \in Channels : d # c => xFlight'[d] = xFlight[d]
  BY <1>1 DEF Typed
<1>3. Typed'
  BY <1>1, <1>2 DEF Typed
<1>4. Sound(c)'
  BY <1>2 DEF IInv, Sound, Ties, Runs, PhaseOf, Moving
<1> QED
  BY <1>2, <1>3, <1>4, TypesNamed, Locally

\* The requests of the owner and of the tick.
LEMMA RequestStep ==
    ASSUME IInv, NEW c \in Channels, NEW r \in Requests, NEW q \in Request,
           Switch(c, r, q) \/ LimitSwitch(c, r, q)
    PROVE  IInv'
<1>1. Typed
  BY TypesNamed DEF IInv
<1>2. Journal(c, q) \in Journals /\ Journal(c, q).phase = "prepared" /\ Journal(c, q).ch = c
  BY <1>1 DEF Typed, Journal, Journals, Phase, Request
<1>3. CASE Switch(c, r, q)
  <2>1. \/ Prepare(c, r, Journal(c, q), "credential")
        \/ Prepare(c, r, Journal(c, q), "dormant")
    BY <1>3 DEF Switch
  <2> QED
    BY <1>2, <1>3, <2>1, Begins DEF Switch
<1>4. CASE LimitSwitch(c, r, q)
  <2> DEFINE g == [at |-> "proof", req |-> r, auto |-> q.auto, current |-> TRUE,
                   from |-> xSess[c].acct, j |-> Journal(c, q)]
  <2>1. g \in Inspect /\ g.at = "proof" /\ g.j = Journal(c, q)
    BY <1>1, <1>2 DEF Inspect, Request, Typed
  <2>2. xFlight' = [xFlight EXCEPT ![c] = g] /\ xFlight[c] = Idle
    BY <1>4 DEF LimitSwitch, Set
  <2>3. g \in Flights
    BY <2>1 DEF Flights
  <2> HIDE DEF g
  <2>4. g.at = "proof" /\ g.j.phase = "prepared" /\ g.j.ch = c
    BY <1>2, <2>1
  <2>5. UNCHANGED <<xSess, xProc, xTurn, xTask, xRec, xLast, xKills, xClosed>>
    BY <1>4 DEF LimitSwitch
  <2> QED
    BY <1>2, <2>1, <2>2, <2>3, <2>4, <2>5, Looks
<1> QED
  BY <1>3, <1>4

\* The owner asks to verify an uncertain handover.
LEMMA ReconcileStep == ASSUME IInv, NEW c \in Channels, Reconcile(c) PROVE IInv'
<1>1. Typed
  BY TypesNamed DEF IInv
<1> DEFINE g == [at |-> IF xSess[c].pid THEN "certify" ELSE "adopt", req |-> xLast[c],
                 current |-> TRUE]
<1>2. PhaseOf(c) = "interrupted" /\ xLast[c] # None /\ xLast[c] \in Requests
  BY <1>1 DEF Reconcile, PhaseOf, Typed
<1>3. g \in Check /\ g.at \in {"adopt", "certify"} /\ g.req = xLast[c]
  BY <1>2 DEF Check
<1>4. xFlight' = [xFlight EXCEPT ![c] = g] /\ xFlight[c] = Idle
  BY DEF Reconcile, Set
<1>5. g \in Flights
  BY <1>3 DEF Flights
<1> HIDE DEF g
<1> QED
  BY <1>2, <1>3, <1>4, <1>5, Looks DEF Reconcile, PhaseOf

SessionStep(c) ==
    \/ TurnBegins(c) \/ TurnEnds(c) \/ TaskBegins(c) \/ TaskMoves(c) \/ Released(c)
    \/ TeamCloses(c) \/ Dies(c) \/ Reaped(c) \/ Binds(c) \/ Wakes(c)

\* What happens to the session, its process and its task meanwhile.
LEMMA OwnStep == ASSUME IInv, NEW c \in Channels, SessionStep(c) PROVE IInv'
<1>1. Typed
  BY TypesNamed DEF IInv
<1>k. ASSUME UNCHANGED <<xRec, xLast, xFlight, xKills>>,
             xSess' \in [Channels -> [acct : Accounts, pid : BOOLEAN]],
             xProc' \in [Channels -> Accounts \cup {None}],
             xTurn' \in [Channels -> {"idle", "busy", "limit"}],
             xTask' \in [Channels -> [st : {"none", "running", "reported"}, ver : 0..MaxTask]],
             xClosed' \in [Channels -> BOOLEAN],
             \A d \in Channels : /\ xSess'[d].acct = xSess[d].acct
                                 /\ xProc'[d] \in {None, xProc[d], xSess[d].acct}
      PROVE  IInv'
  <2>1. Typed'
    BY <1>1, <1>k DEF Typed
  <2>2. \A d \in Channels : Sound(d)'
    BY <1>k DEF IInv, Sound, Ties, Runs, PhaseOf
  <2>3. \A r \in Requests : Once(r)'
    BY <1>k DEF IInv, Once
  <2> QED
    BY <2>1, <2>2, <2>3, TypesNamed DEF IInv
<1>2. CASE TurnBegins(c)
  BY <1>1, <1>2, <1>k DEF TurnBegins, Set, Typed
<1>3. CASE TurnEnds(c)
  BY <1>1, <1>3, <1>k DEF TurnEnds, Set, Typed
<1>4. CASE TaskBegins(c)
  <2>1. xTask[c].ver + 1 \in 0..MaxTask
    BY <1>1, <1>4, HandoverAssumption DEF TaskBegins, Typed, HandoverAssumption
  <2>2. xTask' \in [Channels -> [st : {"none", "running", "reported"}, ver : 0..MaxTask]]
    BY <1>1, <1>4, <2>1 DEF TaskBegins, Set, Typed
  <2> QED
    BY <1>1, <1>4, <1>k, <2>2 DEF TaskBegins, Typed
<1>5. CASE TaskMoves(c)
  <2>1. xTask[c].ver + 1 \in 0..MaxTask
    BY <1>1, <1>5, HandoverAssumption DEF TaskMoves, Typed, HandoverAssumption
  <2>2. xTask' \in [Channels -> [st : {"none", "running", "reported"}, ver : 0..MaxTask]]
    BY <1>1, <1>5, <2>1 DEF TaskMoves, Set, Typed
  <2> QED
    BY <1>1, <1>5, <1>k, <2>2 DEF TaskMoves, Typed
<1>6. CASE Released(c)
  BY <1>1, <1>6, <1>k DEF Released, Typed
<1>7. CASE TeamCloses(c)
  BY <1>1, <1>7, <1>k DEF TeamCloses, Set, Typed
<1>8. CASE Dies(c)
  BY <1>1, <1>8, <1>k DEF Dies, Set, Typed
<1>9. CASE Reaped(c)
  <2>1. /\ xSess' \in [Channels -> [acct : Accounts, pid : BOOLEAN]]
        /\ \A d \in Channels : xSess'[d].acct = xSess[d].acct
    BY <1>1, <1>9, PidOnly DEF Reaped
  <2>2. xTask' \in [Channels -> [st : {"none", "running", "reported"}, ver : 0..MaxTask]]
    BY <1>1, <1>9 DEF Reaped, FailedTask, Typed
  <2> QED
    BY <1>1, <1>9, <1>k, <2>1, <2>2 DEF Reaped, Typed
<1>10. CASE Binds(c)
  <2>1. /\ xSess' \in [Channels -> [acct : Accounts, pid : BOOLEAN]]
        /\ \A d \in Channels : xSess'[d].acct = xSess[d].acct
    BY <1>1, <1>10, PidOnly DEF Binds
  <2> QED
    BY <1>1, <1>10, <1>k, <2>1 DEF Binds, Typed
<1>11. CASE Wakes(c)
  <2>1. /\ xSess' \in [Channels -> [acct : Accounts, pid : BOOLEAN]]
        /\ \A d \in Channels : xSess'[d].acct = xSess[d].acct
    BY <1>1, <1>11, PidOnly DEF Wakes
  <2>2. /\ xProc' \in [Channels -> Accounts \cup {None}]
        /\ \A d \in Channels : xProc'[d] \in {xProc[d], xSess[d].acct}
    BY <1>1, <1>11 DEF Wakes, Set, Typed
  <2> QED
    BY <1>1, <1>11, <1>k, <2>1, <2>2 DEF Wakes, Typed
<1> QED
  BY <1>2, <1>3, <1>4, <1>5, <1>6, <1>7, <1>8, <1>9, <1>10, <1>11 DEF SessionStep

\* Recovery settles only what no flight owns.
LEMMA RecoverStep == ASSUME IInv, Recover PROVE IInv'
<1>1. Typed
  BY TypesNamed DEF IInv
<1>2. \A r \in Requests : xRec'[r] = IF Stale(r) THEN [xRec[r] EXCEPT !.phase = "interrupted"]
                                     ELSE xRec[r]
  BY DEF Recover
<1>3. ASSUME NEW r \in Requests
      PROVE  /\ xRec'[r] \in Records
             /\ xRec'[r].phase # "none" <=> xRec[r].phase # "none"
             /\ xRec[r].phase # "none" => xRec'[r].ch = xRec[r].ch /\ xRec'[r].to = xRec[r].to
             /\ xRec'[r] = xRec[r] \/ (Stale(r) /\ xRec'[r].phase = "interrupted")
  <2>1. CASE Stale(r)
    <3>1. xRec[r] \in Journals
      BY <1>1, <2>1, Journaled DEF Stale, Typed
    <3> DEFINE y == [xRec[r] EXCEPT !.phase = "interrupted"]
    <3>2. /\ y \in Journals /\ y.phase = "interrupted"
          /\ y.ch = xRec[r].ch /\ y.to = xRec[r].to
      BY <3>1, NewPhase DEF Phase
    <3>3. xRec'[r] = y
      BY <1>2, <2>1
    <3> HIDE DEF y
    <3> QED
      BY <2>1, <3>1, <3>2, <3>3, JournalFields DEF Records
  <2>2. CASE ~Stale(r)
    BY <1>1, <1>2, <2>2 DEF Typed
  <2> QED
    BY <2>1, <2>2
<1>4. UNCHANGED <<xSess, xProc, xTurn, xTask, xLast, xFlight, xKills, xClosed>>
  BY DEF Recover
<1>5. Typed'
  <2>1. xRec' \in [Requests -> Records]
    BY <1>3 DEF Recover
  <2> QED
    BY <1>1, <1>4, <2>1 DEF Typed
<1>6. ASSUME NEW r \in Requests PROVE Once(r)'
  BY <1>3, <1>4 DEF IInv, Once, Spared
<1>7. ASSUME NEW c \in Channels PROVE Sound(c)'
  <2>1. xLast[c] # None => xLast[c] \in Requests
    BY <1>1 DEF Typed
  <2>2. xFlight[c].at \in Moving \cup {"adopt", "certify"}
           => /\ xLast[c] # None /\ xRec'[xLast[c]] = xRec[xLast[c]]
    <3>1. xFlight[c] \in Flights
      BY <1>1 DEF Typed
    <3>2. ASSUME xFlight[c].at \in Moving \cup {"adopt", "certify"}
          PROVE  xFlight[c] # Idle /\ xLast[c] # None /\ xLast[c] \in Requests
      BY <3>1, <3>2, Stages, HandoverAssumption
         DEF IInv, Sound, Ties, Idle, Moving, HandoverAssumption
    <3>3. ASSUME xFlight[c].at \in Moving \cup {"adopt", "certify"}
          PROVE  ~Stale(xLast[c])
      BY <3>2, <3>3 DEF IInv, Sound, Ties, Stale
    <3> QED
      BY <1>3, <3>2, <3>3
  <2>3. Ties(c)'
    BY <1>3, <1>4, <1>7, <2>1, <2>2 DEF IInv, Sound, Ties
  <2>4. Runs(c)'
    BY <1>3, <1>4, <1>7, <2>1 DEF IInv, Sound, Ties, Runs, PhaseOf
  <2> QED
    BY <2>3, <2>4 DEF Sound
<1> QED
  BY <1>5, <1>6, <1>7, TypesNamed DEF IInv

\* A change of the account registry, and a restart of the daemon.
LEMMA DaemonStep == ASSUME IInv, RegistryChanges \/ Crash PROVE IInv'
<1>1. Typed
  BY TypesNamed DEF IInv
<1>2. UNCHANGED <<xSess, xProc, xTurn, xTask, xRec, xLast, xKills, xClosed>>
  BY DEF RegistryChanges, Crash
<1>3. \A c \in Channels :
         /\ xFlight'[c] \in Flights
         /\ \/ xFlight'[c] = Idle
            \/ /\ xFlight'[c].at = xFlight[c].at /\ xFlight'[c].req = xFlight[c].req
               /\ xFlight[c].at = "proof" => xFlight'[c].j = xFlight[c].j
  <2>1. CASE Crash
    BY <2>1 DEF Crash, Flights
  <2>2. CASE RegistryChanges
    <3> SUFFICES ASSUME NEW c \in Channels, xFlight[c] # Idle
                 PROVE  LET g == [xFlight[c] EXCEPT !.current = FALSE] IN
                        /\ g \in Flights /\ g.at = xFlight[c].at /\ g.req = xFlight[c].req
                        /\ xFlight[c].at = "proof" => g.j = xFlight[c].j
      BY <1>1, <2>2 DEF RegistryChanges, Typed, Flights
    <3>1. xFlight[c] \in Flights
      BY <1>1 DEF Typed
    <3>2. xFlight[c].at = "proof" => [xFlight[c] EXCEPT !.current = FALSE].j = xFlight[c].j
      BY <3>1, Stages DEF Inspect
    <3> QED
      BY <3>1, <3>2, NotCurrent
  <2> QED
    BY <2>1, <2>2
<1>4. Typed'
  <2>1. xFlight' \in [Channels -> Flights]
    BY <1>3 DEF RegistryChanges, Crash
  <2> QED
    BY <1>1, <1>2, <2>1 DEF Typed
<1>5. ASSUME NEW c \in Channels PROVE Sound(c)'
  <2>1. Ties(c)'
    BY <1>2, <1>3, <1>5 DEF IInv, Sound, Ties, Idle, Moving
  <2>2. Runs(c)'
    BY <1>2, <1>5 DEF IInv, Sound, Runs, PhaseOf
  <2> QED
    BY <2>1, <2>2 DEF Sound
<1>6. \A r \in Requests : Once(r)'
  BY <1>2 DEF IInv, Once
<1> QED
  BY <1>4, <1>5, <1>6, TypesNamed DEF IInv

\* Nothing is journaled and nothing moves at first.
LEMMA Initially == Init => IInv
<1> SUFFICES ASSUME Init PROVE IInv
  OBVIOUS
<1>1. TypeOK
  <2>1. 0 \in 0..MaxTask
    BY HandoverAssumption DEF HandoverAssumption
  <2>2. xTask \in [Channels -> [st : {"none", "running", "reported"}, ver : 0..MaxTask]]
    BY <2>1 DEF Init
  <2> QED
    BY <2>2 DEF Init, TypeOK
<1>2. \A c \in Channels : Sound(c)
  BY DEF Init, Sound, Ties, Runs, PhaseOf, Idle, Moving
<1>3. \A r \in Requests : Once(r)
  BY DEF Init, Once, Spared
<1> QED
  BY <1>1, <1>2, <1>3 DEF IInv

LEMMA Inductive == Spec => []IInv
<1>1. IInv /\ [Next]_vars => IInv'
  <2> SUFFICES ASSUME IInv, [Next]_vars PROVE IInv'
    OBVIOUS
  <2>1. CASE UNCHANGED vars
    BY <2>1, TypesNamed DEF vars, IInv, Typed, Sound, Ties, Runs, PhaseOf, Once
  <2>2. CASE Next
    BY <2>2, RequestStep, ReconcileStep, FlightStep, OwnStep, RecoverStep, DaemonStep
       DEF Next, SessionStep
  <2> QED
    BY <2>1, <2>2
<1> QED
  BY Initially, <1>1, PTL DEF Spec

-----------------------------------------------------------------------------
(* The results                                                             *)

\* The types of the journals, the flights and the sessions, for any channels, accounts and
\* requests (account-pool-runtime.mjs).
THEOREM TypeCorrect == Spec => []TypeOK
<1>1. IInv => TypeOK
  BY DEF IInv
<1> QED
  BY Inductive, <1>1, PTL

\* A request tears down at most one process and none that it did not have to, and a settled
\* session runs on the account its journal names, through lost processes, retries and any
\* number of restarts (switchAccount, recover and reconcile of account-pool-runtime.mjs).
THEOREM HandoverIsSound == Spec => []HandoverSound
<1>1. IInv => TornDownOnce
  BY DEF IInv, Once, Spared, TornDownOnce
<1>2. IInv => SettledRuns
  BY DEF IInv, Sound, Runs, SettledRuns, Bound
<1> QED
  BY Inductive, <1>1, <1>2, PTL DEF HandoverSound

\* While a handover that carries a task is pending or uncertain nothing but the closing of
\* the team touches the task (taskMaintenancePending and its callers).
THEOREM HeldTaskKept == Spec => TaskKept
<1>1. ASSUME IInv, [Next]_vars, NEW c \in Channels, PhaseOf(c) \in Uncertain,
             xRec[xLast[c]].task, xTask'[c] # xTask[c]
      PROVE  xClosed'[c] # xClosed[c]
  <2>0. Typed /\ Held(c) /\ ~InputAllowed(c)
    BY <1>1, TypesNamed DEF IInv, Held, Holding, InputAllowed
  <2>1. ASSUME NEW d \in Channels, TaskMoves(d) \/ TaskBegins(d) \/ Released(d) \/ Reaped(d)
        PROVE  xTask'[c] = xTask[c]
    BY <2>0, <2>1 DEF TaskMoves, TaskBegins, Released, Reaped, FailedTask, Set, Typed
  <2>2. ASSUME NEW d \in Channels, TeamCloses(d)
        PROVE  xTask'[c] = xTask[c] \/ xClosed'[c] # xClosed[c]
    BY <2>0, <2>2 DEF TeamCloses, Set, Typed
  <2>3. ASSUME NEW d \in Channels, NEW r \in Requests, NEW q \in Request,
               Switch(d, r, q) \/ LimitSwitch(d, r, q)
        PROVE  xTask' = xTask
    BY <2>3 DEF Switch, LimitSwitch
  <2>4. ASSUME NEW d \in Channels, Flies(d) PROVE xTask' = xTask
    BY <2>4 DEF Flies, LimitProved, Selected, CredentialChecked, Preflight, Stopped, Spawned,
         Started, Verified, Adopted, Certified
  <2>5. ASSUME NEW d \in Channels,
               Reconcile(d) \/ TurnBegins(d) \/ TurnEnds(d) \/ Dies(d) \/ Binds(d) \/ Wakes(d)
        PROVE  xTask' = xTask
    BY <2>5 DEF Reconcile, TurnBegins, TurnEnds, Dies, Binds, Wakes
  <2>6. Recover \/ RegistryChanges \/ Crash \/ UNCHANGED vars => xTask' = xTask
    BY DEF Recover, RegistryChanges, Crash, vars
  <2> QED
    BY <1>1, <2>1, <2>2, <2>3, <2>4, <2>5, <2>6 DEF Next
<1>2. IInv /\ [Next]_vars
         => [\A c \in Channels : PhaseOf(c) \in Uncertain /\ xRec[xLast[c]].task
                /\ xTask'[c] # xTask[c] => xClosed'[c] # xClosed[c]]_vars
  BY <1>1
<1> QED
  BY Inductive, <1>2, PTL DEF Spec, TaskKept

-----------------------------------------------------------------------------
(* Provider switches: how often a message is in a list                     *)

\* How often a message is in a list.
Spots(s, m) == {i \in 1..Len(s) : s[i] = m}
Occ(s, m) == Cardinality(Spots(s, m))

LEMMA SpotsFinite ==
    ASSUME NEW S, NEW s \in Seq(S), NEW m
    PROVE  IsFiniteSet(Spots(s, m)) /\ Occ(s, m) \in Nat
<1>1. IsFiniteSet(1..Len(s))
  BY FS_Interval, LenProperties
<1>2. Spots(s, m) \in SUBSET (1..Len(s))
  BY DEF Spots
<1> QED BY <1>1, <1>2, FS_Subset, FS_CardinalityType DEF Occ

\* The places of two lists put together.
LEMMA OccConcat ==
    ASSUME NEW S, NEW s \in Seq(S), NEW t \in Seq(S), NEW m
    PROVE  Occ(s \o t, m) = Occ(s, m) + Occ(t, m)
<1> DEFINE B == {i \in Len(s)+1..Len(s)+Len(t) : (s \o t)[i] = m}
           f == [j \in Spots(t, m) |-> j + Len(s)]
<1>1. /\ s \o t \in Seq(S) /\ Len(s \o t) = Len(s) + Len(t)
      /\ \A i \in 1..Len(s) + Len(t) :
            (s \o t)[i] = IF i <= Len(s) THEN s[i] ELSE t[i - Len(s)]
      /\ Len(s) \in Nat /\ Len(t) \in Nat
  BY ConcatProperties, LenProperties
<1>2. Spots(s \o t, m) = Spots(s, m) \cup B
  BY <1>1 DEF Spots
<1>3. Spots(s, m) \cap B = {}
  BY <1>1 DEF Spots
<1>4. f \in Bijection(Spots(t, m), B)
  <2>1. f \in [Spots(t, m) -> B]
    BY <1>1 DEF Spots
  <2>2. \A a, b \in Spots(t, m) : f[a] = f[b] => a = b
    BY <1>1 DEF Spots
  <2>3. ASSUME NEW b \in B PROVE \E a \in Spots(t, m) : f[a] = b
    <3>1. b - Len(s) \in Spots(t, m)
      BY <1>1 DEF Spots
    <3> QED BY <1>1, <3>1
  <2> QED BY <2>1, <2>2, <2>3 DEF Bijection, Injection, Surjection, IsInjective
<1>5. IsFiniteSet(B) /\ Cardinality(B) = Occ(t, m)
  <2>1. IsFiniteSet(Spots(t, m))
    BY SpotsFinite
  <2>2. ExistsBijection(Spots(t, m), B)
    BY <1>4 DEF ExistsBijection
  <2> HIDE DEF B
  <2> QED BY <2>1, <2>2, FS_Bijection DEF Occ
<1>6. Cardinality(Spots(s, m) \cup B) = Cardinality(Spots(s, m)) + Cardinality(B)
  <2>1. Cardinality(Spots(s, m) \cap B) = 0
    BY <1>3, FS_EmptySet
  <2>2. Cardinality(Spots(s, m)) \in Nat /\ Cardinality(B) \in Nat
    BY <1>5, SpotsFinite DEF Occ
  <2>3. IsFiniteSet(Spots(s, m))
    BY SpotsFinite
  <2> HIDE DEF B
  <2>4. Cardinality(Spots(s, m) \cup B) = Cardinality(Spots(s, m)) + Cardinality(B)
                                                - Cardinality(Spots(s, m) \cap B)
    BY <1>5, <2>3, FS_Union
  <2> QED BY <2>1, <2>2, <2>4
<1> QED BY <1>2, <1>5, <1>6 DEF Occ

\* Of no message, and of one.
LEMMA OccSingle ==
    ASSUME NEW m, NEW e
    PROVE  /\ Occ(<<>>, m) = 0
           /\ Occ(<<e>>, m) = IF e = m THEN 1 ELSE 0
<1>1. Spots(<<>>, m) = {} /\ Spots(<<e>>, m) = IF e = m THEN {1} ELSE {}
  BY DEF Spots
<1> QED BY <1>1, FS_EmptySet, FS_Singleton DEF Occ

LEMMA OccAppend ==
    ASSUME NEW S, NEW s \in Seq(S), NEW e \in S, NEW m
    PROVE  Occ(Append(s, e), m) = Occ(s, m) + (IF e = m THEN 1 ELSE 0)
<1>1. Append(s, e) = s \o <<e>> /\ <<e>> \in Seq(S)
  BY AppendIsConcat
<1>2. Occ(s \o <<e>>, m) = Occ(s, m) + Occ(<<e>>, m)
  BY <1>1, OccConcat
<1> QED BY <1>1, <1>2, OccSingle

LEMMA OccTail ==
    ASSUME NEW S, NEW s \in Seq(S), s # <<>>, NEW m
    PROVE  Occ(s, m) = (IF Head(s) = m THEN 1 ELSE 0) + Occ(Tail(s), m)
<1>1. s = <<Head(s)>> \o Tail(s) /\ <<Head(s)>> \in Seq(S) /\ Tail(s) \in Seq(S)
  OBVIOUS
<1>2. Occ(<<Head(s)>> \o Tail(s), m) = Occ(<<Head(s)>>, m) + Occ(Tail(s), m)
  BY <1>1, OccConcat
<1> QED BY <1>1, <1>2, OccSingle

LEMMA OccPlace ==
    ASSUME NEW S, NEW s \in Seq(S), NEW m
    PROVE  Occ(s, m) > 0 <=> \E i \in DOMAIN s : s[i] = m
<1>1. Occ(s, m) = 0 <=> Spots(s, m) = {}
  BY SpotsFinite, FS_EmptySet DEF Occ
<1>2. DOMAIN s = 1..Len(s)
  BY LenProperties
<1>3. Spots(s, m) = {} <=> ~\E i \in DOMAIN s : s[i] = m
  BY <1>2 DEF Spots
<1>4. Occ(s, m) \in Nat
  BY SpotsFinite
<1> QED BY <1>1, <1>3, <1>4
-----------------------------------------------------------------------------
\* What the theorems assume: bounds are numbers, Continue is pressed once for a
\* preview, and a flush of the held-back queue has ended before the next begins.
SwitchBounds ==
    /\ MaxSwitches \in Nat /\ MaxRuns \in Nat /\ MaxMsgs \in Nat
    /\ MaxFaults \in Nat /\ MaxCrashes \in Nat
    /\ ~Overlap /\ ~Reruns

Places == {"idle", "checking", "posting", "capturing", "stopping", "starting", "ready",
           "validating", "announcing", "rolling", "resuming"}
Transition == [phase : Sw!Phases, src : Sw!Leg, tgt : Sw!Leg, tmux : BOOLEAN, sid : BOOLEAN,
               queued : Seq(Sw!Msg), asked : BOOLEAN, proposed : BOOLEAN]

Newest == pTrs[pBegun]
Busy(r) == pRun[r].at # "idle"
Going(r) == pRun[r].at \notin {"idle", "announcing"}
Engaged == pCur # 0 \/ \E r \in Sw!Run : Going(r)

\* The phase of the transition while its run is at a place.
Fits(at, phase) ==
    /\ at = "checking" => phase = "preflight"
    /\ at \in {"posting", "capturing"} => phase = "handoff"
    /\ at = "stopping" => phase = "handoff_ready"
    /\ at \in {"starting", "ready", "validating"} => phase \in Sw!Starting
    /\ at = "rolling" => phase = "rolling_back"

\* One run at a time, and only of the newest transition.
RunInv ==
    /\ \A r \in Sw!Run : IF Busy(r) THEN pRun[r].tr = pBegun /\ pBegun # 0 /\ Newest.asked
                                    ELSE pRun[r] = Sw!Idle
    /\ \A r, q \in Sw!Run : Busy(r) /\ Busy(q) => r = q
    /\ \A r \in Sw!Run : pRun[r].at \in {"announcing", "resuming"} => pCur = 0
    /\ pAlign # 0 => pBegun # 0 /\ ~Newest.asked /\ (pCur # 0 => Newest.phase = "aligning")
    /\ pCur # 0 => \A r \in Sw!Run : Fits(pRun[r].at, Newest.phase)

\* While a switch is not over its source owns the channel.
LegInv ==
    /\ Sw!OneLeg
    /\ pCur \in {0, pBegun}
    /\ Engaged => pBegun # 0 /\ Newest.src = pChan /\ Newest.tgt = Sw!Other(pChan)

\* One flush at a time, and none while a run is in progress.
FlushInv ==
    /\ pMoving \in {0, 1}
    /\ pMoving = 1 => pPending # <<>>
    /\ \A m \in Sw!Msg : /\ pHeld[m] \in {0, 1}
                         /\ pHeld[m] = 1 => pPending # <<>> /\ Head(pPending) = m /\ pMoving = 0
    /\ pCur # 0 /\ (\E r \in Sw!Run : Going(r)) => ~Sw!Flushing

\* Which processes a switch may have.
ProcInv ==
    /\ Engaged => LET l == Sw!Other(pChan) IN
         /\ pLive[l] \in {0, pBegun}
         /\ Sw!Live(l) => Newest.tmux /\ (pCur # 0 => Newest.phase \notin Sw!PreTarget)
    /\ \A r \in Sw!Run :
         /\ pRun[r].at \in {"starting", "ready", "validating"} => Newest.tmux
         /\ pRun[r].at = "resuming" => ~Sw!Live(Sw!Other(pChan))
         /\ pCur # 0 /\ pRun[r].at \in {"starting", "ready", "validating"} => ~Sw!Live(pChan)
    /\ pCrashes = 0 =>
         /\ pBooted
         /\ pCur = 0 => /\ ~Sw!Live(Sw!Other(pChan))
                        /\ \A r \in Sw!Run : pRun[r].at \in
                              {"idle", "checking", "rolling", "resuming", "announcing"}
    /\ MaxCrashes <= 1 /\ ~Engaged => ~Sw!Live(Sw!Other(pChan))

\* Where a message is: delivered, in the list to be delivered (whose head is
\* already queued once more while pMoving is set), or held back by the transition.
Waits == IF pMoving = 1 THEN Tail(pPending) ELSE pPending
Queued == IF pCur = 0 THEN <<>> ELSE Newest.queued
Total(m) == pGot[m] + Occ(Waits, m) + Occ(Queued, m)
CountInv ==
    /\ \A m \in Sw!Msg : Total(m) <= 1 + pCrashes
    /\ \A m \in 1..pSent : Total(m) > 0
    /\ \A m \in Sw!Msg : m > pSent => Total(m) = 0
    /\ pMoving = 1 => Head(pPending) <= pSent

SwitchInv == Sw!TypeOK /\ RunInv /\ LegInv /\ FlushInv /\ ProcInv /\ CountInv

-----------------------------------------------------------------------------
\* The two legs.
LEMMA Legs ==
    \A l \in Sw!Leg : /\ Sw!Other(l) \in Sw!Leg /\ Sw!Other(l) # l
                      /\ \A o \in Sw!Leg : o # l <=> o = Sw!Other(l)
BY DEF Sw!Other, Sw!Leg

\* The newest transition is one.
LEMMA NewestType ==
    ASSUME SwitchBounds, Sw!TypeOK, pBegun # 0
    PROVE  pBegun \in Sw!Switch /\ Newest \in Transition
<1>1. pBegun \in 1..MaxSwitches
  BY DEF Sw!TypeOK, SwitchBounds
<1>2. pTrs \in [Sw!Switch -> Transition]
  BY DEF Sw!TypeOK, Transition
<1> QED BY <1>1, <1>2 DEF Newest, Sw!Switch

\* A transition in another phase, otherwise the same.
LEMMA Phased ==
    ASSUME SwitchBounds, Sw!TypeOK, pCur # 0, NEW phase \in Sw!Phases
    PROVE  /\ Sw!SetPhase(phase) \in [Sw!Switch -> Transition]
           /\ Sw!SetPhase(phase)[pCur].phase = phase
           /\ \A t \in Sw!Switch : LET a == Sw!SetPhase(phase)[t]
                                       b == pTrs[t]
                                   IN  /\ a.src = b.src /\ a.tgt = b.tgt /\ a.tmux = b.tmux
                                       /\ a.sid = b.sid /\ a.queued = b.queued
                                       /\ a.asked = b.asked /\ a.proposed = b.proposed
<1>1. pCur \in Sw!Switch /\ pTrs \in [Sw!Switch -> Transition]
  BY DEF Sw!TypeOK, Sw!Switch, Transition, SwitchBounds
<1> QED BY <1>1 DEF Sw!SetPhase, Transition

\* A run at another place.
LEMMA Placed ==
    ASSUME Sw!TypeOK, NEW r \in Sw!Run, NEW to \in Places
    PROVE  /\ Sw!At(r, to) \in [Sw!Run -> [at : Places, tr : 0..MaxSwitches]]
           /\ Sw!At(r, to)[r] = [at |-> to, tr |-> pRun[r].tr]
           /\ \A q \in Sw!Run : q # r => Sw!At(r, to)[q] = pRun[q]
BY DEF Sw!TypeOK, Sw!At, Places

\* A run that fails, and with it the validation that it waits for.
LEMMA FailingRun ==
    ASSUME SwitchBounds, SwitchInv, NEW r \in Sw!Run, Going(r), Sw!Failing(r)
    PROVE  /\ pRun' = Sw!At(r, "rolling") /\ pValid' = 0
           /\ pTrs' = IF pCur = 0 THEN pTrs ELSE Sw!SetPhase("rolling_back")
<1>1. pValid # 0 => pValid = r
  BY DEF SwitchInv, Sw!TypeOK, RunInv, Going, Busy, Sw!Run, SwitchBounds
<1>2. pRun' = [pRun EXCEPT ![r].at = "rolling"]
  <2>1. \A q \in Sw!Run : (q = r \/ (Sw!ValidLost(r) /\ q = pValid)) <=> q = r
    BY <1>1 DEF Sw!ValidLost
  <2>2. pRun' = [q \in Sw!Run |-> IF q = r THEN [pRun[q] EXCEPT !.at = "rolling"] ELSE pRun[q]]
    BY <2>1 DEF Sw!Failing
  <2>3. pRun \in [Sw!Run -> [at : Places, tr : 0..MaxSwitches]]
    BY DEF SwitchInv, Sw!TypeOK, Places
  <2> QED BY <2>2, <2>3
<1>3. pValid' = 0
  BY <1>1 DEF Sw!Failing, Sw!ValidLost
<1> QED BY <1>2, <1>3 DEF Sw!Failing, Sw!At

-----------------------------------------------------------------------------
\* What the invariant says of a run that is going.
LEMMA AtWork ==
    ASSUME SwitchBounds, SwitchInv, NEW r \in Sw!Run, Going(r)
    PROVE  /\ pRun[r].tr = pBegun /\ pBegun \in Sw!Switch /\ Newest \in Transition
           /\ Newest.src = pChan /\ Newest.tgt = Sw!Other(pChan) /\ Newest.asked
           /\ pCur \in {0, pBegun} /\ pAlign = 0 /\ Engaged
           /\ pCur # 0 => /\ Fits(pRun[r].at, Newest.phase)
                          /\ pHeld = [m \in Sw!Msg |-> 0] /\ pMoving = 0
           /\ \A q \in Sw!Run : q # r => pRun[q] = Sw!Idle
           /\ pLive[Sw!Other(pChan)] \in {0, pBegun}
           /\ Sw!Live(Sw!Other(pChan)) =>
                  Newest.tmux /\ (pCur # 0 => Newest.phase \notin Sw!PreTarget)
           /\ pRun[r].at \in {"starting", "ready", "validating"} =>
                  Newest.tmux /\ (pCur # 0 => ~Sw!Live(pChan))
           /\ pCrashes = 0 /\ pCur = 0 => /\ ~Sw!Live(Sw!Other(pChan))
                                          /\ pRun[r].at \in {"checking", "rolling", "resuming"}
<1>1. Busy(r) /\ Engaged
  BY DEF Busy, Going, Engaged
<1>2. pRun[r].tr = pBegun /\ pBegun # 0 /\ Newest.asked /\ pAlign = 0
  BY <1>1 DEF SwitchInv, RunInv
<1>3. pBegun \in Sw!Switch /\ Newest \in Transition
  BY <1>2, NewestType DEF SwitchInv
<1>4. Newest.src = pChan /\ Newest.tgt = Sw!Other(pChan) /\ pCur \in {0, pBegun}
  BY <1>1 DEF SwitchInv, LegInv
<1>5. ASSUME pCur # 0
      PROVE  Fits(pRun[r].at, Newest.phase) /\ pHeld = [m \in Sw!Msg |-> 0] /\ pMoving = 0
  <2>1. ~Sw!Flushing
    BY <1>5 DEF SwitchInv, FlushInv
  <2>2. pHeld \in [Sw!Msg -> Nat] /\ pMoving \in Nat
    BY DEF SwitchInv, Sw!TypeOK
  <2>3. pMoving = 0 /\ \A m \in Sw!Msg : pHeld[m] = 0
    BY <2>1, <2>2 DEF Sw!Flushing
  <2>4. Fits(pRun[r].at, Newest.phase)
    BY <1>5 DEF SwitchInv, RunInv
  <2> QED BY <2>2, <2>3, <2>4
<1>6. \A q \in Sw!Run : q # r => pRun[q] = Sw!Idle
  BY <1>1 DEF SwitchInv, RunInv
<1>7. /\ pLive[Sw!Other(pChan)] \in {0, pBegun}
      /\ Sw!Live(Sw!Other(pChan)) =>
             Newest.tmux /\ (pCur # 0 => Newest.phase \notin Sw!PreTarget)
      /\ pRun[r].at \in {"starting", "ready", "validating"} =>
             Newest.tmux /\ (pCur # 0 => ~Sw!Live(pChan))
  BY <1>1 DEF SwitchInv, ProcInv
<1>8. pCrashes = 0 /\ pCur = 0 => /\ ~Sw!Live(Sw!Other(pChan))
                                  /\ pRun[r].at \in {"checking", "rolling", "resuming"}
  BY DEF SwitchInv, ProcInv, Going
<1> QED BY <1>1, <1>2, <1>3, <1>4, <1>5, <1>6, <1>7, <1>8

\* The messages are where they were.
LEMMA SameCount ==
    ASSUME CountInv, UNCHANGED <<pPending, pMoving, pGot, pSent, pCrashes>>, Queued' = Queued
    PROVE  CountInv'
BY DEF CountInv, Total, Waits

\* A run goes on to another place, or fails.
LEMMA RunMoves ==
    ASSUME SwitchBounds, SwitchInv, NEW r \in Sw!Run, Going(r),
           NEW to \in Places \ {"idle", "announcing", "resuming"},
           pRun' = Sw!At(r, to), pTrs' \in [Sw!Switch -> Transition],
           \A t \in Sw!Switch : /\ pTrs'[t].src = pTrs[t].src /\ pTrs'[t].tgt = pTrs[t].tgt
                                /\ pTrs'[t].queued = pTrs[t].queued
                                /\ pTrs'[t].asked = pTrs[t].asked,
           pCur # 0 => Fits(to, pTrs'[pBegun].phase),
           pLive'[Sw!Other(pChan)] \in {0, pBegun},
           pLive'[Sw!Other(pChan)] # 0 =>
               pTrs'[pBegun].tmux /\ (pCur # 0 => pTrs'[pBegun].phase \notin Sw!PreTarget),
           to \in {"starting", "ready", "validating"} =>
               pTrs'[pBegun].tmux /\ (pCur # 0 => pLive'[pChan] = 0),
           pCrashes = 0 /\ pCur = 0 => pLive'[Sw!Other(pChan)] = 0 /\ to = "rolling",
           UNCHANGED <<pChan, pActive, pSess, pCur, Sw!pFlow, pAlign, pBooted, pGot, pBegun,
                       pSent,
                       pCrashes>>
    PROVE  RunInv' /\ LegInv' /\ FlushInv' /\ ProcInv' /\ CountInv'
<1>1. /\ pRun'[r] = [at |-> to, tr |-> pRun[r].tr]
      /\ \A q \in Sw!Run : q # r => pRun'[q] = pRun[q]
  BY Placed DEF SwitchInv
<1>2. /\ pRun[r].tr = pBegun /\ pBegun \in Sw!Switch /\ Newest \in Transition
      /\ Newest.src = pChan /\ Newest.tgt = Sw!Other(pChan) /\ Newest.asked
      /\ pCur \in {0, pBegun} /\ pAlign = 0
      /\ pCur # 0 => pHeld = [m \in Sw!Msg |-> 0] /\ pMoving = 0
      /\ \A q \in Sw!Run : q # r => pRun[q] = Sw!Idle
  BY AtWork
<1>3. /\ Newest'.src = pChan /\ Newest'.tgt = Sw!Other(pChan) /\ Newest'.asked
      /\ Newest'.queued = Newest.queued /\ Newest' = pTrs'[pBegun]
  BY <1>2 DEF Newest
<1>4. \A q \in Sw!Run : q # r => pRun'[q] = Sw!Idle
  BY <1>1, <1>2
<1>5. RunInv'
  <2>1. \A q \in Sw!Run : q # r => ~Busy(q)' /\ pRun'[q] = Sw!Idle
    BY <1>4 DEF Busy, Sw!Idle
  <2>2. \A q \in Sw!Run : IF Busy(q)' THEN pRun'[q].tr = pBegun' /\ pBegun' # 0 /\ Newest'.asked
                                      ELSE pRun'[q] = Sw!Idle
    BY <1>1, <1>2, <1>3, <2>1 DEF Busy, Sw!Switch
  <2>3. \A q, p \in Sw!Run : Busy(q)' /\ Busy(p)' => q = p
    BY <2>1
  <2>4. pCur' # 0 => \A q \in Sw!Run : Fits(pRun'[q].at, Newest'.phase)
    BY <1>1, <1>3, <1>4 DEF Fits, Sw!Idle
  <2>5. \A q \in Sw!Run : pRun'[q].at \in {"announcing", "resuming"} => pCur' = 0
    BY <1>1, <1>4 DEF Sw!Idle
  <2> QED BY <1>2, <2>2, <2>3, <2>4, <2>5 DEF RunInv
<1>6. LegInv'
  BY <1>2, <1>3 DEF SwitchInv, LegInv, Sw!OneLeg, Engaged, Sw!Switch
<1>7. FlushInv'
  <2>1. pCur' # 0 => ~Sw!Flushing'
    BY <1>2 DEF Sw!Flushing, Sw!pFlow
  <2> QED BY <2>1 DEF SwitchInv, FlushInv, Sw!pFlow
<1>8. ProcInv'
  <2>1. Engaged'
    BY <1>1 DEF Engaged, Going
  <2>2. \A q \in Sw!Run : /\ pRun'[q].at \in {"starting", "ready", "validating"} => Newest'.tmux
                          /\ pRun'[q].at # "resuming"
                          /\ pCur' # 0 /\ pRun'[q].at \in {"starting", "ready", "validating"}
                                 => ~Sw!Live(pChan)'
    BY <1>1, <1>3, <1>4 DEF Sw!Live, Sw!Idle
  <2>3. pCrashes' = 0 => /\ pBooted'
                         /\ pCur' = 0 => /\ ~Sw!Live(Sw!Other(pChan))'
                                         /\ \A q \in Sw!Run : pRun'[q].at \in
                                            {"idle", "checking", "rolling", "resuming",
                                             "announcing"}
    BY <1>1, <1>4 DEF SwitchInv, ProcInv, Sw!Live, Sw!Idle
  <2>4. /\ pLive'[Sw!Other(pChan')] \in {0, pBegun'}
        /\ Sw!Live(Sw!Other(pChan))' =>
               Newest'.tmux /\ (pCur' # 0 => Newest'.phase \notin Sw!PreTarget)
    BY <1>3 DEF Sw!Live
  <2> QED BY <2>1, <2>2, <2>3, <2>4 DEF ProcInv
<1>9. CountInv'
  <2>1. Queued' = Queued
    BY <1>3 DEF Queued
  <2> QED BY <2>1, SameCount DEF SwitchInv, Sw!pFlow
<1> QED BY <1>5, <1>6, <1>7, <1>8, <1>9

-----------------------------------------------------------------------------
\* Nobody else waits for a validation.
LEMMA OwnValid ==
    ASSUME SwitchBounds, SwitchInv, NEW r \in Sw!Run, Going(r)
    PROVE  pValid # 0 => pValid = r /\ pRun[r].at = "validating"
<1>1. ASSUME pValid # 0 PROVE pValid = r
  <2>1. pValid \in Sw!Run /\ pRun[pValid].at = "validating"
    BY <1>1 DEF SwitchInv, Sw!TypeOK, Sw!Run, SwitchBounds
  <2>2. pRun[pValid] # Sw!Idle
    BY <2>1 DEF Sw!Idle
  <2> QED BY <2>1, <2>2, AtWork
<1> QED BY <1>1 DEF SwitchInv, Sw!TypeOK

\* The types after a step of a run.
LEMMA RunTypes ==
    ASSUME SwitchBounds, SwitchInv, NEW r \in Sw!Run, NEW to \in Places, pRun' = Sw!At(r, to),
           pTrs' \in [Sw!Switch -> Transition], pLive' \in [Sw!Leg -> 0..Sw!OwnTmux],
           pHandoff' \in 0..MaxRuns, pValid' \in {0, r}, pValid' # 0 => to = "validating",
           UNCHANGED <<pChan, pActive, pSess, pCur, Sw!pFlow, pAlign, pBooted, pGot, Sw!pCount>>
    PROVE  Sw!TypeOK'
<1>1. pRun' \in [Sw!Run -> [at : Places, tr : 0..MaxSwitches]] /\ pRun'[r].at = to
  <2>1. /\ Sw!At(r, to) \in [Sw!Run -> [at : Places, tr : 0..MaxSwitches]]
        /\ Sw!At(r, to)[r] = [at |-> to, tr |-> pRun[r].tr]
    BY Placed DEF SwitchInv
  <2> QED BY <2>1
<1>2. pValid' \in 0..MaxRuns /\ (pValid' # 0 => pRun'[pValid'].at = "validating")
  BY <1>1 DEF Sw!Run, SwitchBounds
<1>3. /\ pChan' \in Sw!Leg /\ pActive' \in Sw!Leg
      /\ pSess' \in [Sw!Leg -> [known : BOOLEAN, chan : BOOLEAN]]
      /\ pCur' \in 0..MaxSwitches /\ pPending' \in Seq(Sw!Msg) /\ pAlign' \in 0..MaxSwitches
      /\ pHeld' \in [Sw!Msg -> Nat] /\ pMoving' \in Nat /\ pBooted' \in BOOLEAN
      /\ pGot' \in [Sw!Msg -> Nat]
      /\ pBegun' \in 0..MaxSwitches /\ pSent' \in 0..MaxMsgs /\ pFaults' \in 0..MaxFaults
      /\ pCrashes' \in 0..MaxCrashes
  BY DEF SwitchInv, Sw!TypeOK, Sw!pFlow, Sw!pCount
<1> QED BY <1>1, <1>2, <1>3 DEF Sw!TypeOK, Places, Transition

\* A run that fails.
LEMMA FailStep ==
    ASSUME SwitchBounds, SwitchInv, NEW r \in Sw!Run, Going(r), Sw!Failing(r),
           pLive' \in [Sw!Leg -> 0..Sw!OwnTmux], pLive'[Sw!Other(pChan)] = pLive[Sw!Other(pChan)],
           pHandoff' \in 0..MaxRuns,
           UNCHANGED <<pChan, pActive, pSess, pCur, Sw!pFlow, pAlign, pBooted, pGot, Sw!pCount>>
    PROVE  SwitchInv'
<1>1. /\ pRun' = Sw!At(r, "rolling") /\ pValid' = 0
      /\ pTrs' = IF pCur = 0 THEN pTrs ELSE Sw!SetPhase("rolling_back")
  BY FailingRun
<1>2. /\ pTrs' \in [Sw!Switch -> Transition]
      /\ \A t \in Sw!Switch : /\ pTrs'[t].src = pTrs[t].src /\ pTrs'[t].tgt = pTrs[t].tgt
                              /\ pTrs'[t].queued = pTrs[t].queued
                              /\ pTrs'[t].asked = pTrs[t].asked
                              /\ pTrs'[t].tmux = pTrs[t].tmux
      /\ pCur # 0 => pTrs'[pCur].phase = "rolling_back"
  <2>1. CASE pCur = 0
    BY <1>1, <2>1 DEF SwitchInv, Sw!TypeOK, Transition
  <2>2. CASE pCur # 0
    <3>1. "rolling_back" \in Sw!Phases
      BY DEF Sw!Phases
    <3> QED BY <1>1, <2>2, <3>1, Phased DEF SwitchInv
  <2> QED BY <2>1, <2>2
<1>3. Sw!TypeOK'
  <2>1. "rolling" \in Places
    BY DEF Places
  <2> QED BY <1>1, <1>2, <2>1, RunTypes
<1>4. /\ pCur \in {0, pBegun} /\ pBegun \in Sw!Switch
      /\ pLive[Sw!Other(pChan)] \in {0, pBegun}
      /\ Sw!Live(Sw!Other(pChan)) => Newest.tmux
      /\ pCrashes = 0 /\ pCur = 0 => ~Sw!Live(Sw!Other(pChan))
  BY AtWork
<1>5. /\ pCur # 0 => Fits("rolling", pTrs'[pBegun].phase)
      /\ pLive'[Sw!Other(pChan)] # 0 =>
             pTrs'[pBegun].tmux /\ (pCur # 0 => pTrs'[pBegun].phase \notin Sw!PreTarget)
  BY <1>2, <1>4 DEF Fits, Sw!Live, Newest, Sw!PreTarget
<1>6. RunInv' /\ LegInv' /\ FlushInv' /\ ProcInv' /\ CountInv'
  <2>1. "rolling" \in Places \ {"idle", "announcing", "resuming"}
    BY DEF Places
  <2>2. UNCHANGED <<pBegun, pSent, pCrashes>>
    BY DEF Sw!pCount
  <2>3. pCrashes = 0 /\ pCur = 0 => pLive'[Sw!Other(pChan)] = 0
    BY <1>4 DEF Sw!Live
  <2> QED BY <1>1, <1>2, <1>4, <1>5, <2>1, <2>2, <2>3, RunMoves
<1> QED BY <1>3, <1>6 DEF SwitchInv

\* A run that goes on with the transition in its next phase.
LEMMA PhaseStep ==
    ASSUME SwitchBounds, SwitchInv, NEW r \in Sw!Run, Going(r), pCur # 0,
           NEW to \in Places \ {"idle", "announcing", "resuming"}, NEW phase \in Sw!Phases,
           Fits(to, phase), pRun' = Sw!At(r, to), pTrs' = Sw!SetPhase(phase), UNCHANGED pLive,
           phase \in Sw!PreTarget => Newest.phase \in Sw!PreTarget,
           to \in {"starting", "ready", "validating"} =>
               pRun[r].at \in {"starting", "ready", "validating"},
           pValid' \in {0, r}, pValid' # 0 => to = "validating", pHandoff' \in 0..MaxRuns,
           UNCHANGED <<pChan, pActive, pSess, pCur, Sw!pFlow, pAlign, pBooted, pGot, Sw!pCount>>
    PROVE  SwitchInv'
<1>1. /\ pTrs' \in [Sw!Switch -> Transition]
      /\ \A t \in Sw!Switch : /\ pTrs'[t].src = pTrs[t].src /\ pTrs'[t].tgt = pTrs[t].tgt
                              /\ pTrs'[t].queued = pTrs[t].queued
                              /\ pTrs'[t].asked = pTrs[t].asked
                              /\ pTrs'[t].tmux = pTrs[t].tmux
      /\ pTrs'[pCur].phase = phase
  BY Phased DEF SwitchInv
<1>2. pLive \in [Sw!Leg -> 0..Sw!OwnTmux]
  BY DEF SwitchInv, Sw!TypeOK
<1>3. Sw!TypeOK'
  BY <1>1, <1>2, RunTypes
<1>4. /\ pCur = pBegun /\ pBegun \in Sw!Switch
      /\ pLive[Sw!Other(pChan)] \in {0, pBegun}
      /\ Sw!Live(Sw!Other(pChan)) => Newest.tmux /\ Newest.phase \notin Sw!PreTarget
      /\ pRun[r].at \in {"starting", "ready", "validating"} => Newest.tmux /\ ~Sw!Live(pChan)
  BY AtWork
<1>5. /\ Fits(to, pTrs'[pBegun].phase)
      /\ pLive'[Sw!Other(pChan)] # 0 =>
             pTrs'[pBegun].tmux /\ pTrs'[pBegun].phase \notin Sw!PreTarget
      /\ to \in {"starting", "ready", "validating"} => pTrs'[pBegun].tmux /\ pLive'[pChan] = 0
  BY <1>1, <1>4 DEF Sw!Live, Newest
<1>6. RunInv' /\ LegInv' /\ FlushInv' /\ ProcInv' /\ CountInv'
  <2>1. UNCHANGED <<pBegun, pSent, pCrashes>>
    BY DEF Sw!pCount
  <2> QED BY <1>1, <1>4, <1>5, <2>1, RunMoves
<1> QED BY <1>3, <1>6 DEF SwitchInv

\* The steps of a run between Continue and the commit or the rollback.
LEMMA RunGoesOn ==
    ASSUME SwitchBounds, SwitchInv, NEW r \in Sw!Run,
           \/ Sw!RunChecked(r) \/ Sw!RunCaptures(r) \/ Sw!HandoffCaptured(r)
           \/ Sw!TargetReady(r) \/ Sw!RunFails(r)
    PROVE  SwitchInv'
<1>0. /\ pHandoff \in 0..MaxRuns /\ pLive \in [Sw!Leg -> 0..Sw!OwnTmux]
      /\ 0 \in 0..MaxRuns /\ r \in 0..MaxRuns /\ Sw!Other(pChan) \in Sw!Leg
  BY Legs DEF SwitchInv, Sw!TypeOK, SwitchBounds, Sw!Run
<1>1. CASE Sw!RunChecked(r)
  <2>1. Going(r) /\ pValid = 0
    BY <1>1, OwnValid DEF Sw!RunChecked, Sw!Onward, Going
  <2>2. CASE Sw!Failing(r)
    BY <1>0, <1>1, <2>1, <2>2, FailStep DEF Sw!RunChecked, Sw!pCount
  <2>3. CASE /\ pCur # 0 /\ pTrs' = Sw!SetPhase("handoff") /\ pRun' = Sw!At(r, "posting")
             /\ UNCHANGED pValid
    <3>1. /\ Fits("posting", "handoff") /\ "handoff" \in Sw!Phases
          /\ "posting" \in Places \ {"idle", "announcing", "resuming"}
      BY DEF Fits, Sw!Phases, Sw!PreTarget, Places
    <3>2. Newest.phase \in Sw!PreTarget
      BY <1>1, <2>1, <2>3, AtWork DEF Sw!RunChecked, Sw!Onward, Fits, Sw!PreTarget
    <3> QED BY <1>0, <1>1, <2>1, <2>3, <3>1, <3>2, PhaseStep DEF Sw!RunChecked
  <2> QED BY <1>1, <2>2, <2>3 DEF Sw!RunChecked, Sw!Onward
<1>2. CASE Sw!RunCaptures(r)
  <2>1. Going(r) /\ pValid = 0
    BY <1>2, OwnValid DEF Sw!RunCaptures, Going
  <2>2. CASE Sw!Failing(r)
    BY <1>0, <1>2, <2>1, <2>2, FailStep, FailingRun DEF Sw!RunCaptures
  <2>3. CASE pHandoff' = r /\ pRun' = Sw!At(r, "capturing") /\ UNCHANGED <<pTrs, pValid>>
    <3>1. pTrs \in [Sw!Switch -> Transition]
      BY DEF SwitchInv, Sw!TypeOK, Transition
    <3>2. /\ "capturing" \in Places \ {"idle", "announcing", "resuming"}
          /\ pRun[r].at = "posting"
      BY <1>2 DEF Places, Sw!RunCaptures
    <3>3. Sw!TypeOK'
      BY <1>0, <1>2, <2>1, <2>3, <3>1, <3>2, RunTypes DEF Sw!RunCaptures
    <3>4. /\ pCur # 0 => Fits("capturing", pTrs'[pBegun].phase)
          /\ pLive'[Sw!Other(pChan)] \in {0, pBegun}
          /\ pLive'[Sw!Other(pChan)] # 0 =>
                 pTrs'[pBegun].tmux /\ (pCur # 0 => pTrs'[pBegun].phase \notin Sw!PreTarget)
          /\ ~(pCrashes = 0 /\ pCur = 0)
      BY <1>2, <2>1, <2>3, <3>2, AtWork DEF Sw!RunCaptures, Fits, Sw!Live, Newest
    <3>5. RunInv' /\ LegInv' /\ FlushInv' /\ ProcInv' /\ CountInv'
      BY <1>2, <2>1, <2>3, <3>1, <3>2, <3>4, RunMoves DEF Sw!RunCaptures, Sw!pCount
    <3> QED BY <3>3, <3>5 DEF SwitchInv
  <2> QED BY <1>2, <2>2, <2>3 DEF Sw!RunCaptures
<1>3. CASE Sw!HandoffCaptured(r)
  <2>1. Going(r) /\ pValid = 0
    BY <1>3, OwnValid DEF Sw!HandoffCaptured, Sw!Onward, Going
  <2>2. CASE Sw!Failing(r)
    BY <1>0, <1>3, <2>1, <2>2, FailStep DEF Sw!HandoffCaptured
  <2>3. CASE /\ pCur # 0 /\ pTrs' = Sw!SetPhase("handoff_ready") /\ pRun' = Sw!At(r, "stopping")
             /\ UNCHANGED pValid
    <3>1. /\ Fits("stopping", "handoff_ready") /\ "handoff_ready" \in Sw!Phases
          /\ "stopping" \in Places \ {"idle", "announcing", "resuming"}
      BY DEF Fits, Sw!Phases, Sw!PreTarget, Places
    <3>2. Newest.phase \in Sw!PreTarget
      BY <1>3, <2>1, <2>3, AtWork DEF Sw!HandoffCaptured, Sw!Onward, Fits, Sw!PreTarget
    <3> QED BY <1>0, <1>3, <2>1, <2>3, <3>1, <3>2, PhaseStep DEF Sw!HandoffCaptured
  <2> QED BY <1>3, <2>2, <2>3 DEF Sw!HandoffCaptured, Sw!Onward
<1>4. CASE Sw!TargetReady(r)
  <2>1. Going(r) /\ pValid = 0
    BY <1>4, OwnValid DEF Sw!TargetReady, Going
  <2>2. CASE Sw!Failing(r)
    BY <1>0, <1>4, <2>1, <2>2, FailStep DEF Sw!TargetReady
  <2>3. CASE /\ pCur # 0 /\ pTrs' = Sw!SetPhase("target_validating")
             /\ pRun' = Sw!At(r, "validating")
             /\ pValid' = r
    <3>1. /\ Fits("validating", "target_validating") /\ "target_validating" \in Sw!Phases
          /\ "target_validating" \notin Sw!PreTarget
          /\ "validating" \in Places \ {"idle", "announcing", "resuming"}
      BY DEF Fits, Sw!Phases, Sw!PreTarget, Places, Sw!Starting
    <3>2. pRun[r].at = "ready"
      BY <1>4 DEF Sw!TargetReady
    <3> QED BY <1>0, <1>4, <2>1, <2>3, <3>1, <3>2, PhaseStep DEF Sw!TargetReady
  <2> QED BY <1>4, <2>2, <2>3 DEF Sw!TargetReady
<1>5. CASE Sw!RunFails(r)
  <2>1. Going(r) /\ Sw!Failing(r)
    BY <1>5 DEF Sw!RunFails, Sw!Bounded, Going
  <2> QED BY <1>0, <1>5, <2>1, FailStep DEF Sw!RunFails
<1> QED BY <1>1, <1>2, <1>3, <1>4, <1>5

\* The source is stopped, the target started.
LEMMA RunLaunches ==
    ASSUME SwitchBounds, SwitchInv, NEW r \in Sw!Run, Sw!SourceStopped(r) \/ Sw!TargetSpawned(r)
    PROVE  SwitchInv'
<1>0. /\ pHandoff \in 0..MaxRuns /\ pLive \in [Sw!Leg -> 0..Sw!OwnTmux] /\ pChan \in Sw!Leg
      /\ Sw!Other(pChan) \in Sw!Leg /\ Sw!Other(pChan) # pChan
      /\ pTrs \in [Sw!Switch -> Transition]
  BY Legs DEF SwitchInv, Sw!TypeOK, Transition
<1>1. Going(r) /\ pValid = 0
  BY OwnValid DEF Sw!SourceStopped, Sw!TargetSpawned, Going
<1>2. /\ pRun[r].tr = pBegun /\ pBegun \in Sw!Switch /\ pCur \in {0, pBegun}
      /\ pTrs[pBegun].src = pChan /\ pTrs[pBegun].tgt = Sw!Other(pChan)
      /\ pLive[Sw!Other(pChan)] \in {0, pBegun}
      /\ Sw!Live(Sw!Other(pChan)) => pTrs[pBegun].tmux
      /\ pCur # 0 => Fits(pRun[r].at, pTrs[pBegun].phase)
      /\ pRun[r].at = "starting" => pTrs[pBegun].tmux /\ (pCur # 0 => ~Sw!Live(pChan))
      /\ pCrashes = 0 /\ pCur = 0 => pRun[r].at \in {"checking", "rolling", "resuming"}
  BY <1>1, AtWork DEF Newest
<1>3. CASE Sw!SourceStopped(r)
  <2>1. /\ pLive' = [pLive EXCEPT ![pChan] = 0] /\ pRun[r].at = "stopping"
        /\ UNCHANGED <<pChan, pActive, pSess, pCur, Sw!pFlow, pHandoff, pAlign, pBooted, pGot,
                       Sw!pCount>>
    BY <1>2, <1>3 DEF Sw!SourceStopped
  <2>2. /\ pLive' \in [Sw!Leg -> 0..Sw!OwnTmux]
        /\ pLive'[Sw!Other(pChan)] = pLive[Sw!Other(pChan)]
        /\ pLive'[pChan] = 0
    BY <1>0, <2>1 DEF Sw!OwnTmux, SwitchBounds
  <2>3. CASE Sw!Failing(r)
    BY <1>0, <1>1, <2>1, <2>2, <2>3, FailStep
  <2>4. CASE /\ pCur # 0 /\ pRun' = Sw!At(r, "starting") /\ UNCHANGED pValid
             /\ pTrs' = [pTrs EXCEPT ![pBegun].tmux = TRUE, ![pCur].phase = "target_starting"]
    <3>1. "target_starting" \in Sw!Phases /\ "target_starting" \in Sw!Starting
          /\ "target_starting" \notin Sw!PreTarget
          /\ "starting" \in Places \ {"idle", "announcing", "resuming"}
      BY DEF Sw!Phases, Sw!Starting, Sw!PreTarget, Places
    <3>2. pCur = pBegun
      BY <1>2, <2>4
    <3>3. /\ pTrs' \in [Sw!Switch -> Transition]
          /\ \A t \in Sw!Switch : /\ pTrs'[t].src = pTrs[t].src /\ pTrs'[t].tgt = pTrs[t].tgt
                                  /\ pTrs'[t].queued = pTrs[t].queued
                                  /\ pTrs'[t].asked = pTrs[t].asked
          /\ pTrs'[pBegun].tmux /\ pTrs'[pBegun].phase = "target_starting"
      <4>1. pTrs' = [pTrs EXCEPT ![pBegun] =
                        [pTrs[pBegun] EXCEPT !.tmux = TRUE, !.phase = "target_starting"]]
        BY <1>0, <1>2, <2>4, <3>2
      <4>2. PICK n : n = [pTrs[pBegun] EXCEPT !.tmux = TRUE, !.phase = "target_starting"]
        OBVIOUS
      <4>3. pTrs[pBegun] \in Transition
        BY <1>0, <1>2
      <4>4. /\ n \in Transition /\ n.tmux /\ n.phase = "target_starting"
            /\ n.src = pTrs[pBegun].src /\ n.tgt = pTrs[pBegun].tgt
            /\ n.queued = pTrs[pBegun].queued /\ n.asked = pTrs[pBegun].asked
        BY <3>1, <4>2, <4>3 DEF Transition
      <4>5. pTrs' = [pTrs EXCEPT ![pBegun] = n]
        BY <4>1, <4>2
      <4>6. pTrs'[pBegun] = n /\ \A t \in Sw!Switch : t # pBegun => pTrs'[t] = pTrs[t]
        BY <1>0, <1>2, <4>5
      <4> QED BY <1>0, <1>2, <4>4, <4>5, <4>6
    <3>4. Sw!TypeOK'
      BY <1>0, <1>1, <2>1, <2>2, <2>4, <3>1, <3>3, RunTypes
    <3>5. /\ Fits("starting", pTrs'[pBegun].phase) /\ pTrs'[pBegun].phase \notin Sw!PreTarget
          /\ pLive'[Sw!Other(pChan)] \in {0, pBegun} /\ pLive'[pChan] = 0
      BY <1>2, <2>2, <3>1, <3>3 DEF Fits
    <3>6. RunInv' /\ LegInv' /\ FlushInv' /\ ProcInv' /\ CountInv'
      <4>1. UNCHANGED <<pBegun, pSent, pCrashes>>
        BY <2>1 DEF Sw!pCount
      <4> QED BY <1>1, <1>2, <2>1, <2>2, <2>4, <3>1, <3>3, <3>5, <4>1, RunMoves
    <3> QED BY <3>4, <3>6 DEF SwitchInv
  <2> QED BY <1>2, <1>3, <2>3, <2>4 DEF Sw!SourceStopped
<1>4. CASE Sw!TargetSpawned(r)
  <2>1. /\ pLive' = [pLive EXCEPT ![Sw!Other(pChan)] = pBegun] /\ pRun[r].at = "starting"
        /\ pRun' = Sw!At(r, "ready") /\ UNCHANGED <<pTrs, pValid, pHandoff>>
        /\ UNCHANGED <<pChan, pActive, pSess, pCur, Sw!pFlow, pAlign, pBooted, pGot, Sw!pCount>>
    BY <1>2, <1>4 DEF Sw!TargetSpawned, Sw!pMap
  <2>2. /\ pLive' \in [Sw!Leg -> 0..Sw!OwnTmux] /\ pLive'[Sw!Other(pChan)] = pBegun
        /\ pLive'[pChan] = pLive[pChan]
    BY <1>0, <1>2, <2>1 DEF Sw!OwnTmux, SwitchBounds, Sw!Switch
  <2>3. "ready" \in Places \ {"idle", "announcing", "resuming"}
    BY DEF Places
  <2>4. Sw!TypeOK'
    BY <1>0, <1>1, <2>1, <2>2, <2>3, RunTypes
  <2>5. /\ pCur # 0 => /\ Fits("ready", pTrs'[pBegun].phase)
                       /\ pTrs'[pBegun].phase \notin Sw!PreTarget /\ pLive'[pChan] = 0
        /\ pTrs'[pBegun].tmux /\ ~(pCrashes = 0 /\ pCur = 0)
    BY <1>2, <2>1, <2>2 DEF Fits, Sw!Starting, Sw!PreTarget, Sw!Live
  <2>6. RunInv' /\ LegInv' /\ FlushInv' /\ ProcInv' /\ CountInv'
    <3>1. UNCHANGED <<pBegun, pSent, pCrashes>>
      BY <2>1 DEF Sw!pCount
    <3> QED BY <1>0, <1>1, <1>2, <2>1, <2>2, <2>3, <2>5, <3>1, RunMoves
  <2> QED BY <2>4, <2>6 DEF SwitchInv
<1> QED BY <1>3, <1>4

-----------------------------------------------------------------------------
\* A rollback leaves the channel to the leg that owns it.
LEMMA RolledBack ==
    ASSUME SwitchBounds, SwitchInv, Sw!RollbackMap
    PROVE  UNCHANGED <<pChan, pActive, pSess, pTrs>> /\ pCur' = 0
<1>1. CASE pCur = 0
  BY <1>1 DEF Sw!RollbackMap, Sw!pMap
<1>2. CASE pCur # 0
  <2>1. /\ pCur = pBegun /\ Sw!Tr.src = pChan /\ Sw!Tr.tgt = Sw!Other(pChan)
        /\ pActive = pChan /\ \A l \in Sw!Leg : pSess[l].chan <=> l = pChan
    BY <1>2 DEF SwitchInv, LegInv, Sw!OneLeg, Engaged, Newest, Sw!Tr
  <2>2. /\ pSess \in [Sw!Leg -> [known : BOOLEAN, chan : BOOLEAN]]
        /\ pChan \in Sw!Leg /\ Sw!Other(pChan) \in Sw!Leg /\ Sw!Other(pChan) # pChan
    BY Legs DEF SwitchInv, Sw!TypeOK
  <2>3. pSess[pChan].chan = TRUE /\ pSess[Sw!Other(pChan)].chan = FALSE
    BY <2>1, <2>2
  <2>4. pSess' = [pSess EXCEPT ![pChan].chan = TRUE,
                               ![Sw!Other(pChan)].chan = IF Sw!Tr.sid THEN FALSE ELSE @]
    BY <1>2, <2>1 DEF Sw!RollbackMap
  <2>5. [pSess[pChan] EXCEPT !.chan = TRUE] = pSess[pChan]
    BY <2>2, <2>3
  <2>6. [pSess[Sw!Other(pChan)] EXCEPT !.chan = IF Sw!Tr.sid THEN FALSE ELSE @]
            = pSess[Sw!Other(pChan)]
    BY <2>2, <2>3
  <2>7. pSess' = pSess
    BY <2>2, <2>4, <2>5, <2>6
  <2> QED BY <1>2, <2>1, <2>7 DEF Sw!RollbackMap
<1> QED BY <1>1, <1>2

\* What a rollback hands to the flush.
LEMMA Handed ==
    ASSUME SwitchBounds, SwitchInv
    PROVE  /\ Queued \in Seq(Sw!Msg) /\ pPending \in Seq(Sw!Msg)
           /\ Sw!RolledPending = pPending \o Queued /\ Sw!RolledPending \in Seq(Sw!Msg)
           /\ pCur = 0 => pPending = pPending \o Queued
<1>1. pPending \in Seq(Sw!Msg)
  BY DEF SwitchInv, Sw!TypeOK
<1>2. CASE pCur = 0
  BY <1>1, <1>2 DEF Queued, Sw!RolledPending
<1>3. CASE pCur # 0
  <2>1. pCur = pBegun
    BY <1>3 DEF SwitchInv, LegInv
  <2>2. Newest.queued \in Seq(Sw!Msg)
    BY <1>3, <2>1, NewestType DEF SwitchInv, Transition
  <2> QED BY <1>1, <1>3, <2>1, <2>2 DEF Queued, Sw!RolledPending, Sw!Tr, Newest
<1> QED BY <1>2, <1>3

\* What the transition held back joins the list.
LEMMA Joined ==
    ASSUME SwitchBounds, SwitchInv, pPending' = pPending \o Queued, pMoving = 0, pMoving' = 0,
           pCur' = 0, UNCHANGED <<pGot, pSent, pCrashes>>
    PROVE  CountInv'
<1>1. Queued \in Seq(Sw!Msg) /\ pPending \in Seq(Sw!Msg)
  BY Handed
<1>2. \A m \in Sw!Msg : Total(m)' = Total(m)
  <2>1. Waits' = pPending \o Queued /\ Queued' = <<>> /\ Waits = pPending
    BY DEF Waits, Queued
  <2> TAKE m \in Sw!Msg
  <2>2. Occ(pPending \o Queued, m) = Occ(pPending, m) + Occ(Queued, m)
    BY <1>1, OccConcat
  <2>2a. Occ(<<>>, m) = 0
    BY OccSingle
  <2>3. Occ(pPending, m) \in Nat /\ Occ(Queued, m) \in Nat /\ pGot[m] \in Nat
    BY <1>1, SpotsFinite DEF SwitchInv, Sw!TypeOK
  <2>4. Occ(Waits', m) = Occ(pPending, m) + Occ(Queued, m) /\ Occ(Queued', m) = 0
    BY <2>1, <2>2, <2>2a
  <2>5. Total(m)' = pGot[m] + Occ(Waits', m) + Occ(Queued', m)
    BY DEF Total
  <2>6. Total(m) = pGot[m] + Occ(pPending, m) + Occ(Queued, m)
    BY <2>1 DEF Total
  <2> QED BY <2>3, <2>4, <2>5, <2>6
<1>3. CountInv'
  <2>1. 1..pSent \in SUBSET Sw!Msg
    BY DEF SwitchInv, Sw!TypeOK, Sw!Msg, SwitchBounds
  <2> QED BY <1>2, <2>1 DEF SwitchInv, CountInv
<1> QED BY <1>3

\* A flush begins with all that waits.
LEMMA Flushes ==
    ASSUME SwitchBounds, SwitchInv, ~Sw!Flushing,
           Sw!FlushFrom(pPending \o Queued, pHeld, pMoving),
           pCur' = 0, UNCHANGED <<pGot, pSent, pCrashes>>
    PROVE  /\ pPending' \in Seq(Sw!Msg) /\ pHeld' \in [Sw!Msg -> Nat] /\ pMoving' = 0
           /\ FlushInv' /\ CountInv'
<1>1. pMoving = 0 /\ pHeld \in [Sw!Msg -> Nat] /\ \A m \in Sw!Msg : pHeld[m] = 0
  BY DEF SwitchInv, Sw!TypeOK, Sw!Flushing
<1>2. Queued \in Seq(Sw!Msg) /\ pPending \in Seq(Sw!Msg)
  BY Handed
<1>3. /\ pPending' = pPending \o Queued /\ pPending' \in Seq(Sw!Msg) /\ pMoving' = 0
      /\ pPending' = <<>> => pHeld' = pHeld
      /\ pPending' # <<>> => pHeld' = [pHeld EXCEPT ![Head(pPending')] = @ + 1]
  BY <1>1, <1>2 DEF Sw!FlushFrom
<1>4. /\ pHeld' \in [Sw!Msg -> Nat]
      /\ \A m \in Sw!Msg : /\ pHeld'[m] \in {0, 1}
                           /\ pHeld'[m] = 1 => pPending' # <<>> /\ Head(pPending') = m
  <2>1. CASE pPending' = <<>>
    BY <1>1, <1>3, <2>1
  <2>2. CASE pPending' # <<>>
    <3>1. PICK h \in Sw!Msg : h = Head(pPending')
      BY <1>3, <2>2
    <3>2. pHeld' = [pHeld EXCEPT ![h] = @ + 1]
      BY <1>3, <2>2, <3>1
    <3>3. \A m \in Sw!Msg : pHeld'[m] = IF m = h THEN 1 ELSE 0
      BY <1>1, <3>2
    <3>4. pHeld' \in [Sw!Msg -> Nat]
      BY <1>1, <3>2
    <3> QED BY <2>2, <3>1, <3>3, <3>4
  <2> QED BY <2>1, <2>2
<1>5. FlushInv'
  BY <1>3, <1>4 DEF FlushInv
<1>6. CountInv'
  BY <1>1, <1>3, Joined
<1> QED BY <1>3, <1>4, <1>5, <1>6

\* A switch that is over, or a run that ends.
LEMMA SwitchOver ==
    ASSUME SwitchBounds, SwitchInv, pCur' = 0, pAlign' \in {0, pAlign},
           \A r \in Sw!Run : pRun'[r] \in {pRun[r], Sw!Idle},
           UNCHANGED <<pChan, pActive, pSess, pTrs, pBegun>>
    PROVE  RunInv' /\ LegInv' /\ \A r \in Sw!Run : pRun'[r].at \in {pRun[r].at, "idle"}
<1>1. \A r \in Sw!Run : /\ pRun'[r].at \in {pRun[r].at, "idle"}
                        /\ Busy(r)' => pRun'[r] = pRun[r] /\ Busy(r)
                        /\ ~Busy(r)' => pRun'[r] = Sw!Idle
  BY DEF SwitchInv, RunInv, Busy, Sw!Idle
<1>2. RunInv'
  BY <1>1 DEF SwitchInv, RunInv, Newest
<1>3. Engaged' => Engaged
  BY <1>1 DEF Engaged, Going
<1>4. LegInv'
  BY <1>3 DEF SwitchInv, LegInv, Sw!OneLeg, Newest
<1> QED BY <1>1, <1>2, <1>4

\* Its target runs nowhere.
LEMMA QuietProc ==
    ASSUME SwitchBounds, SwitchInv, pCur' = 0, pLive'[Sw!Other(pChan)] = 0,
           \A r \in Sw!Run : pRun'[r].at \in {pRun[r].at, "idle"},
           UNCHANGED <<pChan, pTrs, pBegun>>,
           pCrashes' = 0 => /\ pBooted'
                            /\ \A r \in Sw!Run : pRun'[r].at \in
                                  {"idle", "checking", "rolling", "resuming", "announcing"}
    PROVE  ProcInv'
BY DEF SwitchInv, ProcInv, Newest, Sw!Live

\* Where a run is while the transition is in the given phase.
LEMMA PlaceOf ==
    ASSUME SwitchBounds, SwitchInv, Sw!Phase \in {"preflight", "aligning"}
    PROVE  /\ pCur # 0 /\ ~Sw!Live(Sw!Other(pChan))
           /\ \A r \in Sw!Run : pRun[r].at \in {"idle", "checking"}
<1>1. pCur = pBegun /\ Newest.phase = Sw!Phase /\ pCur # 0
  <2>1. pCur # 0
    BY DEF Sw!Phase
  <2> QED BY <2>1 DEF SwitchInv, LegInv, Newest, Sw!Tr, Sw!Phase
<1>2. ~Sw!Live(Sw!Other(pChan))
  BY <1>1 DEF SwitchInv, ProcInv, Engaged, Sw!PreTarget
<1>3. \A r \in Sw!Run : /\ Fits(pRun[r].at, Newest.phase) /\ pRun[r].at \in Places
                        /\ pRun[r].at \notin {"announcing", "resuming"}
  BY <1>1 DEF SwitchInv, RunInv, Sw!TypeOK, Places
<1>4. \A r \in Sw!Run : pRun[r].at \in {"idle", "checking"}
  BY <1>1, <1>3 DEF Fits, Places, Sw!Starting
<1> QED BY <1>1, <1>2, <1>4

\* The types of what a rollback and a flush leave.
LEMMA RolledTypes ==
    ASSUME SwitchBounds, SwitchInv, pCur' = 0,
           pPending' \in Seq(Sw!Msg), pHeld' \in [Sw!Msg -> Nat], pMoving' \in Nat,
           pLive' \in [Sw!Leg -> 0..Sw!OwnTmux], pAlign' \in {0, pAlign}, pBooted' \in BOOLEAN,
           pRun' \in [Sw!Run -> [at : Places, tr : 0..MaxSwitches]],
           pValid # 0 => pRun'[pValid] = pRun[pValid],
           UNCHANGED <<pChan, pActive, pSess, pTrs, pHandoff, pValid, pGot, Sw!pCount>>
    PROVE  Sw!TypeOK'
<1>1. /\ pChan' \in Sw!Leg /\ pActive' \in Sw!Leg /\ pCur' \in 0..MaxSwitches
      /\ pSess' \in [Sw!Leg -> [known : BOOLEAN, chan : BOOLEAN]]
      /\ pTrs' \in [Sw!Switch -> Transition] /\ pAlign' \in 0..MaxSwitches
  <2>1. /\ pTrs' \in [Sw!Switch -> Transition]
        /\ pSess' \in [Sw!Leg -> [known : BOOLEAN, chan : BOOLEAN]]
    BY DEF SwitchInv, Sw!TypeOK, Transition
  <2>2. /\ pChan' \in Sw!Leg /\ pActive' \in Sw!Leg /\ pAlign \in 0..MaxSwitches
        /\ 0 \in 0..MaxSwitches
    BY DEF SwitchInv, Sw!TypeOK, SwitchBounds
  <2> QED BY <2>1, <2>2
<1>2. /\ pHandoff' \in 0..MaxRuns /\ pValid' \in 0..MaxRuns /\ pGot' \in [Sw!Msg -> Nat]
      /\ pBegun' \in 0..MaxSwitches /\ pSent' \in 0..MaxMsgs /\ pFaults' \in 0..MaxFaults
      /\ pCrashes' \in 0..MaxCrashes /\ (pValid' # 0 => pRun'[pValid'].at = "validating")
  BY DEF SwitchInv, Sw!TypeOK, Sw!pCount
<1> QED BY <1>1, <1>2 DEF Sw!TypeOK, Places, Transition

\* The preview is given up or its proposal fails.
LEMMA GivenUp ==
    ASSUME SwitchBounds, SwitchInv, Sw!GiveUp \/ \E ok \in BOOLEAN : Sw!AlignEnds(ok)
    PROVE  SwitchInv'
<1>0. /\ pRun \in [Sw!Run -> [at : Places, tr : 0..MaxSwitches]]
      /\ pLive \in [Sw!Leg -> 0..Sw!OwnTmux]
      /\ pBooted \in BOOLEAN
  BY DEF SwitchInv, Sw!TypeOK, Places
<1>1. ASSUME Sw!RollbackMap, Sw!FlushFrom(Sw!RolledPending, pHeld, pMoving), Sw!MayFlush,
             pAlign' \in {0, pAlign}, ~Sw!Live(Sw!Other(pChan)),
             pCur = 0 \/ \A r \in Sw!Run : pRun[r].at \in {"idle", "checking"},
             UNCHANGED <<pLive, pRun, pHandoff, pValid, pBooted, pGot, Sw!pCount>>
      PROVE  SwitchInv'
  <2>1. UNCHANGED <<pChan, pActive, pSess, pTrs>> /\ pCur' = 0
    BY <1>1, RolledBack
  <2>2. ~Sw!Flushing /\ UNCHANGED <<pBegun, pSent, pCrashes>>
    BY <1>1 DEF Sw!MayFlush, SwitchBounds, Sw!pCount
  <2>3. /\ pPending' \in Seq(Sw!Msg) /\ pHeld' \in [Sw!Msg -> Nat] /\ pMoving' = 0
        /\ FlushInv' /\ CountInv'
    BY <1>1, <2>1, <2>2, Handed, Flushes
  <2>4. Sw!TypeOK'
    BY <1>0, <1>1, <2>1, <2>3, RolledTypes
  <2>5. RunInv' /\ LegInv' /\ \A r \in Sw!Run : pRun'[r].at \in {pRun[r].at, "idle"}
    BY <1>1, <2>1, <2>2, SwitchOver
  <2>6. ProcInv'
    <3>1. pCrashes' = 0 => /\ pBooted'
                           /\ \A r \in Sw!Run : pRun'[r].at \in
                                 {"idle", "checking", "rolling", "resuming", "announcing"}
      BY <1>1, <2>2 DEF SwitchInv, ProcInv
    <3> QED BY <1>1, <2>1, <2>2, <2>5, <3>1, QuietProc DEF Sw!Live
  <2> QED BY <2>3, <2>4, <2>5, <2>6 DEF SwitchInv
<1>2. CASE Sw!GiveUp
  <2>1. Sw!Phase \in {"preflight", "aligning"}
    BY <1>2 DEF Sw!GiveUp
  <2> QED BY <1>1, <1>2, <2>1, PlaceOf DEF Sw!GiveUp, Sw!pCtl
<1>3. ASSUME NEW ok \in BOOLEAN, Sw!AlignEnds(ok) PROVE SwitchInv'
  <2>1. pBegun # 0 /\ ~Newest.asked /\ (pCur # 0 => Newest.phase = "aligning" /\ pCur = pBegun)
    BY <1>3 DEF Sw!AlignEnds, SwitchInv, RunInv, LegInv
  <2>2. \A r \in Sw!Run : pRun[r] = Sw!Idle
    BY <2>1 DEF SwitchInv, RunInv
  <2>3. CASE Sw!RollbackMap /\ Sw!FlushFrom(Sw!RolledPending, pHeld, pMoving)
    <3>1. CASE pCur # 0
      <4>1. Sw!Phase = "aligning"
        BY <2>1, <3>1 DEF Sw!Phase, Sw!Tr, Newest
      <4> QED BY <1>1, <1>3, <2>3, <3>1, <4>1, PlaceOf DEF Sw!AlignEnds
    <3>2. CASE pCur = 0
      <4>1. UNCHANGED <<pChan, pActive, pSess, pTrs, pCur>>
        BY <2>3, <3>2, RolledBack
      <4>2. ~Sw!Flushing /\ UNCHANGED <<pBegun, pSent, pCrashes, pRun, pBooted, pLive, pGot>>
        BY <1>3 DEF Sw!AlignEnds, Sw!MayFlush, SwitchBounds, Sw!pCount
      <4>3. /\ pPending' \in Seq(Sw!Msg) /\ pHeld' \in [Sw!Msg -> Nat] /\ pMoving' = 0
            /\ FlushInv' /\ CountInv'
        BY <2>3, <3>2, <4>1, <4>2, Handed, Flushes
      <4>4. Sw!TypeOK'
        BY <1>0, <1>3, <3>2, <4>1, <4>3, RolledTypes DEF Sw!AlignEnds
      <4>5. RunInv' /\ LegInv'
        BY <1>3, <3>2, <4>1, <4>2, SwitchOver DEF Sw!AlignEnds
      <4>6. ProcInv'
        BY <4>1, <4>2 DEF SwitchInv, ProcInv, Newest, Engaged, Going, Sw!Live
      <4> QED BY <4>3, <4>4, <4>5, <4>6 DEF SwitchInv
    <3> QED BY <3>1, <3>2
  <2>4. CASE /\ pCur # 0 /\ pTrs' = Sw!SetPhase("preflight")
             /\ UNCHANGED <<pChan, pActive, pSess, pCur, Sw!pFlow>>
    <3>1. "preflight" \in Sw!Phases /\ "preflight" \in Sw!PreTarget /\ "aligning" \in Sw!PreTarget
      BY DEF Sw!Phases, Sw!PreTarget
    <3>2. /\ pTrs' \in [Sw!Switch -> Transition] /\ pCur = pBegun /\ pBegun \in Sw!Switch
          /\ \A t \in Sw!Switch : /\ pTrs'[t].src = pTrs[t].src /\ pTrs'[t].tgt = pTrs[t].tgt
                                  /\ pTrs'[t].queued = pTrs[t].queued
                                  /\ pTrs'[t].asked = pTrs[t].asked
      BY <2>1, <2>4, <3>1, Phased, NewestType DEF SwitchInv
    <3>3. /\ UNCHANGED <<pBegun, pSent, pFaults, pCrashes, pLive, pRun, pBooted, pGot, pHandoff,
                         pValid>>
          /\ pAlign' = 0
      BY <1>3 DEF Sw!AlignEnds, Sw!pCount
    <3>4. Sw!TypeOK'
      BY <2>4, <3>2, <3>3 DEF SwitchInv, Sw!TypeOK, Sw!pFlow, Transition, SwitchBounds
    <3>5. RunInv'
      BY <2>2, <2>4, <3>2, <3>3 DEF RunInv, Busy, Sw!Idle, Fits
    <3>6. LegInv'
      BY <2>4, <3>2, <3>3 DEF SwitchInv, LegInv, Sw!OneLeg, Engaged, Newest
    <3>7. FlushInv'
      BY <2>2, <2>4, <3>3 DEF SwitchInv, FlushInv, Sw!pFlow, Going, Sw!Idle
    <3>8. ProcInv'
      <4>1. ~Sw!Live(Sw!Other(pChan))
        BY <2>1, <2>4, <3>1 DEF SwitchInv, ProcInv, Engaged
      <4> QED BY <2>2, <2>4, <3>2, <3>3, <4>1 DEF SwitchInv, ProcInv, Sw!Live, Engaged, Sw!Idle
    <3>9. CountInv'
      <4>1. Queued' = Queued
        BY <2>4, <3>2, <3>3 DEF Queued, Newest
      <4> QED BY <2>4, <3>3, <4>1, SameCount DEF SwitchInv, Sw!pFlow
    <3> QED BY <3>4, <3>5, <3>6, <3>7, <3>8, <3>9 DEF SwitchInv
  <2> QED BY <1>3, <2>3, <2>4 DEF Sw!AlignEnds
<1> QED BY <1>2, <1>3

-----------------------------------------------------------------------------
\* The commit.
LEMMA Committed ==
    ASSUME SwitchBounds, SwitchInv, NEW r \in Sw!Run, Sw!Commits(r)
    PROVE  SwitchInv'
<1>1. Going(r) /\ pRun[r].at = "validating" /\ pCur = pRun[r].tr
  BY DEF Sw!Commits, Going
<1>2. /\ pRun[r].tr = pBegun /\ pBegun \in Sw!Switch /\ Newest \in Transition /\ pBegun # 0
      /\ Newest.src = pChan /\ Newest.tgt = Sw!Other(pChan) /\ Newest.asked
      /\ pCur = pBegun /\ pAlign = 0 /\ ~Sw!Live(pChan)
      /\ pHeld = [m \in Sw!Msg |-> 0] /\ pMoving = 0
      /\ \A q \in Sw!Run : q # r => pRun[q] = Sw!Idle
  BY <1>1, AtWork DEF Sw!Switch, SwitchBounds
<1>3. Sw!Tr = Newest
  BY <1>2 DEF Sw!Tr, Newest
<1>4. /\ pChan \in Sw!Leg /\ Sw!Other(pChan) \in Sw!Leg /\ Sw!Other(pChan) # pChan
      /\ Sw!Other(Sw!Other(pChan)) = pChan
      /\ \A l \in Sw!Leg : l # pChan <=> l = Sw!Other(pChan)
  BY Legs DEF SwitchInv, Sw!TypeOK
<1>5. /\ pChan' = Sw!Other(pChan) /\ pActive' = Sw!Other(pChan) /\ pCur' = 0 /\ pValid' = 0
      /\ pPending' = pPending \o Queued /\ pRun' = Sw!At(r, "announcing")
      /\ pSess' = [pSess EXCEPT ![pChan].chan = FALSE, ![Sw!Other(pChan)].chan = TRUE]
      /\ UNCHANGED <<pTrs, pLive, pHeld, pMoving, pHandoff, pAlign, pBooted, pGot, Sw!pCount>>
  BY <1>2, <1>3 DEF Sw!Commits, Sw!CommittedSess, Queued
<1>6. /\ pRun' \in [Sw!Run -> [at : Places, tr : 0..MaxSwitches]]
      /\ pRun'[r] = [at |-> "announcing", tr |-> pBegun]
      /\ \A q \in Sw!Run : q # r => pRun'[q] = Sw!Idle
  <2>1. "announcing" \in Places
    BY DEF Places
  <2> QED BY <1>2, <1>5, <2>1, Placed DEF SwitchInv
<1>7. /\ pSess' \in [Sw!Leg -> [known : BOOLEAN, chan : BOOLEAN]]
      /\ \A l \in Sw!Leg : pSess'[l].chan <=> l = Sw!Other(pChan)
  <2>1. pSess \in [Sw!Leg -> [known : BOOLEAN, chan : BOOLEAN]]
    BY DEF SwitchInv, Sw!TypeOK
  <2> QED BY <1>4, <1>5, <2>1
<1>8. ~Engaged'
  BY <1>5, <1>6 DEF Engaged, Going, Sw!Idle
<1>9. Sw!TypeOK'
  <2>1. pPending' \in Seq(Sw!Msg)
    BY <1>5, Handed
  <2>2. /\ pTrs' \in [Sw!Switch -> Transition] /\ pLive' \in [Sw!Leg -> 0..Sw!OwnTmux]
        /\ pHeld' \in [Sw!Msg -> Nat] /\ pMoving' \in Nat /\ pHandoff' \in 0..MaxRuns
        /\ pAlign' \in 0..MaxSwitches /\ pBooted' \in BOOLEAN /\ pGot' \in [Sw!Msg -> Nat]
        /\ pBegun' \in 0..MaxSwitches /\ pSent' \in 0..MaxMsgs /\ pFaults' \in 0..MaxFaults
        /\ pCrashes' \in 0..MaxCrashes /\ pValid' \in 0..MaxRuns /\ pCur' \in 0..MaxSwitches
    <3>1. UNCHANGED <<pTrs, pLive, pHeld, pMoving, pHandoff, pAlign, pBooted, pGot, pBegun,
                      pSent,
                      pFaults, pCrashes>>
      BY <1>5 DEF Sw!pCount
    <3>2. pValid' = 0 /\ pCur' = 0 /\ 0 \in 0..MaxRuns /\ 0 \in 0..MaxSwitches
      BY <1>5 DEF SwitchBounds
    <3> QED BY <3>1, <3>2 DEF SwitchInv, Sw!TypeOK, Transition
  <2> QED BY <1>4, <1>5, <1>6, <1>7, <2>1, <2>2 DEF Sw!TypeOK, Places, Transition
<1>10. Newest' = Newest /\ pBegun' = pBegun
  BY <1>5 DEF Newest, Sw!pCount
<1>11. RunInv'
  BY <1>2, <1>5, <1>6, <1>10 DEF RunInv, Busy, Sw!Idle
<1>12. LegInv'
  BY <1>5, <1>7, <1>8 DEF LegInv, Sw!OneLeg
<1>13. FlushInv'
  BY <1>2, <1>5 DEF FlushInv
<1>14. ProcInv'
  <2>1. \A q \in Sw!Run : pRun'[q].at \in {"idle", "announcing"}
    BY <1>6 DEF Sw!Idle
  <2>2. ~Sw!Live(Sw!Other(pChan))'
    BY <1>2, <1>4, <1>5 DEF Sw!Live
  <2>3. pCrashes' = 0 => pBooted'
    BY <1>5 DEF SwitchInv, ProcInv, Sw!pCount
  <2> QED BY <1>8, <2>1, <2>2, <2>3 DEF ProcInv
<1>15. CountInv'
  BY <1>2, <1>5, Joined DEF Sw!pCount
<1> QED BY <1>9, <1>11, <1>12, <1>13, <1>14, <1>15 DEF SwitchInv

\* The rollback of a run that failed.
LEMMA RunRollsBack ==
    ASSUME SwitchBounds, SwitchInv, NEW r \in Sw!Run, Sw!RollsBack(r)
    PROVE  SwitchInv'
<1> DEFINE to == IF pCur = 0 THEN "announcing" ELSE "resuming"
<1>1. Going(r)
  BY DEF Sw!RollsBack, Going
<1>2. /\ pRun[r].tr = pBegun /\ pBegun \in Sw!Switch /\ Newest \in Transition
      /\ Newest.tgt = Sw!Other(pChan) /\ Newest.asked /\ pAlign = 0
      /\ pCur # 0 => pMoving = 0 /\ pHeld = [m \in Sw!Msg |-> 0]
      /\ \A q \in Sw!Run : q # r => pRun[q] = Sw!Idle
      /\ pLive[Sw!Other(pChan)] \in {0, pBegun} /\ (Sw!Live(Sw!Other(pChan)) => Newest.tmux)
      /\ pTrs[pBegun] = Newest
  BY <1>1, AtWork DEF Newest
<1>3. /\ pChan \in Sw!Leg /\ Sw!Other(pChan) \in Sw!Leg /\ Sw!Other(pChan) # pChan
      /\ pSess \in [Sw!Leg -> [known : BOOLEAN, chan : BOOLEAN]]
      /\ pLive \in [Sw!Leg -> 0..Sw!OwnTmux]
      /\ \A l \in Sw!Leg : pSess[l].chan <=> l = pChan
  BY Legs DEF SwitchInv, Sw!TypeOK, LegInv, Sw!OneLeg
<1>4. /\ UNCHANGED <<pChan, pActive, pSess, pTrs>> /\ pCur' = 0
      /\ pPending' = IF pCur = 0 THEN pPending ELSE Sw!RolledPending
  <2>1. CASE pCur = 0
    <3>1. /\ pSess' = IF Newest.sid THEN [pSess EXCEPT ![Sw!Other(pChan)].chan = FALSE] ELSE pSess
          /\ UNCHANGED <<pChan, pActive, pCur, pTrs, pPending>>
      BY <1>2, <2>1 DEF Sw!RollsBack
    <3>2. [pSess[Sw!Other(pChan)] EXCEPT !.chan = FALSE] = pSess[Sw!Other(pChan)]
      BY <1>3
    <3>3. pSess' = pSess
      BY <1>3, <3>1, <3>2
    <3> QED BY <2>1, <3>1, <3>3
  <2>2. CASE pCur # 0
    BY <2>2, RolledBack DEF Sw!RollsBack
  <2> QED BY <2>1, <2>2
<1>5. /\ pRun' = Sw!At(r, to)
      /\ UNCHANGED <<pHeld, pMoving, pHandoff, pValid, pAlign, pBooted, pGot, Sw!pCount>>
  BY DEF Sw!RollsBack
<1>6. pLive' \in [Sw!Leg -> 0..Sw!OwnTmux] /\ pLive'[Sw!Other(pChan)] = 0
  <2>1. pLive' = [l \in Sw!Leg |-> IF (Newest.tmux /\ pLive[l] = pBegun)
                                      \/ (Newest.sid /\ l = Newest.tgt) THEN 0 ELSE pLive[l]]
    BY <1>2 DEF Sw!RollsBack
  <2>2. 0 \in 0..Sw!OwnTmux
    BY DEF Sw!OwnTmux, SwitchBounds
  <2> QED BY <1>2, <1>3, <2>1, <2>2 DEF Sw!Live
<1>7. /\ pRun' \in [Sw!Run -> [at : Places, tr : 0..MaxSwitches]]
      /\ pRun'[r] = [at |-> to, tr |-> pBegun]
      /\ \A q \in Sw!Run : q # r => pRun'[q] = Sw!Idle
  <2>1. to \in Places
    BY DEF Places
  <2> HIDE DEF to
  <2> QED BY <1>2, <1>5, <2>1, Placed DEF SwitchInv
<1>8. to \in {"announcing", "resuming"}
  OBVIOUS
<1> HIDE DEF to
<1>9. pValid = 0
  BY <1>1, OwnValid DEF Sw!RollsBack
<1>10. Sw!TypeOK'
  <2>1. /\ pPending' \in Seq(Sw!Msg) /\ pHeld' \in [Sw!Msg -> Nat] /\ pMoving' \in Nat
        /\ pBooted' \in BOOLEAN
    BY <1>4, <1>5, Handed DEF SwitchInv, Sw!TypeOK
  <2> QED BY <1>4, <1>5, <1>6, <1>7, <1>9, <2>1, RolledTypes
<1>11. Newest' = Newest /\ pBegun' = pBegun
  BY <1>4, <1>5 DEF Newest, Sw!pCount
<1>12. RunInv'
  BY <1>2, <1>4, <1>5, <1>7, <1>8, <1>11 DEF RunInv, Busy, Sw!Idle, Sw!Switch
<1>13. LegInv'
  <2>1. Engaged
    BY <1>1 DEF Engaged
  <2> QED BY <1>4, <1>11, <2>1 DEF SwitchInv, LegInv, Sw!OneLeg
<1>14. FlushInv'
  <2>1. pCur = 0 => pPending' = pPending
    BY <1>4
  <2> QED BY <1>2, <1>4, <1>5, <2>1 DEF SwitchInv, FlushInv
<1>15. ProcInv'
  <2>1. \A q \in Sw!Run : pRun'[q].at \in {"idle", "announcing", "resuming"}
    BY <1>7, <1>8 DEF Sw!Idle
  <2>2. ~Sw!Live(Sw!Other(pChan))' /\ pLive'[Sw!Other(pChan')] = 0
    BY <1>4, <1>6 DEF Sw!Live
  <2>3. pCrashes' = 0 => pBooted'
    BY <1>5 DEF SwitchInv, ProcInv, Sw!pCount
  <2> QED BY <1>4, <2>1, <2>2, <2>3 DEF ProcInv
<1>16. CountInv'
  <2>1. CASE pCur = 0
    <3>1. Queued' = Queued
      BY <1>4, <2>1 DEF Queued
    <3> QED BY <1>4, <1>5, <2>1, <3>1, SameCount DEF SwitchInv, Sw!pCount
  <2>2. CASE pCur # 0
    BY <1>2, <1>4, <1>5, <2>2, Joined, Handed DEF Sw!pCount
  <2> QED BY <2>1, <2>2
<1> QED BY <1>10, <1>12, <1>13, <1>14, <1>15, <1>16 DEF SwitchInv

\* The end of a run.
LEMMA RunOver ==
    ASSUME SwitchBounds, SwitchInv, NEW r \in Sw!Run, Sw!RunEnds(r)
    PROVE  SwitchInv'
<1>1. pCur = 0 /\ pRun[r].at \in {"announcing", "resuming"}
  BY DEF Sw!RunEnds, SwitchInv, RunInv
<1>2. /\ pRun[r].at = "resuming" => ~Sw!Live(Sw!Other(pChan)) /\ pTrs[pRun[r].tr].src = pChan
      /\ \A q \in Sw!Run : q # r => pRun[q] = Sw!Idle
  <2>1. Busy(r)
    BY <1>1 DEF Busy
  <2>2. \A q \in Sw!Run : q # r => pRun[q] = Sw!Idle
    BY <2>1 DEF SwitchInv, RunInv
  <2>3. pRun[r].at = "resuming" => Going(r) /\ ~Sw!Live(Sw!Other(pChan))
    BY DEF SwitchInv, ProcInv, Going
  <2> QED BY <2>2, <2>3, AtWork DEF Newest
<1>3. /\ UNCHANGED <<pChan, pActive, pSess, pTrs, pCur, pHandoff, pValid, pAlign, pBooted, pGot,
                     Sw!pCount>>
      /\ pRun' = [pRun EXCEPT ![r] = Sw!Idle] /\ ~Sw!Flushing
      /\ Sw!FlushFrom(pPending, pHeld, pMoving)
  BY DEF Sw!RunEnds, Sw!pMap, Sw!MayFlush, SwitchBounds
<1>4. /\ pChan \in Sw!Leg /\ Sw!Other(pChan) \in Sw!Leg /\ Sw!Other(pChan) # pChan
      /\ pLive \in [Sw!Leg -> 0..Sw!OwnTmux] /\ Sw!OwnTmux \in 0..Sw!OwnTmux
      /\ pRun \in [Sw!Run -> [at : Places, tr : 0..MaxSwitches]]
      /\ Sw!Idle \in [at : Places, tr : 0..MaxSwitches]
  BY Legs DEF SwitchInv, Sw!TypeOK, Places, Sw!Idle, Sw!OwnTmux, SwitchBounds
<1>5. /\ pRun' \in [Sw!Run -> [at : Places, tr : 0..MaxSwitches]]
      /\ \A q \in Sw!Run : pRun'[q] = Sw!Idle /\ pRun'[q] \in {pRun[q], Sw!Idle}
  BY <1>2, <1>3, <1>4
<1>6. /\ pLive' \in [Sw!Leg -> 0..Sw!OwnTmux]
      /\ pLive'[Sw!Other(pChan)] = pLive[Sw!Other(pChan)]
  <2>1. CASE pLive' = pLive
    BY <1>4, <2>1
  <2>2. CASE pLive' # pLive
    <3>1. pLive' = [pLive EXCEPT ![pChan] = Sw!OwnTmux]
      BY <1>2, <2>2 DEF Sw!RunEnds
    <3> QED BY <1>4, <3>1
  <2> QED BY <2>1, <2>2
<1>7. /\ pPending' \in Seq(Sw!Msg) /\ pHeld' \in [Sw!Msg -> Nat] /\ pMoving' = 0
      /\ FlushInv' /\ CountInv'
  BY <1>1, <1>3, Handed, Flushes DEF Sw!pCount
<1>8. pValid # 0 => pRun'[pValid] = pRun[pValid]
  <2>1. pValid # 0 => pValid # r
    BY <1>1 DEF SwitchInv, Sw!TypeOK
  <2> QED BY <1>3, <1>4, <2>1
<1>9. Sw!TypeOK'
  BY <1>1, <1>3, <1>5, <1>6, <1>7, <1>8, RolledTypes DEF SwitchInv, Sw!TypeOK
<1>10. RunInv' /\ LegInv'
  BY <1>1, <1>3, <1>5, SwitchOver DEF Sw!pCount
<1>11. ProcInv'
  <2>1. ~Engaged' /\ \A q \in Sw!Run : pRun'[q].at = "idle"
    BY <1>1, <1>3, <1>5 DEF Engaged, Going, Sw!Idle
  <2>2. MaxCrashes <= 1 => ~Sw!Live(Sw!Other(pChan))
    <3>1. CASE pRun[r].at = "resuming"
      BY <1>2, <3>1
    <3>2. CASE pRun[r].at = "announcing"
      <4>1. ~Engaged
        BY <1>1, <1>2, <3>2 DEF Engaged, Going, Sw!Idle
      <4> QED BY <4>1 DEF SwitchInv, ProcInv
    <3> QED BY <1>1, <3>1, <3>2
  <2>3. pCrashes = 0 => pBooted /\ ~Sw!Live(Sw!Other(pChan))
    BY <1>1 DEF SwitchInv, ProcInv
  <2>4. /\ pCrashes' = pCrashes /\ pBooted' = pBooted
        /\ Sw!Live(Sw!Other(pChan))' <=> Sw!Live(Sw!Other(pChan))
    BY <1>3, <1>6 DEF Sw!Live, Sw!pCount
  <2> QED BY <2>1, <2>2, <2>3, <2>4 DEF ProcInv
<1> QED BY <1>7, <1>9, <1>10, <1>11 DEF SwitchInv

-----------------------------------------------------------------------------
\* A transition that is otherwise as it was, and no run at work.
LEMMA Retouched ==
    ASSUME SwitchBounds, SwitchInv, pCur # 0, NEW trs \in [Sw!Switch -> Transition],
           \A t \in Sw!Switch : t # pCur => trs[t] = pTrs[t],
           trs[pCur].src = Sw!Tr.src, trs[pCur].tgt = Sw!Tr.tgt, trs[pCur].queued = Sw!Tr.queued,
           pTrs' = trs,
           UNCHANGED <<pChan, pActive, pSess, pCur, pLive, Sw!pFlow, pBooted, pGot, Sw!pCount>>
    PROVE  /\ pTrs' \in [Sw!Switch -> Transition] /\ LegInv' /\ CountInv'
           /\ pCur = pBegun /\ pBegun \in Sw!Switch /\ Newest' = trs[pBegun]
<1>1. pCur = pBegun /\ pBegun \in Sw!Switch /\ Sw!Tr = Newest
  <2>1. pCur = pBegun
    BY DEF SwitchInv, LegInv
  <2> QED BY <2>1, NewestType DEF SwitchInv, Sw!Tr, Newest
<1>2. Newest' = trs[pBegun]
  BY DEF Newest, Sw!pCount
<1>3. LegInv'
  BY <1>1, <1>2 DEF SwitchInv, LegInv, Sw!OneLeg, Engaged, Sw!pCount
<1>4. CountInv'
  <2>1. Queued' = Queued
    BY <1>1, <1>2 DEF Queued
  <2> QED BY <2>1, SameCount DEF SwitchInv, Sw!pFlow, Sw!pCount
<1> QED BY <1>1, <1>2, <1>3, <1>4

\* Continue, and the proposal of instructions.
LEMMA Pressed ==
    ASSUME SwitchBounds, SwitchInv, Sw!AlignBegins \/ \E r \in Sw!Run : Sw!Continue(r)
    PROVE  SwitchInv'
<1>1. /\ Sw!Phase = "preflight" /\ ~Sw!Tr.asked
      /\ UNCHANGED <<pChan, pActive, pSess, pCur, pLive, Sw!pFlow, pBooted, pGot, Sw!pCount,
                     pHandoff,
                     pValid>>
  BY DEF Sw!AlignBegins, Sw!Continue, SwitchBounds
<1>2. pCur # 0 /\ ~Sw!Live(Sw!Other(pChan))
  BY <1>1, PlaceOf
<1>3. pCur = pBegun /\ pBegun \in Sw!Switch /\ Sw!Tr = Newest /\ Newest \in Transition
  <2>1. pCur = pBegun
    BY <1>2 DEF SwitchInv, LegInv
  <2> QED BY <1>2, <2>1, NewestType DEF SwitchInv, Sw!Tr, Newest
<1>4. \A r \in Sw!Run : pRun[r] = Sw!Idle
  BY <1>1, <1>3 DEF SwitchInv, RunInv
<1>5. /\ pTrs \in [Sw!Switch -> Transition] /\ pTrs[pCur] \in Transition /\ Sw!Tr = pTrs[pCur]
      /\ pRun \in [Sw!Run -> [at : Places, tr : 0..MaxSwitches]]
  BY <1>3 DEF SwitchInv, Sw!TypeOK, Transition, Sw!Tr, Places
<1>6. Newest.phase = "preflight"
  BY <1>1, <1>2, <1>3 DEF Sw!Phase
<1>7. pAlign = 0
  BY <1>2, <1>6 DEF SwitchInv, RunInv
<1>8. CASE Sw!AlignBegins
  <2>1. PICK n : n = [pTrs[pCur] EXCEPT !.phase = "aligning", !.proposed = TRUE]
    OBVIOUS
  <2>2. /\ n \in Transition /\ n.src = Sw!Tr.src /\ n.tgt = Sw!Tr.tgt /\ n.queued = Sw!Tr.queued
        /\ n.phase = "aligning" /\ ~n.asked
    BY <1>1, <1>5, <2>1 DEF Transition, Sw!Phases, Sw!PreTarget
  <2>3. pTrs' = [pTrs EXCEPT ![pCur] = n] /\ UNCHANGED pRun /\ pAlign' = pCur
    BY <1>3, <1>5, <1>8, <2>1 DEF Sw!AlignBegins
  <2>4. PICK trs \in [Sw!Switch -> Transition] : trs = [pTrs EXCEPT ![pCur] = n]
    BY <1>3, <1>5, <2>2
  <2>5. trs[pCur] = n /\ \A t \in Sw!Switch : t # pCur => trs[t] = pTrs[t]
    BY <1>3, <1>5, <2>4
  <2>6. /\ pTrs' \in [Sw!Switch -> Transition] /\ LegInv' /\ CountInv' /\ Newest' = n
        /\ pBegun' = pBegun
    BY <1>1, <1>2, <1>3, <2>2, <2>3, <2>4, <2>5, Retouched DEF Sw!pCount
  <2>7. Sw!TypeOK'
    BY <1>1, <1>3, <2>3, <2>6
       DEF SwitchInv, Sw!TypeOK, Sw!pFlow, Sw!pCount, Transition, Sw!Switch, SwitchBounds
  <2>8. RunInv'
    BY <1>1, <1>2, <1>3, <1>4, <2>2, <2>3, <2>6 DEF RunInv, Busy, Sw!Idle, Fits
  <2>9. FlushInv'
    BY <1>1, <1>4, <2>3 DEF SwitchInv, FlushInv, Sw!pFlow, Going, Sw!Idle
  <2>10. ProcInv'
    BY <1>1, <1>2, <1>4, <2>3, <2>6 DEF SwitchInv, ProcInv, Sw!Live, Engaged, Sw!Idle, Sw!pCount
  <2> QED BY <2>6, <2>7, <2>8, <2>9, <2>10 DEF SwitchInv
<1>9. ASSUME NEW r \in Sw!Run, Sw!Continue(r) PROVE SwitchInv'
  <2>1. PICK n : n = [pTrs[pCur] EXCEPT !.asked = TRUE]
    OBVIOUS
  <2>2. /\ n \in Transition /\ n.src = Sw!Tr.src /\ n.tgt = Sw!Tr.tgt /\ n.queued = Sw!Tr.queued
        /\ n.phase = "preflight" /\ n.asked
    BY <1>3, <1>5, <1>6, <2>1 DEF Transition
  <2>3. /\ pTrs' = [pTrs EXCEPT ![pCur] = n] /\ UNCHANGED pAlign /\ ~Sw!Flushing
        /\ pRun' = [pRun EXCEPT ![r] = [at |-> "checking", tr |-> pCur]]
    BY <1>3, <1>5, <1>9, <2>1 DEF Sw!Continue, Sw!MayFlush, SwitchBounds
  <2>4. PICK trs \in [Sw!Switch -> Transition] : trs = [pTrs EXCEPT ![pCur] = n]
    BY <1>3, <1>5, <2>2
  <2>5. trs[pCur] = n /\ \A t \in Sw!Switch : t # pCur => trs[t] = pTrs[t]
    BY <1>3, <1>5, <2>4
  <2>6. /\ pTrs' \in [Sw!Switch -> Transition] /\ LegInv' /\ CountInv' /\ Newest' = n
        /\ pBegun' = pBegun
    BY <1>1, <1>2, <1>3, <2>2, <2>3, <2>4, <2>5, Retouched DEF Sw!pCount
  <2>7. /\ pRun' \in [Sw!Run -> [at : Places, tr : 0..MaxSwitches]]
        /\ pRun'[r] = [at |-> "checking", tr |-> pBegun]
        /\ \A q \in Sw!Run : q # r => pRun'[q] = Sw!Idle
    <3>1. [at |-> "checking", tr |-> pCur] \in [at : Places, tr : 0..MaxSwitches]
      BY <1>3 DEF Places, Sw!Switch, SwitchBounds
    <3> QED BY <1>3, <1>4, <1>5, <2>3, <3>1
  <2>8. Sw!TypeOK'
    <3>1. pValid = 0
      <4>1. pValid # 0 => pValid \in Sw!Run /\ pRun[pValid].at = "validating"
        BY DEF SwitchInv, Sw!TypeOK, Sw!Run, SwitchBounds
      <4> QED BY <1>4, <4>1 DEF Sw!Idle
    <3> QED BY <1>1, <2>3, <2>6, <2>7, <3>1
            DEF SwitchInv, Sw!TypeOK, Sw!pFlow, Sw!pCount, Transition, Places
  <2>9. RunInv'
    BY <1>1, <1>2, <1>3, <1>7, <2>2, <2>3, <2>6, <2>7
       DEF RunInv, Busy, Sw!Idle, Fits, Sw!Switch, SwitchBounds
  <2>10. FlushInv'
    <3>1. ~Sw!Flushing'
      BY <1>1, <2>3 DEF Sw!Flushing, Sw!pFlow
    <3> QED BY <1>1, <3>1 DEF SwitchInv, FlushInv, Sw!pFlow
  <2>11. ProcInv'
    <3>1. \A q \in Sw!Run : pRun'[q].at \in {"idle", "checking"}
      BY <2>7 DEF Sw!Idle
    <3>2. ~Sw!Live(Sw!Other(pChan))' /\ pLive'[Sw!Other(pChan')] = 0
      BY <1>1, <1>2 DEF Sw!Live
    <3>3. Engaged' /\ (pCrashes' = 0 => pBooted')
      BY <1>1, <1>2 DEF SwitchInv, ProcInv, Engaged, Sw!pCount
    <3> QED BY <3>1, <3>2, <3>3 DEF ProcInv
  <2> QED BY <2>6, <2>8, <2>9, <2>10, <2>11 DEF SwitchInv
<1> QED BY <1>8, <1>9

\* A switch begins.
LEMMA Begun ==
    ASSUME SwitchBounds, SwitchInv, Sw!Begin
    PROVE  SwitchInv'
<1>1. /\ pCur = 0 /\ pAlign = 0 /\ \A r \in Sw!Run : pRun[r] = Sw!Idle
      /\ ~Sw!Live(Sw!Other(pChan)) /\ pBegun < MaxSwitches /\ pBegun \in 0..MaxSwitches
  BY DEF Sw!Begin, SwitchInv, Sw!TypeOK, SwitchBounds
<1>2. /\ pBegun' = pBegun + 1 /\ pCur' = pBegun + 1 /\ pBegun + 1 \in Sw!Switch
      /\ pBegun + 1 \in 0..MaxSwitches /\ pBegun + 1 # 0
      /\ UNCHANGED <<pChan, pActive, pSess, pLive, Sw!pFlow, Sw!pCtl, pBooted, pGot, pSent,
                     pFaults,
                     pCrashes>>
  BY <1>1 DEF Sw!Begin, Sw!Switch, SwitchBounds
<1>3. /\ pTrs \in [Sw!Switch -> Transition] /\ pChan \in Sw!Leg /\ Sw!Other(pChan) \in Sw!Leg
      /\ pSess[Sw!Other(pChan)].known \in BOOLEAN
  BY Legs DEF SwitchInv, Sw!TypeOK, Transition
<1>4. PICK n : n = [Sw!NoTr EXCEPT !.phase = "preflight", !.src = pChan, !.tgt = Sw!Other(pChan),
                                   !.sid = pSess[Sw!Other(pChan)].known]
  OBVIOUS
<1>5. /\ n \in Transition /\ n.src = pChan /\ n.tgt = Sw!Other(pChan) /\ n.queued = <<>>
      /\ n.phase = "preflight"
  <2>1. "preflight" \in Sw!Phases /\ <<>> \in Seq(Sw!Msg)
    BY DEF Sw!Phases, Sw!PreTarget
  <2> QED BY <1>3, <1>4, <2>1 DEF Sw!NoTr, Transition
<1>6. pTrs' = [pTrs EXCEPT ![pBegun + 1] = n]
  BY <1>4 DEF Sw!Begin
<1>7. pTrs' \in [Sw!Switch -> Transition] /\ Newest' = n
  BY <1>2, <1>3, <1>5, <1>6 DEF Newest
<1>8. Sw!TypeOK'
  BY <1>2, <1>7 DEF SwitchInv, Sw!TypeOK, Sw!pFlow, Sw!pCtl, Transition
<1>9. RunInv'
  BY <1>1, <1>2, <1>5, <1>7 DEF RunInv, Busy, Sw!Idle, Sw!pCtl, Fits
<1>10. LegInv'
  BY <1>2, <1>5, <1>7 DEF SwitchInv, LegInv, Sw!OneLeg
<1>11. FlushInv'
  BY <1>1, <1>2 DEF SwitchInv, FlushInv, Sw!pFlow, Sw!pCtl, Going, Sw!Idle
<1>12. ProcInv'
  BY <1>1, <1>2 DEF SwitchInv, ProcInv, Sw!pCtl, Sw!Live, Sw!Idle, Engaged
<1>13. CountInv'
  <2>1. Queued' = <<>> /\ Queued = <<>>
    BY <1>1, <1>5, <1>7 DEF Queued
  <2> QED BY <1>2, <2>1, SameCount DEF SwitchInv, Sw!pFlow
<1> QED BY <1>8, <1>9, <1>10, <1>11, <1>12, <1>13 DEF SwitchInv

\* The recovery at boot.
LEMMA RecoversSwitch ==
    ASSUME SwitchBounds, SwitchInv, Sw!Recover
    PROVE  SwitchInv'
<1>1. /\ ~pBooted /\ ~Sw!Flushing /\ pBooted' /\ UNCHANGED <<Sw!pCtl, pGot, Sw!pCount>>
      /\ Sw!FlushFrom(Sw!RolledPending, pHeld, pMoving) /\ Sw!RollbackMap
  BY DEF Sw!Recover, Sw!MayFlush, SwitchBounds, Sw!RollbackMap
<1>2. UNCHANGED <<pChan, pActive, pSess, pTrs>> /\ pCur' = 0
  BY <1>1, RolledBack
<1>3. /\ pPending' \in Seq(Sw!Msg) /\ pHeld' \in [Sw!Msg -> Nat] /\ pMoving' = 0
      /\ FlushInv' /\ CountInv'
  BY <1>1, <1>2, Handed, Flushes DEF Sw!pCount
<1>4. /\ pChan \in Sw!Leg /\ Sw!Other(pChan) \in Sw!Leg /\ Sw!Other(pChan) # pChan
      /\ pLive \in [Sw!Leg -> 0..Sw!OwnTmux] /\ Sw!OwnTmux \in 0..Sw!OwnTmux
      /\ 0 \in 0..Sw!OwnTmux
      /\ pRun \in [Sw!Run -> [at : Places, tr : 0..MaxSwitches]]
  BY Legs DEF SwitchInv, Sw!TypeOK, Places, Sw!OwnTmux, SwitchBounds
<1>5. /\ pLive' \in [Sw!Leg -> 0..Sw!OwnTmux]
      /\ IF pCur = 0 THEN pLive' = pLive ELSE pLive'[Sw!Other(pChan)] = 0
  <2>1. CASE pCur = 0
    BY <1>4, <2>1 DEF Sw!Recover
  <2>2. CASE pCur # 0
    <3>1. /\ pCur = pBegun /\ Sw!Tr = Newest /\ Sw!Tr.src = pChan
          /\ pLive[Sw!Other(pChan)] \in {0, pBegun}
          /\ Sw!Live(Sw!Other(pChan)) => Sw!Tr.tmux /\ Sw!Tr.phase \notin Sw!PreTarget
      BY <2>2 DEF SwitchInv, LegInv, ProcInv, Engaged, Sw!Tr, Newest
    <3> DEFINE kept == [l \in Sw!Leg |->
                           IF Sw!Reaped(Sw!Tr) /\ pLive[l] = pCur THEN 0 ELSE pLive[l]]
    <3>2. kept \in [Sw!Leg -> 0..Sw!OwnTmux] /\ kept[Sw!Other(pChan)] = 0
      BY <1>4, <3>1 DEF Sw!Reaped, Sw!Live
    <3>3. pLive' = kept \/ pLive' = [kept EXCEPT ![pChan] = Sw!OwnTmux]
      BY <2>2, <3>1 DEF Sw!Recover
    <3> HIDE DEF kept
    <3> QED BY <1>4, <2>2, <3>2, <3>3
  <2> QED BY <2>1, <2>2
<1>6. Sw!TypeOK'
  BY <1>1, <1>2, <1>3, <1>4, <1>5, RolledTypes DEF Sw!pCtl
<1>7. RunInv' /\ LegInv' /\ \A r \in Sw!Run : pRun'[r].at \in {pRun[r].at, "idle"}
  BY <1>1, <1>2, SwitchOver DEF Sw!pCtl, Sw!pCount
<1>8. pCrashes' # 0
  BY <1>1 DEF SwitchInv, ProcInv, Sw!pCount
<1>9. ProcInv'
  <2>1. CASE pCur = 0
    BY <1>1, <1>2, <1>5, <1>8, <2>1
       DEF SwitchInv, ProcInv, Sw!Live, Engaged, Going, Newest, Sw!pCtl, Sw!pCount
  <2>2. CASE pCur # 0
    BY <1>1, <1>2, <1>5, <1>7, <1>8, <2>2, QuietProc DEF Sw!pCount
  <2> QED BY <2>1, <2>2
<1> QED BY <1>3, <1>6, <1>7, <1>9 DEF SwitchInv

-----------------------------------------------------------------------------
\* The transitions with what they hold back.
SameSwitches ==
    /\ pTrs' \in [Sw!Switch -> Transition]
    /\ \A t \in Sw!Switch : /\ pTrs'[t].src = pTrs[t].src /\ pTrs'[t].tgt = pTrs[t].tgt
                            /\ pTrs'[t].asked = pTrs[t].asked /\ pTrs'[t].phase = pTrs[t].phase
                            /\ pTrs'[t].tmux = pTrs[t].tmux

\* A message more is held back.
LEMMA HeldBack ==
    ASSUME SwitchBounds, SwitchInv, pCur # 0, NEW m \in Sw!Msg,
           pTrs' = [pTrs EXCEPT ![pCur].queued = Append(@, m)]
    PROVE  /\ SameSwitches /\ pCur = pBegun /\ pBegun \in Sw!Switch
           /\ pTrs'[pBegun].queued = Append(Queued, m)
<1>1. pCur = pBegun /\ pBegun \in Sw!Switch
  <2>1. pCur = pBegun
    BY DEF SwitchInv, LegInv
  <2> QED BY <2>1, NewestType DEF SwitchInv
<1>2. pTrs \in [Sw!Switch -> Transition]
  BY DEF SwitchInv, Sw!TypeOK, Transition
<1>3. PICK n : n = [pTrs[pBegun] EXCEPT !.queued = Append(@, m)]
  OBVIOUS
<1>4. Append(pTrs[pBegun].queued, m) \in Seq(Sw!Msg)
  BY <1>1, <1>2 DEF Transition
<1>5. /\ n \in Transition /\ n.src = pTrs[pBegun].src /\ n.tgt = pTrs[pBegun].tgt
      /\ n.asked = pTrs[pBegun].asked /\ n.phase = pTrs[pBegun].phase
      /\ n.tmux = pTrs[pBegun].tmux /\ n.queued = Append(pTrs[pBegun].queued, m)
  BY <1>1, <1>2, <1>3, <1>4 DEF Transition
<1>6. pTrs' = [pTrs EXCEPT ![pBegun] = n]
  BY <1>1, <1>3
<1>7. pTrs'[pBegun] = n /\ \A t \in Sw!Switch : t # pBegun => pTrs'[t] = pTrs[t]
  BY <1>1, <1>2, <1>6
<1>8. SameSwitches
  BY <1>1, <1>2, <1>5, <1>6, <1>7 DEF SameSwitches
<1>9. pTrs'[pBegun].queued = Append(Queued, m)
  BY <1>1, <1>5, <1>7 DEF Queued, Newest
<1> QED BY <1>1, <1>8, <1>9

\* The runs, the legs and their processes when only a message moves.
LEMMA OnlyMessages ==
    ASSUME SwitchBounds, SwitchInv, SameSwitches,
           pLive' = pLive \/ (pLive' = [pLive EXCEPT ![pChan] = Sw!OwnTmux]
                                /\ (pCur # 0 => \A r \in Sw!Run : ~Going(r))),
           \A l \in Sw!Leg : pSess'[l].chan = pSess[l].chan,
           UNCHANGED <<pChan, pActive, pCur, pRun, pAlign, pBooted, pBegun, pCrashes>>
    PROVE  RunInv' /\ LegInv' /\ ProcInv' /\ pLive' \in [Sw!Leg -> 0..Sw!OwnTmux]
<1>1. /\ pChan \in Sw!Leg /\ Sw!Other(pChan) \in Sw!Leg /\ Sw!Other(pChan) # pChan
      /\ pLive \in [Sw!Leg -> 0..Sw!OwnTmux] /\ Sw!OwnTmux \in 0..Sw!OwnTmux
  BY Legs DEF SwitchInv, Sw!TypeOK, Sw!OwnTmux, SwitchBounds
<1>2. /\ pLive' \in [Sw!Leg -> 0..Sw!OwnTmux]
      /\ pLive'[Sw!Other(pChan)] = pLive[Sw!Other(pChan)]
      /\ pLive'[pChan] = pLive[pChan] \/ (pCur # 0 => \A r \in Sw!Run : ~Going(r))
  BY <1>1
<1>3. pBegun # 0 => /\ Newest'.src = Newest.src /\ Newest'.tgt = Newest.tgt
                    /\ Newest'.asked = Newest.asked /\ Newest'.phase = Newest.phase
                    /\ Newest'.tmux = Newest.tmux
  BY NewestType DEF SwitchInv, SameSwitches, Newest
<1>4. (Engaged => pBegun # 0) /\ (Engaged' <=> Engaged)
  BY DEF SwitchInv, LegInv, Engaged, Going
<1>5. \A r \in Sw!Run : Busy(r) => pBegun # 0
  BY DEF SwitchInv, RunInv
<1>6. RunInv'
  BY <1>3, <1>5 DEF SwitchInv, RunInv, Busy, LegInv, Engaged
<1>7. LegInv'
  BY <1>3, <1>4 DEF SwitchInv, LegInv, Sw!OneLeg
<1>8. ProcInv'
  <2>1. Sw!Live(Sw!Other(pChan))' <=> Sw!Live(Sw!Other(pChan))
    BY <1>2 DEF Sw!Live
  <2>2. Engaged' => /\ pLive'[Sw!Other(pChan')] \in {0, pBegun'}
                    /\ Sw!Live(Sw!Other(pChan))' =>
                              Newest'.tmux /\ (pCur' # 0 => Newest'.phase \notin Sw!PreTarget)
    BY <1>2, <1>3, <1>4, <2>1 DEF SwitchInv, ProcInv
  <2>3. \A r \in Sw!Run :
          /\ pRun'[r].at \in {"starting", "ready", "validating"} => Newest'.tmux
          /\ pRun'[r].at = "resuming" => ~Sw!Live(Sw!Other(pChan))'
          /\ pCur' # 0 /\ pRun'[r].at \in {"starting", "ready", "validating"} =>
                 ~Sw!Live(pChan)'
    BY <1>2, <1>3, <1>5, <2>1 DEF SwitchInv, ProcInv, Sw!Live, Busy, Going
  <2>4. pCrashes' = 0 =>
          /\ pBooted'
          /\ pCur' = 0 => /\ ~Sw!Live(Sw!Other(pChan))'
                          /\ \A r \in Sw!Run : pRun'[r].at \in
                                {"idle", "checking", "rolling", "resuming", "announcing"}
    BY <2>1 DEF SwitchInv, ProcInv
  <2>5. MaxCrashes <= 1 /\ ~Engaged' => ~Sw!Live(Sw!Other(pChan))'
    BY <1>4, <2>1 DEF SwitchInv, ProcInv
  <2> QED BY <2>2, <2>3, <2>4, <2>5 DEF ProcInv
<1> QED BY <1>2, <1>6, <1>7, <1>8

\* A message of a list is in it.
LEMMA OccHead ==
    ASSUME NEW s \in Seq(Sw!Msg), s # <<>>
    PROVE  Head(s) \in Sw!Msg /\ Occ(s, Head(s)) > 0
<1>1. Tail(s) \in Seq(Sw!Msg) /\ Head(s) \in Sw!Msg
  OBVIOUS
<1>2. Occ(s, Head(s)) = 1 + Occ(Tail(s), Head(s))
  BY OccTail
<1>3. Occ(Tail(s), Head(s)) \in Nat
  BY <1>1, SpotsFinite
<1> QED BY <1>1, <1>2, <1>3

\* A flush goes on with what is left of the list.
LEMMA FlushOn ==
    ASSUME SwitchBounds, SwitchInv, Sw!Flushing, NEW rest \in Seq(Sw!Msg),
           NEW none, none = [m \in Sw!Msg |-> 0],
           IF pCur # 0 /\ rest # <<>>
           THEN /\ pTrs' = [pTrs EXCEPT ![pCur].queued = Append(@, Head(rest))]
                /\ pPending' = rest /\ pHeld' = none /\ pMoving' = 1
           ELSE UNCHANGED pTrs /\ Sw!FlushFrom(rest, none, 0),
           UNCHANGED <<pCur, pRun, pBegun>>
    PROVE  /\ SameSwitches /\ pPending' \in Seq(Sw!Msg) /\ pHeld' \in [Sw!Msg -> Nat]
           /\ pMoving' \in Nat
           /\ FlushInv' /\ Waits' \in Seq(Sw!Msg) /\ Queued' \in Seq(Sw!Msg)
           /\ pMoving' = 1 => pPending' = rest /\ rest # <<>>
           /\ \A m \in Sw!Msg : Occ(Waits', m) + Occ(Queued', m) = Occ(rest, m) + Occ(Queued, m)
<1>0. /\ pTrs \in [Sw!Switch -> Transition] /\ Queued \in Seq(Sw!Msg)
      /\ pCur # 0 => \A r \in Sw!Run : ~Going(r)
  BY Handed DEF SwitchInv, Sw!TypeOK, Transition, FlushInv
<1>1. CASE pCur # 0 /\ rest # <<>>
  <2>1. PICK h \in Sw!Msg : h = Head(rest)
    BY <1>1
  <2>2. SameSwitches /\ pCur = pBegun /\ pTrs'[pBegun].queued = Append(Queued, h)
    BY <1>1, <2>1, HeldBack
  <2>3. Queued' = Append(Queued, h) /\ Waits' = Tail(rest)
    BY <1>1, <2>2 DEF Queued, Waits, Newest
  <2>4. ASSUME NEW m \in Sw!Msg
        PROVE  Occ(Waits', m) + Occ(Queued', m) = Occ(rest, m) + Occ(Queued, m)
    <3>1. Occ(Append(Queued, h), m) = Occ(Queued, m) + (IF h = m THEN 1 ELSE 0)
      BY <1>0, OccAppend
    <3>2. Occ(rest, m) = (IF Head(rest) = m THEN 1 ELSE 0) + Occ(Tail(rest), m)
      BY <1>1, OccTail
    <3>3. Tail(rest) \in Seq(Sw!Msg)
      BY <1>1
    <3>4. Occ(Queued, m) \in Nat /\ Occ(rest, m) \in Nat /\ Occ(Tail(rest), m) \in Nat
      BY <1>0, <3>3, SpotsFinite
    <3>5. Occ(Waits', m) = Occ(Tail(rest), m) /\ Occ(Queued', m) = Occ(Append(Queued, h), m)
      BY <2>3
    <3> QED BY <2>1, <3>1, <3>2, <3>4, <3>5
  <2>5. FlushInv'
    BY <1>0, <1>1 DEF FlushInv, Going
  <2>6. Waits' \in Seq(Sw!Msg) /\ Queued' \in Seq(Sw!Msg)
    BY <1>0, <1>1, <2>1, <2>3
  <2> QED BY <1>1, <2>2, <2>4, <2>5, <2>6
<1>2. CASE pCur = 0 \/ rest = <<>>
  <2>1. /\ pTrs' = pTrs /\ pPending' = rest /\ pMoving' = 0
        /\ rest = <<>> => pHeld' = none
        /\ rest # <<>> => pHeld' = [none EXCEPT ![Head(rest)] = @ + 1]
    BY <1>2 DEF Sw!FlushFrom
  <2>2. /\ pHeld' \in [Sw!Msg -> Nat]
        /\ \A m \in Sw!Msg : /\ pHeld'[m] \in {0, 1}
                             /\ pHeld'[m] = 1 => rest # <<>> /\ Head(rest) = m
    <3>1. CASE rest = <<>>
      BY <2>1, <3>1
    <3>2. CASE rest # <<>>
      <4>1. PICK h \in Sw!Msg : h = Head(rest)
        BY <3>2
      <4>2. pHeld' = [none EXCEPT ![h] = 1]
        BY <2>1, <3>2, <4>1
      <4> QED BY <3>2, <4>1, <4>2
    <3> QED BY <3>1, <3>2
  <2>3. FlushInv'
    BY <1>0, <2>1, <2>2 DEF FlushInv, Going
  <2>4. SameSwitches
    BY <1>0, <2>1 DEF SameSwitches
  <2>5. Queued' = Queued /\ Waits' = rest
    BY <2>1 DEF Queued, Waits, Newest
  <2>6. Waits' \in Seq(Sw!Msg) /\ Queued' \in Seq(Sw!Msg)
    BY <1>0, <2>5
  <2> QED BY <2>1, <2>2, <2>3, <2>4, <2>5, <2>6
<1> QED BY <1>1, <1>2

\* The types when messages move.
LEMMA MovedTypes ==
    ASSUME SwitchBounds, SwitchInv, SameSwitches,
           pPending' \in Seq(Sw!Msg), pHeld' \in [Sw!Msg -> Nat], pMoving' \in Nat,
           pGot' \in [Sw!Msg -> Nat], pLive' \in [Sw!Leg -> 0..Sw!OwnTmux],
           pSent' \in 0..MaxMsgs, pFaults' \in 0..MaxFaults,
           UNCHANGED <<pChan, pActive, pSess, pCur, Sw!pCtl, pBooted, pBegun, pCrashes>>
    PROVE  Sw!TypeOK'
BY DEF SwitchInv, Sw!TypeOK, SameSwitches, Transition, Sw!pCtl

\* A flush delivers a message, passes one on, or fails.
LEMMA FlushStep ==
    ASSUME SwitchBounds, SwitchInv,
           Sw!FlushMoves \/ \E m \in Sw!Msg : Sw!FlushDelivers(m) \/ Sw!FlushFails(m)
    PROVE  SwitchInv'
<1>0. /\ pPending \in Seq(Sw!Msg) /\ pHeld \in [Sw!Msg -> Nat] /\ pMoving \in {0, 1}
      /\ pGot \in [Sw!Msg -> Nat] /\ pLive \in [Sw!Leg -> 0..Sw!OwnTmux] /\ pChan \in Sw!Leg
      /\ pCrashes \in Nat /\ pSent \in Nat /\ 1..pSent \in SUBSET Sw!Msg
      /\ pTrs \in [Sw!Switch -> Transition] /\ pSent \in 0..MaxMsgs /\ pFaults \in 0..MaxFaults
  <2>1. /\ pPending \in Seq(Sw!Msg) /\ pHeld \in [Sw!Msg -> Nat] /\ pMoving \in {0, 1}
        /\ pGot \in [Sw!Msg -> Nat] /\ pLive \in [Sw!Leg -> 0..Sw!OwnTmux] /\ pChan \in Sw!Leg
        /\ pTrs \in [Sw!Switch -> Transition] /\ pFaults \in 0..MaxFaults
    BY DEF SwitchInv, Sw!TypeOK, FlushInv, Transition
  <2>2. pCrashes \in Nat /\ pSent \in 0..MaxMsgs /\ MaxMsgs \in Nat
    BY DEF SwitchInv, Sw!TypeOK, SwitchBounds
  <2>3. pSent \in Nat /\ 1..pSent \in SUBSET Sw!Msg
    BY <2>2 DEF Sw!Msg
  <2> QED BY <2>1, <2>2, <2>3
<1>1. Sw!Flushing
  BY <1>0 DEF Sw!FlushMoves, Sw!FlushDelivers, Sw!FlushFails, Sw!Flushing
<1>2. pCur # 0 => \A r \in Sw!Run : ~Going(r)
  BY <1>1 DEF SwitchInv, FlushInv
<1>3. \A m \in Sw!Msg : pHeld[m] > 0 => /\ pHeld[m] = 1 /\ pPending # <<>> /\ Head(pPending) = m
                                        /\ pMoving = 0
  BY DEF SwitchInv, FlushInv
<1>4. CASE Sw!FlushMoves
  <2>1. pMoving = 1 /\ pHeld = [m \in Sw!Msg |-> 0] /\ pPending # <<>>
    BY <1>0, <1>3, <1>4 DEF Sw!FlushMoves, SwitchInv, FlushInv
  <2>a. Tail(pPending) \in Seq(Sw!Msg)
    BY <1>0, <2>1
  <2>2. PICK rest \in Seq(Sw!Msg) : rest = Tail(pPending)
    BY <2>a
  <2>3. /\ IF pCur # 0 /\ rest # <<>>
           THEN /\ pTrs' = [pTrs EXCEPT ![pCur].queued = Append(@, Head(rest))]
                /\ pPending' = rest /\ pHeld' = pHeld /\ pMoving' = 1
           ELSE UNCHANGED pTrs /\ Sw!FlushFrom(rest, pHeld, 0)
        /\ UNCHANGED <<pChan, pActive, pSess, pCur, pLive, Sw!pCtl, pBooted, pGot, Sw!pCount>>
    BY <1>4, <2>1, <2>2 DEF Sw!FlushMoves
  <2>4. /\ SameSwitches /\ pPending' \in Seq(Sw!Msg) /\ pHeld' \in [Sw!Msg -> Nat]
        /\ pMoving' \in Nat
        /\ FlushInv' /\ Waits' \in Seq(Sw!Msg) /\ Queued' \in Seq(Sw!Msg)
        /\ pMoving' = 1 => pPending' = rest /\ rest # <<>>
        /\ \A m \in Sw!Msg : Occ(Waits', m) + Occ(Queued', m) = Occ(rest, m) + Occ(Queued, m)
    BY <1>1, <2>1, <2>3, FlushOn DEF Sw!pCtl, Sw!pCount
  <2>5. RunInv' /\ LegInv' /\ ProcInv'
    BY <2>3, <2>4, OnlyMessages DEF Sw!pCtl, Sw!pCount
  <2>6. Sw!TypeOK'
    BY <1>0, <2>3, <2>4, MovedTypes DEF Sw!pCount
  <2>7. \A m \in Sw!Msg : Total(m)' = Total(m)
    <3>1. Waits = rest
      BY <2>1, <2>2 DEF Waits
    <3> TAKE m \in Sw!Msg
    <3>2. /\ Total(m) = pGot[m] + Occ(rest, m) + Occ(Queued, m)
          /\ Total(m)' = pGot[m] + Occ(Waits', m) + Occ(Queued', m)
      BY <2>3, <3>1 DEF Total
    <3>3. /\ Occ(Waits', m) \in Nat /\ Occ(Queued', m) \in Nat
          /\ Occ(rest, m) \in Nat /\ Occ(Queued, m) \in Nat
      <4>1. Queued \in Seq(Sw!Msg)
        BY Handed
      <4> QED BY <2>4, <4>1, SpotsFinite
    <3>4. Occ(Waits', m) + Occ(Queued', m) = Occ(rest, m) + Occ(Queued, m) /\ pGot[m] \in Nat
      BY <1>0, <2>4
    <3> QED BY <3>2, <3>3, <3>4, SMTT(30)
  <2>8. CountInv'
    <3>1. ASSUME pMoving' = 1 PROVE Head(pPending') <= pSent
      <4>1. Head(rest) \in Sw!Msg /\ Occ(rest, Head(rest)) > 0 /\ pPending' = rest
        BY <2>4, <3>1, OccHead
      <4>2. Total(Head(rest)) = pGot[Head(rest)] + Occ(rest, Head(rest)) + Occ(Queued, Head(rest))
        BY <2>1, <2>2 DEF Total, Waits
      <4>3. Queued \in Seq(Sw!Msg)
        BY Handed
      <4>4. /\ Occ(rest, Head(rest)) \in Nat /\ Occ(Queued, Head(rest)) \in Nat
            /\ pGot[Head(rest)] \in Nat
        BY <1>0, <4>1, <4>3, SpotsFinite
      <4>5. Total(Head(rest)) # 0
        BY <4>1, <4>2, <4>4
      <4> QED BY <1>0, <4>1, <4>5 DEF SwitchInv, CountInv, Sw!Msg
    <3> QED BY <1>0, <2>3, <2>7, <3>1 DEF SwitchInv, CountInv, Sw!pCount
  <2> QED BY <2>4, <2>5, <2>6, <2>8 DEF SwitchInv
<1>5. ASSUME NEW m \in Sw!Msg, Sw!FlushDelivers(m) PROVE SwitchInv'
  <2>1. pMoving = 0 /\ pHeld[m] = 1 /\ pPending # <<>> /\ Head(pPending) = m
    BY <1>0, <1>3, <1>5 DEF Sw!FlushDelivers
  <2>2. \A o \in Sw!Msg : o # m => pHeld[o] = 0
    BY <1>0, <1>3, <2>1
  <2>3. [pHeld EXCEPT ![m] = @ - 1] = [o \in Sw!Msg |-> 0]
    <3>1. [pHeld EXCEPT ![m] = @ - 1] = [pHeld EXCEPT ![m] = 0]
      BY <2>1
    <3> QED BY <1>0, <2>2, <3>1
  <2>a. Tail(pPending) \in Seq(Sw!Msg)
    BY <1>0, <2>1
  <2>4. PICK rest \in Seq(Sw!Msg) : rest = Tail(pPending)
    BY <2>a
  <2>5. PICK none : none = [o \in Sw!Msg |-> 0]
    OBVIOUS
  <2>6. /\ IF pCur # 0 /\ rest # <<>>
           THEN /\ pTrs' = [pTrs EXCEPT ![pCur].queued = Append(@, Head(rest))]
                /\ pPending' = rest /\ pHeld' = none /\ pMoving' = 1
           ELSE UNCHANGED pTrs /\ Sw!FlushFrom(rest, none, 0)
        /\ pGot' = [pGot EXCEPT ![m] = @ + 1]
        /\ pLive' = pLive \/ pLive' = [pLive EXCEPT ![pChan] = Sw!OwnTmux]
        /\ UNCHANGED <<pChan, pActive, pSess, pCur, Sw!pCtl, pBooted, Sw!pCount>>
    <3>1. [pHeld EXCEPT ![m] = @ - 1] = none
      BY <2>3, <2>5
    <3>2. (IF pPending = <<>> THEN <<>> ELSE Tail(pPending)) = rest /\ pMoving + 1 = 1
      BY <2>1, <2>4
    <3>3. IF pCur # 0 /\ rest # <<>>
          THEN /\ pTrs' = [pTrs EXCEPT ![pCur].queued = Append(@, Head(rest))]
               /\ pPending' = rest /\ pHeld' = none /\ pMoving' = 1
          ELSE UNCHANGED pTrs /\ Sw!FlushFrom(rest, none, 0)
      BY <1>5, <2>1, <3>1, <3>2 DEF Sw!FlushDelivers
    <3> QED BY <1>5, <3>3 DEF Sw!FlushDelivers
  <2>7. /\ SameSwitches /\ pPending' \in Seq(Sw!Msg) /\ pHeld' \in [Sw!Msg -> Nat]
        /\ pMoving' \in Nat
        /\ FlushInv' /\ Waits' \in Seq(Sw!Msg) /\ Queued' \in Seq(Sw!Msg)
        /\ pMoving' = 1 => pPending' = rest /\ rest # <<>>
        /\ \A o \in Sw!Msg : Occ(Waits', o) + Occ(Queued', o) = Occ(rest, o) + Occ(Queued, o)
    BY <1>1, <2>5, <2>6, FlushOn DEF Sw!pCtl, Sw!pCount
  <2>8. RunInv' /\ LegInv' /\ ProcInv' /\ pLive' \in [Sw!Leg -> 0..Sw!OwnTmux]
    BY <1>2, <2>6, <2>7, OnlyMessages DEF Sw!pCtl, Sw!pCount
  <2>9. Sw!TypeOK'
    <3>1. pGot' \in [Sw!Msg -> Nat]
      BY <1>0, <2>6, SMTT(30)
    <3> QED BY <1>0, <2>6, <2>7, <2>8, <3>1, MovedTypes DEF Sw!pCount
  <2>10. \A o \in Sw!Msg : Total(o)' = Total(o)
    <3> TAKE o \in Sw!Msg
    <3>1. Waits = pPending
      BY <2>1 DEF Waits
    <3>2. Occ(pPending, o) = (IF m = o THEN 1 ELSE 0) + Occ(rest, o)
      BY <1>0, <2>1, <2>4, OccTail
    <3>3. Queued \in Seq(Sw!Msg)
      BY Handed
    <3>4. /\ Occ(Waits', o) \in Nat /\ Occ(Queued', o) \in Nat
          /\ Occ(rest, o) \in Nat /\ Occ(Queued, o) \in Nat
      BY <2>7, <3>3, SpotsFinite
    <3>5. pGot'[o] = pGot[o] + (IF m = o THEN 1 ELSE 0) /\ pGot[o] \in Nat
      BY <1>0, <2>6, SMTT(30)
    <3>6. /\ Total(o) = pGot[o] + Occ(pPending, o) + Occ(Queued, o)
          /\ Total(o)' = pGot'[o] + Occ(Waits', o) + Occ(Queued', o)
      BY <3>1 DEF Total
    <3>7. Occ(Waits', o) + Occ(Queued', o) = Occ(rest, o) + Occ(Queued, o)
      BY <2>7
    <3> QED BY <3>2, <3>4, <3>5, <3>6, <3>7, SMTT(30)
  <2>11. CountInv'
    <3>1. ASSUME pMoving' = 1 PROVE Head(pPending') <= pSent
      <4>1. Head(rest) \in Sw!Msg /\ Occ(rest, Head(rest)) > 0 /\ pPending' = rest
        BY <2>7, <3>1, OccHead
      <4>2. Total(Head(rest)) = pGot[Head(rest)] + Occ(pPending, Head(rest))
                                                 + Occ(Queued, Head(rest))
        BY <2>1 DEF Total, Waits
      <4>3. Queued \in Seq(Sw!Msg)
        BY Handed
      <4>4. /\ Occ(rest, Head(rest)) \in Nat /\ Occ(Queued, Head(rest)) \in Nat
            /\ pGot[Head(rest)] \in Nat
        BY <1>0, <4>1, <4>3, SpotsFinite
      <4>5. Occ(pPending, Head(rest)) = (IF m = Head(rest) THEN 1 ELSE 0) + Occ(rest, Head(rest))
        BY <1>0, <2>1, <2>4, OccTail
      <4>6. Total(Head(rest)) # 0
        BY <4>1, <4>2, <4>4, <4>5
      <4> QED BY <1>0, <4>1, <4>6 DEF SwitchInv, CountInv, Sw!Msg
    <3> QED BY <1>0, <2>6, <2>10, <3>1 DEF SwitchInv, CountInv, Sw!pCount
  <2> QED BY <2>7, <2>8, <2>9, <2>11 DEF SwitchInv
<1>6. ASSUME NEW m \in Sw!Msg, Sw!FlushFails(m) PROVE SwitchInv'
  <2>1. /\ pFaults' = pFaults + 1 /\ pFaults < MaxFaults
        /\ pHeld' = [pHeld EXCEPT ![m] = @ - 1] /\ pHeld[m] = 1
        /\ UNCHANGED <<Sw!pMap, pLive, pPending, pMoving, Sw!pCtl, pBooted, pGot, pBegun,
                       pSent, pCrashes>>
    BY <1>3, <1>6 DEF Sw!FlushFails
  <2>2. pHeld' \in [Sw!Msg -> Nat] /\ \A o \in Sw!Msg : pHeld'[o] \in {0, pHeld[o]}
    BY <1>0, <2>1
  <2>3. SameSwitches
    BY <1>0, <2>1 DEF SameSwitches, Sw!pMap
  <2>4. pFaults' \in 0..MaxFaults /\ pMoving \in Nat
    BY <1>0, <2>1 DEF SwitchBounds
  <2>5. Sw!TypeOK'
    BY <1>0, <2>1, <2>2, <2>3, <2>4, MovedTypes DEF Sw!pMap
  <2>6. RunInv' /\ LegInv' /\ ProcInv'
    BY <2>1, <2>3, OnlyMessages DEF Sw!pMap, Sw!pCtl
  <2>7. FlushInv'
    BY <1>2, <2>1, <2>2 DEF SwitchInv, FlushInv, Sw!pMap, Sw!pCtl, Going
  <2>8. CountInv'
    <3>1. Queued' = Queued
      BY <2>1 DEF Queued, Newest, Sw!pMap
    <3> QED BY <2>1, <3>1, SameCount DEF SwitchInv
  <2> QED BY <2>5, <2>6, <2>7, <2>8 DEF SwitchInv
<1> QED BY <1>4, <1>5, <1>6

-----------------------------------------------------------------------------
\* An owner message.
LEMMA Sent ==
    ASSUME SwitchBounds, SwitchInv, Sw!Message
    PROVE  SwitchInv'
<1> DEFINE s == pSent + 1
<1>0. /\ pPending \in Seq(Sw!Msg) /\ pHeld \in [Sw!Msg -> Nat] /\ pMoving \in Nat
      /\ pGot \in [Sw!Msg -> Nat] /\ pLive \in [Sw!Leg -> 0..Sw!OwnTmux] /\ pChan \in Sw!Leg
      /\ pCrashes \in Nat /\ pSent \in Nat /\ 1..pSent \in SUBSET Sw!Msg
      /\ pTrs \in [Sw!Switch -> Transition] /\ pFaults \in 0..MaxFaults
      /\ s \in Sw!Msg /\ s \in 0..MaxMsgs /\ s \in Nat /\ s > pSent
  <2>1. /\ pPending \in Seq(Sw!Msg) /\ pHeld \in [Sw!Msg -> Nat] /\ pMoving \in Nat
        /\ pGot \in [Sw!Msg -> Nat] /\ pLive \in [Sw!Leg -> 0..Sw!OwnTmux] /\ pChan \in Sw!Leg
        /\ pTrs \in [Sw!Switch -> Transition] /\ pFaults \in 0..MaxFaults
    BY DEF SwitchInv, Sw!TypeOK, Transition
  <2>2. /\ pCrashes \in 0..MaxCrashes /\ pSent \in 0..MaxMsgs /\ pSent < MaxMsgs
        /\ MaxCrashes \in Nat /\ MaxMsgs \in Nat
    BY DEF Sw!Message, SwitchInv, Sw!TypeOK, SwitchBounds
  <2>3. /\ pCrashes \in Nat /\ pSent \in Nat /\ 1..pSent \in SUBSET Sw!Msg
        /\ s \in Sw!Msg /\ s \in 0..MaxMsgs /\ s \in Nat /\ s > pSent
    BY <2>2 DEF Sw!Msg
  <2> QED BY <2>1, <2>3
<1>1. /\ pSent' = s
      /\ UNCHANGED <<pChan, pActive, pSess, pCur, Sw!pFlow, Sw!pCtl, pBooted, pBegun, pFaults,
                     pCrashes>>
  BY DEF Sw!Message
<1>2. Waits \in Seq(Sw!Msg) /\ Queued \in Seq(Sw!Msg)
  <2>1. pMoving = 1 => Tail(pPending) \in Seq(Sw!Msg)
    BY <1>0 DEF SwitchInv, FlushInv
  <2> QED BY <1>0, <2>1, Handed DEF Waits
<1>3. \A m \in Sw!Msg : /\ Occ(Waits, m) \in Nat /\ Occ(Queued, m) \in Nat /\ pGot[m] \in Nat
                        /\ Total(m) = pGot[m] + Occ(Waits, m) + Occ(Queued, m)
  BY <1>0, <1>2, SpotsFinite DEF Total
<1>4. Total(s) = 0 /\ pGot[s] = 0
  <2>1. Total(s) = 0
    BY <1>0 DEF SwitchInv, CountInv
  <2> HIDE DEF s
  <2> QED BY <1>0, <1>3, <2>1
<1> HIDE DEF s
<1>5. /\ SameSwitches /\ Waits' = Waits
      /\ pGot' \in [Sw!Msg -> Nat]
      /\ pLive' = pLive \/ (pLive' = [pLive EXCEPT ![pChan] = Sw!OwnTmux] /\ pCur = 0)
      /\ \A m \in Sw!Msg : pGot'[m] + Occ(Queued', m)
                               = pGot[m] + Occ(Queued, m) + (IF m = s THEN 1 ELSE 0)
  <2>0. Waits' = Waits
    BY <1>1 DEF Waits, Sw!pFlow
  <2>1. CASE pCur # 0
    <3>1. pTrs' = [pTrs EXCEPT ![pCur].queued = Append(@, s)] /\ UNCHANGED <<pGot, pLive>>
      BY <2>1 DEF Sw!Message, s
    <3>2. SameSwitches /\ pCur = pBegun /\ pTrs'[pBegun].queued = Append(Queued, s)
      BY <1>0, <2>1, <3>1, HeldBack
    <3>3. Queued' = Append(Queued, s)
      BY <1>1, <2>1, <3>2 DEF Queued, Newest
    <3>4. ASSUME NEW m \in Sw!Msg
          PROVE  pGot'[m] + Occ(Queued', m)
                     = pGot[m] + Occ(Queued, m) + (IF m = s THEN 1 ELSE 0)
      <4>1. Occ(Append(Queued, s), m) = Occ(Queued, m) + (IF s = m THEN 1 ELSE 0)
        BY <1>0, <1>2, OccAppend
      <4>2. Occ(Queued', m) = Occ(Queued, m) + (IF s = m THEN 1 ELSE 0) /\ pGot'[m] = pGot[m]
        BY <3>1, <3>3, <4>1
      <4> QED BY <1>3, <4>2
    <3> QED BY <1>0, <2>0, <3>1, <3>2, <3>4
  <2>2. CASE pCur = 0
    <3>1. /\ pGot' = [pGot EXCEPT ![s] = 1] /\ UNCHANGED pTrs
          /\ pLive' = pLive \/ pLive' = [pLive EXCEPT ![pChan] = Sw!OwnTmux]
      BY <2>2 DEF Sw!Message, s
    <3>2. Queued' = Queued /\ SameSwitches
      BY <1>0, <1>1, <2>2, <3>1 DEF Queued, SameSwitches
    <3>3. /\ pGot' \in [Sw!Msg -> Nat]
          /\ \A m \in Sw!Msg : pGot'[m] = pGot[m] + (IF m = s THEN 1 ELSE 0)
      BY <1>0, <1>4, <3>1
    <3>4. ASSUME NEW m \in Sw!Msg
          PROVE  pGot'[m] + Occ(Queued', m)
                     = pGot[m] + Occ(Queued, m) + (IF m = s THEN 1 ELSE 0)
      <4>1. Occ(Queued', m) = Occ(Queued, m)
        BY <3>2
      <4> QED BY <1>3, <3>3, <4>1
    <3> QED BY <2>0, <2>2, <3>1, <3>2, <3>3, <3>4
  <2> QED BY <2>1, <2>2
<1>6. RunInv' /\ LegInv' /\ ProcInv' /\ pLive' \in [Sw!Leg -> 0..Sw!OwnTmux]
  BY <1>1, <1>5, OnlyMessages DEF Sw!pCtl
<1>7. Sw!TypeOK'
  BY <1>0, <1>1, <1>5, <1>6, MovedTypes DEF Sw!pFlow
<1>8. FlushInv'
  BY <1>1 DEF SwitchInv, FlushInv, Sw!pFlow, Sw!pCtl, Going, Sw!Flushing
<1>9. CountInv'
  <2>1. ASSUME NEW m \in Sw!Msg PROVE Total(m)' = Total(m) + (IF m = s THEN 1 ELSE 0)
    <3>1. Total(m)' = pGot'[m] + Occ(Waits', m) + Occ(Queued', m)
      BY DEF Total
    <3>2. Occ(Waits', m) = Occ(Waits, m)
      BY <1>5
    <3>3. pGot'[m] \in Nat /\ Occ(Queued', m) \in Nat
      <4>1. Queued' \in Seq(Sw!Msg)
        <5>1. pTrs' \in [Sw!Switch -> Transition] /\ pBegun' = pBegun /\ pCur' = pCur
          BY <1>1, <1>5 DEF SameSwitches
        <5>2. pCur # 0 => pBegun \in Sw!Switch
          BY NewestType DEF SwitchInv, LegInv, Engaged
        <5> QED BY <5>1, <5>2 DEF Queued, Newest, Transition
      <4> QED BY <1>5, <4>1, SpotsFinite
    <3>4. pGot'[m] + Occ(Queued', m) = pGot[m] + Occ(Queued, m) + (IF m = s THEN 1 ELSE 0)
      BY <1>5
    <3>5. /\ Occ(Waits, m) \in Nat /\ Occ(Queued, m) \in Nat /\ pGot[m] \in Nat
          /\ Total(m) = pGot[m] + Occ(Waits, m) + Occ(Queued, m)
      BY <1>3
    <3>6. Total(m)' = pGot'[m] + Occ(Waits, m) + Occ(Queued', m)
      BY <3>1, <3>2
    <3> QED BY <3>3, <3>4, <3>5, <3>6
  <2>2. \A m \in Sw!Msg : Total(m) \in Nat
    BY <1>3
  <2>3. \A m \in Sw!Msg : Total(m)' <= 1 + pCrashes
    BY <1>0, <1>4, <2>1, <2>2 DEF SwitchInv, CountInv
  <2>4. \A m \in 1..s : m \in Sw!Msg /\ (m = s \/ m \in 1..pSent)
    BY <1>0 DEF s, Sw!Msg
  <2>5. \A m \in 1..s : Total(m)' > 0
    <3> TAKE m \in 1..s
    <3>1. m \in Sw!Msg /\ Total(m) \in Nat /\ Total(m)' = Total(m) + (IF m = s THEN 1 ELSE 0)
      BY <2>1, <2>2, <2>4
    <3>2. m # s => Total(m) > 0
      BY <2>4 DEF SwitchInv, CountInv
    <3> QED BY <3>1, <3>2
  <2>6. \A m \in Sw!Msg : m > s => Total(m)' = 0
    BY <1>0, <2>1, <2>2 DEF SwitchInv, CountInv, Sw!Msg
  <2>7. pMoving' = 1 => Head(pPending') <= s
    <3>1. pMoving = 1 => Head(pPending) \in Sw!Msg /\ Head(pPending) <= pSent
      BY <1>0 DEF SwitchInv, CountInv, FlushInv
    <3> QED BY <1>0, <1>1, <3>1 DEF Sw!pFlow, Sw!Msg
  <2> QED BY <1>1, <2>3, <2>5, <2>6, <2>7 DEF CountInv
<1> QED BY <1>6, <1>7, <1>8, <1>9 DEF SwitchInv

\* The target claims its place.
LEMMA Claimed ==
    ASSUME SwitchBounds, SwitchInv, Sw!TargetClaims
    PROVE  SwitchInv'
<1>1. pCur # 0
  BY DEF Sw!TargetClaims, Sw!Phase, Sw!Starting
<1>2. pCur = pBegun /\ pBegun \in Sw!Switch /\ Sw!Tr = pTrs[pBegun]
  <2>1. pCur = pBegun
    BY <1>1 DEF SwitchInv, LegInv
  <2> QED BY <1>1, <2>1, NewestType DEF SwitchInv, Sw!Tr
<1>3. /\ pTrs \in [Sw!Switch -> Transition]
      /\ pSess \in [Sw!Leg -> [known : BOOLEAN, chan : BOOLEAN]]
      /\ Sw!Tr \in Transition
  BY <1>2 DEF SwitchInv, Sw!TypeOK, Transition
<1>4. /\ pTrs' = [pTrs EXCEPT ![pBegun].sid = TRUE]
      /\ pSess' = [pSess EXCEPT ![Sw!Tr.tgt].known = TRUE]
      /\ UNCHANGED <<pChan, pActive, pCur, pLive, Sw!pFlow, Sw!pCtl, pBooted, pGot, Sw!pCount>>
  BY <1>2 DEF Sw!TargetClaims
<1>5. PICK n : n = [Sw!Tr EXCEPT !.sid = TRUE]
  OBVIOUS
<1>6. /\ n \in Transition /\ n.src = Sw!Tr.src /\ n.tgt = Sw!Tr.tgt /\ n.asked = Sw!Tr.asked
      /\ n.phase = Sw!Tr.phase /\ n.tmux = Sw!Tr.tmux /\ n.queued = Sw!Tr.queued
  BY <1>3, <1>5 DEF Transition
<1>7. pTrs' = [pTrs EXCEPT ![pBegun] = n]
  BY <1>2, <1>4, <1>5
<1>8. pTrs'[pBegun] = n /\ \A t \in Sw!Switch : t # pBegun => pTrs'[t] = pTrs[t]
  BY <1>2, <1>3, <1>7
<1>9. SameSwitches
  BY <1>2, <1>3, <1>6, <1>7, <1>8 DEF SameSwitches
<1>10. /\ pSess' \in [Sw!Leg -> [known : BOOLEAN, chan : BOOLEAN]]
       /\ \A l \in Sw!Leg : pSess'[l].chan = pSess[l].chan
  BY <1>3, <1>4
<1>11. RunInv' /\ LegInv' /\ ProcInv'
  BY <1>4, <1>9, <1>10, OnlyMessages DEF Sw!pCtl, Sw!pCount
<1>12. Sw!TypeOK'
  BY <1>4, <1>9, <1>10
     DEF SwitchInv, Sw!TypeOK, SameSwitches, Transition, Sw!pFlow, Sw!pCtl, Sw!pCount
<1>13. FlushInv'
  BY <1>4 DEF SwitchInv, FlushInv, Sw!pFlow, Sw!pCtl, Going, Sw!Flushing
<1>14. CountInv'
  <2>1. Queued' = Queued
    BY <1>2, <1>4, <1>6, <1>8 DEF Queued, Newest, Sw!pCount
  <2> QED BY <1>4, <2>1, SameCount DEF SwitchInv, Sw!pFlow, Sw!pCount
<1> QED BY <1>11, <1>12, <1>13, <1>14 DEF SwitchInv

\* A process dies.
LEMMA Died ==
    ASSUME SwitchBounds, SwitchInv, NEW l \in Sw!Leg, Sw!Dies(l)
    PROVE  SwitchInv'
<1>1. /\ pFaults' = pFaults + 1 /\ pFaults < MaxFaults
      /\ pLive' = [pLive EXCEPT ![l] = 0]
      /\ UNCHANGED <<Sw!pMap, Sw!pFlow, Sw!pCtl, pBooted, pGot, pBegun, pSent, pCrashes>>
  BY DEF Sw!Dies
<1>2. /\ pLive \in [Sw!Leg -> 0..Sw!OwnTmux] /\ 0 \in 0..Sw!OwnTmux
      /\ pChan \in Sw!Leg /\ Sw!Other(pChan) \in Sw!Leg
  BY Legs DEF SwitchInv, Sw!TypeOK, Sw!OwnTmux, SwitchBounds
<1>3. pLive' \in [Sw!Leg -> 0..Sw!OwnTmux] /\ \A o \in Sw!Leg : pLive'[o] \in {0, pLive[o]}
  BY <1>1, <1>2
<1>4. pFaults' \in 0..MaxFaults
  BY <1>1 DEF SwitchInv, Sw!TypeOK, SwitchBounds
<1>5. Sw!TypeOK'
  BY <1>1, <1>3, <1>4 DEF SwitchInv, Sw!TypeOK, Sw!pMap, Sw!pFlow, Sw!pCtl
<1>6. RunInv'
  BY <1>1 DEF SwitchInv, RunInv, Sw!pMap, Sw!pCtl, Newest, Busy, Fits
<1>7. LegInv'
  BY <1>1 DEF SwitchInv, LegInv, Sw!OneLeg, Sw!pMap, Sw!pCtl, Newest, Engaged, Going
<1>8. FlushInv'
  BY <1>1 DEF SwitchInv, FlushInv, Sw!pMap, Sw!pFlow, Sw!pCtl, Going, Sw!Flushing
<1>9. ProcInv'
  <2>1. /\ UNCHANGED <<pChan, pCur, pRun, pBegun, pBooted, pCrashes>> /\ Newest' = Newest
        /\ Engaged' = Engaged
    BY <1>1 DEF Sw!pMap, Sw!pCtl, Newest, Engaged, Going
  <2>2. /\ pLive'[pChan] \in {0, pLive[pChan]}
        /\ pLive'[Sw!Other(pChan)] \in {0, pLive[Sw!Other(pChan)]}
    BY <1>2, <1>3
  <2> QED BY <2>1, <2>2 DEF SwitchInv, ProcInv, Sw!Live
<1>10. CountInv'
  <2>1. Queued' = Queued
    BY <1>1 DEF Queued, Newest, Sw!pMap
  <2> QED BY <1>1, <2>1, SameCount DEF SwitchInv, Sw!pFlow
<1> QED BY <1>5, <1>6, <1>7, <1>8, <1>9, <1>10 DEF SwitchInv

\* A restart.
LEMMA Restarted ==
    ASSUME SwitchBounds, SwitchInv, Sw!Crash
    PROVE  SwitchInv'
<1>0. /\ pPending \in Seq(Sw!Msg) /\ pHeld \in [Sw!Msg -> Nat] /\ pMoving \in {0, 1}
      /\ pGot \in [Sw!Msg -> Nat] /\ pLive \in [Sw!Leg -> 0..Sw!OwnTmux] /\ pChan \in Sw!Leg
      /\ Sw!Other(pChan) \in Sw!Leg /\ Sw!Other(pChan) # pChan /\ 0 \in 0..Sw!OwnTmux
  BY Legs DEF SwitchInv, Sw!TypeOK, FlushInv, Sw!OwnTmux, SwitchBounds
<1>1. /\ pCrashes' = pCrashes + 1 /\ pCrashes' \in 0..MaxCrashes /\ pCrashes' # 0
      /\ pCrashes \in Nat /\ (MaxCrashes <= 1 => pCrashes = 0)
  BY DEF Sw!Crash, SwitchInv, Sw!TypeOK, SwitchBounds
<1>2. /\ pRun' = [r \in Sw!Run |-> Sw!Idle] /\ pHandoff' = 0 /\ pValid' = 0 /\ pAlign' = 0
      /\ pHeld' = [m \in Sw!Msg |-> 0] /\ pMoving' = 0 /\ pBooted' = FALSE
      /\ UNCHANGED <<Sw!pMap, pPending, pBegun, pSent, pFaults>>
  BY DEF Sw!Crash
<1>3. PICK got \in {m \in Sw!Msg : pHeld[m] > 0} \cup {0} :
          pGot' = [m \in Sw!Msg |-> IF m = got THEN pGot[m] + 1 ELSE pGot[m]]
  BY DEF Sw!Crash
<1>4. /\ UNCHANGED <<pChan, pActive, pSess, pCur, pTrs>> /\ Newest' = Newest
      /\ Engaged' => Engaged /\ pCur # 0
  BY <1>2 DEF Sw!pMap, Newest, Engaged, Going, Sw!Idle
<1>5. /\ pLive' \in [Sw!Leg -> 0..Sw!OwnTmux]
      /\ \/ pLive'[Sw!Other(pChan)] = pLive[Sw!Other(pChan)]
         \/ /\ pLive'[Sw!Other(pChan)] = pBegun /\ Newest.tmux
            /\ pCur # 0 => Newest.phase \notin Sw!PreTarget
            /\ ~(pCrashes = 0 /\ pCur = 0) /\ Engaged
  <2>1. CASE UNCHANGED pLive
    BY <1>0, <2>1
  <2>2. ASSUME NEW r \in Sw!Run, pRun[r].at = "stopping",
               pLive' = [pLive EXCEPT ![pTrs[pRun[r].tr].src] = 0]
        PROVE  /\ pLive' \in [Sw!Leg -> 0..Sw!OwnTmux]
               /\ pLive'[Sw!Other(pChan)] = pLive[Sw!Other(pChan)]
    <3>1. pTrs[pRun[r].tr].src = pChan
      BY <2>2, AtWork DEF Going, Newest
    <3> QED BY <1>0, <2>2, <3>1
  <2>3. ASSUME NEW r \in Sw!Run, pRun[r].at = "starting",
               pLive' = [pLive EXCEPT ![pTrs[pRun[r].tr].tgt] = pRun[r].tr]
        PROVE  /\ pLive' \in [Sw!Leg -> 0..Sw!OwnTmux] /\ pLive'[Sw!Other(pChan)] = pBegun
               /\ Newest.tmux /\ (pCur # 0 => Newest.phase \notin Sw!PreTarget)
               /\ ~(pCrashes = 0 /\ pCur = 0) /\ Engaged
    <3>1. /\ pTrs[pRun[r].tr].tgt = Sw!Other(pChan) /\ pRun[r].tr = pBegun
          /\ pBegun \in Sw!Switch
          /\ Newest.tmux /\ (pCur # 0 => Fits("starting", Newest.phase))
          /\ ~(pCrashes = 0 /\ pCur = 0) /\ Engaged
      BY <2>3, AtWork DEF Going, Newest
    <3>2. pBegun \in 0..Sw!OwnTmux
      BY <3>1 DEF Sw!OwnTmux, Sw!Switch, SwitchBounds
    <3> QED BY <1>0, <2>3, <3>1, <3>2 DEF Fits, Sw!Starting, Sw!PreTarget
  <2> QED BY <2>1, <2>2, <2>3 DEF Sw!Crash
<1>6. /\ pGot' \in [Sw!Msg -> Nat]
      /\ \A m \in Sw!Msg : pGot'[m] = pGot[m] + (IF m = got THEN 1 ELSE 0)
  BY <1>0, <1>3
<1>7. Sw!TypeOK'
  <2>1. /\ pRun' \in [Sw!Run -> [at : Places, tr : 0..MaxSwitches]]
        /\ pHeld' \in [Sw!Msg -> Nat]
        /\ pMoving' \in Nat /\ pHandoff' \in 0..MaxRuns /\ pValid' \in 0..MaxRuns
        /\ pAlign' \in 0..MaxSwitches
    BY <1>2 DEF Sw!Idle, Places, SwitchBounds
  <2> QED BY <1>1, <1>2, <1>4, <1>5, <1>6, <2>1 DEF SwitchInv, Sw!TypeOK, Places
<1>8. RunInv'
  BY <1>2, <1>4 DEF SwitchInv, RunInv, Busy, Sw!Idle, Fits
<1>9. LegInv'
  BY <1>2, <1>4 DEF SwitchInv, LegInv, Sw!OneLeg
<1>10. FlushInv'
  BY <1>2 DEF FlushInv, Sw!Flushing
<1>11. ProcInv'
  <2>1. \A r \in Sw!Run : pRun'[r].at = "idle"
    BY <1>2 DEF Sw!Idle
  <2>2. Engaged' => /\ pLive'[Sw!Other(pChan')] \in {0, pBegun'}
                    /\ Sw!Live(Sw!Other(pChan))' =>
                              Newest'.tmux /\ (pCur' # 0 => Newest'.phase \notin Sw!PreTarget)
    <3>1. ASSUME Engaged'
          PROVE  /\ pLive'[Sw!Other(pChan)] \in {0, pBegun}
                 /\ pLive'[Sw!Other(pChan)] # 0 =>
                        Newest.tmux /\ (pCur # 0 => Newest.phase \notin Sw!PreTarget)
      <4>1. /\ pLive[Sw!Other(pChan)] \in {0, pBegun}
            /\ pLive[Sw!Other(pChan)] # 0 =>
                   Newest.tmux /\ (pCur # 0 => Newest.phase \notin Sw!PreTarget)
        BY <1>4, <3>1 DEF SwitchInv, ProcInv, Sw!Live
      <4> QED BY <1>5, <4>1
    <3> QED BY <1>2, <1>4, <3>1 DEF Sw!Live
  <2>3. MaxCrashes <= 1 /\ ~Engaged' => ~Sw!Live(Sw!Other(pChan))'
    <3>1. ASSUME MaxCrashes <= 1, ~Engaged' PROVE pLive'[Sw!Other(pChan)] = 0
      <4>1. pCrashes = 0 /\ pCur = 0
        BY <1>1, <1>4, <3>1 DEF Engaged
      <4>2. ~Sw!Live(Sw!Other(pChan))
        BY <4>1 DEF SwitchInv, ProcInv
      <4> QED BY <1>5, <4>1, <4>2 DEF Sw!Live
    <3> QED BY <1>4, <3>1 DEF Sw!Live
  <2> QED BY <1>1, <2>1, <2>2, <2>3 DEF ProcInv
<1>12. CountInv'
  <2>1. Queued \in Seq(Sw!Msg) /\ Waits \in Seq(Sw!Msg) /\ Queued' = Queued /\ Waits' = pPending
    <3>1. pMoving = 1 => Tail(pPending) \in Seq(Sw!Msg)
      BY <1>0 DEF SwitchInv, FlushInv
    <3>2. Queued' = Queued
      BY <1>4 DEF Queued
    <3>3. Waits' = pPending
      BY <1>2 DEF Waits
    <3> QED BY <1>0, <3>1, <3>2, <3>3, Handed DEF Waits
  <2>2. ASSUME NEW m \in Sw!Msg
        PROVE  /\ Total(m)' = pGot'[m] + Occ(pPending, m) + Occ(Queued, m)
               /\ Total(m) = pGot[m] + Occ(Waits, m) + Occ(Queued, m)
               /\ Total(m) \in Nat /\ pGot[m] \in Nat
               /\ Occ(pPending, m) \in Nat /\ Occ(Queued, m) \in Nat /\ Occ(Waits, m) \in Nat
    <3>1. Total(m)' = pGot'[m] + Occ(Waits', m) + Occ(Queued', m)
      BY DEF Total
    <3>2. Total(m) = pGot[m] + Occ(Waits, m) + Occ(Queued, m)
      BY DEF Total
    <3>3. /\ Occ(pPending, m) \in Nat /\ Occ(Queued, m) \in Nat /\ Occ(Waits, m) \in Nat
          /\ pGot[m] \in Nat
      BY <1>0, <2>1, SpotsFinite
    <3> QED BY <2>1, <3>1, <3>2, <3>3
  <2>3. ASSUME NEW m \in Sw!Msg
        PROVE  \/ Total(m)' = Total(m)
               \/ Total(m)' = Total(m) + 1 /\ m <= pSent
    <3>1. CASE pMoving = 0
      <4>1. Waits = pPending
        BY <3>1 DEF Waits
      <4>2. CASE m # got
        BY <1>6, <2>2, <4>1, <4>2
      <4>3. CASE m = got
        <5>1. pPending # <<>> /\ Head(pPending) = m
          <6>1. pHeld[m] > 0
            BY <4>3 DEF Sw!Msg
          <6> QED BY <1>0, <6>1 DEF SwitchInv, FlushInv
        <5>2. Occ(pPending, m) > 0
          BY <1>0, <5>1, OccHead
        <5>3. Total(m) # 0
          BY <2>2, <4>1, <5>2
        <5>4. m <= pSent
          BY <5>3 DEF SwitchInv, CountInv, Sw!Msg, Sw!TypeOK, SwitchBounds
        <5> QED BY <1>6, <2>2, <4>1, <4>3, <5>4
      <4> QED BY <4>2, <4>3
    <3>2. CASE pMoving = 1
      <4>1. /\ Waits = Tail(pPending) /\ pPending # <<>> /\ Head(pPending) <= pSent
            /\ \A o \in Sw!Msg : pHeld[o] = 0
        BY <1>0, <3>2 DEF Waits, SwitchInv, FlushInv, CountInv
      <4>2. pGot'[m] = pGot[m]
        <5>1. got = 0
          BY <4>1
        <5> QED BY <1>6, <2>2, <5>1 DEF Sw!Msg
      <4>3. Occ(pPending, m) = (IF Head(pPending) = m THEN 1 ELSE 0) + Occ(Waits, m)
        BY <1>0, <4>1, OccTail
      <4> QED BY <2>2, <4>1, <4>2, <4>3, SMTT(30)
    <3> QED BY <1>0, <3>1, <3>2
  <2>4. \A m \in Sw!Msg : Total(m)' <= 1 + pCrashes'
    BY <1>1, <2>2, <2>3 DEF SwitchInv, CountInv
  <2>5. pSent' = pSent /\ pSent \in Nat /\ 1..pSent \in SUBSET Sw!Msg
    BY <1>2 DEF SwitchInv, Sw!TypeOK, Sw!Msg, SwitchBounds
  <2>6. \A m \in 1..pSent : Total(m)' > 0
    BY <2>2, <2>3, <2>5 DEF SwitchInv, CountInv
  <2>7. \A m \in Sw!Msg : m > pSent => Total(m)' = 0
    BY <2>2, <2>3, <2>5 DEF SwitchInv, CountInv, Sw!Msg
  <2> QED BY <1>2, <2>4, <2>5, <2>6, <2>7 DEF CountInv
<1> QED BY <1>7, <1>8, <1>9, <1>10, <1>11, <1>12 DEF SwitchInv

-----------------------------------------------------------------------------
\* At first there is no switch and no message.
LEMMA SwitchInit == SwitchBounds /\ Sw!Init => SwitchInv
<1> SUFFICES ASSUME SwitchBounds, Sw!Init PROVE SwitchInv
  OBVIOUS
<1>1. Sw!TypeOK
  <2>1. Sw!NoTr \in Transition /\ Sw!Idle \in [at : Places, tr : 0..MaxSwitches]
    BY DEF Sw!NoTr, Transition, Sw!Idle, Places, Sw!Phases, Sw!Leg, SwitchBounds
  <2>2. /\ pSess \in [Sw!Leg -> [known : BOOLEAN, chan : BOOLEAN]]
        /\ pLive \in [Sw!Leg -> 0..Sw!OwnTmux]
    BY DEF Sw!Init, Sw!Leg, Sw!OwnTmux, SwitchBounds
  <2>3. /\ pTrs \in [Sw!Switch -> Transition]
        /\ pRun \in [Sw!Run -> [at : Places, tr : 0..MaxSwitches]]
        /\ pHeld \in [Sw!Msg -> Nat] /\ pGot \in [Sw!Msg -> Nat]
    BY <2>1 DEF Sw!Init
  <2> QED BY <2>2, <2>3 DEF Sw!TypeOK, Sw!Init, Transition, Places, Sw!Leg, SwitchBounds
<1>2. RunInv
  BY DEF Sw!Init, RunInv, Busy, Sw!Idle
<1>3. ~Engaged
  BY DEF Sw!Init, Engaged, Going, Sw!Idle
<1>4. LegInv
  <2>1. PICK saved \in BOOLEAN :
            pSess = [l \in Sw!Leg |-> [known |-> l = "a" \/ saved, chan |-> l = "a"]]
    BY DEF Sw!Init
  <2>2. \A l \in Sw!Leg : pSess[l].chan <=> l = "a"
    BY <2>1
  <2> QED BY <1>3, <2>2 DEF Sw!Init, LegInv, Sw!OneLeg
<1>5. FlushInv
  BY DEF Sw!Init, FlushInv
<1>6. ProcInv
  <2>1. ~Sw!Live(Sw!Other(pChan))
    BY Legs DEF Sw!Init, Sw!Live, Sw!Leg
  <2> QED BY <1>3, <2>1 DEF Sw!Init, ProcInv, Sw!Idle
<1>7. CountInv
  <2>1. Waits = <<>> /\ Queued = <<>>
    BY DEF Sw!Init, Waits, Queued
  <2>2. \A m \in Sw!Msg : Total(m) = 0
    <3> TAKE m \in Sw!Msg
    <3>1. Occ(<<>>, m) = 0
      BY OccSingle
    <3>2. Occ(Waits, m) = 0 /\ Occ(Queued, m) = 0 /\ pGot[m] = 0
      BY <2>1, <3>1 DEF Sw!Init
    <3> QED BY <3>2 DEF Total
  <2> QED BY <2>2 DEF Sw!Init, CountInv
<1> QED BY <1>1, <1>2, <1>4, <1>5, <1>6, <1>7 DEF SwitchInv

\* Every step keeps the invariant.
LEMMA SwitchStep == SwitchBounds /\ SwitchInv /\ [Sw!Next]_(Sw!pVars) => SwitchInv'
<1> SUFFICES ASSUME SwitchBounds, SwitchInv, [Sw!Next]_(Sw!pVars) PROVE SwitchInv'
  OBVIOUS
<1>1. CASE UNCHANGED Sw!pVars
  <2>1. UNCHANGED <<pChan, pActive, pSess, pLive, pCur, pTrs, pPending, pRun, pHandoff, pValid,
                    pAlign, pHeld, pMoving, pBooted, pGot, pBegun, pSent, pFaults, pCrashes>>
    BY <1>1 DEF Sw!pVars, Sw!pMap, Sw!pFlow, Sw!pCtl, Sw!pCount
  <2>2. Sw!TypeOK'
    BY <2>1 DEF SwitchInv, Sw!TypeOK
  <2>3. RunInv' /\ LegInv' /\ ProcInv'
    BY <2>1
       DEF SwitchInv, RunInv, LegInv, ProcInv, Sw!OneLeg, Busy, Engaged, Going, Newest, Sw!Live
  <2>4. FlushInv'
    BY <2>1 DEF SwitchInv, FlushInv, Going, Sw!Flushing
  <2>5. CountInv'
    BY <2>1, SameCount DEF SwitchInv, Queued, Newest
  <2> QED BY <2>2, <2>3, <2>4, <2>5 DEF SwitchInv
<1>2. ASSUME NEW r \in Sw!Run, Sw!Continue(r) \/ Sw!RunStep(r) PROVE SwitchInv'
  BY <1>2, Pressed, RunGoesOn, RunLaunches, Committed, RunRollsBack, RunOver DEF Sw!RunStep
<1>3. CASE \/ Sw!Message \/ Sw!Begin \/ Sw!GiveUp \/ Sw!AlignBegins
           \/ \E ok \in BOOLEAN : Sw!AlignEnds(ok)
  BY <1>3, Sent, Begun, GivenUp, Pressed
<1>4. CASE Sw!FlushMoves \/ \E m \in Sw!Msg : Sw!FlushDelivers(m) \/ Sw!FlushFails(m)
  BY <1>4, FlushStep
<1>5. CASE Sw!TargetClaims \/ (\E l \in Sw!Leg : Sw!Dies(l)) \/ Sw!Crash \/ Sw!Recover
  BY <1>5, Claimed, Died, Restarted, RecoversSwitch
<1> QED BY <1>1, <1>2, <1>3, <1>4, <1>5 DEF Sw!Next

LEMMA SwitchHolds == SwitchBounds => (Sw!Spec => []SwitchInv)
<1> SUFFICES ASSUME SwitchBounds PROVE Sw!Spec => []SwitchInv
  OBVIOUS
<1>1. Sw!Init => SwitchInv
  BY SwitchInit
<1>2. SwitchInv /\ [Sw!Next]_(Sw!pVars) => SwitchInv'
  BY SwitchStep
<1> QED BY <1>1, <1>2, PTL DEF Sw!Spec

-----------------------------------------------------------------------------
\* The state of a channel and its switches keeps its types.
THEOREM SwitchTypes == SwitchBounds => (Sw!Spec => []Sw!TypeOK)
<1> SUFFICES ASSUME SwitchBounds PROVE Sw!Spec => []Sw!TypeOK
  OBVIOUS
<1>1. SwitchInv => Sw!TypeOK
  BY DEF SwitchInv
<1> QED BY <1>1, SwitchHolds, PTL

\* Through commits, rollbacks, recoveries and restarts exactly one leg owns the
\* channel, and the mapping, the lineage and the sessions agree which.
THEOREM OneLegOwnsChannel == SwitchBounds => (Sw!Spec => []Sw!OneLeg)
<1> SUFFICES ASSUME SwitchBounds PROVE Sw!Spec => []Sw!OneLeg
  OBVIOUS
<1>1. SwitchInv => Sw!OneLeg
  BY DEF SwitchInv, LegInv
<1> QED BY <1>1, SwitchHolds, PTL

\* An owner message sent during a switch is delivered or still waits, and is
\* delivered more often than once only by a restart for each further time.
THEOREM SwitchLosesNothing == SwitchBounds => (Sw!Spec => []Sw!MessagesKept)
<1> SUFFICES ASSUME SwitchBounds PROVE Sw!Spec => []Sw!MessagesKept
  OBVIOUS
<1>1. ASSUME SwitchInv PROVE Sw!MessagesKept
  <2>1. /\ pPending \in Seq(Sw!Msg) /\ pGot \in [Sw!Msg -> Nat] /\ pCrashes \in Nat
        /\ Queued \in Seq(Sw!Msg) /\ 1..pSent \in SUBSET Sw!Msg
    <3>1. pCrashes \in Nat /\ pSent \in Nat /\ pSent <= MaxMsgs
      BY <1>1 DEF SwitchInv, Sw!TypeOK, SwitchBounds
    <3>2. 1..pSent \in SUBSET Sw!Msg
      BY <3>1 DEF Sw!Msg, SwitchBounds
    <3> QED BY <1>1, <3>1, <3>2, Handed DEF SwitchInv, Sw!TypeOK
  <2>2. Waits \in Seq(Sw!Msg)
    <3>1. pMoving = 1 => Tail(pPending) \in Seq(Sw!Msg)
      BY <1>1, <2>1 DEF SwitchInv, FlushInv
    <3> QED BY <2>1, <3>1 DEF Waits
  <2>3. ASSUME NEW m \in Sw!Msg
        PROVE  /\ Total(m) = pGot[m] + Occ(Waits, m) + Occ(Queued, m)
               /\ pGot[m] \in Nat /\ Occ(Waits, m) \in Nat /\ Occ(Queued, m) \in Nat
    BY <2>1, <2>2, SpotsFinite DEF Total
  <2>4. ASSUME NEW m \in Sw!Msg PROVE pGot[m] <= 1 + pCrashes
    <3>1. Total(m) <= 1 + pCrashes
      BY <1>1 DEF SwitchInv, CountInv
    <3> QED BY <2>1, <2>3, <3>1
  <2>5. ASSUME NEW m \in 1..pSent
        PROVE  \/ pGot[m] > 0
               \/ \E i \in DOMAIN pPending : pPending[i] = m
               \/ pCur # 0 /\ \E i \in DOMAIN Sw!Tr.queued : Sw!Tr.queued[i] = m
    <3>1. m \in Sw!Msg /\ Total(m) > 0
      BY <1>1, <2>1 DEF SwitchInv, CountInv
    <3>2. pGot[m] > 0 \/ Occ(Waits, m) > 0 \/ Occ(Queued, m) > 0
      BY <2>3, <3>1
    <3>3. ASSUME Occ(Waits, m) > 0 PROVE \E i \in DOMAIN pPending : pPending[i] = m
      <4>1. PICK i \in DOMAIN Waits : Waits[i] = m
        BY <2>2, <3>3, OccPlace
      <4>2. CASE pMoving = 1
        <5>1. pPending # <<>> /\ Waits = Tail(pPending)
          BY <1>1, <4>2 DEF Waits, SwitchInv, FlushInv
        <5>2. i + 1 \in DOMAIN pPending /\ pPending[i + 1] = m
          BY <2>1, <4>1, <5>1
        <5> QED BY <5>2
      <4>3. CASE pMoving # 1
        BY <4>1, <4>3 DEF Waits
      <4> QED BY <4>2, <4>3
    <3>4. ASSUME Occ(Queued, m) > 0
          PROVE  pCur # 0 /\ \E i \in DOMAIN Sw!Tr.queued : Sw!Tr.queued[i] = m
      <4>1. PICK i \in DOMAIN Queued : Queued[i] = m
        BY <2>1, <3>4, OccPlace
      <4>2. pCur # 0
        BY <4>1 DEF Queued
      <4>3. Queued = Sw!Tr.queued
        BY <1>1, <4>2 DEF Queued, Newest, Sw!Tr, SwitchInv, LegInv
      <4> QED BY <4>1, <4>2, <4>3
    <3> QED BY <3>2, <3>3, <3>4
  <2> QED BY <2>4, <2>5 DEF Sw!MessagesKept
<1> QED BY <1>1, SwitchHolds, PTL

\* With at most one restart, once a switch is over the other leg runs no process.
THEOREM StandbyStaysQuiet == SwitchBounds /\ MaxCrashes <= 1 => (Sw!Spec => []Sw!StandbyQuiet)
<1> SUFFICES ASSUME SwitchBounds, MaxCrashes <= 1 PROVE Sw!Spec => []Sw!StandbyQuiet
  OBVIOUS
<1>1. SwitchInv => Sw!StandbyQuiet
  BY DEF SwitchInv, ProcInv, Sw!StandbyQuiet, Engaged, Going
<1> QED BY <1>1, SwitchHolds, PTL
=============================================================================
