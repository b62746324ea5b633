------------------------- MODULE NodesAndRunsProofs -------------------------
(***************************************************************************)
(* Proofs about the two protocols of other processes.                      *)
(*                                                                         *)
(* Nodes, for any set of sockets and keys and any number of restarts:      *)
(* epochs name connections, older connections are fenced, and a revoked    *)
(* node stays out.                                                         *)
(*                                                                         *)
(* ManagedRun, for any budgets and any number of prompts, runs and         *)
(* restarts: a run completes only when reviewed, an active run is driven   *)
(* on, and one that is over stays so.                                      *)
(***************************************************************************)
EXTENDS Nodes, TLAPS

-----------------------------------------------------------------------------
(* Nodes: types.                                                           *)

InviteType == [status : {"none", "issued", "claimed", "completed"}, key : Keys \cup {NoKey}]
RegType == [key : Keys \cup {NoKey}, revoked : BOOLEAN, epoch : Nat]

\* A socket with new fields is a socket.
LEMMA SockUpdates ==
    ASSUME NEW x \in Sock, NEW w \in {"unused", "open", "closing", "closed"},
           NEW p \in {"initial", "challenged", "active", "enrolled"}, NEW n \in Nat, NEW e \in Nat
    PROVE  /\ [x EXCEPT !.wire = w] \in Sock /\ [x EXCEPT !.phase = p] \in Sock
           /\ [x EXCEPT !.chal = n] \in Sock /\ [x EXCEPT !.epoch = e] \in Sock
           /\ [x EXCEPT !.wire = w, !.chal = n] \in Sock
           /\ [x EXCEPT !.phase = p, !.chal = n] \in Sock
           /\ [x EXCEPT !.phase = p, !.epoch = e] \in Sock
BY DEF Sock

\* Closing a socket changes nothing but its wire.
LEMMA ClosingType ==
    ASSUME NEW x \in Sock
    PROVE  /\ Closing(x) \in Sock /\ Closing(x).epoch = x.epoch
           /\ Closing(x).wire = "unused" => x.wire = "unused"
BY DEF Sock, Closing

SameEpoch(t) == /\ nSock'[t].epoch = nSock[t].epoch
                /\ nSock'[t].wire = "unused" => nSock[t].wire = "unused"

\* A crash closes every socket and counts.
LEMMA DiesType ==
    ASSUME TypeOK, Dies
    PROVE  /\ nSock' \in [Sockets -> Sock] /\ nActive' = {} /\ nSilent' = nSilent
           /\ nCrashes' \in 0..MaxCrashes
           /\ \A t \in Sockets : SameEpoch(t)
<1>1. nCrashes \in Nat /\ MaxCrashes \in Nat /\ nSock \in [Sockets -> Sock]
  BY CrashesAssumption DEF TypeOK
<1>2. nCrashes < MaxCrashes /\ nCrashes' = nCrashes + 1 /\ nActive' = {} /\ nSilent' = nSilent
  BY DEF Dies
<1>3. \A t \in Sockets : [nSock[t] EXCEPT !.wire = "closed", !.chal = 0] \in Sock
  BY <1>1, SockUpdates
<1>4. \A t \in Sockets :
         /\ [nSock[t] EXCEPT !.wire = "closed", !.chal = 0].epoch = nSock[t].epoch
         /\ [nSock[t] EXCEPT !.wire = "closed", !.chal = 0].wire = "closed"
  BY <1>1 DEF Sock
<1> DEFINE shut(t) == [nSock[t] EXCEPT !.wire = "closed", !.chal = 0]
<1>5. nSock' = [t \in Sockets |-> IF nSock[t].wire = "unused" THEN nSock[t] ELSE shut(t)]
  BY DEF Dies
<1> HIDE DEF shut
<1>6. nCrashes' \in 0..MaxCrashes
  BY <1>1, <1>2
<1>7. nSock' \in [Sockets -> Sock] /\ \A t \in Sockets : SameEpoch(t)
  <2>1. \A t \in Sockets : /\ shut(t) \in Sock /\ shut(t).epoch = nSock[t].epoch
                           /\ shut(t).wire = "closed"
    BY <1>3, <1>4 DEF shut
  <2> QED
    BY <1>1, <1>5, <2>1 DEF SameEpoch
<1> QED
  BY <1>2, <1>6, <1>7

\* No handler of the node transport leaves a record ill formed.
LEMMA TypeStep == TypeOK /\ [Next]_nVars => TypeOK'
<1> SUFFICES ASSUME TypeOK, [Next]_nVars PROVE TypeOK'
  OBVIOUS
<1>0. /\ nInvite \in InviteType /\ nReg \in RegType /\ nSock \in [Sockets -> Sock]
      /\ nActive \subseteq Sockets /\ nSilent \subseteq Sockets /\ nHeard \subseteq Nat
      /\ nRevoked \in BOOLEAN /\ nCrashes \in 0..MaxCrashes
  BY DEF TypeOK, InviteType, RegType
<1>s. \A t \in Sockets : nSock[t] \in Sock /\ nSock[t].key \in Keys \cup {NoKey}
  BY <1>0 DEF Sock
<1>t. ASSUME nInvite' \in InviteType, nReg' \in RegType, nSock' \in [Sockets -> Sock],
             nActive' \subseteq Sockets, nSilent' \subseteq Sockets, nHeard' \subseteq Nat,
             nRevoked' \in BOOLEAN, nCrashes' \in 0..MaxCrashes
      PROVE  TypeOK'
  BY <1>t DEF TypeOK, InviteType, RegType
<1>1. ASSUME NEW s \in Sockets, NEW k \in Keys, Connect(s, k) PROVE TypeOK'
  <2>1. [Unused EXCEPT !.wire = "open", !.key = k] \in Sock
    BY DEF Unused, Sock
  <2> QED
    BY <1>0, <1>1, <1>t, <2>1 DEF Connect
<1>2. ASSUME NEW s \in Sockets, Closed(s) PROVE TypeOK'
  <2>1. [nSock[s] EXCEPT !.wire = "closed", !.chal = 0] \in Sock
    BY <1>s, SockUpdates
  <2>2. nSock' = [nSock EXCEPT ![s] = [nSock[s] EXCEPT !.wire = "closed", !.chal = 0]]
    BY <1>0, <1>2 DEF Closed
  <2> QED
    BY <1>0, <1>2, <1>t, <2>1, <2>2 DEF Closed
<1>3. ASSUME NEW s \in Sockets, FallSilent(s) PROVE TypeOK'
  BY <1>0, <1>3, <1>t DEF FallSilent
<1>4. ASSUME NEW s \in Sockets, HandshakeTimeout(s) \/ Sweep(s) \/ BadFrame(s) PROVE TypeOK'
  BY <1>0, <1>s, <1>4, <1>t, ClosingType DEF HandshakeTimeout, Sweep, BadFrame
<1>5. ASSUME NEW s \in Sockets, Enroll(s) PROVE TypeOK'
  <2> DEFINE k == nSock[s].key
             p == IF Claimable(k) /\ Registrable(k) /\ nSock[s].wire = "open" THEN "enrolled"
                  ELSE nSock[s].phase
  <2>1. Closing(nSock[s]) \in Sock
    BY <1>s, ClosingType
  <2>2. p \in {"initial", "challenged", "active", "enrolled"}
    BY <1>s DEF Sock
  <2>3. [Closing(nSock[s]) EXCEPT !.phase = p] \in Sock
    BY <2>1, <2>2, SockUpdates
  <2>4. nSock' = [nSock EXCEPT ![s] = [Closing(nSock[s]) EXCEPT !.phase = p]]
    BY <1>0, <1>5 DEF Enroll
  <2>5. nInvite' \in InviteType
    BY <1>0, <1>s, <1>5 DEF Enroll, InviteType
  <2>6. nReg' \in RegType
    BY <1>0, <1>s, <1>5 DEF Enroll, RegType
  <2> QED
    BY <1>0, <1>5, <1>t, <2>3, <2>4, <2>5, <2>6 DEF Enroll
<1>6. ASSUME NEW s \in Sockets, NEW upto \in {1, 2}, EnrollDies(s, upto) PROVE TypeOK'
  <2>1. Dies
    BY <1>6 DEF EnrollDies
  <2>2. nInvite' \in InviteType
    BY <1>0, <1>s, <1>6 DEF EnrollDies, InviteType
  <2>3. nReg' \in RegType
    BY <1>0, <1>s, <1>6 DEF EnrollDies, RegType
  <2> QED
    BY <1>0, <1>6, <1>t, <2>1, <2>2, <2>3, DiesType DEF EnrollDies
<1>7. ASSUME NEW s \in Sockets, Hello(s) PROVE TypeOK'
  <2> DEFINE c == [nSock[s] EXCEPT !.phase = "challenged", !.chal = nReg.epoch + 1]
  <2>1. nReg.epoch + 1 \in Nat
    BY <1>0 DEF RegType
  <2>2. c \in Sock
    BY <1>s, <2>1, SockUpdates
  <2>3. Closing(nSock[s]) \in Sock /\ Closing(c) \in Sock
    BY <1>s, <2>2, ClosingType
  <2>4. nSock' = [nSock EXCEPT ![s] = IF ~Usable THEN Closing(nSock[s])
                     ELSE IF nSock[s].wire = "open" THEN c ELSE Closing(c)]
    BY <1>0, <1>7 DEF Hello
  <2>5. nSock' \in [Sockets -> Sock]
    BY <1>0, <2>2, <2>3, <2>4
  <2> QED
    BY <1>0, <1>7, <1>t, <2>5 DEF Hello
<1>8. ASSUME NEW s \in Sockets, ChallengeExpires(s) PROVE TypeOK'
  <2>1. nSock' = [nSock EXCEPT ![s] = [nSock[s] EXCEPT !.chal = 0]]
    BY <1>0, <1>8 DEF ChallengeExpires
  <2>2. [nSock[s] EXCEPT !.chal = 0] \in Sock
    BY <1>s, SockUpdates
  <2> QED
    BY <1>0, <1>8, <1>t, <2>1, <2>2 DEF ChallengeExpires
<1>9. ASSUME NEW s \in Sockets, Authenticate(s) PROVE TypeOK'
  <2> DEFINE used == [nSock EXCEPT ![s].chal = 0]
             won == [used EXCEPT ![s].phase = "active", ![s].epoch = Advanced(s)]
  <2>0. Advanced(s) \in Nat
    BY <1>0 DEF Advanced, RegType
  <2>1. used \in [Sockets -> Sock]
    <3>1. [nSock[s] EXCEPT !.chal = 0] \in Sock
      BY <1>s, SockUpdates
    <3> QED
      BY <1>0, <3>1
  <2>2. won \in [Sockets -> Sock]
    <3>1. [used[s] EXCEPT !.phase = "active", !.epoch = Advanced(s)] \in Sock
      BY <2>0, <2>1, SockUpdates
    <3>2. won = [used EXCEPT ![s] = [used[s] EXCEPT !.phase = "active", !.epoch = Advanced(s)]]
      BY <2>1
    <3> QED
      BY <2>1, <3>1, <3>2
  <2>3. \A t \in Sockets : Closing(used[t]) \in Sock /\ Closing(won[t]) \in Sock
    BY <2>1, <2>2, ClosingType
  <2>4. /\ nReg' \in RegType /\ nActive' \subseteq Sockets /\ nHeard' \subseteq Nat
        /\ UNCHANGED <<nInvite, nSilent, nRevoked, nCrashes>>
    BY <1>0, <1>9, <2>0 DEF Authenticate, RegType
  <2>5. nSock' \in [Sockets -> Sock]
    <3>1. CASE ~Verified(s) \/ Advanced(s) # nSock[s].chal
      BY <1>9, <2>1, <2>3, <3>1 DEF Authenticate
    <3>2. CASE Verified(s) /\ Advanced(s) = nSock[s].chal
      BY <1>9, <2>2, <2>3, <3>2 DEF Authenticate
    <3> QED
      BY <3>1, <3>2
  <2> QED
    BY <1>0, <1>t, <2>4, <2>5
<1>10. ASSUME NEW s \in Sockets, AuthenticateDies(s) PROVE TypeOK'
  <2>1. Dies /\ nReg' \in RegType
    BY <1>0, <1>10 DEF AuthenticateDies, Advanced, RegType
  <2> QED
    BY <1>0, <1>10, <1>t, <2>1, DiesType DEF AuthenticateDies
<1>11. ASSUME NEW s \in Sockets, Envelope(s) PROVE TypeOK'
  <2>1. nSock' \in [Sockets -> Sock]
    <3>1. Closing(nSock[s]) \in Sock
      BY <1>s, ClosingType
    <3> QED
      BY <1>0, <1>11, <3>1 DEF Envelope
  <2>2. nHeard' \subseteq Nat
    <3>1. nSock[s].epoch \in Nat
      BY <1>s DEF Sock
    <3> QED
      BY <1>0, <1>11, <3>1 DEF Envelope
  <2> QED
    BY <1>0, <1>11, <1>t, <2>1, <2>2 DEF Envelope
<1>12. CASE Crash
  BY <1>0, <1>12, <1>t, DiesType DEF Crash
<1>13. CASE InviteExpires
  BY <1>0, <1>13, <1>t DEF InviteExpires, NoInvite, InviteType
<1>14. CASE Revoke
  <2>1. nSock' \in [Sockets -> Sock]
    BY <1>0, <1>s, <1>14, ClosingType DEF Revoke
  <2>2. nInvite' \in InviteType /\ nReg' \in RegType
    BY <1>0, <1>14 DEF Revoke, RevokedReg, RevokedInvite, NoInvite, InviteType, RegType
  <2> QED
    BY <1>0, <1>14, <1>t, <2>1, <2>2 DEF Revoke
<1>15. CASE RevokeDies
  <2>1. nReg' \in RegType
    BY <1>0, <1>15 DEF RevokeDies, RevokedReg, RegType
  <2> QED
    BY <1>0, <1>15, <1>t, <2>1, DiesType DEF RevokeDies
<1>16. CASE UNCHANGED nVars
  BY <1>0, <1>16, <1>t DEF nVars
<1> QED
  BY <1>1, <1>2, <1>3, <1>4, <1>5, <1>6, <1>7, <1>8, <1>9, <1>10, <1>11, <1>12, <1>13, <1>14,
     <1>15, <1>16 DEF Next, SocketStep

-----------------------------------------------------------------------------
(* Epochs                                                                  *)

\* None is ahead of the registry, two connections never share one, the active connection
\* has the newest, and what was heard since is at least as new as every connection that
\* was ever ready.
EpochInv ==
    /\ \A s \in Sockets : nSock[s].epoch <= nReg.epoch
    /\ \A s, t \in Sockets : nSock[s].epoch = nSock[t].epoch /\ nSock[s].epoch # 0 => s = t
    /\ \A a \in nActive, s \in Sockets : nSock[s].epoch <= nSock[a].epoch
    /\ \A e \in nHeard, s \in Sockets : nSock[s].epoch <= e
    /\ \A s \in Sockets : nSock[s].wire = "unused" => nSock[s].epoch = 0

\* All that most handlers do to the epochs: nothing.
LEMMA EpochsKept ==
    ASSUME TypeOK, EpochInv, \A s \in Sockets : SameEpoch(s),
           nReg'.epoch \in Nat, nReg.epoch <= nReg'.epoch,
           nActive' \subseteq nActive, nHeard' \subseteq nHeard
    PROVE  EpochInv'
<1>1. nReg.epoch \in Nat /\ \A s \in Sockets : nSock[s].epoch \in Nat
  BY DEF TypeOK, Sock
<1>2. nActive \subseteq Sockets /\ nHeard \subseteq Nat
  BY DEF TypeOK
<1>3. \A s \in Sockets : nSock'[s].epoch = nSock[s].epoch
  BY DEF SameEpoch
<1>4. \A s \in Sockets : nSock'[s].epoch <= nReg'.epoch
  BY <1>1, <1>3 DEF EpochInv
<1>5. \A s, t \in Sockets : nSock'[s].epoch = nSock'[t].epoch /\ nSock'[s].epoch # 0 => s = t
  BY <1>3 DEF EpochInv
<1>6. \A a \in nActive', s \in Sockets : nSock'[s].epoch <= nSock'[a].epoch
  BY <1>2, <1>3 DEF EpochInv
<1>7. \A e \in nHeard', s \in Sockets : nSock'[s].epoch <= e
  BY <1>3 DEF EpochInv
<1>8. \A s \in Sockets : nSock'[s].wire = "unused" => nSock'[s].epoch = 0
  BY DEF EpochInv, SameEpoch
<1> QED
  BY <1>4, <1>5, <1>6, <1>7, <1>8 DEF EpochInv

\* The order of the epochs survives every handler, crashes between the writes included.
LEMMA EpochStep == TypeOK /\ EpochInv /\ [Next]_nVars => EpochInv'
<1> SUFFICES ASSUME TypeOK, EpochInv, [Next]_nVars PROVE EpochInv'
  OBVIOUS
<1>0. /\ nReg \in RegType /\ nReg.epoch \in Nat /\ nSock \in [Sockets -> Sock]
      /\ nActive \subseteq Sockets /\ nHeard \subseteq Nat
      /\ \A t \in Sockets : nSock[t] \in Sock /\ nSock[t].epoch \in Nat
  BY DEF TypeOK, RegType, Sock
<1>c. \A t \in Sockets : /\ Closing(nSock[t]).epoch = nSock[t].epoch
                         /\ Closing(nSock[t]).wire = "unused" => nSock[t].wire = "unused"
  BY <1>0, ClosingType
<1>k. ASSUME \A s \in Sockets : SameEpoch(s), nReg' = nReg,
             nActive' \subseteq nActive, nHeard' = nHeard
      PROVE  EpochInv'
  BY <1>0, <1>k, EpochsKept
<1>1. ASSUME NEW s \in Sockets, NEW k \in Keys, Connect(s, k) PROVE EpochInv'
  <2>1. nSock[s].epoch = 0
    BY <1>1 DEF Connect, EpochInv
  <2>2. \A t \in Sockets : SameEpoch(t)
    BY <1>0, <1>1, <2>1 DEF Connect, Unused, SameEpoch
  <2> QED
    BY <1>1, <1>k, <2>2 DEF Connect
<1>2. ASSUME NEW s \in Sockets, Closed(s) \/ ChallengeExpires(s) PROVE EpochInv'
  <2>1. \A t \in Sockets : SameEpoch(t)
    BY <1>0, <1>2 DEF Closed, ChallengeExpires, SameEpoch, Sock
  <2> QED
    BY <1>2, <1>k, <2>1 DEF Closed, ChallengeExpires
<1>3. ASSUME NEW s \in Sockets, FallSilent(s) PROVE EpochInv'
  BY <1>3, <1>k DEF FallSilent, SameEpoch
<1>4. ASSUME NEW s \in Sockets, HandshakeTimeout(s) \/ Sweep(s) \/ BadFrame(s)
      PROVE  EpochInv'
  <2>1. nSock' = [nSock EXCEPT ![s] = Closing(nSock[s])]
    BY <1>0, <1>4 DEF HandshakeTimeout, Sweep, BadFrame
  <2>2. \A t \in Sockets : SameEpoch(t)
    BY <1>0, <1>c, <2>1 DEF SameEpoch
  <2> QED
    BY <1>4, <1>k, <2>2 DEF HandshakeTimeout, Sweep, BadFrame
<1>5. ASSUME NEW s \in Sockets, Enroll(s) PROVE EpochInv'
  <2> DEFINE p == IF Claimable(nSock[s].key) /\ Registrable(nSock[s].key)
                        /\ nSock[s].wire = "open" THEN "enrolled" ELSE nSock[s].phase
  <2>1. nSock' = [nSock EXCEPT ![s] = [Closing(nSock[s]) EXCEPT !.phase = p]]
    BY <1>0, <1>5 DEF Enroll
  <2>2. Closing(nSock[s]) \in Sock
    BY <1>0, ClosingType
  <2>3. \A t \in Sockets : SameEpoch(t)
    BY <1>0, <1>c, <2>1, <2>2 DEF SameEpoch, Sock
  <2>4. nReg'.epoch = nReg.epoch
    BY <1>0, <1>5 DEF Enroll, RegType
  <2> QED
    BY <1>0, <1>5, <2>3, <2>4, EpochsKept DEF Enroll
<1>6. ASSUME NEW s \in Sockets, NEW upto \in {1, 2}, EnrollDies(s, upto) PROVE EpochInv'
  <2>1. nReg'.epoch = nReg.epoch
    BY <1>0, <1>6 DEF EnrollDies, RegType
  <2> QED
    BY <1>0, <1>6, <2>1, DiesType, EpochsKept DEF EnrollDies
<1>7. ASSUME NEW s \in Sockets, Hello(s) PROVE EpochInv'
  <2> DEFINE c == [nSock[s] EXCEPT !.phase = "challenged", !.chal = nReg.epoch + 1]
  <2>1. nSock' = [nSock EXCEPT ![s] = IF ~Usable THEN Closing(nSock[s])
                     ELSE IF nSock[s].wire = "open" THEN c ELSE Closing(c)]
    BY <1>0, <1>7 DEF Hello
  <2>2. c \in Sock /\ c.epoch = nSock[s].epoch /\ c.wire = nSock[s].wire
    <3>1. nReg.epoch + 1 \in Nat
      BY <1>0
    <3>2. c \in Sock
      BY <1>0, <3>1, SockUpdates
    <3>3. c.epoch = nSock[s].epoch /\ c.wire = nSock[s].wire
      BY <1>0 DEF Sock
    <3> QED
      BY <3>2, <3>3
  <2>3. Closing(c).epoch = c.epoch /\ (Closing(c).wire = "unused" => c.wire = "unused")
    BY <2>2, ClosingType
  <2> HIDE DEF c
  <2>4. \A t \in Sockets : SameEpoch(t)
    BY <1>0, <1>c, <2>1, <2>2, <2>3 DEF SameEpoch
  <2> QED
    BY <1>7, <1>k, <2>4 DEF Hello
<1>8. ASSUME NEW s \in Sockets, Authenticate(s) PROVE EpochInv'
  <2> DEFINE used == [nSock EXCEPT ![s].chal = 0]
             won == [used EXCEPT ![s].phase = "active", ![s].epoch = nReg.epoch + 1]
  <2>1. /\ used \in [Sockets -> Sock]
        /\ \A t \in Sockets : used[t].epoch = nSock[t].epoch /\ used[t].wire = nSock[t].wire
    <3> DEFINE u == [nSock[s] EXCEPT !.chal = 0]
    <3>1. u \in Sock /\ u.epoch = nSock[s].epoch /\ u.wire = nSock[s].wire
      <4>1. u \in Sock
        BY <1>0, SockUpdates
      <4>2. u.epoch = nSock[s].epoch /\ u.wire = nSock[s].wire
        BY <1>0 DEF Sock
      <4> QED
        BY <4>1, <4>2
    <3>2. used = [nSock EXCEPT ![s] = u]
      BY <1>0
    <3> HIDE DEF u, used
    <3> QED
      BY <1>0, <3>1, <3>2
  <2>2. /\ won \in [Sockets -> Sock]
        /\ \A t \in Sockets : won[t].wire = nSock[t].wire
        /\ \A t \in Sockets : won[t].epoch = IF t = s THEN nReg.epoch + 1 ELSE nSock[t].epoch
    <3> DEFINE v == [used[s] EXCEPT !.phase = "active", !.epoch = nReg.epoch + 1]
    <3> HIDE DEF used
    <3>1. v \in Sock /\ v.epoch = nReg.epoch + 1 /\ v.wire = used[s].wire
      <4>1. used[s] \in Sock /\ nReg.epoch + 1 \in Nat
        BY <1>0, <2>1
      <4>2. v \in Sock
        BY <4>1, SockUpdates
      <4>3. v.epoch = nReg.epoch + 1 /\ v.wire = used[s].wire
        BY <4>1 DEF Sock
      <4> QED
        BY <4>2, <4>3
    <3>2. won = [used EXCEPT ![s] = v]
      BY <2>1
    <3> HIDE DEF v, won
    <3> QED
      BY <2>1, <3>1, <3>2
  <2>3. \A x \in Sock : /\ Closing(x).epoch = x.epoch
                         /\ (Closing(x).wire = "unused" => x.wire = "unused")
    BY ClosingType
  <2>4. CASE ~Verified(s) \/ Advanced(s) # nSock[s].chal
    <3>1. nSock' = [used EXCEPT ![s] = Closing(used[s])] /\ UNCHANGED <<nActive, nHeard>>
      BY <1>8, <2>1, <2>4 DEF Authenticate
    <3>2. \A t \in Sockets : SameEpoch(t)
      BY <2>1, <2>3, <3>1 DEF SameEpoch
    <3>3. nReg'.epoch \in Nat /\ nReg.epoch <= nReg'.epoch
      BY <1>0, <1>8 DEF Authenticate, Advanced, RegType
    <3> QED
      BY <3>1, <3>2, <3>3, EpochsKept
  <2>5. CASE Verified(s) /\ Advanced(s) = nSock[s].chal
    <3>1. /\ nSock' = [t \in Sockets |-> IF t \in nActive /\ nSock[s].wire = "open"
                                         THEN Closing(won[t]) ELSE won[t]]
          /\ nActive' = {s} /\ nHeard' = {}
      BY <1>8, <2>5 DEF Authenticate, Advanced
    <3>2. nReg'.epoch = nReg.epoch + 1
      BY <1>0, <1>8, <2>5 DEF Authenticate, Advanced, RegType
    <3> HIDE DEF won
    <3>3. \A t \in Sockets :
             /\ nSock'[t].epoch = IF t = s THEN nReg.epoch + 1 ELSE nSock[t].epoch
             /\ nSock'[t].wire = "unused" => nSock[t].wire = "unused"
      BY <2>2, <2>3, <3>1
    <3>4. nSock[s].wire # "unused"
      BY <1>8 DEF Authenticate, Listening
    <3>5. \A t \in Sockets : nSock'[t].epoch <= nReg.epoch + 1
      BY <1>0, <3>3 DEF EpochInv
    <3>6. \A t, u \in Sockets :
             nSock'[t].epoch = nSock'[u].epoch /\ nSock'[t].epoch # 0 => t = u
      <4>1. \A t \in Sockets : nSock[t].epoch # nReg.epoch + 1
        BY <1>0 DEF EpochInv
      <4> QED
        BY <1>0, <3>3, <4>1 DEF EpochInv
    <3>7. \A a \in nActive', t \in Sockets : nSock'[t].epoch <= nSock'[a].epoch
      BY <3>1, <3>3, <3>5
    <3>8. \A t \in Sockets : nSock'[t].wire = "unused" => nSock'[t].epoch = 0
      BY <3>3, <3>4 DEF EpochInv
    <3> QED
      BY <3>1, <3>2, <3>5, <3>6, <3>7, <3>8 DEF EpochInv
  <2> QED
    BY <2>4, <2>5
<1>9. ASSUME NEW s \in Sockets, AuthenticateDies(s) PROVE EpochInv'
  <2>1. nReg'.epoch = nReg.epoch + 1
    BY <1>0, <1>9 DEF AuthenticateDies, Advanced, RegType
  <2> QED
    BY <1>0, <1>9, <2>1, DiesType, EpochsKept DEF AuthenticateDies
<1>10. ASSUME NEW s \in Sockets, Envelope(s) PROVE EpochInv'
  <2>1. CASE Current(s)
    <3>1. UNCHANGED <<nSock, nReg, nActive>> /\ nHeard' = nHeard \cup {nSock[s].epoch}
      BY <1>10, <2>1 DEF Envelope
    <3>2. \A e \in nHeard', t \in Sockets : nSock[t].epoch <= e
      BY <2>1, <3>1 DEF Current, EpochInv
    <3> QED
      BY <3>1, <3>2 DEF EpochInv
  <2>2. CASE ~Current(s)
    <3>1. nSock' = [nSock EXCEPT ![s] = Closing(nSock[s])]
      BY <1>0, <1>10, <2>2 DEF Envelope
    <3>2. \A t \in Sockets : SameEpoch(t)
      BY <1>0, <1>c, <3>1 DEF SameEpoch
    <3> QED
      BY <1>10, <1>k, <2>2, <3>2 DEF Envelope
  <2> QED
    BY <2>1, <2>2
<1>11. CASE Crash
  BY <1>11, <1>k, DiesType DEF Crash
<1>12. CASE InviteExpires
  BY <1>12, <1>k DEF InviteExpires, SameEpoch
<1>13. CASE Revoke
  <2>1. \A t \in Sockets : SameEpoch(t)
    BY <1>c, <1>13 DEF Revoke, SameEpoch
  <2>2. nReg'.epoch = nReg.epoch
    BY <1>0, <1>13 DEF Revoke, RevokedReg, RegType
  <2> QED
    BY <1>0, <1>13, <2>1, <2>2, EpochsKept DEF Revoke
<1>14. CASE RevokeDies
  <2>1. nReg'.epoch = nReg.epoch
    BY <1>0, <1>14 DEF RevokeDies, RevokedReg, RegType
  <2> QED
    BY <1>0, <1>14, <2>1, DiesType, EpochsKept DEF RevokeDies
<1>15. CASE UNCHANGED nVars
  BY <1>15, <1>k DEF nVars, SameEpoch
<1> QED
  BY <1>1, <1>2, <1>3, <1>4, <1>5, <1>6, <1>7, <1>8, <1>9, <1>10, <1>11, <1>12, <1>13, <1>14,
     <1>15 DEF Next, SocketStep

-----------------------------------------------------------------------------
(* Revocation                                                              *)

\* After the answer no key can pass: the record is revoked, or there is none and no
\* invitation to make one.
RevokedInv ==
    nRevoked => /\ nActive = {}
                /\ nReg.key # NoKey => nReg.revoked
                /\ nInvite.status = "none"

\* No handshake or enrolment that was under way undoes a revocation.
LEMMA RevokedStep == TypeOK /\ RevokedInv /\ [Next]_nVars => RevokedInv'
<1> SUFFICES ASSUME TypeOK, RevokedInv, [Next]_nVars PROVE RevokedInv'
  OBVIOUS
<1>0. nReg \in RegType /\ nActive \subseteq Sockets
  BY DEF TypeOK, RegType
<1>k. ASSUME UNCHANGED <<nReg, nInvite, nRevoked>>, nActive' \subseteq nActive
      PROVE  RevokedInv'
  BY <1>k DEF RevokedInv
<1>1. ASSUME NEW s \in Sockets,
             \/ \E k \in Keys : Connect(s, k)
             \/ Closed(s) \/ FallSilent(s) \/ HandshakeTimeout(s) \/ Sweep(s) \/ Hello(s)
             \/ ChallengeExpires(s) \/ BadFrame(s) \/ Envelope(s)
      PROVE  RevokedInv'
  BY <1>1, <1>k DEF Connect, Closed, FallSilent, HandshakeTimeout, Sweep, Hello,
       ChallengeExpires, BadFrame, Envelope
<1>2. ASSUME NEW s \in Sockets, Enroll(s) PROVE RevokedInv'
  BY <1>2 DEF Enroll, Claimable, RevokedInv
<1>3. ASSUME NEW s \in Sockets, NEW upto \in {1, 2}, EnrollDies(s, upto) PROVE RevokedInv'
  BY <1>3 DEF EnrollDies, Dies, Claimable, RevokedInv
<1>4. ASSUME NEW s \in Sockets, Authenticate(s) PROVE RevokedInv'
  <2>1. CASE ~Verified(s)
    BY <1>4, <1>k, <2>1 DEF Authenticate
  <2>2. CASE Verified(s)
    <3>1. ~nRevoked
      BY <2>2 DEF Verified, Usable, RevokedInv
    <3> QED
      BY <1>4, <3>1 DEF Authenticate, RevokedInv
  <2> QED
    BY <2>1, <2>2
<1>5. ASSUME NEW s \in Sockets, AuthenticateDies(s) PROVE RevokedInv'
  BY <1>5 DEF AuthenticateDies, Verified, Usable, RevokedInv
<1>6. CASE Crash
  BY <1>6, <1>k DEF Crash, Dies
<1>7. CASE InviteExpires
  BY <1>7 DEF InviteExpires, NoInvite, RevokedInv
<1>8. CASE Revoke
  BY <1>0, <1>8 DEF Revoke, RevokedReg, RevokedInvite, NoInvite, RevokedInv, RegType
<1>9. CASE RevokeDies
  BY <1>0, <1>9 DEF RevokeDies, RevokedReg, Dies, RevokedInv, RegType
<1>10. CASE UNCHANGED nVars
  BY <1>10, <1>k DEF nVars
<1> QED
  BY <1>1, <1>2, <1>3, <1>4, <1>5, <1>6, <1>7, <1>8, <1>9, <1>10 DEF Next, SocketStep

-----------------------------------------------------------------------------
\* The strengthening that the steps preserve.
IInv == TypeOK /\ EpochInv /\ RevokedInv

LEMMA Initially == Init => IInv
<1> SUFFICES ASSUME Init PROVE IInv
  OBVIOUS
<1>1. nSock = [s \in Sockets |-> Unused] /\ Unused \in Sock
  BY DEF Init, Unused, Sock
<1>2. TypeOK
  <2>1. nCrashes \in 0..MaxCrashes
    BY CrashesAssumption DEF Init, CrashesAssumption
  <2> QED
    BY <1>1, <2>1 DEF Init, TypeOK
<1>3. EpochInv
  BY <1>1 DEF Init, EpochInv, Unused
<1>4. RevokedInv
  BY DEF Init, RevokedInv
<1> QED
  BY <1>2, <1>3, <1>4 DEF IInv

LEMMA Inductive == Spec => []IInv
<1>1. IInv /\ [Next]_nVars => IInv'
  BY TypeStep, EpochStep, RevokedStep DEF IInv
<1> QED
  BY Initially, <1>1, PTL DEF Spec

\* The types of the registry, the invitation, the sockets and the connection map, for any
\* set of sockets and keys (node-transport.mjs, node-registry.mjs, node-enrollment.mjs).
THEOREM TypeCorrect == Spec => []TypeOK
<1>1. IInv => TypeOK
  BY DEF IInv
<1> QED
  BY Inductive, <1>1, PTL

\* Once a connection is ready nothing of an older one is accepted, and an epoch names one
\* connection for ever, restarts included (authenticate and handleEnvelope of
\* node-transport.mjs, advanceConnectionEpoch of node-registry.mjs).
THEOREM OlderConnectionsFenced == Spec => []OlderAreFenced
<1>1. IInv => OlderAreFenced
  BY DEF IInv, EpochInv, OlderAreFenced, EpochNamesOne, Ready
<1> QED
  BY Inductive, <1>1, PTL

\* A revocation that was answered stays: no handshake, no enrolment and no restart makes
\* the node active again (revoke of node-management.mjs).
THEOREM RevocationIsFinal == Spec => []RevokedStaysOut
<1>1. IInv => RevokedStaysOut
  BY DEF IInv, RevokedInv, RevokedStaysOut
<1> QED
  BY Inductive, <1>1, PTL

-----------------------------------------------------------------------------
(* ManagedRun.                                                             *)

CONSTANTS Prompts, Reviews, Agents, Turns, MaxRuns, Late
VARIABLES mRun, mLeg, mCtl, mTurn, mSup, mReq, mNudge, mArmed, mBoot, mRoute, mEntry, mAsk,
          mPrompt, mSeen, mStarved, mRepairs, mCrashes

Mr == INSTANCE ManagedRun

\* Planning and every review fit into the budget of subagents, which normalizeBudgets
\* and the parser of budgets see to (managed-core.mjs); and the owner waits for what he
\* stopped or sent to come to its end.
RunBounds ==
    /\ Reviews \in Nat /\ Agents \in Nat /\ Turns \in Nat /\ MaxRuns \in Nat
    /\ MaxCrashes \in Nat /\ Reviews < Agents /\ ~Late

LegType ==
    [at : {"off", "start", "launch", "child", "usage", "planned", "begin", "review",
           "context", "verdict", "continue", "settled"},
     kind : {"none", "plan", "review", "control"}, id : 0..MaxRuns,
     dead : BOOLEAN, rep : BOOLEAN, clean : BOOLEAN]

\* The types that TypeOK leaves out are added.
Types ==
    /\ Mr!TypeOK
    /\ mLeg \in [Mr!Slots -> LegType]
    /\ mRoute = Mr!NoRoute \/ \E p \in Prompts,
            st \in {"routing", "managed", "native", "cancelled"} :
            mRoute = [p |-> p, st |-> st]
    /\ mSeen \in BOOLEAN /\ mStarved \in BOOLEAN /\ mRepairs \in Nat

\* A leg of an active run is where the phase of the run says; a review saw all the work.
Fits(run, leg) ==
    \/ /\ leg.kind = "plan" /\ run.ph = "planning"
       /\ leg.at \in {"launch", "child", "usage"} \/ (leg.at = "planned" /\ run.mode = "auto")
    \/ /\ leg.kind = "review" /\ run.ph = "reviewing"
       /\ \/ leg.at = "review" /\ ~leg.rep
          \/ leg.at = "context" /\ ~leg.rep /\ leg.clean
          \/ leg.at \in {"launch", "child", "usage"} /\ leg.clean
    \/ leg.at = "verdict" /\ run.ph = (IF leg.clean THEN "finalizing" ELSE "fixing")
    \/ leg.at = "start" /\ run.ph = "planning"
    \/ leg.at = "begin" /\ run.ph = "executing"
    \/ leg.at = "settled" /\ run.ph \in Mr!Working
    \/ leg.at = "continue"

Idle == \A s \in Mr!Slots : mLeg[s] = Mr!Off
Sole(s) == \A t \in Mr!Slots : t # s => mLeg[t] = Mr!Off

\* One thing drives an active run.
ActiveInv ==
    mRun.st = "active" =>
        /\ mRun.ph \in Mr!Working \cup {"planning", "reviewing"} /\ ~mSup
        /\ \/ mBoot = "run" /\ Idle /\ ~mTurn /\ ~mNudge
           \/ mBoot = "none" /\ Idle /\ mTurn # mNudge /\ mRun.ph \in Mr!Working
           \/ /\ mBoot = "none" /\ ~mTurn /\ ~mNudge
              /\ \E s \in Mr!Slots : /\ mLeg[s].id = mRun.id /\ mLeg[s] # Mr!Off
                                     /\ Fits(mRun, mLeg[s]) /\ Sole(s)

RestInv ==
    /\ mSup => mTurn
    /\ mRun.st = "paused" /\ mTurn => mSup
    /\ mRun.ph = "awaiting-approval" => mRun.st = "paused"

RouteInv ==
    /\ mEntry \in {Mr!NoRoute, mRoute}
    /\ mRoute # Mr!NoRoute => mRun.st \notin {"active", "paused"}
    /\ \A p \in Prompts : mAsk[p] # "off" =>
        /\ mRoute # Mr!NoRoute /\ mRoute.p = p
        /\ mAsk[p] \in {"managed", "native", "cancelling"} => mEntry = Mr!NoRoute

SeenInv ==
    /\ mRun.st = "complete" => mSeen
    /\ mRun.st = "active" /\ mRun.ph = "finalizing" => mSeen
    /\ mRun.st \in {"active", "paused"} /\ mRun.res = "finalizing"
            => mSeen /\ mRun.ph \in {"finalizing", "paused"}

\* A review that has not launched its subagent.
Pending(run, leg) ==
    run.st = "active" /\ leg.kind = "review" /\ leg.at \in {"review", "context"}
BudgetInv ==
    /\ ~mStarved
    /\ mRepairs = 0 =>
        /\ mRun.agents + (Reviews - mRun.cycles) <= Agents
        /\ \A s \in Mr!Slots : Pending(mRun, mLeg[s]) =>
                mRun.agents + (Reviews - mRun.cycles) + 1 <= Agents

RunInv == Types /\ ActiveInv /\ RestInv /\ RouteInv /\ SeenInv /\ BudgetInv

RunType ==
    [id : 0..MaxRuns, st : Mr!Status, mode : {"auto", "plan"},
     ph : {"planning", "awaiting-approval", "reviewing"} \cup Mr!Working \cup Mr!Status,
     res : {"none", "planning", "reviewing", "paused", "complete", "cancelled",
            "failed"} \cup Mr!Working,
     plan : {"none", "open", "done"}, cycles : 0..Reviews, agents : 0..Agents,
     turns : 0..Turns, late : BOOLEAN]

-----------------------------------------------------------------------------
\* The run has the record type that TypeOK states.
LEMMA RunTyped == Types => mRun \in RunType
  BY DEF Types, Mr!TypeOK, RunType

\* The only leg of an active run.
LEMMA TheLeg ==
    ASSUME RunInv, NEW s \in Mr!Slots, mLeg[s] # Mr!Off, mRun.st = "active"
    PROVE  /\ mLeg[s].id = mRun.id /\ Fits(mRun, mLeg[s]) /\ Sole(s) /\ Mr!Live(s)
           /\ ~mTurn /\ ~mNudge /\ mBoot = "none" /\ ~mSup
           /\ mRun.ph \in Mr!Working \cup {"planning", "reviewing"}
  BY DEF RunInv, ActiveInv, Idle, Sole, Mr!Live, Mr!Of, Mr!Active

\* A step of a leg leaves the other leg alone.
LEMMA LegGoes ==
    ASSUME Types, NEW s \in Mr!Slots, NEW leg \in LegType, Mr!Goes(s, leg)
    PROVE  /\ mLeg' \in [Mr!Slots -> LegType] /\ mLeg'[s] = leg
           /\ \A t \in Mr!Slots : t # s => mLeg'[t] = mLeg[t]
           /\ Sole(s) => Sole(s)'
  BY DEF Types, Mr!Goes, Sole

\* An empty slot is typed.
LEMMA OffTyped == RunBounds => Mr!Off \in LegType /\ Mr!Off.at = "off"
  BY DEF RunBounds, Mr!Off, LegType

\* Types are kept by a step that has typed legs and a typed run.
LEMMA StaysTyped ==
    ASSUME Types, mRun' \in RunType, mLeg' \in [Mr!Slots -> LegType], mCtl' \in Mr!Slots \cup {0},
           mTurn' \in BOOLEAN, mSup' \in BOOLEAN, mReq' \in BOOLEAN, mNudge' \in BOOLEAN,
           mArmed' \in BOOLEAN, mBoot' \in {"none", "run", "route"}, UNCHANGED Mr!routes,
           mSeen' \in BOOLEAN, mStarved' \in BOOLEAN, mRepairs' \in Nat,
           mCrashes' \in 0..MaxCrashes
    PROVE  Types'
  BY DEF Types, Mr!TypeOK, RunType, LegType, Mr!routes

\* An active run that a leg drives on.
LEMMA Rides ==
    ASSUME RunBounds, Types, NEW s \in Mr!Slots, NEW leg \in LegType, Mr!Goes(s, leg), Sole(s),
           leg.at # "off", leg.id = mRun'.id, Fits(mRun', leg), ~mSup',
           mBoot' = "none", ~mTurn', ~mNudge',
           mRun'.ph \in Mr!Working \cup {"planning", "reviewing"}
    PROVE  ActiveInv'
<1>1. mLeg'[s] = leg /\ Sole(s)'
  BY LegGoes
<1>2. leg # Mr!Off
  BY OffTyped
<1>3. Fits(mRun, mLeg[s])'
  BY <1>1 DEF Fits
<1> QED BY <1>1, <1>2, <1>3 DEF ActiveInv

\* An active run that the turn or its timer drives on, once its leg has ended.
LEMMA TurnsOn ==
    ASSUME RunBounds, Types, NEW s \in Mr!Slots, Mr!Ends(s), Sole(s), ~mSup', mBoot' = "none",
           mTurn' # mNudge', mRun'.ph \in Mr!Working
    PROVE  ActiveInv'
<1>1. Idle'
  BY DEF Types, Mr!Ends, Mr!Goes, Sole, Idle
<1> QED BY <1>1 DEF ActiveInv

\* Routes do not notice a run that gets no owner.
LEMMA RoutesKept ==
    ASSUME RouteInv, UNCHANGED Mr!routes,
           mRun'.st \in {"active", "paused"} => mRun.st \in {"active", "paused"}
    PROVE  RouteInv'
  BY DEF RouteInv, Mr!routes

\* The budget of a run that spends nothing and has no new review.
LEMMA BudgetKept ==
    ASSUME BudgetInv, mStarved' = mStarved, mRepairs' = mRepairs,
           mRun'.agents = mRun.agents, mRun'.cycles = mRun.cycles,
           \A s \in Mr!Slots : Pending(mRun', mLeg'[s]) => Pending(mRun, mLeg[s])
    PROVE  BudgetInv'
  BY DEF BudgetInv, Pending

\* A leg that fails takes its run with it, or finds it no longer there.
LEMMA FailsStep ==
    ASSUME RunBounds, RunInv, NEW s \in Mr!Slots, mLeg[s] # Mr!Off,
           mRun' = Mr!FailedBy(s), Mr!Ends(s), Mr!Keeps(mArmed), mCtl' \in Mr!Slots \cup {0},
           UNCHANGED <<mTurn, Mr!memory, Mr!routes, Mr!history>>
    PROVE  RunInv'
<1>1. mRun \in RunType /\ Types /\ mLeg \in [Mr!Slots -> LegType]
  BY RunTyped DEF RunInv, Types
<1>2. mRun'.st # "active" /\ mRun' \in {mRun, Mr!Terminal(mRun, "failed")}
  BY TheLeg, <1>1 DEF Mr!FailedBy, Mr!Terminal, RunType
<1>3. mRun' \in RunType /\ mRun'.agents = mRun.agents /\ mRun'.cycles = mRun.cycles
  BY <1>1, <1>2 DEF RunType, Mr!Terminal, Mr!Status
<1>4. Types'
  <2>1. mLeg' \in [Mr!Slots -> LegType]
    BY <1>1, OffTyped, LegGoes DEF Mr!Ends
  <2> QED BY <1>1, <1>3, <2>1, StaysTyped
         DEF Types, Mr!TypeOK, Mr!Keeps, Mr!memory, Mr!history
<1>5. ActiveInv'
  BY <1>2 DEF ActiveInv
<1>6. RestInv' /\ SeenInv'
  BY <1>1, <1>2 DEF RunInv, RestInv, SeenInv, Mr!memory, Mr!history, Mr!Terminal, RunType
<1>7. RouteInv'
  BY <1>1, <1>2, RoutesKept DEF RunInv, Mr!Terminal, RunType
<1>8. BudgetInv'
  BY <1>2, <1>3, BudgetKept DEF RunInv, Pending, Mr!history
<1> QED BY <1>4, <1>5, <1>6, <1>7, <1>8 DEF RunInv

\* A child starts, or the budget ends the run.
LEMMA LaunchStep ==
    ASSUME RunBounds, RunInv, NEW s \in Mr!Slots, NEW leg \in LegType, NEW armed \in BOOLEAN,
           Mr!Launches(s, leg, armed), UNCHANGED <<mCtl, Mr!routes>>,
           mTurn' = mTurn, mSup' = mSup, mReq' \in BOOLEAN, mNudge' = mNudge,
           mBoot' \in {"none", "run", "route"}, mSeen' = mSeen, mCrashes' = mCrashes,
           mRun.st = "active" =>
                /\ Sole(s) /\ ~mTurn /\ ~mNudge /\ ~mSup /\ mBoot' = "none"
                /\ leg.id = mRun.id /\ Fits(mRun, [leg EXCEPT !.at = "launch"])
                /\ leg.kind \in {"plan", "review"},
           leg.kind = "review" /\ ~leg.rep /\ mRun.st = "active" => Pending(mRun, mLeg[s]),
           mRepairs' \in Nat, mRepairs' = 0 => mRepairs = 0,
           leg.kind = "review" /\ leg.rep /\ mRun'.agents > mRun.agents => mRepairs' # 0
    PROVE  RunInv'
<1>1. mRun \in RunType /\ Types /\ mLeg \in [Mr!Slots -> LegType]
  BY RunTyped DEF RunInv, Types
<1> DEFINE launched == mRun.st = "active" /\ Mr!MayLaunch(mRun, leg.kind, TRUE)
<1>2. CASE launched
  <2> DEFINE child == [leg EXCEPT !.at = "launch"]
  <2>1. /\ mRun' = [mRun EXCEPT !.agents = @ + 1] /\ Mr!Goes(s, child)
        /\ mStarved' = mStarved /\ mArmed' = armed
    BY <1>1, <1>2 DEF Mr!Launches, Mr!Active, Mr!Keeps, RunType
  <2>2. child \in LegType /\ child.at = "launch" /\ child.id = leg.id
    BY DEF LegType
  <2>3. mRun.agents < Agents
    BY <1>1, <1>2 DEF Mr!MayLaunch, Mr!Reserve, RunType, RunBounds
  <2>4. /\ mRun' \in RunType /\ mRun'.st = "active" /\ mRun'.agents = mRun.agents + 1
        /\ mRun'.id = mRun.id /\ mRun'.ph = mRun.ph /\ mRun'.mode = mRun.mode
        /\ mRun'.res = mRun.res /\ mRun'.cycles = mRun.cycles
    BY <1>1, <1>2, <2>1, <2>3 DEF RunType, RunBounds
  <2>5. mLeg' \in [Mr!Slots -> LegType] /\ mLeg'[s] = child /\ Sole(s)'
    BY <1>1, <1>2, <2>1, <2>2, LegGoes
  <2>6. Types'
    BY <1>1, <2>1, <2>4, <2>5, StaysTyped DEF Types, Mr!TypeOK
  <2>7. mRun.ph \in Mr!Working \cup {"planning", "reviewing"}
    BY <1>2 DEF RunInv, ActiveInv
  <2>8. Fits(mRun', child)
    BY <1>2, <2>4 DEF Fits
  <2>9. ActiveInv'
    BY <1>1, <1>2, <2>1, <2>2, <2>4, <2>7, <2>8, Rides
  <2>10. RestInv' /\ SeenInv'
    BY <1>2, <2>4 DEF RunInv, RestInv, SeenInv
  <2>11. RouteInv'
    BY <1>2, RoutesKept DEF RunInv
  <2>12. BudgetInv'
    <3>1. ASSUME mRepairs' = 0 PROVE mRun.agents + 1 + (Reviews - mRun.cycles) <= Agents
      <4>1. CASE leg.kind = "review"
        <5>1. ~leg.rep
          BY <1>1, <2>4, <3>1, <4>1 DEF LegType, RunType
        <5>2. mRun.agents + (Reviews - mRun.cycles) + 1 <= Agents
          BY <1>2, <3>1, <4>1, <5>1 DEF RunInv, BudgetInv
        <5> QED BY <1>1, <5>2 DEF RunType, RunBounds
      <4>2. CASE leg.kind = "plan"
        BY <1>1, <1>2, <4>2 DEF Mr!MayLaunch, Mr!Reserve, RunType, RunBounds
      <4> QED BY <1>2, <4>1, <4>2
    <3>2. \A t \in Mr!Slots : ~Pending(mRun', mLeg'[t])
      BY <2>2, <2>5, OffTyped DEF Pending, Sole
    <3> QED BY <1>1, <2>1, <2>4, <3>1, <3>2 DEF RunInv, BudgetInv, RunType, RunBounds
  <2> QED BY <2>6, <2>9, <2>10, <2>11, <2>12 DEF RunInv
<1>3. CASE ~launched
  <2>1. mRun' \in {mRun, Mr!Terminal(mRun, "failed")} /\ mRun'.st # "active" /\ Mr!Ends(s)
    BY <1>1, <1>3 DEF Mr!Launches, Mr!Active, Mr!Terminal, RunType
  <2>2. mStarved' = mStarved
    <3>1. ASSUME leg.kind = "review", ~leg.rep, mRun.st = "active", mRepairs = 0
          PROVE  FALSE
      <4>1. mRun.agents + (Reviews - mRun.cycles) + 1 <= Agents
        BY <3>1 DEF RunInv, BudgetInv
      <4> QED BY <1>1, <1>3, <3>1, <4>1 DEF Mr!MayLaunch, RunType, RunBounds
    <3> QED BY <1>1, <1>3, <3>1 DEF Mr!Launches, Mr!Active, Types
  <2>3. mRun' \in RunType /\ mRun'.agents = mRun.agents /\ mRun'.cycles = mRun.cycles
    BY <1>1, <2>1 DEF RunType, Mr!Terminal, Mr!Status
  <2>4. mLeg' \in [Mr!Slots -> LegType]
    BY <1>1, <2>1, OffTyped, LegGoes DEF Mr!Ends
  <2>5. Types'
    BY <1>1, <2>2, <2>3, <2>4, StaysTyped DEF Types, Mr!TypeOK, Mr!Launches, Mr!Keeps
  <2>6. ActiveInv'
    BY <2>1 DEF ActiveInv
  <2>7. RestInv' /\ SeenInv'
    BY <1>1, <2>1 DEF RunInv, RestInv, SeenInv, Mr!Terminal, RunType
  <2>8. RouteInv'
    BY <1>1, <2>1, RoutesKept DEF RunInv, Mr!Terminal, RunType
  <2>9. BudgetInv'
    BY <2>1, <2>2, <2>3 DEF RunInv, BudgetInv, Pending
  <2> QED BY <2>5, <2>6, <2>7, <2>8, <2>9 DEF RunInv
<1> QED BY <1>2, <1>3

\* A review begins, or its budget pauses the run.
LEMMA ReviewStep ==
    ASSUME RunBounds, RunInv, NEW s \in Mr!Slots, NEW run \in RunType, NEW armed \in BOOLEAN,
           Mr!Reviewing(s, run, armed), UNCHANGED <<mCtl, Mr!routes, mSeen, mStarved>>,
           mRun.st = "active" /\ mRun.ph # "finalizing" /\ run.st = "active",
           run.id = mRun.id /\ run.agents = mRun.agents /\ run.cycles = mRun.cycles
               /\ run.res = mRun.res,
           ~mTurn' /\ mTurn' \in BOOLEAN, ~mSup' /\ mSup' \in BOOLEAN,
           ~mNudge' /\ mNudge' \in BOOLEAN, mReq' = mReq, mBoot' = "none",
           UNCHANGED <<mRepairs, mCrashes>>,
           Sole(s), ~Pending(mRun, mLeg[s])
    PROVE  RunInv'
<1>1. mRun \in RunType /\ Types /\ mLeg \in [Mr!Slots -> LegType]
  BY RunTyped DEF RunInv, Types
<1>2. \A t \in Mr!Slots : ~Pending(mRun, mLeg[t])
  BY OffTyped DEF Sole, Pending
<1>3. ASSUME mLeg' \in [Mr!Slots -> LegType], mRun' \in RunType PROVE Types'
  BY <1>1, <1>3, StaysTyped DEF Types, Mr!TypeOK, Mr!Reviewing, Mr!Keeps
<1>4. RouteInv'
  BY RoutesKept DEF RunInv
<1>5. CASE run.cycles >= Reviews
  <2>1. mRun' = Mr!Terminal(run, "paused") /\ Mr!Ends(s)
    BY <1>5 DEF Mr!Reviewing
  <2>2. /\ mRun' \in RunType /\ mRun'.st = "paused" /\ mRun'.ph = "paused"
        /\ mRun'.agents = mRun.agents /\ mRun'.cycles = mRun.cycles /\ mRun'.res = mRun.res
    BY <2>1 DEF RunType, Mr!Terminal, Mr!Status
  <2>3. mLeg' \in [Mr!Slots -> LegType]
    BY <1>1, <2>1, OffTyped, LegGoes DEF Mr!Ends
  <2>4. ActiveInv' /\ RestInv' /\ SeenInv'
    BY <2>2 DEF RunInv, ActiveInv, RestInv, SeenInv
  <2>5. BudgetInv'
    BY <2>2 DEF RunInv, BudgetInv, Pending
  <2> QED BY <1>3, <1>4, <2>2, <2>3, <2>4, <2>5 DEF RunInv
<1>6. CASE ~(run.cycles >= Reviews)
  <2> DEFINE leg == Mr!NewLeg("review", "review")
  <2>1. /\ mRun' = [run EXCEPT !.ph = "reviewing", !.cycles = @ + 1]
        /\ Mr!Goes(s, leg) /\ run.cycles + 1 \in 0..Reviews
    BY <1>6 DEF Mr!Reviewing, RunType, RunBounds
  <2>2. /\ mRun' \in RunType /\ mRun'.st = "active" /\ mRun'.ph = "reviewing"
        /\ mRun'.agents = mRun.agents /\ mRun'.cycles = mRun.cycles + 1
        /\ mRun'.res = mRun.res /\ mRun'.id = mRun.id
    <3> HIDE DEF leg
    <3> QED BY <2>1 DEF RunType
  <2>3. leg \in LegType /\ leg.at = "review" /\ leg.kind = "review" /\ leg.id = mRun.id
        /\ ~leg.rep
    BY <1>1 DEF Mr!NewLeg, Mr!Off, LegType, RunType, RunBounds
  <2>4. mLeg' \in [Mr!Slots -> LegType] /\ mLeg'[s] = leg /\ Sole(s)'
    BY <1>1, <2>1, <2>3, LegGoes
  <2>5. Fits(mRun', leg)
    BY <2>2, <2>3 DEF Fits
  <2> HIDE DEF leg
  <2>6. ActiveInv'
    BY <1>1, <2>1, <2>2, <2>3, <2>5, Rides
  <2>7. RestInv' /\ SeenInv'
    BY <2>2 DEF RunInv, ActiveInv, RestInv, SeenInv, Mr!Working
  <2>8. BudgetInv'
    <3>1. ASSUME mRepairs = 0
          PROVE  mRun'.agents + (Reviews - mRun'.cycles) + 1 <= Agents
      BY <1>1, <2>2, <3>1 DEF RunInv, BudgetInv, RunType, RunBounds
    <3>2. mRepairs = 0 => mRun'.agents + (Reviews - mRun'.cycles) <= Agents
      BY <1>1, <2>2, <3>1 DEF RunType, RunBounds
    <3> QED BY <3>1, <3>2 DEF RunInv, BudgetInv
  <2> QED BY <1>3, <1>4, <2>2, <2>4, <2>6, <2>7, <2>8 DEF RunInv
<1> QED BY <1>5, <1>6

\* A step that leaves the run, its history and its routes alone, and ends a leg or moves it.
LEMMA LegMoves ==
    ASSUME RunBounds, RunInv, NEW s \in Mr!Slots, mLeg[s] # Mr!Off, NEW leg \in LegType,
           Mr!Goes(s, leg), UNCHANGED <<mRun, Mr!history, Mr!routes, mReq>>,
           mCtl' \in Mr!Slots \cup {0}, mTurn' \in BOOLEAN, mArmed' \in BOOLEAN,
           UNCHANGED <<mSup, mBoot>>, mNudge' \in BOOLEAN,
           mRun.st = "active" =>
              \/ /\ leg.at # "off" /\ leg.id = mRun.id /\ Fits(mRun, leg)
                 /\ Pending(mRun, leg) => Pending(mRun, mLeg[s])
                 /\ ~mTurn' /\ ~mNudge'
              \/ leg = Mr!Off /\ mTurn' # mNudge' /\ mRun.ph \in Mr!Working,
           mRun.st # "active" => mTurn' = mTurn
    PROVE  RunInv'
<1>1. mRun \in RunType /\ Types /\ mLeg \in [Mr!Slots -> LegType]
  BY RunTyped DEF RunInv, Types
<1>2. mLeg' \in [Mr!Slots -> LegType] /\ mLeg'[s] = leg
      /\ \A t \in Mr!Slots : t # s => mLeg'[t] = mLeg[t]
  BY <1>1, LegGoes
<1>3. Types'
  BY <1>1, <1>2, StaysTyped DEF Types, Mr!TypeOK, Mr!history
<1>4. ActiveInv'
  <2>1. CASE mRun.st # "active"
    BY <2>1 DEF ActiveInv
  <2>2. CASE mRun.st = "active"
    <3>1. /\ Sole(s) /\ mBoot = "none" /\ ~mSup
          /\ mRun.ph \in Mr!Working \cup {"planning", "reviewing"}
      BY <2>2, TheLeg
    <3>2. CASE leg = Mr!Off /\ mTurn' # mNudge' /\ mRun.ph \in Mr!Working
      BY <1>1, <3>1, <3>2, TurnsOn DEF Mr!Ends
    <3>3. CASE /\ leg.at # "off" /\ leg.id = mRun.id /\ Fits(mRun, leg)
               /\ ~mTurn' /\ ~mNudge'
      <4>1. Fits(mRun', leg)
        BY <3>3 DEF Fits
      <4> QED BY <1>1, <3>1, <3>3, <4>1, Rides
    <3> QED BY <2>2, <3>2, <3>3
  <2> QED BY <2>1, <2>2
<1>5. RestInv' /\ SeenInv'
  <2>1. mRun.st = "active" => ~mSup
    BY TheLeg
  <2> QED BY <1>1, <2>1 DEF RunInv, RestInv, SeenInv, Mr!history
<1>6. RouteInv'
  BY RoutesKept DEF RunInv
<1>7. BudgetInv'
  <2>1. ASSUME NEW t \in Mr!Slots, Pending(mRun', mLeg'[t]) PROVE Pending(mRun, mLeg[t])
    BY <1>2, <2>1, OffTyped DEF Pending
  <2> QED BY <2>1, BudgetKept DEF RunInv, Mr!history
<1> QED BY <1>3, <1>4, <1>5, <1>6, <1>7 DEF RunInv

-----------------------------------------------------------------------------
\* The legs that go on without a launch.
LEMMA QuietLegs ==
    ASSUME RunBounds, RunInv, NEW s \in Mr!Slots,
           \/ Mr!Began(s) \/ Mr!Announced(s) \/ Mr!Spawns(s) \/ Mr!Closes(s)
           \/ Mr!VerdictPosted(s) \/ Mr!SettlePosted(s)
    PROVE  RunInv'
<1>1. mRun \in RunType /\ Types /\ mLeg \in [Mr!Slots -> LegType] /\ mLeg[s] \in LegType
  BY RunTyped DEF RunInv, Types
<1>2. mCtl \in Mr!Slots \cup {0} /\ mTurn \in BOOLEAN /\ mNudge \in BOOLEAN /\ mArmed \in BOOLEAN
  BY <1>1 DEF Types, Mr!TypeOK
<1>3. Mr!Off \in LegType /\ (mLeg[s].at # "off" => mLeg[s] # Mr!Off)
  BY OffTyped
<1>4. ASSUME mLeg[s].at # "off", mRun.st = "active"
      PROVE  mLeg[s].id = mRun.id /\ Fits(mRun, mLeg[s]) /\ Mr!Live(s) /\ ~mTurn /\ ~mNudge
  BY <1>3, <1>4, TheLeg
<1>5. CASE Mr!Began(s)
  <2>1. mRun.st = "active" => mRun.ph = "executing" /\ Mr!Live(s)
    BY <1>4, <1>5 DEF Mr!Began, Fits
  <2> QED BY <1>1, <1>2, <1>3, <1>4, <1>5, <2>1, LegMoves
         DEF Mr!Began, Mr!Ends, Mr!Tells, Mr!memory, Mr!Live, Mr!Active, Mr!Working
<1>6. CASE Mr!VerdictPosted(s)
  <2>1. mRun.st = "active" =>
            mRun.ph = (IF mLeg[s].clean THEN "finalizing" ELSE "fixing") /\ Mr!Live(s)
    BY <1>4, <1>6 DEF Mr!VerdictPosted, Fits
  <2> QED BY <1>1, <1>2, <1>3, <1>4, <1>6, <2>1, LegMoves
         DEF Mr!VerdictPosted, Mr!Ends, Mr!Tells, Mr!memory, Mr!Live, Mr!Active, Mr!Working
<1>7. CASE Mr!SettlePosted(s)
  <2>1. mRun.st = "active" => mRun.ph \in Mr!Working /\ Mr!Live(s)
    BY <1>4, <1>7 DEF Mr!SettlePosted, Fits
  <2> QED BY <1>1, <1>2, <1>3, <1>4, <1>7, <2>1, LegMoves
         DEF Mr!SettlePosted, Mr!Ends, Mr!memory
<1>8. CASE Mr!Announced(s)
  <2> DEFINE leg == [mLeg[s] EXCEPT !.at = "context", !.clean = TRUE]
  <2>1. leg \in LegType /\ leg.at = "context" /\ leg.id = mLeg[s].id /\ leg.kind = mLeg[s].kind
        /\ leg.clean /\ leg.rep = mLeg[s].rep
    BY <1>1 DEF LegType
  <2>2. mRun.st = "active" =>
           /\ mRun.ph = "reviewing" /\ Mr!Live(s) /\ mLeg[s].kind = "review" /\ Fits(mRun, leg)
    BY <1>4, <1>8, <2>1 DEF Mr!Announced, Fits
  <2>3. Pending(mRun, leg) => Pending(mRun, mLeg[s])
    BY <1>8, <2>1 DEF Pending, Mr!Announced
  <2> HIDE DEF leg
  <2>4. CASE mRun.st = "active"
    <3>1. Mr!Goes(s, leg)
      BY <1>8, <2>2, <2>4 DEF Mr!Announced, leg
    <3> QED BY <1>1, <1>2, <1>3, <1>4, <1>8, <2>1, <2>2, <2>3, <2>4, <3>1, LegMoves
           DEF Mr!Announced, Mr!memory
  <2>5. CASE mRun.st # "active"
    <3>1. Mr!Goes(s, Mr!Off)
      BY <1>8, <2>5 DEF Mr!Announced, Mr!Live, Mr!Active, Mr!Ends
    <3> QED BY <1>1, <1>2, <1>3, <1>8, <2>5, <3>1, LegMoves DEF Mr!Announced, Mr!memory
  <2> QED BY <2>4, <2>5
<1>9. CASE Mr!Spawns(s)
  <2> DEFINE leg == [mLeg[s] EXCEPT !.at = "child"]
  <2>1. /\ leg \in LegType /\ leg.at = "child" /\ leg.id = mLeg[s].id
        /\ leg.kind = mLeg[s].kind /\ leg.clean = mLeg[s].clean
    BY <1>1 DEF LegType
  <2>2. CASE Mr!Live(s)
    <3>1. Fits(mRun, leg) /\ mRun.st = "active" /\ ~Pending(mRun, leg)
      BY <1>4, <1>9, <2>1, <2>2 DEF Mr!Spawns, Mr!Live, Mr!Active, Fits, Pending
    <3>2. Mr!Goes(s, leg)
      BY <1>9, <2>2 DEF Mr!Spawns
    <3> HIDE DEF leg
    <3> QED BY <1>1, <1>2, <1>3, <1>4, <1>9, <2>1, <2>2, <3>1, <3>2, LegMoves
           DEF Mr!Spawns, Mr!memory
  <2>3. CASE ~Mr!Live(s)
    BY <1>2, <1>3, <1>9, <2>3, FailsStep DEF Mr!Spawns, Mr!Fails
  <2> QED BY <2>2, <2>3
<1>10. CASE Mr!Closes(s)
  <2> DEFINE leg == [mLeg[s] EXCEPT !.at = "usage"]
  <2>1. /\ leg \in LegType /\ leg.at = "usage" /\ leg.id = mLeg[s].id
        /\ leg.kind = mLeg[s].kind /\ leg.clean = mLeg[s].clean
    BY <1>1 DEF LegType
  <2>2. mCtl' \in Mr!Slots \cup {0}
    BY <1>2, <1>10 DEF Mr!Closes
  <2>3. CASE ~mLeg[s].dead /\ Mr!Live(s)
    <3>1. Fits(mRun, leg) /\ mRun.st = "active" /\ ~Pending(mRun, leg)
      BY <1>4, <1>10, <2>1, <2>3 DEF Mr!Closes, Mr!Live, Mr!Active, Fits, Pending
    <3>2. Mr!Goes(s, leg)
      BY <1>10, <2>3 DEF Mr!Closes
    <3> HIDE DEF leg
    <3> QED BY <1>1, <1>2, <1>3, <1>4, <1>10, <2>1, <2>2, <3>1, <3>2, <2>3, LegMoves
           DEF Mr!Closes, Mr!memory
  <2>4. CASE ~(~mLeg[s].dead /\ Mr!Live(s))
    BY <1>3, <1>10, <2>2, <2>4, FailsStep DEF Mr!Closes
  <2> QED BY <2>3, <2>4
<1> QED BY <1>5, <1>6, <1>7, <1>8, <1>9, <1>10

\* What a step with one leg needs for the types and for an active run.
LEMMA Drives ==
    ASSUME RunBounds, Types, NEW s \in Mr!Slots, NEW leg \in LegType, Mr!Goes(s, leg),
           mRun' \in RunType, mCtl' \in Mr!Slots \cup {0},
           mTurn' \in BOOLEAN, mSup' \in BOOLEAN, mReq' \in BOOLEAN, mNudge' \in BOOLEAN,
           mArmed' \in BOOLEAN, mBoot' \in {"none", "run", "route"}, UNCHANGED Mr!routes,
           mSeen' \in BOOLEAN, mStarved' \in BOOLEAN, mRepairs' \in Nat,
           mCrashes' \in 0..MaxCrashes,
           mRun'.st = "active" =>
              /\ Sole(s) /\ ~mSup' /\ mBoot' = "none"
              /\ mRun'.ph \in Mr!Working \cup {"planning", "reviewing"}
              /\ \/ leg.at # "off" /\ leg.id = mRun'.id /\ Fits(mRun', leg) /\ ~mTurn' /\ ~mNudge'
                 \/ leg = Mr!Off /\ mTurn' # mNudge' /\ mRun'.ph \in Mr!Working
    PROVE  Types' /\ ActiveInv'
<1>1. mLeg' \in [Mr!Slots -> LegType]
  BY LegGoes
<1>2. Types'
  BY <1>1, StaysTyped
<1>3. CASE mRun'.st # "active"
  BY <1>2, <1>3 DEF ActiveInv
<1>4. CASE leg.at # "off" /\ leg.id = mRun'.id /\ Fits(mRun', leg) /\ ~mTurn' /\ ~mNudge'
           /\ mRun'.st = "active"
  BY <1>2, <1>4, Rides
<1>5. CASE leg = Mr!Off /\ mTurn' # mNudge' /\ mRun'.ph \in Mr!Working /\ mRun'.st = "active"
  BY <1>2, <1>5, TurnsOn DEF Mr!Ends
<1> QED BY <1>3, <1>4, <1>5

\* No review waits beside a sole leg that is none.
LEMMA NonePending ==
    ASSUME RunBounds, Types, NEW s \in Mr!Slots, NEW leg \in LegType, Mr!Goes(s, leg),
           mRun'.st = "active" => Sole(s), ~Pending(mRun', leg)
    PROVE  \A t \in Mr!Slots : ~Pending(mRun', mLeg'[t])
<1>1. mLeg'[s] = leg /\ \A t \in Mr!Slots : t # s => mLeg'[t] = mLeg[t]
  BY LegGoes
<1> QED BY <1>1, OffTyped DEF Pending, Sole

\* The execution of a plan begins.
LEMMA ExecutionStep ==
    ASSUME RunBounds, RunInv, NEW s \in Mr!Slots, NEW kind \in {"none", "control"},
           Mr!Executing(s, kind), UNCHANGED <<mCtl, mTurn, mArmed, mSup, mNudge, mBoot>>,
           UNCHANGED Mr!routes, UNCHANGED Mr!history,
           mRun.st \in {"active", "paused"}, mRun.ph \in {"planning", "awaiting-approval"},
           ~mTurn, ~mSup, ~mNudge, mBoot = "none", Sole(s)
    PROVE  RunInv'
<1>1. mRun \in RunType /\ Types
  BY RunTyped DEF RunInv
<1> DEFINE leg == Mr!NewLeg("begin", kind)
<1>2. /\ mRun' = [mRun EXCEPT !.st = "active", !.ph = "executing"]
      /\ mReq' = FALSE /\ Mr!Goes(s, leg)
  BY DEF Mr!Executing
<1>3. leg \in LegType /\ leg.at = "begin" /\ leg.id = mRun.id
  BY <1>1 DEF Mr!NewLeg, Mr!Off, LegType, RunType
<1> HIDE DEF leg
<1>4. /\ mRun' \in RunType /\ mRun'.st = "active" /\ mRun'.ph = "executing"
      /\ mRun'.id = mRun.id /\ mRun'.res = mRun.res
      /\ mRun'.agents = mRun.agents /\ mRun'.cycles = mRun.cycles
  BY <1>1, <1>2 DEF RunType, Mr!Status, Mr!Working
<1>5. Fits(mRun', leg) /\ ~Pending(mRun', leg)
  BY <1>3, <1>4 DEF Fits, Pending
<1>6. Types' /\ ActiveInv'
  BY <1>1, <1>2, <1>3, <1>4, <1>5, Drives DEF Types, Mr!TypeOK, Mr!history, Mr!Working
<1>7. RestInv' /\ SeenInv'
  BY <1>4 DEF RunInv, RestInv, SeenInv, Mr!history
<1>8. RouteInv'
  BY RoutesKept DEF RunInv
<1>9. BudgetInv'
  BY <1>1, <1>2, <1>3, <1>4, <1>5, NonePending, BudgetKept DEF RunInv, Mr!history
<1> QED BY <1>6, <1>7, <1>8, <1>9 DEF RunInv

\* resume, of the only thing that drives an active run.
LEMMA ResumeStep ==
    ASSUME RunBounds, RunInv, NEW s \in Mr!Slots, NEW armed \in BOOLEAN, Mr!Resumes(s, armed),
           UNCHANGED <<mCtl, mSup, mReq, mNudge, mSeen, mRepairs, mCrashes>>, UNCHANGED Mr!routes,
           mBoot' \in {"none", "run", "route"},
           mRun.st = "active" => /\ Sole(s) /\ ~mTurn /\ ~mNudge /\ ~mSup /\ mBoot' = "none"
                                 /\ ~Pending(mRun, mLeg[s])
                                 /\ mRun.ph \in Mr!Working \cup {"planning", "reviewing"}
    PROVE  RunInv'
<1>1. mRun \in RunType /\ Types /\ Mr!Off \in LegType
  BY RunTyped, OffTyped DEF RunInv
<1>2. CASE mRun.st # "active"
  <2>1. Mr!Ends(s) /\ UNCHANGED <<mRun, mTurn, mArmed, mStarved>>
    BY <1>2 DEF Mr!Resumes, Mr!Active
  <2>2. Types' /\ ActiveInv'
    BY <1>1, <1>2, <2>1, Drives DEF Types, Mr!TypeOK, Mr!Ends
  <2>3. RestInv' /\ SeenInv' /\ RouteInv'
    BY <2>1, RoutesKept DEF RunInv, RestInv, SeenInv
  <2>4. BudgetInv'
    BY <1>2, <2>1, BudgetKept DEF RunInv, Pending
  <2> QED BY <2>2, <2>3, <2>4 DEF RunInv
<1>3. CASE mRun.st = "active" /\ mRun.ph = "planning"
  <2> DEFINE leg == Mr!NewLeg("launch", "plan")
  <2>1. leg \in LegType /\ leg.kind = "plan" /\ leg.id = mRun.id /\ leg.at = "launch"
        /\ [leg EXCEPT !.at = "launch"].kind = "plan"
        /\ [leg EXCEPT !.at = "launch"].at = "launch"
    BY <1>1 DEF Mr!NewLeg, Mr!Off, LegType, RunType
  <2>2. Mr!Launches(s, leg, armed) /\ mTurn' = mTurn
    BY <1>3 DEF Mr!Resumes, Mr!Active
  <2> HIDE DEF leg
  <2>3. Fits(mRun, [leg EXCEPT !.at = "launch"])
    BY <1>3, <2>1 DEF Fits
  <2>4. mReq' \in BOOLEAN /\ mRepairs' \in Nat
    BY <1>1 DEF Types, Mr!TypeOK
  <2> QED BY <1>3, <2>1, <2>2, <2>3, <2>4, LaunchStep
<1>4. CASE mRun.st = "active" /\ mRun.ph = "reviewing"
  <2>1. Mr!Reviewing(s, mRun, armed) /\ UNCHANGED <<mTurn, mStarved>>
    BY <1>4 DEF Mr!Resumes, Mr!Active
  <2>2. mTurn' \in BOOLEAN /\ mSup' \in BOOLEAN /\ mNudge' \in BOOLEAN
    BY <1>1, <2>1 DEF Types, Mr!TypeOK
  <2> QED BY <1>1, <1>4, <2>1, <2>2, ReviewStep
<1>5. CASE mRun.st = "active" /\ mRun.ph \in Mr!Working
  <2>1. Mr!Tells /\ Mr!Ends(s) /\ mArmed' = armed /\ UNCHANGED <<mRun, mStarved>>
    BY <1>5 DEF Mr!Resumes, Mr!Active, Mr!Working
  <2>2. Types' /\ ActiveInv'
    BY <1>1, <1>5, <2>1, Drives DEF Types, Mr!TypeOK, Mr!Ends, Mr!Tells
  <2>3. RestInv' /\ SeenInv' /\ RouteInv'
    BY <1>5, <2>1, RoutesKept DEF RunInv, RestInv, SeenInv, Mr!Tells
  <2>4. ~Pending(mRun', Mr!Off)
    BY OffTyped DEF Pending
  <2>5. BudgetInv'
    BY <1>1, <1>5, <2>1, <2>4, NonePending, BudgetKept DEF RunInv, Mr!Ends
  <2> QED BY <2>2, <2>3, <2>5 DEF RunInv
<1> QED BY <1>2, <1>3, <1>4, <1>5

\* The legs that launch, post a plan or get a verdict.
LEMMA LoudLegs ==
    ASSUME RunBounds, RunInv, NEW s \in Mr!Slots,
           \/ Mr!Started(s) \/ Mr!ReadContext(s) \/ Mr!Repairs(s) \/ Mr!Aborts(s)
           \/ Mr!Planned(s) \/ Mr!PlanPosted(s) \/ Mr!GetsVerdict(s) \/ Mr!Continued(s)
           \/ Mr!Boots(s)
    PROVE  RunInv'
<1>1. /\ mRun \in RunType /\ Types /\ mLeg \in [Mr!Slots -> LegType] /\ mLeg[s] \in LegType
      /\ mArmed \in BOOLEAN /\ mReq \in BOOLEAN /\ mRepairs \in Nat
      /\ mBoot \in {"none", "run", "route"} /\ mCtl \in Mr!Slots \cup {0}
  BY RunTyped DEF RunInv, Types, Mr!TypeOK
<1>2. Mr!Off \in LegType /\ (mLeg[s].at # "off" => mLeg[s] # Mr!Off)
  BY OffTyped
<1>3. ASSUME mLeg[s].at # "off", mRun.st = "active"
      PROVE  /\ mLeg[s].id = mRun.id /\ Fits(mRun, mLeg[s]) /\ Mr!Live(s) /\ ~mTurn /\ ~mNudge
             /\ Sole(s) /\ ~mSup /\ mBoot = "none"
             /\ mRun.ph \in Mr!Working \cup {"planning", "reviewing"}
  BY <1>2, <1>3, TheLeg
<1>4. CASE Mr!Started(s)
  <2>1. CASE Mr!Live(s) /\ mRun.ph = "planning"
    <3> DEFINE leg == Mr!NewLeg("launch", "plan")
    <3>1. leg \in LegType /\ leg.kind = "plan" /\ leg.id = mRun.id
          /\ [leg EXCEPT !.at = "launch"].kind = "plan"
          /\ [leg EXCEPT !.at = "launch"].at = "launch"
      BY <1>1 DEF Mr!NewLeg, Mr!Off, LegType, RunType
    <3>2. Mr!Launches(s, leg, TRUE)
      BY <1>4, <2>1 DEF Mr!Started
    <3> HIDE DEF leg
    <3>3. Fits(mRun, [leg EXCEPT !.at = "launch"])
      BY <2>1, <3>1 DEF Fits
    <3> QED BY <1>1, <1>3, <1>4, <3>1, <3>2, <3>3, LaunchStep DEF Mr!Started, Mr!memory
  <2>2. CASE ~(Mr!Live(s) /\ mRun.ph = "planning")
    <3>1. mRun.st # "active"
      BY <1>3, <1>4, <2>2 DEF Mr!Started, Fits
    <3> QED BY <1>1, <1>2, <1>4, <2>2, <3>1, LegMoves
           DEF Mr!Started, Mr!Ends, Mr!memory, Mr!history, Types, Mr!TypeOK
  <2> QED BY <2>1, <2>2
<1>5. CASE Mr!ReadContext(s)
  <2>1. mRun.st = "active" => mLeg[s].kind = "review" /\ mLeg[s].clean /\ ~mLeg[s].rep
    BY <1>3, <1>5 DEF Mr!ReadContext, Fits
  <2>2. mRun.st = "active" => Fits(mRun, [mLeg[s] EXCEPT !.at = "launch"])
    BY <1>1, <1>3, <1>5, <2>1 DEF Mr!ReadContext, Fits, LegType
  <2>3. ~mLeg[s].rep /\ mLeg[s].kind = "review" /\ mRun.st = "active" => Pending(mRun, mLeg[s])
    BY <1>5 DEF Mr!ReadContext, Pending
  <2>4. /\ UNCHANGED <<mCtl, Mr!routes>> /\ mTurn' = mTurn /\ mSup' = mSup /\ mReq' \in BOOLEAN
        /\ mNudge' = mNudge /\ mBoot' = mBoot /\ mSeen' = mSeen /\ mCrashes' = mCrashes
        /\ mRepairs' = mRepairs
    BY <1>1, <1>5 DEF Mr!ReadContext, Mr!memory
  <2>5. mRun'.agents > mRun.agents => ~mLeg[s].rep
    <3>1. CASE mRun.st = "active"
      BY <2>1, <3>1
    <3>2. CASE mRun.st # "active"
      <4>1. mRun' = mRun
        BY <1>5, <3>2 DEF Mr!ReadContext, Mr!Launches, Mr!Active
      <4> QED BY <1>1, <4>1 DEF RunType, RunBounds
    <3> QED BY <3>1, <3>2
  <2>6. mLeg[s].at # "off" /\ Mr!Launches(s, mLeg[s], mArmed)
    BY <1>5 DEF Mr!ReadContext
  <2> QED BY <1>1, <1>3, <2>1, <2>2, <2>3, <2>4, <2>5, <2>6, LaunchStep
<1>6. CASE Mr!Repairs(s)
  <2>1. CASE Mr!Live(s) /\ ~mLeg[s].rep
    <3> DEFINE leg == [mLeg[s] EXCEPT !.rep = TRUE]
    <3>1. /\ leg \in LegType /\ leg.rep /\ leg.kind = mLeg[s].kind /\ leg.id = mLeg[s].id
          /\ [leg EXCEPT !.at = "launch"].kind = mLeg[s].kind
          /\ [leg EXCEPT !.at = "launch"].at = "launch"
          /\ [leg EXCEPT !.at = "launch"].clean = mLeg[s].clean
      BY <1>1 DEF LegType
    <3>2. Mr!Launches(s, leg, mArmed)
      BY <1>6, <2>1 DEF Mr!Repairs
    <3> HIDE DEF leg
    <3>3. mRun.st = "active" /\ Fits(mRun, [leg EXCEPT !.at = "launch"])
          /\ leg.kind \in {"plan", "review"}
      BY <1>3, <1>6, <2>1, <3>1 DEF Mr!Repairs, Fits, Mr!Live, Mr!Active
    <3>4. mRepairs' = mRepairs + (IF leg.kind = "review" /\ mRun'.agents > mRun.agents
                                  THEN 1 ELSE 0)
      BY <1>6, <2>1, <3>1 DEF Mr!Repairs
    <3>5. /\ mRepairs' \in Nat /\ (mRepairs' = 0 => mRepairs = 0)
          /\ leg.kind = "review" /\ leg.rep /\ mRun'.agents > mRun.agents => mRepairs' # 0
      BY <1>1, <3>4
    <3>6. /\ UNCHANGED <<mCtl, Mr!routes>> /\ mTurn' = mTurn /\ mSup' = mSup /\ mReq' \in BOOLEAN
          /\ mNudge' = mNudge /\ mBoot' = mBoot /\ mSeen' = mSeen /\ mCrashes' = mCrashes
      BY <1>1, <1>6, <2>1 DEF Mr!Repairs, Mr!memory
    <3>7. mLeg[s].at # "off"
      BY <1>6 DEF Mr!Repairs
    <3> QED BY <1>1, <1>3, <3>1, <3>2, <3>3, <3>5, <3>6, <3>7, LaunchStep
  <2>2. CASE ~(Mr!Live(s) /\ ~mLeg[s].rep)
    BY <1>1, <1>2, <1>6, <2>2, FailsStep DEF Mr!Repairs, Mr!Fails
  <2> QED BY <2>1, <2>2
<1>7. CASE Mr!Aborts(s)
  BY <1>1, <1>2, <1>7, FailsStep DEF Mr!Aborts, Mr!Fails
<1>8. CASE Mr!Planned(s)
  <2>1. CASE Mr!Live(s)
    <3> DEFINE leg == [mLeg[s] EXCEPT !.at = "planned"]
    <3>1. leg \in LegType /\ leg.kind = "plan" /\ leg.at = "planned" /\ leg.id = mRun.id
      BY <1>1, <1>8, <2>1 DEF LegType, Mr!Planned, Mr!Live, Mr!Of
    <3>2. /\ mRun' = [mRun EXCEPT !.plan = "open",
                          !.st = IF mRun.mode = "plan" THEN "paused" ELSE "active",
                          !.ph = IF mRun.mode = "plan" THEN "awaiting-approval" ELSE @]
          /\ Mr!Goes(s, leg) /\ UNCHANGED <<mCtl, mTurn, mArmed, Mr!memory, Mr!routes, Mr!history>>
      BY <1>8, <2>1 DEF Mr!Planned, Mr!MayPlan
    <3>3. mRun.st = "active" /\ mRun.ph = "planning"
      BY <1>3, <1>8, <2>1 DEF Mr!Planned, Mr!Live, Mr!Active, Fits
    <3>4. /\ mRun' \in RunType /\ mRun'.id = mRun.id /\ mRun'.res = mRun.res
          /\ mRun'.agents = mRun.agents /\ mRun'.cycles = mRun.cycles /\ mRun'.mode = mRun.mode
          /\ mRun'.st = (IF mRun.mode = "plan" THEN "paused" ELSE "active")
          /\ mRun'.ph = (IF mRun.mode = "plan" THEN "awaiting-approval" ELSE "planning")
      BY <1>1, <3>2, <3>3 DEF RunType, Mr!Status
    <3> HIDE DEF leg
    <3>5. mLeg[s].at # "off"
      BY <1>8 DEF Mr!Planned
    <3>6. mRun'.st = "active" => Fits(mRun', leg)
      BY <1>1, <3>1, <3>4 DEF Fits, RunType
    <3>7. Types' /\ ActiveInv'
      BY <1>1, <1>3, <3>1, <3>2, <3>3, <3>4, <3>5, <3>6, Drives
         DEF Types, Mr!TypeOK, Mr!memory, Mr!history
    <3>8. RestInv' /\ SeenInv'
      BY <1>3, <3>2, <3>3, <3>4, <3>5 DEF RunInv, RestInv, SeenInv, Mr!memory, Mr!history
    <3>9. RouteInv'
      BY <3>2, <3>3, RoutesKept DEF RunInv
    <3>10. BudgetInv'
      <4>1. ~Pending(mRun', leg)
        BY <3>1 DEF Pending
      <4> QED BY <1>1, <1>3, <3>1, <3>2, <3>3, <3>4, <3>5, <4>1, NonePending, BudgetKept
             DEF RunInv, Mr!history
    <3> QED BY <3>7, <3>8, <3>9, <3>10 DEF RunInv
  <2>2. CASE ~Mr!Live(s)
    <3>1. mLeg[s].at # "off" /\ Mr!Ends(s) /\ UNCHANGED mRun
          /\ UNCHANGED <<mCtl, mTurn, mArmed, Mr!memory, Mr!routes, Mr!history>>
      BY <1>8, <2>2 DEF Mr!Planned, Mr!MayPlan
    <3>2. mRun.st # "active"
      BY <1>3, <2>2, <3>1
    <3> QED BY <1>1, <1>2, <3>1, <3>2, LegMoves
           DEF Mr!Ends, Mr!memory, Types, Mr!TypeOK
  <2> QED BY <2>1, <2>2
<1>9. CASE Mr!PlanPosted(s)
  <2>1. CASE mRun.mode = "auto" /\ Mr!Active /\ mRun.ph = "planning"
    <3>1. mLeg[s].at # "off" /\ Mr!Executing(s, "none")
          /\ UNCHANGED <<mCtl, mTurn, mArmed, mSup, mNudge, mBoot, Mr!routes, Mr!history>>
      BY <1>9, <2>1 DEF Mr!PlanPosted
    <3> QED BY <1>3, <2>1, <3>1, ExecutionStep DEF Mr!Active
  <2>2. CASE ~(mRun.mode = "auto" /\ Mr!Active /\ mRun.ph = "planning")
    <3>1. mLeg[s].at = "planned" /\ Mr!Ends(s) /\ UNCHANGED <<mRun, mReq>>
          /\ UNCHANGED <<mCtl, mTurn, mArmed, mSup, mNudge, mBoot, Mr!routes, Mr!history>>
      BY <1>9, <2>2 DEF Mr!PlanPosted
    <3>2. mRun.st # "active"
      BY <1>3, <2>2, <3>1 DEF Fits, Mr!Active
    <3> QED BY <1>1, <1>2, <3>1, <3>2, LegMoves DEF Mr!Ends, Types, Mr!TypeOK
  <2> QED BY <2>1, <2>2
<1>10. CASE Mr!GetsVerdict(s)
  <2>1. CASE Mr!Live(s)
    <3>1. PICK ph \in {"finalizing", "fixing"} :
            /\ mRun' = [mRun EXCEPT !.ph = ph] /\ mReq' = FALSE
            /\ mSeen' = (ph = "finalizing" /\ mLeg[s].clean)
            /\ Mr!Goes(s, [mLeg[s] EXCEPT !.at = "verdict", !.clean = ph = "finalizing"])
      BY <1>10, <2>1 DEF Mr!GetsVerdict, Mr!Verdicts
    <3>2. UNCHANGED <<mCtl, mTurn, mArmed, mSup, mNudge, mBoot, Mr!routes, mStarved, mRepairs,
                      mCrashes>>
      BY <1>10 DEF Mr!GetsVerdict
    <3>3. mRun.st = "active" /\ mRun.ph = "reviewing" /\ mLeg[s].clean /\ mLeg[s].at # "off"
      BY <1>3, <1>10, <2>1 DEF Mr!GetsVerdict, Mr!Live, Mr!Active, Fits
    <3> DEFINE leg == [mLeg[s] EXCEPT !.at = "verdict", !.clean = ph = "finalizing"]
    <3>4. /\ leg \in LegType /\ leg.at = "verdict" /\ leg.id = mRun.id
          /\ leg.clean = (ph = "finalizing")
      BY <1>1, <1>3, <3>3 DEF LegType
    <3>5. /\ mRun' \in RunType /\ mRun'.id = mRun.id /\ mRun'.res = mRun.res
          /\ mRun'.agents = mRun.agents /\ mRun'.cycles = mRun.cycles
          /\ mRun'.st = "active" /\ mRun'.ph = ph
      BY <1>1, <3>1, <3>3 DEF RunType, Mr!Status, Mr!Working
    <3>6. Mr!Goes(s, leg)
      BY <3>1
    <3> HIDE DEF leg
    <3>7. Fits(mRun', leg) /\ ~Pending(mRun', leg)
      BY <3>4, <3>5 DEF Fits, Pending
    <3>8. mSeen' \in BOOLEAN /\ (ph = "finalizing" => mSeen')
      BY <3>1, <3>3
    <3>9. Types' /\ ActiveInv'
      BY <1>1, <1>3, <3>1, <3>2, <3>3, <3>4, <3>5, <3>6, <3>7, <3>8, Drives
         DEF Types, Mr!TypeOK, Mr!Working
    <3>10. RestInv' /\ SeenInv'
      BY <3>2, <3>3, <3>5, <3>8 DEF RunInv, RestInv, SeenInv
    <3>11. RouteInv'
      BY <3>2, <3>3, RoutesKept DEF RunInv
    <3>12. BudgetInv'
      BY <1>1, <1>3, <3>2, <3>3, <3>4, <3>5, <3>6, <3>7, NonePending, BudgetKept DEF RunInv
    <3> QED BY <3>9, <3>10, <3>11, <3>12 DEF RunInv
  <2>2. CASE ~Mr!Live(s)
    <3>1. mLeg[s].at # "off" /\ Mr!Ends(s) /\ UNCHANGED <<mRun, mReq, Mr!history>>
          /\ UNCHANGED <<mCtl, mTurn, mArmed, mSup, mNudge, mBoot, Mr!routes>>
      BY <1>10, <2>2 DEF Mr!GetsVerdict, Mr!history
    <3>2. mRun.st # "active"
      BY <1>3, <2>2, <3>1
    <3> QED BY <1>1, <1>2, <3>1, <3>2, LegMoves DEF Mr!Ends, Types, Mr!TypeOK
  <2> QED BY <2>1, <2>2
<1>11. CASE Mr!Continued(s)
  <2>1. mLeg[s].at = "continue" /\ Mr!Resumes(s, TRUE)
        /\ UNCHANGED <<mCtl, Mr!memory, Mr!routes, mSeen, mRepairs, mCrashes>>
    BY <1>11 DEF Mr!Continued
  <2>2. ~Pending(mRun, mLeg[s])
    BY <2>1 DEF Pending
  <2> QED BY <1>1, <1>3, <2>1, <2>2, ResumeStep DEF Mr!memory
<1>12. CASE Mr!Boots(s)
  <2>1. mBoot = "run" /\ mBoot' = "none" /\ Mr!Resumes(s, mArmed)
        /\ UNCHANGED <<mCtl, mSup, mReq, mNudge, Mr!routes, mSeen, mRepairs, mCrashes>>
    BY <1>12 DEF Mr!Boots
  <2>2. mRun.st = "active" =>
            /\ Idle /\ ~mTurn /\ ~mNudge /\ ~mSup
            /\ mRun.ph \in Mr!Working \cup {"planning", "reviewing"}
    BY <2>1 DEF RunInv, ActiveInv
  <2>3. Idle => Sole(s) /\ ~Pending(mRun, mLeg[s])
    BY OffTyped DEF Idle, Sole, Pending
  <2> QED BY <1>1, <2>1, <2>2, <2>3, ResumeStep
<1> QED BY <1>4, <1>5, <1>6, <1>7, <1>8, <1>9, <1>10, <1>11, <1>12

-----------------------------------------------------------------------------
\* What the parent's turn finds.
LEMMA TheTurn ==
    ASSUME RunBounds, RunInv, mTurn, mRun.st = "active"
    PROVE  Idle /\ ~mNudge /\ mBoot = "none" /\ mRun.ph \in Mr!Working /\ ~mSup
           /\ \A s \in Mr!Slots : Sole(s) /\ ~Pending(mRun, mLeg[s])
  BY OffTyped DEF RunInv, ActiveInv, Idle, Sole, Pending, Types, Mr!TypeOK

\* A run whose turn, timers and legs stay as they are.
LEMMA TurnStep ==
    ASSUME RunBounds, RunInv, mTurn, mLeg' = mLeg, UNCHANGED <<mCtl, mTurn, mArmed, mNudge, mBoot>>,
           UNCHANGED <<Mr!routes, Mr!history, mSup>>, mReq' \in BOOLEAN, mRun' \in RunType,
           mRun'.st = mRun.st, mRun'.ph = mRun.ph, mRun'.id = mRun.id, mRun'.res = mRun.res,
           mRun'.cycles = mRun.cycles,
           \/ mRun'.agents = mRun.agents
           \/ mRun'.agents + (Reviews - mRun.cycles) <= Agents /\ mRun.st = "active"
    PROVE  RunInv'
<1>1. mRun \in RunType /\ Types
  BY RunTyped DEF RunInv
<1>2. Types'
  BY <1>1, StaysTyped DEF Types, Mr!TypeOK, Mr!history
<1>3. ActiveInv'
  <2>1. CASE mRun.st = "active"
    <3>1. Idle' /\ mBoot' = "none" /\ mTurn' # mNudge'
      BY <1>1, <2>1, TheTurn DEF Idle, Types, Mr!TypeOK
    <3> QED BY <2>1, <3>1, TheTurn DEF ActiveInv
  <2> QED BY <2>1 DEF ActiveInv
<1>4. RestInv' /\ SeenInv' /\ RouteInv'
  BY RoutesKept DEF RunInv, RestInv, SeenInv, Mr!history
<1>5. BudgetInv'
  <2>1. CASE mRun'.agents = mRun.agents
    BY <2>1, BudgetKept DEF RunInv, Pending, Mr!history
  <2>2. CASE mRun'.agents + (Reviews - mRun.cycles) <= Agents /\ mRun.st = "active"
    <3>1. \A s \in Mr!Slots : ~Pending(mRun', mLeg'[s])
      BY <2>2, TheTurn DEF Pending
    <3> QED BY <2>2, <3>1 DEF RunInv, BudgetInv, Mr!history
  <2> QED BY <2>1, <2>2
<1> QED BY <1>2, <1>3, <1>4, <1>5 DEF RunInv

\* The agent works, and calls its tools.
LEMMA ToolSteps ==
    ASSUME RunBounds, RunInv, Mr!GoalDone \/ Mr!GoalReady \/ Mr!Subagent
    PROVE  RunInv'
<1>1. mRun \in RunType /\ mReq \in BOOLEAN
  BY RunTyped DEF RunInv, Types, Mr!TypeOK
<1>2. CASE Mr!GoalDone
  <2>1. /\ mTurn /\ mRun' = [mRun EXCEPT !.plan = "done"]
        /\ UNCHANGED <<mLeg, mCtl, mTurn, mArmed, Mr!memory, Mr!routes, Mr!history>>
    BY <1>2 DEF Mr!GoalDone
  <2>2. mRun' \in RunType /\ mRun'.st = mRun.st /\ mRun'.ph = mRun.ph /\ mRun'.id = mRun.id
        /\ mRun'.res = mRun.res /\ mRun'.cycles = mRun.cycles /\ mRun'.agents = mRun.agents
    BY <1>1, <2>1 DEF RunType
  <2> QED BY <1>1, <2>1, <2>2, TurnStep DEF Mr!memory
<1>3. CASE Mr!GoalReady
  <2>1. mTurn /\ mReq' = TRUE /\ UNCHANGED <<mRun, mLeg, mCtl, mTurn, mArmed, mSup, mNudge, mBoot>>
        /\ UNCHANGED <<Mr!routes, Mr!history>>
    BY <1>3 DEF Mr!GoalReady
  <2> QED BY <1>1, <2>1, TurnStep
<1>4. CASE Mr!Subagent
  <2>1. /\ mTurn /\ mRun.st = "active" /\ mRun' = [mRun EXCEPT !.agents = @ + 1]
        /\ mRun.agents + Mr!Reserve(mRun) < Agents
        /\ UNCHANGED <<mLeg, mCtl, mTurn, mArmed, Mr!memory, Mr!routes, Mr!history>>
    BY <1>4 DEF Mr!Subagent, Mr!MayLaunch, Mr!Active
  <2>2. /\ mRun.agents + 1 \in 0..Agents
        /\ mRun.agents + 1 + (Reviews - mRun.cycles) <= Agents
    BY <1>1, <2>1 DEF Mr!Reserve, RunType, RunBounds
  <2>3. mRun' \in RunType /\ mRun'.st = mRun.st /\ mRun'.ph = mRun.ph /\ mRun'.id = mRun.id
        /\ mRun'.res = mRun.res /\ mRun'.cycles = mRun.cycles /\ mRun'.agents = mRun.agents + 1
    BY <1>1, <2>1, <2>2 DEF RunType
  <2> QED BY <1>1, <2>1, <2>2, <2>3, TurnStep DEF Mr!memory
<1> QED BY <1>2, <1>3, <1>4

\* The parent agent works: what no review has seen is new.
LEMMA WorkStep ==
    ASSUME RunBounds, RunInv, Mr!Works
    PROVE  RunInv'
<1>1. mRun \in RunType /\ Types
  BY RunTyped DEF RunInv
<1>2. /\ mTurn /\ ~mSup /\ mRun.st \in {"active", "paused"} /\ mRun.ph # "finalizing"
      /\ mSeen' = FALSE
      /\ mLeg' = [s \in Mr!Slots |-> IF mLeg[s].at \in {"off", "verdict"} THEN mLeg[s]
                                     ELSE [mLeg[s] EXCEPT !.clean = FALSE]]
      /\ UNCHANGED <<mRun, mCtl, mTurn, mArmed, Mr!memory, Mr!routes, mStarved, mRepairs,
                     mCrashes>>
  BY DEF Mr!Works, Mr!Owning
<1>3. mRun.st = "active"
  BY <1>2 DEF RunInv, RestInv
<1>4. Idle /\ mBoot = "none" /\ mRun.ph \in Mr!Working /\ ~mNudge
      /\ \A s \in Mr!Slots : ~Pending(mRun, mLeg[s])
  BY <1>2, <1>3, TheTurn
<1>5. mLeg' = mLeg
  BY <1>1, <1>2, <1>4, OffTyped DEF Idle, Types
<1>6. Types'
  BY <1>1, <1>2, <1>5, StaysTyped DEF Types, Mr!TypeOK, Mr!memory
<1>7. ActiveInv' /\ RestInv'
  BY <1>2, <1>3, <1>4, <1>5 DEF RunInv, ActiveInv, RestInv, Idle, Mr!memory
<1>8. SeenInv'
  BY <1>2, <1>3, <1>4 DEF RunInv, SeenInv, Mr!Working
<1>9. RouteInv'
  BY <1>2, RoutesKept DEF RunInv
<1>10. BudgetInv'
  BY <1>2, <1>5, BudgetKept DEF RunInv
<1> QED BY <1>6, <1>7, <1>8, <1>9, <1>10 DEF RunInv

\* An active run that is paused or over, with its legs as they were, or aborted.
LEMMA StopStep ==
    ASSUME RunBounds, RunInv, NEW run \in RunType, NEW status \in {"paused", "cancelled"},
           mRun' = Mr!Terminal(run, status), mRun.st \in {"active", "paused"},
           run.st = mRun.st, run.agents = mRun.agents, run.cycles = mRun.cycles,
           status = "paused" => mRun.st = "active" /\ (run.res = mRun.ph \/ run.res = mRun.res),
           mLeg' \in [Mr!Slots -> LegType], UNCHANGED <<mCtl, mReq, mNudge, mBoot>>,
           mTurn' \in BOOLEAN, mSup' \in BOOLEAN, mSup' = mTurn', mArmed' \in BOOLEAN,
           UNCHANGED Mr!routes, UNCHANGED Mr!history
    PROVE  RunInv'
<1>1. mRun \in RunType /\ Types
  BY RunTyped DEF RunInv
<1>2. /\ mRun' \in RunType /\ mRun'.st = status /\ mRun'.ph = status /\ mRun'.res = run.res
      /\ mRun'.agents = mRun.agents /\ mRun'.cycles = mRun.cycles
  BY <1>1 DEF RunType, Mr!Terminal, Mr!Status
<1>3. Types'
  BY <1>1, <1>2, StaysTyped DEF Types, Mr!TypeOK, Mr!history
<1>4. ActiveInv' /\ RestInv'
  BY <1>2 DEF ActiveInv, RestInv
<1>5. SeenInv'
  BY <1>2 DEF RunInv, SeenInv, Mr!history
<1>6. RouteInv'
  BY RoutesKept DEF RunInv
<1>7. BudgetInv'
  BY <1>2, BudgetKept DEF RunInv, Pending, Mr!history
<1> QED BY <1>3, <1>4, <1>5, <1>6, <1>7 DEF RunInv

\* The turn blocks the run, the owner stops it, or its time is over.
LEMMA Stopping ==
    ASSUME RunBounds, RunInv, Mr!GoalBlock \/ Mr!Pause \/ Mr!Cancel \/ Mr!OutOfTime
    PROVE  RunInv'
<1>1. mRun \in RunType /\ mLeg \in [Mr!Slots -> LegType] /\ mTurn \in BOOLEAN
  BY RunTyped DEF RunInv, Types, Mr!TypeOK
<1> DEFINE held == [mRun EXCEPT !.res = mRun.ph]
<1>2. ASSUME mRun.st = "active"
      PROVE  /\ held \in RunType /\ held.st = mRun.st /\ held.agents = mRun.agents
             /\ held.cycles = mRun.cycles /\ held.res = mRun.ph
  BY <1>1, <1>2 DEF RunInv, ActiveInv, RunType, Mr!Working
<1>3. Mr!Killed \in [Mr!Slots -> LegType]
  BY <1>1 DEF Mr!Killed, LegType
<1> HIDE DEF held
<1>4. CASE Mr!GoalBlock
  <2>1. /\ mTurn /\ mRun.st = "active" /\ mRun' = Mr!Terminal(held, "paused")
        /\ mSup' = TRUE /\ mArmed' = FALSE
        /\ UNCHANGED <<mLeg, mCtl, mTurn, mReq, mNudge, mBoot, Mr!routes, Mr!history>>
    BY <1>4 DEF Mr!GoalBlock, held, RunBounds, Mr!Active
  <2> QED BY <1>1, <1>2, <2>1, StopStep
<1>5. CASE Mr!Pause \/ Mr!OutOfTime
  <2>1. /\ mRun.st = "active" /\ mRun' = Mr!Terminal(held, "paused")
        /\ mLeg' = Mr!Killed /\ mSup' = mTurn /\ mArmed' = FALSE
        /\ UNCHANGED <<mCtl, mTurn, mReq, mNudge, mBoot, Mr!routes, Mr!history>>
    BY <1>5 DEF Mr!Pause, Mr!Stops, Mr!OutOfTime, held, Mr!Active
  <2> QED BY <1>1, <1>2, <1>3, <2>1, StopStep
<1>6. CASE Mr!Cancel
  <2>1. /\ mRun.st \in {"active", "paused"} /\ mLeg' = Mr!Killed /\ mSup' = mTurn
        /\ mArmed' = FALSE
        /\ UNCHANGED <<mCtl, mTurn, mReq, mNudge, mBoot, Mr!routes, Mr!history>>
    BY <1>6 DEF Mr!Cancel, Mr!Stops, Mr!Owning
  <2>2. mRun' = Mr!Terminal(mRun, "cancelled")
    <3>1. mRun' = Mr!Terminal([mRun EXCEPT !.res = mRun.res], "cancelled")
      BY <1>6 DEF Mr!Cancel, Mr!Stops
    <3>2. [mRun EXCEPT !.res = mRun.res] = mRun
      BY <1>1 DEF RunType
    <3> QED BY <3>1, <3>2
  <2> QED BY <1>1, <1>3, <2>1, <2>2, StopStep
<1> QED BY <1>4, <1>5, <1>6

\* The turn ends: its run is complete, paused or reviewed, or goes on.
LEMMA SettleStep ==
    ASSUME RunBounds, RunInv, NEW s \in Mr!Slots, Mr!Settles(s)
    PROVE  RunInv'
<1>1. mRun \in RunType /\ Types /\ mLeg \in [Mr!Slots -> LegType]
  BY RunTyped DEF RunInv, Types
<1>2. /\ mTurn /\ ~mNudge /\ mLeg[s] = Mr!Off /\ mTurn' = FALSE
      /\ UNCHANGED <<mCtl, mReq, mNudge, mBoot, Mr!routes, Mr!history>>
  BY DEF Mr!Settles, Mr!Free
<1>3. CASE mRun.st # "active"
  <2>1. mSup' = FALSE /\ UNCHANGED <<mRun, mLeg, mArmed>>
    BY <1>3 DEF Mr!Settles, Mr!Active
  <2>2. Types' /\ ActiveInv'
    BY <1>1, <1>2, <1>3, <2>1, StaysTyped DEF ActiveInv, Types, Mr!TypeOK, Mr!history
  <2>3. RestInv' /\ SeenInv' /\ RouteInv'
    BY <1>2, <1>3, <2>1, RoutesKept DEF RunInv, RestInv, SeenInv, Mr!history
  <2>4. BudgetInv'
    BY <1>2, <2>1, BudgetKept DEF RunInv, Mr!history
  <2> QED BY <2>2, <2>3, <2>4 DEF RunInv
<1>4. CASE mRun.st = "active"
  <2>1. /\ Idle /\ mBoot = "none" /\ mRun.ph \in Mr!Working /\ ~mSup
        /\ Sole(s) /\ ~Pending(mRun, mLeg[s])
    BY <1>2, <1>4, TheTurn
  <2> DEFINE counted == [mRun EXCEPT !.turns = IF @ < Turns THEN @ + 1 ELSE @]
  <2>2. PICK run \in Mr!Marked(counted) :
             \/ Mr!Finishes /\ mRun' = Mr!Terminal(run, "complete") /\ mArmed' = FALSE
                    /\ UNCHANGED mLeg
             \/ ~Mr!Finishes /\ mRun' = Mr!Terminal(run, "paused") /\ mArmed' = FALSE
                    /\ UNCHANGED mLeg
             \/ ~Mr!Finishes /\ Mr!Reviewing(s, run, mArmed)
             \/ ~Mr!Finishes /\ mRun' = run /\ Mr!Goes(s, Mr!NewLeg("settled", "none"))
                    /\ UNCHANGED mArmed
    BY <1>4, <2>1 DEF Mr!Settles, Mr!Active
  <2>3. mSup' = mSup
    BY <1>4, <2>1 DEF Mr!Settles, Mr!Active
  <2>4. /\ counted \in RunType /\ counted.st = "active" /\ counted.ph = mRun.ph
        /\ counted.id = mRun.id /\ counted.agents = mRun.agents /\ counted.cycles = mRun.cycles
        /\ counted.res = mRun.res
    <3>1. (IF mRun.turns < Turns THEN mRun.turns + 1 ELSE mRun.turns) \in 0..Turns
      BY <1>1 DEF RunType, RunBounds
    <3> QED BY <1>1, <1>4, <3>1 DEF RunType
  <2> HIDE DEF counted
  <2>5. /\ run \in RunType /\ run.st = "active" /\ run.ph = mRun.ph
        /\ run.id = mRun.id /\ run.agents = mRun.agents /\ run.cycles = mRun.cycles
        /\ run.res = mRun.res
    BY <2>2, <2>4 DEF Mr!Marked, RunType
  <2>6. mTurn' \in BOOLEAN /\ mSup' \in BOOLEAN /\ mNudge' \in BOOLEAN /\ mArmed \in BOOLEAN
    BY <1>1, <1>2, <2>3 DEF Types, Mr!TypeOK
  <2>7. CASE Mr!Finishes /\ mRun' = Mr!Terminal(run, "complete") /\ mArmed' = FALSE
             /\ UNCHANGED mLeg
    <3>1. mRun' \in RunType /\ mRun'.st = "complete" /\ mRun'.agents = mRun.agents
          /\ mRun'.cycles = mRun.cycles /\ mRun'.ph = "complete"
      BY <2>5, <2>7 DEF Mr!Terminal, RunType, Mr!Status
    <3>2. Types' /\ ActiveInv'
      BY <1>1, <1>2, <2>3, <2>7, <3>1, StaysTyped DEF ActiveInv, Types, Mr!TypeOK, Mr!history
    <3>3. RestInv' /\ SeenInv' /\ RouteInv'
      BY <1>2, <1>4, <2>1, <2>3, <2>7, <3>1, RoutesKept
         DEF RunInv, RestInv, SeenInv, Mr!Finishes, Mr!history
    <3>4. BudgetInv'
      BY <1>2, <2>7, <3>1, BudgetKept DEF RunInv, Pending, Mr!history
    <3> QED BY <3>2, <3>3, <3>4 DEF RunInv
  <2>8. CASE ~Mr!Finishes /\ mRun' = Mr!Terminal(run, "paused") /\ mArmed' = FALSE
             /\ UNCHANGED mLeg
    BY <1>1, <1>2, <1>4, <2>1, <2>3, <2>5, <2>6, <2>8, StopStep
  <2>9. CASE ~Mr!Finishes /\ Mr!Reviewing(s, run, mArmed)
    BY <1>1, <1>2, <1>4, <2>1, <2>3, <2>5, <2>6, <2>9, ReviewStep DEF Mr!Finishes, Mr!history
  <2>10. CASE ~Mr!Finishes /\ mRun' = run /\ Mr!Goes(s, Mr!NewLeg("settled", "none"))
              /\ UNCHANGED mArmed
    <3> DEFINE leg == Mr!NewLeg("settled", "none")
    <3>1. leg \in LegType /\ leg.at = "settled" /\ leg.id = mRun.id
      BY <1>1 DEF Mr!NewLeg, Mr!Off, LegType, RunType
    <3> HIDE DEF leg
    <3>2. Fits(mRun', leg) /\ ~Pending(mRun', leg)
      BY <2>1, <2>5, <2>10, <3>1 DEF Fits, Pending
    <3>3. Mr!Goes(s, leg)
      BY <2>10 DEF leg
    <3>4. Types' /\ ActiveInv'
      BY <1>1, <1>2, <2>1, <2>3, <2>5, <2>6, <2>10, <3>1, <3>2, <3>3, Drives
         DEF Types, Mr!TypeOK, Mr!history
    <3>5. RestInv' /\ SeenInv' /\ RouteInv'
      BY <1>2, <1>4, <2>1, <2>3, <2>5, <2>10, RoutesKept
         DEF RunInv, RestInv, SeenInv, Mr!Finishes, Mr!history, Mr!Working
    <3>6. BudgetInv'
      BY <1>1, <1>2, <2>1, <2>5, <2>10, <3>1, <3>2, <3>3, NonePending, BudgetKept
         DEF RunInv, Mr!history
    <3> QED BY <3>4, <3>5, <3>6 DEF RunInv
  <2> QED BY <2>2, <2>7, <2>8, <2>9, <2>10
<1> QED BY <1>3, <1>4

\* The timer sends the agent on.
LEMMA NudgeStep ==
    ASSUME RunBounds, RunInv, Mr!Nudges
    PROVE  RunInv'
<1>1. mRun \in RunType /\ Types
  BY RunTyped DEF RunInv
<1>2. /\ mNudge /\ mNudge' = FALSE
      /\ UNCHANGED <<mRun, mLeg, mCtl, mArmed, mSup, mReq, mBoot, Mr!routes, Mr!history>>
      /\ mTurn' = (IF mRun.st = "active" THEN TRUE ELSE mTurn)
  BY DEF Mr!Nudges, Mr!Tells, Mr!Active
<1>3. Types'
  BY <1>1, <1>2, StaysTyped DEF Types, Mr!TypeOK, Mr!history
<1>4. ActiveInv'
  <2>1. CASE mRun.st = "active"
    <3>1. mBoot = "none" /\ Idle /\ mRun.ph \in Mr!Working /\ ~mSup
      BY <1>1, <1>2, <2>1 DEF RunInv, ActiveInv, Types, Mr!TypeOK
    <3> QED BY <1>2, <2>1, <3>1 DEF ActiveInv, Idle
  <2> QED BY <1>2, <2>1 DEF ActiveInv
<1>5. RestInv' /\ SeenInv' /\ RouteInv'
  BY <1>2, RoutesKept DEF RunInv, RestInv, SeenInv, Mr!history
<1>6. BudgetInv'
  BY <1>2, BudgetKept DEF RunInv, Mr!history
<1> QED BY <1>3, <1>4, <1>5, <1>6 DEF RunInv

-----------------------------------------------------------------------------
(* The owner, the clock, the process and the routing of prompts.           *)

RoutesTyped ==
    /\ mRoute = Mr!NoRoute \/ \E p \in Prompts,
            st \in {"routing", "managed", "native", "cancelled"} :
            mRoute = [p |-> p, st |-> st]
    /\ mAsk \in [Prompts -> {"off", "posting", "asking", "managed", "native", "cancelling"}]
    /\ mPrompt \in [Prompts -> {"new", "routing", "decided", "settled", "dropped"}]

\* Where nothing is in progress, no leg, turn or timer of the session is.
LEMMA NothingGoesOn ==
    ASSUME RunBounds, RunInv, Mr!Quiet
    PROVE  Idle /\ ~mTurn /\ ~mNudge /\ mBoot = "none" /\ ~mSup
           /\ \A s \in Mr!Slots : Sole(s) /\ ~Pending(mRun, mLeg[s])
<1>1. Idle /\ ~mTurn /\ ~mNudge /\ mBoot = "none" /\ ~mSup
  BY DEF RunInv, RestInv, Types, Mr!Quiet, Idle, RunBounds
<1> QED BY <1>1, OffTyped DEF Idle, Sole, Pending

\* A new run.
LEMMA StartStep ==
    ASSUME RunBounds, RunInv, NEW s \in Mr!Slots, NEW mode \in {"auto", "plan"},
           NEW kind \in {"control", "none"}, Mr!Starts(s, mode, kind),
           UNCHANGED <<mCtl, mTurn, mReq, mBoot, mStarved, mCrashes>>, RoutesTyped', RouteInv'
    PROVE  RunInv'
<1>1. mRun \in RunType /\ Types
  BY RunTyped DEF RunInv
<1>2. /\ Mr!Quiet /\ mRun.id < MaxRuns
      /\ mRun' = [Mr!NoRun EXCEPT !.id = mRun.id + 1, !.st = "active", !.ph = "planning",
                                  !.mode = mode]
      /\ mSup' = FALSE /\ mNudge' = FALSE /\ mArmed' = FALSE
      /\ mSeen' = FALSE /\ mRepairs' = 0
  BY DEF Mr!Starts
<1> DEFINE leg == [Mr!NewLeg("start", kind) EXCEPT !.id = mRun.id + 1]
<1>3. Mr!Goes(s, leg)
  BY DEF Mr!Starts
<1>4. mRun.id + 1 \in 0..MaxRuns
  BY <1>1, <1>2 DEF RunType, RunBounds
<1>5. leg \in LegType /\ leg.at = "start" /\ leg.id = mRun.id + 1
  BY <1>4 DEF Mr!NewLeg, Mr!Off, LegType
<1> HIDE DEF leg
<1>6. /\ mRun' \in RunType /\ mRun'.id = mRun.id + 1 /\ mRun'.st = "active"
      /\ mRun'.ph = "planning" /\ mRun'.agents = 0 /\ mRun'.cycles = 0 /\ mRun'.res = "none"
  <2>1. mRun' = [id |-> mRun.id + 1, st |-> "active", ph |-> "planning", mode |-> mode,
                 res |-> "none", plan |-> "none", cycles |-> 0, agents |-> 0, turns |-> 0,
                 late |-> FALSE]
    BY <1>2 DEF Mr!NoRun
  <2>2. 0 \in 0..Reviews /\ 0 \in 0..Agents /\ 0 \in 0..Turns
    BY DEF RunBounds
  <2> QED BY <1>4, <2>1, <2>2 DEF RunType, Mr!Status
<1>7. Idle /\ ~mTurn /\ mBoot = "none" /\ Sole(s)
  BY <1>2, NothingGoesOn
<1>8. Fits(mRun', leg) /\ ~Pending(mRun', leg)
  BY <1>5, <1>6 DEF Fits, Pending
<1>9. mLeg' \in [Mr!Slots -> LegType]
  BY <1>1, <1>3, <1>5, LegGoes
<1>10. Types'
  <2>1. mRoute'.st \in {"none", "routing", "managed", "native", "cancelled"}
    BY DEF RoutesTyped, Mr!NoRoute
  <2> QED BY <1>1, <1>2, <1>6, <1>7, <1>9, <2>1
         DEF Types, Mr!TypeOK, RunType, LegType, RoutesTyped
<1>11. ActiveInv'
  BY <1>1, <1>2, <1>3, <1>5, <1>6, <1>7, <1>8, Rides
<1>12. RestInv' /\ SeenInv'
  BY <1>2, <1>6 DEF RestInv, SeenInv
<1>13. BudgetInv'
  <2>1. \A t \in Mr!Slots : ~Pending(mRun', mLeg'[t])
    BY <1>1, <1>3, <1>5, <1>7, <1>8, NonePending
  <2> QED BY <1>6, <2>1 DEF RunInv, BudgetInv, RunBounds
<1> QED BY <1>10, <1>11, <1>12, <1>13 DEF RunInv

\* The owner starts, approves or continues a run.
LEMMA OwnerStep ==
    ASSUME RunBounds, RunInv, NEW s \in Mr!Slots,
           Mr!Approve(s) \/ Mr!Continue(s) \/ \E mode \in {"auto", "plan"} : Mr!Start(s, mode)
    PROVE  RunInv'
<1>1. mRun \in RunType /\ Types
  BY RunTyped DEF RunInv
<1>2. CASE Mr!Approve(s)
  <2>1. /\ Mr!Quiet /\ mRun.ph = "awaiting-approval" /\ Mr!Executing(s, "control")
        /\ UNCHANGED <<mCtl, mTurn, mArmed, mSup, mNudge, mBoot, Mr!routes, Mr!history>>
    BY <1>2 DEF Mr!Approve
  <2>2. mRun.st = "paused"
    BY <2>1 DEF RunInv, RestInv
  <2> QED BY <2>1, <2>2, NothingGoesOn, ExecutionStep
<1>3. CASE Mr!Continue(s)
  <2> DEFINE ph == IF mRun.res = "none" THEN "executing" ELSE mRun.res
             leg == Mr!NewLeg("continue", "control")
  <2>1. /\ Mr!Quiet /\ mRun.st = "paused" /\ mRun.ph # "awaiting-approval"
        /\ ph \in Mr!Working \cup {"planning", "reviewing"}
        /\ mRun' = [mRun EXCEPT !.st = "active", !.ph = ph] /\ Mr!Goes(s, leg)
        /\ UNCHANGED <<mCtl, mTurn, mArmed, Mr!memory, Mr!routes, Mr!history>>
    BY <1>3 DEF Mr!Continue
  <2>2. leg \in LegType /\ leg.at = "continue" /\ leg.id = mRun.id
    BY <1>1 DEF Mr!NewLeg, Mr!Off, LegType, RunType
  <2>3. /\ mRun' \in RunType /\ mRun'.st = "active" /\ mRun'.ph = ph /\ mRun'.id = mRun.id
        /\ mRun'.res = mRun.res /\ mRun'.agents = mRun.agents /\ mRun'.cycles = mRun.cycles
    BY <1>1, <2>1 DEF RunType, Mr!Status
  <2>4. ph = "finalizing" => mRun.res = "finalizing"
    OBVIOUS
  <2>5. mRun.res = "finalizing" => ph = "finalizing"
    OBVIOUS
  <2> HIDE DEF ph, leg
  <2>6. /\ Idle /\ ~mTurn /\ ~mNudge /\ mBoot = "none" /\ ~mSup /\ Sole(s)
    BY <2>1, NothingGoesOn
  <2>7. Fits(mRun', leg) /\ ~Pending(mRun', leg)
    BY <2>2 DEF Fits, Pending
  <2>8. Types' /\ ActiveInv'
    BY <1>1, <2>1, <2>2, <2>3, <2>6, <2>7, Drives DEF Types, Mr!TypeOK, Mr!memory, Mr!history
  <2>9. RestInv' /\ SeenInv' /\ RouteInv'
    BY <2>1, <2>3, <2>4, <2>5, <2>6, RoutesKept
       DEF RunInv, RestInv, SeenInv, Mr!memory, Mr!history, Mr!Working
  <2>10. BudgetInv'
    BY <1>1, <2>1, <2>2, <2>3, <2>6, <2>7, NonePending, BudgetKept DEF RunInv, Mr!history
  <2> QED BY <2>8, <2>9, <2>10 DEF RunInv
<1>4. CASE \E mode \in {"auto", "plan"} : Mr!Start(s, mode)
  <2>1. PICK mode \in {"auto", "plan"} : Mr!Start(s, mode)
    BY <1>4
  <2>2. /\ Mr!Starts(s, mode, "control") /\ mRoute = Mr!NoRoute
        /\ UNCHANGED <<mCtl, mTurn, mReq, mBoot, Mr!routes, mStarved, mCrashes>>
    BY <2>1 DEF Mr!Start, RunBounds
  <2>3. RoutesTyped' /\ RouteInv'
    BY <1>1, <2>2 DEF RunInv, RouteInv, RoutesTyped, Types, Mr!TypeOK, Mr!routes
  <2> QED BY <2>2, <2>3, StartStep
<1> QED BY <1>2, <1>3, <1>4

\* The run's time is over; what it does about it is the timer's.
LEMMA TimeStep ==
    ASSUME RunBounds, RunInv, Mr!TimePasses
    PROVE  RunInv'
<1>1. mRun \in RunType /\ Types
  BY RunTyped DEF RunInv
<1>2. /\ mRun' = [mRun EXCEPT !.late = TRUE]
      /\ UNCHANGED <<mLeg, mCtl, mTurn, mArmed, Mr!memory, Mr!routes, Mr!history>>
  BY DEF Mr!TimePasses
<1>3. /\ mRun' \in RunType /\ mRun'.st = mRun.st /\ mRun'.ph = mRun.ph /\ mRun'.id = mRun.id
      /\ mRun'.mode = mRun.mode /\ mRun'.res = mRun.res
      /\ mRun'.agents = mRun.agents /\ mRun'.cycles = mRun.cycles
  BY <1>1, <1>2 DEF RunType
<1>4. Types'
  BY <1>1, <1>2, <1>3, StaysTyped DEF Types, Mr!TypeOK, Mr!memory, Mr!history
<1>5. ActiveInv'
  <2>1. \A s \in Mr!Slots : Fits(mRun, mLeg[s]) => Fits(mRun', mLeg'[s])
    BY <1>2, <1>3 DEF Fits
  <2>2. Idle' <=> Idle
    BY <1>2 DEF Idle
  <2>3. \A s \in Mr!Slots : Sole(s)' <=> Sole(s)
    BY <1>2 DEF Sole
  <2> QED BY <1>2, <1>3, <2>1, <2>2, <2>3 DEF RunInv, ActiveInv, Mr!memory
<1>6. RestInv' /\ SeenInv' /\ RouteInv'
  BY <1>2, <1>3, RoutesKept DEF RunInv, RestInv, SeenInv, Mr!memory, Mr!history
<1>7. BudgetInv'
  BY <1>2, <1>3, BudgetKept DEF RunInv, Pending, Mr!history
<1> QED BY <1>4, <1>5, <1>6, <1>7 DEF RunInv

\* A new process takes up the run of the session entries.
LEMMA ProcessStep ==
    ASSUME RunBounds, RunInv, Mr!Crash
    PROVE  RunInv'
<1>1. mRun \in RunType /\ Types /\ Mr!Off \in LegType
  BY RunTyped, OffTyped DEF RunInv
<1>2. /\ mCrashes < MaxCrashes /\ mCrashes' = mCrashes + 1
      /\ mLeg' = [s \in Mr!Slots |-> Mr!Off] /\ mCtl' = 0 /\ mTurn' = FALSE
      /\ mSup' = FALSE /\ mReq' = FALSE /\ mNudge' = FALSE /\ mRun' = Mr!Restored
      /\ mArmed' = (mRun'.st = "active") /\ mRoute' = mEntry
      /\ mBoot' = (IF mRun'.st = "active" THEN "run"
                   ELSE IF mEntry # Mr!NoRoute THEN "route" ELSE "none")
      /\ mAsk' = [p \in Prompts |-> "off"]
      /\ UNCHANGED <<mEntry, mSeen, mStarved, mRepairs>>
  BY DEF Mr!Crash
<1>3. /\ mRun' \in RunType /\ mRun'.id = mRun.id
      /\ mRun'.agents = mRun.agents /\ mRun'.cycles = mRun.cycles
      /\ \/ mRun' = mRun
         \/ /\ mRun.st = "active" /\ mRun'.st = "paused" /\ mRun'.ph = "paused"
            /\ mRun'.res = "none"
  BY <1>1, <1>2 DEF Mr!Restored, Mr!Terminal, RunType, Mr!Status, Mr!Active
<1>4. Types'
  <2>1. mPrompt' \in [Prompts -> {"new", "routing", "decided", "settled", "dropped"}]
    BY <1>1 DEF Mr!Crash, Types, Mr!TypeOK
  <2>2. mRoute' = Mr!NoRoute \/ mRoute' = mRoute
    BY <1>2 DEF RunInv, RouteInv
  <2>3. mRoute'.st \in {"none", "routing", "managed", "native", "cancelled"}
    BY <1>1, <2>2 DEF Types, Mr!TypeOK, Mr!NoRoute
  <2>4. mCrashes' \in 0..MaxCrashes
    BY <1>1, <1>2 DEF Types, Mr!TypeOK, RunBounds
  <2>5. mLeg' \in [Mr!Slots -> LegType] /\ mCtl' \in Mr!Slots \cup {0}
    BY <1>1, <1>2
  <2>6. \A s \in Mr!Slots : mLeg'[s].at \in {"off", "start", "launch", "child", "usage", "planned",
           "begin", "review", "context", "verdict", "continue", "settled"}
    BY <2>5 DEF LegType
  <2>7. /\ mTurn' \in BOOLEAN /\ mSup' \in BOOLEAN /\ mReq' \in BOOLEAN
        /\ mNudge' \in BOOLEAN /\ mBoot' \in {"none", "run", "route"}
    BY <1>2
  <2>8. mArmed' \in BOOLEAN
    BY <1>2
  <2>9. mAsk' \in [Prompts -> {"off", "posting", "asking", "managed", "native", "cancelling"}]
    BY <1>2
  <2>10. mRoute' = Mr!NoRoute \/ \E p \in Prompts,
             st \in {"routing", "managed", "native", "cancelled"} : mRoute' = [p |-> p, st |-> st]
    BY <1>1, <2>2 DEF Types
  <2>11. mSeen' \in BOOLEAN /\ mStarved' \in BOOLEAN /\ mRepairs' \in Nat
    BY <1>1, <1>2 DEF Types
  <2>12. Mr!TypeOK'
    BY <1>3, <2>1, <2>3, <2>4, <2>5, <2>6, <2>7, <2>8, <2>9 DEF Mr!TypeOK, RunType
  <2> QED BY <2>5, <2>10, <2>11, <2>12 DEF Types
<1>5. ActiveInv'
  <2>1. Idle'
    BY <1>2 DEF Idle
  <2> QED BY <1>2, <1>3, <2>1 DEF RunInv, ActiveInv
<1>6. RestInv' /\ SeenInv'
  BY <1>2, <1>3 DEF RunInv, RestInv, SeenInv
<1>7. RouteInv'
  <2>1. \A p \in Prompts : mAsk'[p] = "off"
    BY <1>2
  <2> QED BY <1>2, <1>3, <2>1 DEF RunInv, RouteInv
<1>8. BudgetInv'
  <2>1. \A s \in Mr!Slots : ~Pending(mRun', mLeg'[s])
    BY <1>2, OffTyped DEF Pending
  <2> QED BY <1>2, <1>3, <2>1, BudgetKept DEF RunInv
<1> QED BY <1>4, <1>5, <1>6, <1>7, <1>8 DEF RunInv

\* A step of the routing changes the run only by a turn, and only where there is none.
LEMMA RouteStep ==
    ASSUME RunBounds, RunInv, UNCHANGED Mr!unrouted, RoutesTyped', RouteInv',
           mTurn' = mTurn \/ (mTurn' = TRUE /\ mRun.st \notin {"active", "paused"}),
           mBoot' = mBoot \/ (mBoot = "route" /\ mBoot' = "none")
    PROVE  RunInv'
<1>1. /\ mRun' = mRun /\ mLeg' = mLeg /\ mCtl' = mCtl /\ mArmed' = mArmed /\ mSup' = mSup
      /\ mReq' = mReq /\ mNudge' = mNudge /\ mSeen' = mSeen /\ mStarved' = mStarved
      /\ mRepairs' = mRepairs /\ mCrashes' = mCrashes
  BY DEF Mr!unrouted, Mr!history
<1>2. Types /\ mTurn \in BOOLEAN
  BY DEF RunInv, Types, Mr!TypeOK
<1>3. Types'
  <2>1. mRoute'.st \in {"none", "routing", "managed", "native", "cancelled"}
    BY DEF RoutesTyped, Mr!NoRoute
  <2>2. mTurn' \in BOOLEAN /\ mBoot' \in {"none", "run", "route"}
    BY <1>2 DEF Types, Mr!TypeOK
  <2> QED BY <1>1, <1>2, <2>1, <2>2 DEF Types, Mr!TypeOK, RoutesTyped
<1>4. ActiveInv'
  <2> SUFFICES ASSUME mRun.st = "active" PROVE ActiveInv'
    BY <1>1 DEF ActiveInv
  <2>1. mTurn' = mTurn /\ mBoot' = mBoot
    BY <1>1 DEF RunInv, ActiveInv
  <2>2. Idle' <=> Idle
    BY <1>1 DEF Idle
  <2>3. \A s \in Mr!Slots : Sole(s)' <=> Sole(s)
    BY <1>1 DEF Sole
  <2>4. \A s \in Mr!Slots : Fits(mRun, mLeg[s])' <=> Fits(mRun, mLeg[s])
    BY <1>1 DEF Fits
  <2> QED BY <1>1, <2>1, <2>2, <2>3, <2>4 DEF RunInv, ActiveInv
<1>5. RestInv' /\ SeenInv'
  BY <1>1, <1>2 DEF RunInv, RestInv, SeenInv
<1>6. BudgetInv'
  BY <1>1, BudgetKept DEF RunInv
<1> QED BY <1>3, <1>4, <1>5, <1>6 DEF RunInv

\* The prompt of the stage in progress is the one the route names.
LEMMA TheRoute ==
    ASSUME RunInv, NEW p \in Prompts, mAsk[p] # "off"
    PROVE  /\ mRoute # Mr!NoRoute /\ mRoute.p = p /\ mRun.st \notin {"active", "paused"}
           /\ mAsk[p] \in {"managed", "native", "cancelling"} => mEntry = Mr!NoRoute
           /\ \A q \in Prompts : q # p => mAsk[q] = "off"
  BY DEF RunInv, RouteInv

\* The routing is typed, and names the prompt that is routed.
LEMMA RoutesAreTyped ==
    ASSUME RunInv
    PROVE  /\ RoutesTyped
           /\ mRoute.st = "none" => mRoute = Mr!NoRoute
           /\ mRoute.st = "routing" => mRoute # Mr!NoRoute /\ mRoute.p \in Prompts
  BY DEF RunInv, Types, Mr!TypeOK, RoutesTyped, Mr!NoRoute

\* The stages of a prompt's routing, but the end.
LEMMA AskSteps ==
    ASSUME RunBounds, RunInv, NEW p \in Prompts,
           Mr!RoutePosted(p) \/ Mr!Routed(p) \/ Mr!RouteCancelled(p)
    PROVE  RunInv'
<1>1. RoutesTyped
  BY RoutesAreTyped
<1>2. CASE Mr!RoutePosted(p)
  <2>1. /\ mAsk[p] = "posting"
        /\ mAsk' = [mAsk EXCEPT ![p] = IF mRoute = Mr!Routing(p) THEN "asking" ELSE "off"]
        /\ UNCHANGED <<Mr!unrouted, mTurn, mBoot, mRoute, mEntry, mPrompt>>
    BY <1>2 DEF Mr!RoutePosted, Mr!At
  <2>2. RoutesTyped'
    BY <1>1, <2>1 DEF RoutesTyped
  <2>3. RouteInv'
    BY <1>1, <2>1, TheRoute DEF RunInv, RouteInv, RoutesTyped, Mr!unrouted
  <2> QED BY <2>1, <2>2, <2>3, RouteStep
<1>3. CASE Mr!Routed(p)
  <2>1. mAsk[p] = "asking" /\ UNCHANGED <<Mr!unrouted, mTurn, mBoot>>
    BY <1>3 DEF Mr!Routed
  <2>2. CASE mRoute = Mr!Routing(p)
    <3>1. PICK st \in {"managed", "native"} :
              /\ mRoute' = [p |-> p, st |-> st] /\ mEntry' = Mr!NoRoute
              /\ mAsk' = [mAsk EXCEPT ![p] = st]
              /\ mPrompt' = [mPrompt EXCEPT ![p] = "decided"]
      BY <1>3, <2>2 DEF Mr!Routed, Mr!Answers, Mr!Decided, Mr!At, Mr!Outcome
    <3>2. RoutesTyped'
      BY <1>1, <3>1 DEF RoutesTyped
    <3>3. mRoute' # Mr!NoRoute /\ mRoute'.p = p
      BY <3>1 DEF Mr!NoRoute
    <3>4. RouteInv'
      BY <1>1, <2>1, <3>1, <3>3, TheRoute DEF RouteInv, RoutesTyped, Mr!unrouted
    <3> QED BY <2>1, <3>2, <3>4, RouteStep
  <2>3. CASE mRoute # Mr!Routing(p)
    <3>1. mAsk' = [mAsk EXCEPT ![p] = "off"] /\ UNCHANGED <<mRoute, mEntry, mPrompt>>
      BY <1>3, <2>3 DEF Mr!Routed, Mr!At
    <3>2. RoutesTyped'
      BY <1>1, <3>1 DEF RoutesTyped
    <3>3. RouteInv'
      BY <1>1, <2>1, <3>1 DEF RunInv, RouteInv, RoutesTyped, Mr!unrouted
    <3> QED BY <2>1, <3>2, <3>3, RouteStep
  <2> QED BY <2>2, <2>3
<1>4. CASE Mr!RouteCancelled(p)
  <2>1. /\ mAsk[p] = "cancelling" /\ mAsk' = [mAsk EXCEPT ![p] = "off"] /\ mRoute' = Mr!NoRoute
        /\ UNCHANGED <<Mr!unrouted, mTurn, mBoot, mEntry, mPrompt>>
    BY <1>4 DEF Mr!RouteCancelled, Mr!At
  <2>2. RoutesTyped'
    BY <1>1, <2>1 DEF RoutesTyped
  <2>3. RouteInv'
    BY <1>1, <2>1, TheRoute DEF RouteInv, RoutesTyped
  <2> QED BY <2>1, <2>2, <2>3, RouteStep
<1> QED BY <1>2, <1>3, <1>4

\* The decision is carried out: a run starts, or the prompt goes to native Pi.
LEMMA RouteEndStep ==
    ASSUME RunBounds, RunInv, NEW p \in Prompts, NEW s \in Mr!Slots, Mr!RouteEnds(p, s)
    PROVE  RunInv'
<1>1. /\ mAsk[p] \in {"managed", "native"} /\ mAsk' = [mAsk EXCEPT ![p] = "off"]
      /\ mRoute' = Mr!NoRoute /\ mPrompt' = [mPrompt EXCEPT ![p] = "settled"]
      /\ UNCHANGED <<mCtl, mReq, mBoot, mEntry, mStarved, mCrashes>>
  BY DEF Mr!RouteEnds, Mr!At, Mr!Outcome
<1>2. RoutesTyped /\ RoutesTyped'
  BY <1>1, RoutesAreTyped DEF RoutesTyped
<1>3. RouteInv'
  BY <1>1, <1>2, TheRoute DEF RouteInv, RoutesTyped
<1>4. CASE Mr!Starts(s, "auto", "none") /\ UNCHANGED mTurn
  BY <1>1, <1>2, <1>3, <1>4, StartStep
<1>5. CASE ~(Mr!Starts(s, "auto", "none") /\ UNCHANGED mTurn)
  <2>1. /\ UNCHANGED <<mRun, mLeg, mSup, mNudge, mArmed, mSeen, mRepairs>>
        /\ mTurn' = TRUE \/ mTurn' = mTurn
    BY <1>5 DEF Mr!RouteEnds, Mr!Tells
  <2>2. UNCHANGED Mr!unrouted
    BY <1>1, <2>1 DEF Mr!unrouted, Mr!history
  <2>3. mRun.st \notin {"active", "paused"}
    BY <1>1, TheRoute
  <2> QED BY <1>1, <1>2, <1>3, <2>1, <2>2, <2>3, RouteStep
<1> QED BY <1>4, <1>5

\* The owner sends a prompt or cancels its routing, or a new process takes the routing up.
LEMMA PromptSteps ==
    ASSUME RunBounds, RunInv,
           \/ \E p \in Prompts, force \in BOOLEAN : Mr!Prompted(p, force)
           \/ Mr!BootRoutes \/ Mr!CancelRoute
    PROVE  RunInv'
<1>1. RoutesTyped
  BY RoutesAreTyped
<1>2. CASE \E p \in Prompts, force \in BOOLEAN : Mr!Prompted(p, force)
  <2>1. PICK p \in Prompts, force \in BOOLEAN : Mr!Prompted(p, force)
    BY <1>2
  <2>2. UNCHANGED <<Mr!unrouted, mBoot>> /\ mRoute.st \in {"none", "routing"}
    BY <2>1 DEF Mr!Prompted, RunBounds
  <2>3. CASE UNCHANGED <<mRoute, mEntry, mAsk>>
    <3>1. mPrompt' = [mPrompt EXCEPT ![p] = "settled"]
      <4>1. CASE mPrompt' = [mPrompt EXCEPT ![p] = "settled"]
        BY <4>1
      <4>2. CASE ~Mr!Refuses /\ mRoute' = Mr!Routing(p)
        BY <2>3, <4>2 DEF Mr!Refuses, Mr!Routing
      <4> QED BY <2>1, <4>1, <4>2 DEF Mr!Prompted, Mr!Outcome
    <3>2. RoutesTyped'
      BY <1>1, <2>3, <3>1 DEF RoutesTyped
    <3>3. RouteInv'
      BY <2>2, <2>3 DEF RunInv, RouteInv, Mr!unrouted
    <3>4. mTurn' = mTurn \/ (mTurn' = TRUE /\ mRun.st \notin {"active", "paused"})
      BY <2>1 DEF Mr!Prompted, Mr!Refuses, Mr!Owning, Mr!Tells
    <3> QED BY <2>2, <3>2, <3>3, <3>4, RouteStep
  <2>4. CASE ~UNCHANGED <<mRoute, mEntry, mAsk>>
    <3>1. /\ ~Mr!Refuses /\ mPrompt' = [mPrompt EXCEPT ![p] = "routing"]
          /\ mAsk' = [mAsk EXCEPT ![p] = "posting"] /\ mRoute' = Mr!Routing(p)
          /\ mEntry' = Mr!Routing(p) /\ UNCHANGED mTurn
      BY <2>1, <2>4 DEF Mr!Prompted, Mr!Outcome, Mr!At
    <3>2. mRoute = Mr!NoRoute /\ mRun.st \notin {"active", "paused"}
      BY <2>2, <3>1, RoutesAreTyped DEF Mr!Refuses, Mr!Owning
    <3>3. RoutesTyped'
      BY <1>1, <3>1 DEF RoutesTyped, Mr!Routing
    <3>4. Mr!Routing(p) # Mr!NoRoute /\ Mr!Routing(p).p = p
      BY DEF Mr!Routing, Mr!NoRoute
    <3>5. \A q \in Prompts : mAsk[q] = "off"
      BY <3>2, TheRoute
    <3>6. RouteInv'
      BY <1>1, <2>2, <3>1, <3>2, <3>4, <3>5 DEF RouteInv, RoutesTyped, Mr!unrouted
    <3> QED BY <2>2, <3>1, <3>3, <3>6, RouteStep
  <2> QED BY <2>3, <2>4
<1>3. CASE Mr!BootRoutes
  <2>1. /\ mBoot = "route" /\ mBoot' = "none"
        /\ mAsk' = mAsk \/ (mRoute.st = "routing" /\ mAsk' = [mAsk EXCEPT ![mRoute.p] = "asking"])
        /\ UNCHANGED <<Mr!unrouted, mTurn, mRoute, mEntry, mPrompt>>
    BY <1>3 DEF Mr!BootRoutes, Mr!At
  <2>2. RoutesTyped'
    BY <1>1, <2>1, RoutesAreTyped DEF RoutesTyped
  <2>3. RouteInv'
    BY <1>1, <2>1, RoutesAreTyped DEF RunInv, RouteInv, RoutesTyped, Mr!unrouted
  <2> QED BY <2>1, <2>2, <2>3, RouteStep
<1>4. CASE Mr!CancelRoute
  <2> DEFINE p == mRoute.p
  <2>1. /\ mRoute.st = "routing" /\ mRoute' = [p |-> p, st |-> "cancelled"]
        /\ mEntry' = Mr!NoRoute /\ mAsk' = [mAsk EXCEPT ![p] = "cancelling"]
        /\ mPrompt' = [mPrompt EXCEPT ![p] = "settled"]
        /\ UNCHANGED <<Mr!unrouted, mTurn, mBoot>>
    BY <1>4 DEF Mr!CancelRoute, Mr!Decided, Mr!At, Mr!Outcome
  <2>2. mRoute # Mr!NoRoute /\ p \in Prompts
    BY <2>1, RoutesAreTyped
  <2>3. \A q \in Prompts : q # p => mAsk[q] = "off"
    BY TheRoute
  <2>4. mRun.st \notin {"active", "paused"}
    BY <2>2 DEF RunInv, RouteInv
  <2> HIDE DEF p
  <2>5. RoutesTyped'
    BY <1>1, <2>1, <2>2 DEF RoutesTyped
  <2>6. mRoute' # Mr!NoRoute /\ mRoute'.p = p
    BY <2>1 DEF Mr!NoRoute
  <2>7. RouteInv'
    BY <1>1, <2>1, <2>2, <2>3, <2>4, <2>6 DEF RouteInv, RoutesTyped, Mr!unrouted
  <2> QED BY <2>1, <2>5, <2>7, RouteStep
<1> QED BY <1>2, <1>3, <1>4

-----------------------------------------------------------------------------
(* The invariant holds, and what follows from it.                          *)

\* Pi starts without a run, a leg or a routing.
LEMMA RunInit == RunBounds /\ Mr!Init => RunInv
<1> SUFFICES ASSUME RunBounds, Mr!Init PROVE RunInv
  OBVIOUS
<1>1. /\ mRun = Mr!NoRun /\ mLeg = [s \in Mr!Slots |-> Mr!Off] /\ mCtl = 0
      /\ mTurn = FALSE /\ mSup = FALSE /\ mReq = FALSE /\ mNudge = FALSE /\ mArmed = FALSE
      /\ mBoot = "none" /\ mRoute = Mr!NoRoute /\ mEntry = Mr!NoRoute
      /\ mAsk = [p \in Prompts |-> "off"] /\ mPrompt = [p \in Prompts |-> "new"]
      /\ mSeen = FALSE /\ mStarved = FALSE /\ mRepairs = 0 /\ mCrashes = 0
  BY DEF Mr!Init
<1>2. /\ mRun \in RunType /\ mRun.st = "none" /\ mRun.ph = "none" /\ mRun.agents = 0
      /\ mRun.cycles = 0
  BY <1>1 DEF Mr!NoRun, RunType, Mr!Status, RunBounds
<1>3. mLeg \in [Mr!Slots -> LegType] /\ \A s \in Mr!Slots : mLeg[s].at = "off"
  BY <1>1, OffTyped
<1>4. Types
  <2>1. mRoute.st = "none"
    BY <1>1 DEF Mr!NoRoute
  <2>2. /\ mAsk \in [Prompts -> {"off", "posting", "asking", "managed", "native", "cancelling"}]
        /\ mPrompt \in [Prompts -> {"new", "routing", "decided", "settled", "dropped"}]
        /\ mCrashes \in 0..MaxCrashes
    BY <1>1 DEF RunBounds
  <2>3. /\ mTurn \in BOOLEAN /\ mSup \in BOOLEAN /\ mReq \in BOOLEAN /\ mNudge \in BOOLEAN
        /\ mArmed \in BOOLEAN /\ mSeen \in BOOLEAN /\ mStarved \in BOOLEAN /\ mRepairs \in Nat
    BY <1>1
  <2>4. Mr!TypeOK
    BY <1>1, <1>2, <1>3, <2>1, <2>2, <2>3 DEF Mr!TypeOK, RunType
  <2> QED BY <1>1, <1>3, <2>3, <2>4 DEF Types
<1>5. ActiveInv /\ RestInv /\ SeenInv /\ RouteInv
  BY <1>1, <1>2 DEF ActiveInv, RestInv, SeenInv, RouteInv
<1>6. BudgetInv
  BY <1>1, <1>2 DEF BudgetInv, Pending, RunBounds
<1> QED BY <1>4, <1>5, <1>6 DEF RunInv

\* A leg, an answer of the routing, the parent, the owner, the clock or a new process
\* takes a step.
LEMMA RunStep == RunBounds /\ RunInv /\ [Mr!Next]_(Mr!mVars) => RunInv'
<1> SUFFICES ASSUME RunBounds, RunInv, [Mr!Next]_(Mr!mVars) PROVE RunInv'
  OBVIOUS
<1>1. CASE UNCHANGED Mr!mVars
  <2>1. UNCHANGED Mr!unrouted /\ UNCHANGED <<mTurn, mBoot, mRoute, mEntry, mAsk, mPrompt>>
    BY <1>1 DEF Mr!mVars, Mr!unrouted, Mr!history
  <2>2. RoutesTyped' /\ RouteInv'
    BY <2>1, RoutesAreTyped DEF RoutesTyped, RunInv, RouteInv, Mr!unrouted
  <2> QED BY <2>1, <2>2, RouteStep
<1>2. ASSUME NEW s \in Mr!Slots, Mr!LegStep(s)
      PROVE  RunInv'
  BY <1>2, QuietLegs, LoudLegs DEF Mr!LegStep
<1>3. ASSUME NEW s \in Mr!Slots, Mr!Settles(s)
      PROVE  RunInv'
  BY <1>3, SettleStep
<1>4. ASSUME NEW s \in Mr!Slots,
             Mr!Approve(s) \/ Mr!Continue(s) \/ \E mode \in {"auto", "plan"} : Mr!Start(s, mode)
      PROVE  RunInv'
  BY <1>4, OwnerStep
<1>5. ASSUME NEW p \in Prompts, Mr!AskStep(p)
      PROVE  RunInv'
  BY <1>5, AskSteps, RouteEndStep DEF Mr!AskStep
<1>6. CASE (\E p \in Prompts, force \in BOOLEAN : Mr!Prompted(p, force))
               \/ Mr!BootRoutes \/ Mr!CancelRoute
  BY <1>6, PromptSteps
<1>7. CASE Mr!Works \/ Mr!GoalDone \/ Mr!GoalReady \/ Mr!Subagent
  BY <1>7, WorkStep, ToolSteps
<1>8. CASE Mr!GoalBlock \/ Mr!Pause \/ Mr!Cancel \/ Mr!OutOfTime
  BY <1>8, Stopping
<1>9. CASE Mr!Nudges \/ Mr!TimePasses \/ Mr!Crash
  BY <1>9, NudgeStep, TimeStep, ProcessStep
<1> QED BY <1>1, <1>2, <1>3, <1>4, <1>5, <1>6, <1>7, <1>8, <1>9 DEF Mr!Next

\* The invariant holds in every state of a managed run.
LEMMA RunInvHolds == RunBounds => (Mr!Spec => []RunInv)
<1> SUFFICES ASSUME RunBounds PROVE Mr!Spec => []RunInv
  OBVIOUS
<1>1. Mr!Init => RunInv
  BY RunInit
<1>2. RunInv /\ [Mr!Next]_(Mr!mVars) => RunInv'
  BY RunStep
<1> QED BY <1>1, <1>2, PTL DEF Mr!Spec

\* A run that is over has nothing to wait for, so what its legs report changes nothing.
LEMMA OverLegs ==
    ASSUME RunInv, NEW s \in Mr!Slots, Mr!LegStep(s), mRun.st \notin {"active", "paused"}
    PROVE  mRun' = mRun
<1>1. ~Mr!Active /\ ~Mr!Live(s)
  BY DEF Mr!Active, Mr!Live
<1>2. Mr!FailedBy(s) = mRun
  BY <1>1 DEF Mr!FailedBy
<1>3. ASSUME NEW leg, NEW armed, Mr!Launches(s, leg, armed)
      PROVE  mRun' = mRun
  BY <1>1, <1>3 DEF Mr!Launches
<1>4. ASSUME NEW armed, Mr!Resumes(s, armed)
      PROVE  mRun' = mRun
  BY <1>1, <1>4 DEF Mr!Resumes
<1>5. CASE Mr!Started(s) \/ Mr!Announced(s) \/ Mr!ReadContext(s)
  BY <1>1, <1>3, <1>5 DEF Mr!Started, Mr!Announced, Mr!ReadContext
<1>6. CASE Mr!Spawns(s) \/ Mr!Closes(s) \/ Mr!Repairs(s) \/ Mr!Aborts(s)
  BY <1>1, <1>2, <1>6 DEF Mr!Spawns, Mr!Closes, Mr!Repairs, Mr!Aborts, Mr!Fails
<1>7. CASE Mr!Planned(s) \/ Mr!PlanPosted(s) \/ Mr!GetsVerdict(s)
  BY <1>1, <1>7 DEF Mr!Planned, Mr!MayPlan, Mr!PlanPosted, Mr!GetsVerdict
<1>8. CASE Mr!VerdictPosted(s) \/ Mr!Began(s) \/ Mr!SettlePosted(s)
  BY <1>8 DEF Mr!VerdictPosted, Mr!Began, Mr!SettlePosted
<1>9. CASE Mr!Continued(s) \/ Mr!Boots(s)
  BY <1>4, <1>9 DEF Mr!Continued, Mr!Boots
<1> QED BY <1>5, <1>6, <1>7, <1>8, <1>9 DEF Mr!LegStep

\* No step takes up a run that is over: what starts has a new number.
LEMMA OverStep ==
    ASSUME RunBounds, RunInv, [Mr!Next]_(Mr!mVars),
           mRun.st \in {"complete", "cancelled", "failed"}, mRun'.id = mRun.id
    PROVE  mRun'.st = mRun.st
<1>1. mRun \in RunType /\ ~Mr!Active /\ ~Mr!Owning /\ mRun.ph # "awaiting-approval"
  BY RunTyped DEF RunInv, RestInv, Mr!Active, Mr!Owning
<1>2. CASE UNCHANGED Mr!mVars
  BY <1>2 DEF Mr!mVars
<1>3. ASSUME NEW s \in Mr!Slots, Mr!LegStep(s)
      PROVE  mRun'.st = mRun.st
  BY <1>3, OverLegs
<1>4. ASSUME NEW s \in Mr!Slots, Mr!Settles(s) \/ Mr!Approve(s) \/ Mr!Continue(s)
      PROVE  mRun'.st = mRun.st
  BY <1>1, <1>4 DEF Mr!Settles, Mr!Approve, Mr!Continue
<1>5. ASSUME NEW s \in Mr!Slots, NEW mode, NEW kind, Mr!Starts(s, mode, kind)
      PROVE  FALSE
  <2>1. mRun'.id = mRun.id + 1
    BY <1>5 DEF Mr!Starts, Mr!NoRun
  <2> QED BY <1>1, <2>1 DEF RunType, RunBounds
<1>6. ASSUME NEW s \in Mr!Slots, NEW mode, Mr!Start(s, mode)
      PROVE  mRun'.st = mRun.st
  BY <1>5, <1>6 DEF Mr!Start
<1>7. ASSUME NEW p \in Prompts, Mr!AskStep(p)
      PROVE  mRun'.st = mRun.st
  BY <1>5, <1>7 DEF Mr!AskStep, Mr!RoutePosted, Mr!Routed, Mr!RouteCancelled, Mr!RouteEnds,
                    Mr!unrouted
<1>8. CASE (\E p \in Prompts, force \in BOOLEAN : Mr!Prompted(p, force))
               \/ Mr!BootRoutes \/ Mr!CancelRoute
  BY <1>8 DEF Mr!Prompted, Mr!BootRoutes, Mr!CancelRoute, Mr!unrouted
<1>9. CASE Mr!GoalDone
  BY <1>1, <1>9 DEF Mr!GoalDone, RunType
<1>10. CASE Mr!Works \/ Mr!GoalReady \/ Mr!GoalBlock \/ Mr!Subagent \/ Mr!Nudges
  BY <1>1, <1>10 DEF Mr!Works, Mr!GoalReady, Mr!GoalBlock, Mr!Subagent, Mr!Nudges, RunBounds
<1>11. CASE Mr!Pause \/ Mr!Cancel \/ Mr!OutOfTime \/ Mr!TimePasses
  BY <1>1, <1>11 DEF Mr!Pause, Mr!Cancel, Mr!OutOfTime, Mr!TimePasses
<1>12. CASE Mr!Crash
  BY <1>1, <1>12 DEF Mr!Crash, Mr!Restored
<1> QED BY <1>2, <1>3, <1>4, <1>6, <1>7, <1>8, <1>9, <1>10, <1>11, <1>12 DEF Mr!Next

\* Every state of a managed run is well-typed: no counter of subagents, reviews or turns
\* passes its budget (managed-core.mjs, subagentBudgetReason).
THEOREM RunTypes == RunBounds => (Mr!Spec => []Mr!TypeOK)
<1> SUFFICES ASSUME RunBounds PROVE Mr!Spec => []Mr!TypeOK
  OBVIOUS
<1>1. RunInv => Mr!TypeOK
  BY DEF RunInv, Types
<1> QED BY <1>1, RunInvHolds, PTL

\* A run completes only after a review that passed and saw all the work of the parent,
\* and no review that needs no repair finds its subagent spent (review, onAgentSettled).
THEOREM CompletedWasReviewed == RunBounds => (Mr!Spec => []Mr!ReviewedComplete)
<1> SUFFICES ASSUME RunBounds PROVE Mr!Spec => []Mr!ReviewedComplete
  OBVIOUS
<1>1. RunInv => Mr!ReviewedComplete
  BY DEF RunInv, SeenInv, BudgetInv, Mr!ReviewedComplete
<1> QED BY <1>1, RunInvHolds, PTL

\* An active run is driven by a leg, a turn or a timer, after every pause, failure and
\* restart (resume, onAgentSettled, onSessionStart).
THEOREM RunIsDriven == RunBounds => (Mr!Spec => []Mr!Driven)
<1> SUFFICES ASSUME RunBounds PROVE Mr!Spec => []Mr!Driven
  OBVIOUS
<1>1. RunInv => Mr!Driven
  BY DEF RunInv, ActiveInv, Types, Mr!TypeOK, Mr!Driven, Mr!Active, Mr!Of
<1> QED BY <1>1, RunInvHolds, PTL

\* A run that is over stays so, whatever its legs report afterwards (plan, review,
\* runChild).
THEOREM OverStaysOver == RunBounds => (Mr!Spec => Mr!OverStays)
<1> SUFFICES ASSUME RunBounds PROVE Mr!Spec => Mr!OverStays
  OBVIOUS
<1>1. RunInv /\ [Mr!Next]_(Mr!mVars)
          => [mRun.st \in {"complete", "cancelled", "failed"} /\ mRun'.id = mRun.id
                  => mRun'.st = mRun.st]_(Mr!mVars)
  BY OverStep
<1> QED BY <1>1, RunInvHolds, PTL DEF Mr!Spec, Mr!OverStays
=============================================================================
