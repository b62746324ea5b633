------------------------------- MODULE Nodes -------------------------------
(***************************************************************************)
(* One execution node as its coordinator sees it: the invitation and the   *)
(* enrolment that pin the node's key, the signed handshake that gives a    *)
(* connection its epoch, the fencing of older connections, the heartbeat   *)
(* sweep and revocation (src/daemon/node-transport.mjs, node-registry.mjs, *)
(* node-enrollment.mjs, node-auth.mjs and node-management.mjs).            *)
(*                                                                         *)
(* Every handler runs to its end without an await, so a step is one frame, *)
(* one timer or one request; but it may write state.json several times,    *)
(* and the daemon may die between two writes (the "upto" of a step).       *)
(* Nodes share no state, so one node is modelled.  A socket that the       *)
(* coordinator is closing still delivers the frames that were on the wire. *)
(***************************************************************************)
EXTENDS Naturals, FiniteSets

CONSTANTS
    Sockets,      \* the connections that may ever be opened to /nodes
    Keys,         \* key pairs that somebody presents, as public key fingerprints
    NoKey,        \* not a key
    MaxCrashes    \* bound: restarts of the coordinator

ASSUME CrashesAssumption == MaxCrashes \in Nat

VARIABLES
    nInvite,      \* durable: the invitation: "none", or its status and claimed key
    nReg,         \* durable: the node record: pinned key (NoKey: no record), revokedAt,
                  \*   connectionEpoch
    nSock,        \* memory: per socket its wire, its handshake phase, its challenge
                  \*   and its epoch; and the key its client holds
    nActive,      \* memory: the sockets that the map "active" holds for this node
    nSilent,      \* the clients that are gone without closing their connection
    nHeard,       \* history: epochs heard since the newest connection became ready
    nRevoked,     \* history: management.revoke() answered
    nCrashes

nVars == <<nInvite, nReg, nSock, nActive, nSilent, nHeard, nRevoked, nCrashes>>

Sock == [wire : {"unused", "open", "closing", "closed"},
         phase : {"initial", "challenged", "active", "enrolled"},
         chal : Nat, epoch : Nat, key : Keys \cup {NoKey}]

Unused == [wire |-> "unused", phase |-> "initial", chal |-> 0, epoch |-> 0, key |-> NoKey]
NoInvite == [status |-> "none", key |-> NoKey]

Init ==
    /\ nInvite = [status |-> "issued", key |-> NoKey]
    /\ nReg = [key |-> NoKey, revoked |-> FALSE, epoch |-> 0]
    /\ nSock = [s \in Sockets |-> Unused]
    /\ nActive = {} /\ nSilent = {} /\ nHeard = {} /\ nRevoked = FALSE /\ nCrashes = 0

-----------------------------------------------------------------------------
(* The process and the wire                                                *)

\* accept(): a client connects, with the key of its configuration directory.
Connect(s, k) ==
    /\ nSock[s].wire = "unused"
    /\ nSock' = [nSock EXCEPT ![s] = [Unused EXCEPT !.wire = "open", !.key = k]]
    /\ UNCHANGED <<nInvite, nReg, nActive, nSilent, nHeard, nRevoked, nCrashes>>

\* Frames of a socket arrive until it is closed.
Listening(s) == nSock[s].wire \in {"open", "closing"} /\ s \notin nSilent

\* closeWithError(): an error frame and a close, which take effect only later.
Closing(sock) == [sock EXCEPT !.wire = IF @ = "open" THEN "closing" ELSE @]

\* The daemon dies: connections, challenges and the map are memory only.
Dies ==
    /\ nCrashes < MaxCrashes
    /\ nCrashes' = nCrashes + 1
    /\ nSock' = [s \in Sockets |-> IF nSock[s].wire = "unused" THEN nSock[s]
                                   ELSE [nSock[s] EXCEPT !.wire = "closed", !.chal = 0]]
    /\ nActive' = {}
    /\ UNCHANGED nSilent

Crash == Dies /\ UNCHANGED <<nInvite, nReg, nHeard, nRevoked>>

\* The "close" event of a socket.
Closed(s) ==
    /\ nSock[s].wire \in {"open", "closing"}
    /\ nSock[s].wire = "open" => s \notin nSilent
    /\ nSock' = [nSock EXCEPT ![s].wire = "closed", ![s].chal = 0]
    /\ nActive' = nActive \ {s}
    /\ UNCHANGED <<nInvite, nReg, nSilent, nHeard, nRevoked, nCrashes>>

\* The client's machine or network disappears: no frame and no close event.
FallSilent(s) ==
    /\ nSock[s].wire = "open" /\ s \notin nSilent
    /\ nSilent' = nSilent \cup {s}
    /\ UNCHANGED <<nInvite, nReg, nSock, nActive, nHeard, nRevoked, nCrashes>>

HandshakeTimeout(s) ==
    /\ nSock[s].wire = "open" /\ nSock[s].phase \notin {"active", "enrolled"}
    /\ nSock' = [nSock EXCEPT ![s] = Closing(@)]
    /\ UNCHANGED <<nInvite, nReg, nActive, nSilent, nHeard, nRevoked, nCrashes>>

\* The heartbeat sweep.  A live client's heartbeats may be late as well.
Sweep(s) ==
    /\ s \in nActive /\ nSock[s].wire = "open"
    /\ nSock' = [nSock EXCEPT ![s] = Closing(@)]
    /\ UNCHANGED <<nInvite, nReg, nActive, nSilent, nHeard, nRevoked, nCrashes>>

-----------------------------------------------------------------------------
(* Enrolment                                                               *)

\* prune(): the invitation or the claim's recovery window has expired.
InviteExpires ==
    /\ nInvite.status # "none"
    /\ nInvite' = NoInvite
    /\ UNCHANGED <<nReg, nSock, nActive, nSilent, nHeard, nRevoked, nCrashes>>

\* claim(): an invitation belongs to the first key that presented its token.
Claimable(k) == nInvite.status # "none" /\ nInvite.key \in {NoKey, k}

\* registerEnrolledNode(): a record is pinned to the key it was made with.
Registrable(k) == nReg.key \in {NoKey, k}

\* The enroll frame writes the claim, the node record and the completion.
\* It is answered when all three are on disk.
Enroll(s) ==
    /\ Listening(s) /\ nSock[s].phase = "initial"
    /\ LET k == nSock[s].key
           complete == Claimable(k) /\ Registrable(k) IN
       /\ nInvite' = IF ~Claimable(k) THEN nInvite
                     ELSE [key |-> k, status |-> IF complete THEN "completed"
                                                 ELSE IF nInvite.status = "issued" THEN "claimed"
                                                 ELSE nInvite.status]
       /\ nReg' = IF complete THEN [nReg EXCEPT !.key = k] ELSE nReg
       /\ nSock' = [nSock EXCEPT ![s] = [Closing(@) EXCEPT
                        !.phase = IF complete /\ nSock[s].wire = "open" THEN "enrolled"
                                 ELSE nSock[s].phase]]
    /\ UNCHANGED <<nActive, nSilent, nHeard, nRevoked, nCrashes>>

\* The daemon dies after the first (1) or the second (2) of these writes.
EnrollDies(s, upto) ==
    /\ Listening(s) /\ nSock[s].phase = "initial"
    /\ LET k == nSock[s].key IN
       /\ Claimable(k) /\ (upto = 2 => Registrable(k))
       /\ nInvite' = [key |-> k, status |-> IF nInvite.status = "issued" THEN "claimed"
                                            ELSE nInvite.status]
       /\ nReg' = IF upto = 2 THEN [nReg EXCEPT !.key = k] ELSE nReg
    /\ Dies
    /\ UNCHANGED <<nHeard, nRevoked>>

-----------------------------------------------------------------------------
(* The signed handshake                                                    *)

\* Mutant: the registry does not look at revokedAt.
Usable_Revoked == nReg.key # NoKey
Usable == nReg.key # NoKey /\ ~nReg.revoked

\* hello: a challenge for the next epoch; nothing is reserved by it.
Hello(s) ==
    /\ Listening(s) /\ nSock[s].phase = "initial"
    /\ nSock' = [nSock EXCEPT ![s] =
         IF ~Usable THEN Closing(@)
         ELSE LET c == [@ EXCEPT !.phase = "challenged", !.chal = nReg.epoch + 1] IN
              IF @.wire = "open" THEN c ELSE Closing(c)]
    /\ UNCHANGED <<nInvite, nReg, nActive, nSilent, nHeard, nRevoked, nCrashes>>

ChallengeExpires(s) ==
    /\ nSock[s].chal # 0
    /\ nSock' = [nSock EXCEPT ![s].chal = 0]
    /\ UNCHANGED <<nInvite, nReg, nActive, nSilent, nHeard, nRevoked, nCrashes>>

Verified(s) == nSock[s].chal # 0 /\ Usable /\ nSock[s].key = nReg.key

\* Mutant: the connection takes the epoch that its challenge announced.
Advanced_Announced(s) == nSock[s].chal
Advanced(s) == nReg.epoch + 1

\* authenticate: every verdict consumes the challenge.  The epoch is advanced
\* on disk first; if another connection took the announced one, this one is
\* refused.  A new connection replaces the active one, which is told and
\* closed, unless the new one can no longer be told "ready".
Authenticate(s) ==
    /\ Listening(s) /\ nSock[s].phase = "challenged"
    /\ LET epoch == Advanced(s)
           used == [nSock EXCEPT ![s].chal = 0]
           won == [used EXCEPT ![s].phase = "active", ![s].epoch = epoch] IN
       IF ~Verified(s)
       THEN nSock' = [used EXCEPT ![s] = Closing(@)] /\ UNCHANGED <<nReg, nActive, nHeard>>
       ELSE /\ nReg' = [nReg EXCEPT !.epoch = epoch]
            /\ IF epoch # nSock[s].chal
               THEN nSock' = [used EXCEPT ![s] = Closing(@)] /\ UNCHANGED <<nActive, nHeard>>
               ELSE /\ nActive' = {s}
                    /\ nHeard' = {}
                    /\ nSock' = [t \in Sockets |->
                          IF t \in nActive /\ nSock[s].wire = "open" THEN Closing(won[t])
                          ELSE won[t]]
    /\ UNCHANGED <<nInvite, nSilent, nRevoked, nCrashes>>

\* The daemon dies after the advanced epoch reached the disk.
AuthenticateDies(s) ==
    /\ Listening(s) /\ nSock[s].phase = "challenged" /\ Verified(s)
    /\ nReg' = [nReg EXCEPT !.epoch = Advanced(s)]
    /\ Dies
    /\ UNCHANGED <<nInvite, nHeard, nRevoked>>

\* A frame that is malformed or out of place.
BadFrame(s) ==
    /\ Listening(s) /\ nSock[s].wire = "open"
    /\ nSock' = [nSock EXCEPT ![s] = Closing(@)]
    /\ UNCHANGED <<nInvite, nReg, nActive, nSilent, nHeard, nRevoked, nCrashes>>

-----------------------------------------------------------------------------
(* Envelopes and revocation                                                *)

\* Mutant: the envelope is only compared with the epoch of its own socket.
Current_Own(s) == TRUE
Current(s) == s \in nActive

\* A result, event or heartbeat: accepted from the active connection only.
Envelope(s) ==
    /\ Listening(s) /\ nSock[s].phase = "active"
    /\ IF Current(s) THEN nHeard' = nHeard \cup {nSock[s].epoch} /\ UNCHANGED nSock
                     ELSE nSock' = [nSock EXCEPT ![s] = Closing(@)] /\ UNCHANGED nHeard
    /\ UNCHANGED <<nInvite, nReg, nActive, nSilent, nRevoked, nCrashes>>

Known == nReg.key # NoKey \/ nInvite.status # "none"
RevokedReg == IF nReg.key = NoKey THEN nReg ELSE [nReg EXCEPT !.revoked = TRUE]

\* Mutant: the invitation of a node that is not enrolled yet survives.
RevokedInvite_Kept == nInvite
RevokedInvite == NoInvite

\* management.revoke(): the record, then the invitation, then disconnect(),
\* which takes the connection from the map before closing it.
Revoke ==
    /\ Known
    /\ nReg' = RevokedReg
    /\ nInvite' = RevokedInvite
    /\ nActive' = {}
    /\ nSock' = [s \in Sockets |-> IF s \in nActive THEN Closing(nSock[s]) ELSE nSock[s]]
    /\ nRevoked' = TRUE
    /\ UNCHANGED <<nSilent, nHeard, nCrashes>>

\* The daemon dies after the record was written; nobody was answered.
RevokeDies ==
    /\ Known /\ nReg' = RevokedReg
    /\ Dies
    /\ UNCHANGED <<nInvite, nHeard, nRevoked>>

-----------------------------------------------------------------------------
SocketStep(s) ==
    \/ \E k \in Keys : Connect(s, k)
    \/ Closed(s) \/ FallSilent(s) \/ HandshakeTimeout(s) \/ Sweep(s)
    \/ Enroll(s) \/ (\E upto \in {1, 2} : EnrollDies(s, upto))
    \/ Hello(s) \/ ChallengeExpires(s) \/ Authenticate(s) \/ AuthenticateDies(s)
    \/ BadFrame(s) \/ Envelope(s)

Next == Crash \/ InviteExpires \/ Revoke \/ RevokeDies \/ \E s \in Sockets : SocketStep(s)

Spec == Init /\ [][Next]_nVars

-----------------------------------------------------------------------------
Ready == {s \in Sockets : nSock[s].epoch # 0}

TypeOK ==
    /\ nInvite \in [status : {"none", "issued", "claimed", "completed"}, key : Keys \cup {NoKey}]
    /\ nReg \in [key : Keys \cup {NoKey}, revoked : BOOLEAN, epoch : Nat]
    /\ nSock \in [Sockets -> Sock]
    /\ nActive \subseteq Sockets /\ nSilent \subseteq Sockets
    /\ nHeard \subseteq Nat /\ nRevoked \in BOOLEAN /\ nCrashes \in 0..MaxCrashes

\* Connections never share an epoch, not even two that were challenged with
\* the same one or that are separated by a restart (node-registry.mjs:197,
\* node-transport.mjs:161): an epoch names one connection for ever.
EpochNamesOne ==
    /\ \A s, t \in Ready : nSock[s].epoch = nSock[t].epoch => s = t
    /\ \A s \in Ready : nSock[s].epoch <= nReg.epoch

\* One authenticated connection is authoritative (node-transport.mjs:163-186,
\* 191-194): once a connection is ready, nothing is accepted from an older
\* one, whose frames may still be on the wire, and an epoch tells which is older.
OlderAreFenced ==
    /\ EpochNamesOne
    /\ \A e \in nHeard, s \in Ready : nSock[s].epoch <= e

\* Once an administrator's revocation was answered, the node has no active
\* connection again, whatever handshake or enrolment was under way
\* (node-management.mjs:86-91).
RevokedStaysOut == nRevoked => nActive = {}
=============================================================================
