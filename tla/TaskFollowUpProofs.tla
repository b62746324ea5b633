------------------------- MODULE TaskFollowUpProofs -------------------------
(***************************************************************************)
(* Proofs about TaskFollowUp, for every number of instructions, provider   *)
(* observations and daemon crashes.                                        *)
(***************************************************************************)
EXTENDS TaskFollowUp, TLAPS

USE BoundsAssumption DEF BoundsAssumption

(* The inductive invariant, by the part of the state it is about. *)

\* The provider's prompts have no gap: 1, 2, 3 ... or, when the outcome of the
\* dispatch was uncertain and the prompt never arrived, 2, 3 ...
ReceivedInv ==
    /\ received # <<>> => received[1] \in {1, 2}
    /\ \A i \in 1..Len(received) : received[i] = received[1] + i - 1
    /\ Newest <= workGen
    /\ \A h \in hooks : h <= Newest

\* At most one operation is in flight, and what its phase says of the message
\* and of what the provider has received.
PhaseInv ==
    /\ \A g, h \in Gen : (ph[g] # "idle" /\ ph[h] # "idle") => g = h
    /\ ph[1] # "audit"
    /\ \A g \in FollowUp :
         /\ ph[g] = "audit" => msg[g] \in {"pending", "failed"}
         /\ ph[g] \in {"audit", "sending"} => \A h \in 2..(g - 1) : msg[h] = "delivered"
         /\ ph[g] = "sending" => /\ msg[g] = "delivering" \/ (msg[g] = "failed" /\ ~Bound)
                                 /\ Newest < g
    /\ ph[1] = "sending" => received = <<>>
    /\ \A g \in Gen : ph[g] = "landed" => Newest = g

\* Generations name messages, delivered ones were received, and what is still
\* open to an attempt was not.
MessageInv ==
    /\ \A g \in Gen : msg[g] = "none" <=> (g = 1 \/ g > workGen)
    /\ provGen <= workGen
    /\ \A g \in FollowUp : msg[g] = "delivered" => (g <= Newest /\ g <= provGen)
    /\ Bound => \A g \in FollowUp : msg[g] \in {"pending", "failed"} => Newest < g

\* A turn is attributed to a generation the provider had received when it ended.
TurnInv ==
    /\ accGen <= Newest
    /\ \A f \in finals \cup reports :
         /\ f.at <= clk
         /\ f.saw <= Newest
         /\ f.saw = 0 \/ f.gen <= f.saw
         /\ (decl.at > 0 /\ f.saw = 0) => f.at < decl.at

DeclInv ==
    /\ decl.at > 0 => received # <<>>
    /\ DeclarationCurrent

EndInv ==
    /\ status = "completed" => \A g \in Gen : ph[g] # "sending"
    /\ ReleasedAnswerIsCurrent

IndInv == TypeOK /\ ReceivedInv /\ PhaseInv /\ MessageInv /\ TurnInv /\ DeclInv /\ EndInv

-----------------------------------------------------------------------------
\* The newest instruction, before and after one more is received.
LEMMA NewestFacts ==
    ASSUME TypeOK
    PROVE  /\ Newest \in 0..MaxGen
           /\ Newest = 0 <=> received = <<>>
BY DEF TypeOK, Newest, Gen

\* The state a claim leaves satisfies the invariant.
LEMMA InitInv == Init => IndInv
<1> SUFFICES ASSUME Init PROVE IndInv
    OBVIOUS
<1>1. TypeOK
  <2>1. /\ ph \in [Gen -> {"idle", "audit", "sending", "landed"}]
        /\ msg \in [Gen -> {"none", "pending", "delivering", "delivered", "uncertain", "failed"}]
    BY DEF Init
  <2>2. answer \in Final /\ decl \in [at : Clock, gen : 0..MaxGen]
    BY DEF Init, Final, NoFinal, NoDecl, Gen, Clock
  <2>3. received \in Seq(Gen)
    BY DEF Init
  <2>4. 1 \in Gen /\ pend \in 0..MaxGen /\ clk \in Clock
    BY DEF Init, Gen, Clock
  <2>5. status = "dispatching" /\ standing \in BOOLEAN /\ gates = FALSE
        /\ bound = TRUE /\ alive = TRUE
    BY DEF Init
  <2>6. /\ workGen \in Gen /\ provGen \in Gen /\ accGen \in 0..MaxGen /\ crashes \in 0..MaxCrash
        /\ hooks \in SUBSET Gen /\ finals \in SUBSET Final /\ reports \in SUBSET Final
    BY DEF Init, Gen
  <2> QED BY <2>1, <2>2, <2>3, <2>4, <2>5, <2>6 DEF TypeOK
<1>2. Newest = 0
    BY DEF Init, Newest
<1>3. ReceivedInv /\ PhaseInv
    BY <1>2 DEF Init, ReceivedInv, PhaseInv, Gen, FollowUp, Bound
<1>4. MessageInv /\ TurnInv
    BY <1>2 DEF Init, MessageInv, TurnInv, Gen, FollowUp, Bound
<1>5. DeclInv /\ EndInv
    BY <1>2 DEF Init, DeclInv, DeclarationCurrent, EndInv, ReleasedAnswerIsCurrent, NoDecl
<1> QED BY <1>1, <1>3, <1>4, <1>5 DEF IndInv

-----------------------------------------------------------------------------
\* Every action keeps the types.
LEMMA TypeStep == TypeOK /\ [Next]_vars => TypeOK'
<1> SUFFICES ASSUME TypeOK, [Next]_vars PROVE TypeOK'
    OBVIOUS
<1> USE DEF TypeOK, task, session, provider
<1>1. ASSUME NEW g \in Gen, Land(g) PROVE TypeOK'
    BY <1>1 DEF Land
<1>2. CASE Dispatching
  <2>1. CASE DispatchAccepted
    BY <2>1 DEF DispatchAccepted, Max2, Gen
  <2>2. CASE DispatchUncertain
    BY <2>2 DEF DispatchUncertain
  <2> QED BY <1>2, <2>1, <2>2 DEF Dispatching
<1>3. CASE AppendMessage
    BY <1>3 DEF AppendMessage, NoDecl, Gen, Clock
<1>4. ASSUME NEW g \in FollowUp, Delivering(g) PROVE TypeOK'
  <2> g \in Gen
    BY DEF Gen, FollowUp
  <2>1. CASE OpenDelivery(g) \/ Postpone(g) \/ AuthorityLost(g)
    BY <2>1 DEF OpenDelivery, Postpone, AuthorityLost
  <2>2. CASE BeginDelivery(g)
    BY <2>2 DEF BeginDelivery, WithdrawIfAwaiting, NoDecl, Gen, Clock
  <2>3. CASE KnownUndelivered(g)
    BY <2>3 DEF KnownUndelivered
  <2>4. CASE Accepted(g)
    BY <2>4 DEF Accepted, Complete, WithdrawIfAwaiting, NoDecl, Max2, Gen, Clock
  <2>5. CASE DeliveryUncertain(g) \/ InterruptedRecovered(g) \/ EndedBeforeDelivery(g)
    BY <2>5 DEF DeliveryUncertain, InterruptedRecovered, EndedBeforeDelivery
  <2> QED BY <1>4, <2>1, <2>2, <2>3, <2>4, <2>5 DEF Delivering
<1>5. ASSUME NEW g \in Gen, Hook(g) PROVE TypeOK'
  <2>1. CASE ExclusiveHook(g)
    <3>1. /\ status' \in {"dispatching", "running", "awaiting_release", "completed", "ended"}
          /\ provGen' \in Gen /\ accGen' \in 0..MaxGen /\ pend' \in 0..MaxGen
      BY <2>1 DEF ExclusiveHook, Acknowledge, Complete, Max2, Gen
    <3>2. /\ decl' \in [at : Clock, gen : 0..MaxGen]
          /\ msg' \in [Gen -> {"none", "pending", "delivering", "delivered", "uncertain", "failed"}]
      BY <2>1 DEF ExclusiveHook, Acknowledge, Complete, WithdrawIfAwaiting, NoDecl, Clock
    <3> QED BY <2>1, <3>1, <3>2 DEF ExclusiveHook
  <2>2. CASE StandingHook(g)
    <3>1. /\ status' \in {"dispatching", "running", "awaiting_release", "completed", "ended"}
          /\ provGen' \in Gen
      BY <2>2 DEF StandingHook, Acknowledge, Complete, Max2, Gen
    <3>2. /\ decl' \in [at : Clock, gen : 0..MaxGen]
          /\ msg' \in [Gen -> {"none", "pending", "delivering", "delivered", "uncertain", "failed"}]
      BY <2>2 DEF StandingHook, Acknowledge, Complete, WithdrawIfAwaiting, NoDecl, Clock
    <3> QED BY <2>2, <3>1, <3>2 DEF StandingHook
  <2>3. CASE HookIgnored(g)
    BY <2>3 DEF HookIgnored
  <2> QED BY <1>5, <2>1, <2>2, <2>3 DEF Hook
<1>6. ASSUME NEW g \in Gen, Declare(g) PROVE TypeOK'
    BY <1>6 DEF Declare, WorkerProof, Max2, Gen, Clock
<1>7. CASE Reply
    BY <1>7 DEF Reply, WorkerProof, Max2, NoDecl, Gen, Clock
<1>8. CASE TurnEnds
  <2>1. Newest \in 0..MaxGen
    BY NewestFacts
  <2>2. [gen |-> accGen, at |-> clk + 1, saw |-> Newest, kept |-> FALSE] \in Final
    BY <1>8, <2>1 DEF TurnEnds, Final, Gen, Clock
  <2>3. clk' \in Clock
    BY <1>8 DEF TurnEnds, Clock
  <2> QED BY <1>8, <2>2, <2>3 DEF TurnEnds
<1>9. CASE FinalDeferred
  <2>1. Newest \in 0..MaxGen
    BY NewestFacts
  <2>2. [gen |-> pend, at |-> clk + 1, saw |-> Newest, kept |-> TRUE] \in Final
    BY <1>9, <2>1 DEF FinalDeferred, Final, Gen, Clock
  <2>3. clk' \in Clock
    BY <1>9 DEF FinalDeferred, Clock
  <2> QED BY <1>9, <2>2, <2>3 DEF FinalDeferred
<1>10. ASSUME NEW f \in finals, ReportTurn(f) \/ DropFinal(f) PROVE TypeOK'
    BY <1>10 DEF ReportTurn, DropFinal
<1>11. CASE Release
    BY <1>11 DEF Release
<1>12. CASE EndTask
    BY <1>12 DEF EndTask
<1>13. CASE Surroundings
  <2>1. CASE Dies \/ Resume
    BY <2>1 DEF Dies, Resume
  <2>2. CASE LoseBinding \/ RepairBinding
    BY <2>2 DEF LoseBinding, RepairBinding
  <2>3. CASE Crash
    BY <2>3 DEF Crash
  <2> QED BY <1>13, <2>1, <2>2, <2>3 DEF Surroundings
<1>14. CASE UNCHANGED vars
    BY <1>14 DEF vars
<1> QED
    BY <1>1, <1>2, <1>3, <1>4, <1>5, <1>6, <1>7, <1>8, <1>9, <1>10, <1>11, <1>12, <1>13, <1>14
    DEF Next

\* The model's variables keep their types.
THEOREM TypeCorrect == Spec => []TypeOK
<1>1. Init => TypeOK
    BY InitInv DEF IndInv
<1> QED BY <1>1, TypeStep, PTL DEF Spec

-----------------------------------------------------------------------------
(* What a step that leaves a part's variables alone preserves. *)

\* What the provider received, when nothing lands.
LEMMA ReceivedFrame ==
    ASSUME ReceivedInv, UNCHANGED <<received, workGen>>, hooks' \subseteq hooks
    PROVE  ReceivedInv' /\ Newest' = Newest
BY DEF ReceivedInv, Newest

\* The operation in flight, when none starts, moves or ends.
LEMMA PhaseFrame ==
    ASSUME PhaseInv, UNCHANGED <<ph, msg, received>>, Bound' => Bound
    PROVE  PhaseInv'
BY DEF PhaseInv, Newest

\* The journal of messages, when no message is written.
LEMMA MessageFrame ==
    ASSUME MessageInv, UNCHANGED <<msg, workGen, provGen, received>>, Bound' => Bound
    PROVE  MessageInv'
BY DEF MessageInv, Newest

\* Finals may move to the reports, or be dropped; the declaration may be
\* withdrawn.
LEMMA TurnFrame ==
    ASSUME TypeOK, TurnInv, UNCHANGED <<accGen, received, clk>>,
           finals' \cup reports' \subseteq finals \cup reports,
           decl' = decl \/ decl' = NoDecl
    PROVE  TurnInv'
BY DEF TurnInv, Newest, NoDecl

\* The declaration, when it is withdrawn or nothing it depends on moves.
LEMMA DeclFrame ==
    ASSUME TypeOK, DeclInv,
           \/ /\ UNCHANGED <<decl, workGen, provGen, gates, received>>
              /\ UNCHANGED msg \/ ~Bound'
              /\ Bound' => Bound
           \/ decl' = NoDecl
    PROVE  DeclInv'
BY DEF DeclInv, DeclarationCurrent, Unresolved, NoDecl, Bound

\* The end of the task, when this step does not release it.
LEMMA EndFrame ==
    ASSUME EndInv, UNCHANGED <<standing, answer>>,
           \/ status' # "completed"
           \/ status = "completed" /\ workGen' = workGen,
           \A g \in Gen : ph'[g] = "sending" => ph[g] = "sending" \/ status' # "completed"
    PROVE  EndInv'
BY DEF EndInv, ReleasedAnswerIsCurrent

-----------------------------------------------------------------------------
(* One lemma for each action. *)

\* An instruction that is about to land is the next one the provider misses.
LEMMA LandNext ==
    ASSUME NEW g \in Gen, IndInv, Land(g)
    PROVE  /\ Newest < g /\ g <= workGen
           /\ g = Newest + 1 \/ (g = 2 /\ received = <<>>)
<1> USE DEF IndInv
<1>1. CASE g = 1
  BY <1>1, NewestFacts DEF Land, PhaseInv, TypeOK, Gen
<1>2. CASE g # 1
  <2>0. g \in FollowUp /\ g \in Nat /\ workGen \in Nat
    BY <1>2 DEF TypeOK, FollowUp, Gen
  <2>1a. Newest < g /\ msg[g] # "none"
    BY <2>0 DEF Land, PhaseInv
  <2>1. g \in FollowUp /\ Newest < g /\ g <= workGen
    BY <2>0, <2>1a DEF MessageInv
  <2>2. \A h \in 2..(g - 1) : h <= Newest
    BY <2>1 DEF Land, PhaseInv, MessageInv, FollowUp, Gen
  <2>3. g = 2 \/ g - 1 \in 2..(g - 1)
    BY <2>1 DEF FollowUp
  <2> QED BY <2>1, <2>2, <2>3, NewestFacts DEF FollowUp
<1> QED BY <1>1, <1>2

\* An instruction lands: it is the next one, and nothing else is in flight.
LEMMA LandStep ==
    ASSUME NEW g \in Gen, IndInv, TypeOK', Land(g)
    PROVE  IndInv'
<1> USE DEF IndInv
<1>a. /\ received' = Append(received, g) /\ received \in Seq(Gen)
      /\ received' # <<>> /\ Newest' = g
    BY DEF Land, TypeOK, Newest
<1>b. /\ Newest < g /\ g <= workGen
      /\ g = Newest + 1 \/ (g = 2 /\ received = <<>>)
    BY LandNext
<1>c. workGen' = workGen /\ hooks' = hooks \cup {g} /\ Newest \in Nat
    BY NewestFacts DEF Land, task
<1>1. ReceivedInv'
  <2>1. CASE received = <<>>
    <3>1. received' = <<g>> /\ g \in {1, 2}
      BY <2>1, <1>a, <1>b, NewestFacts
    <3>2. Len(received') = 1 /\ received'[1] = g
      BY <3>1
    <3> QED BY <3>1, <3>2, <1>a, <1>b, <1>c DEF ReceivedInv, TypeOK, Gen
  <2>2. CASE received # <<>>
    <3>1. /\ Len(received) \in Nat \ {0} /\ Len(received') = Len(received) + 1
          /\ received'[Len(received) + 1] = g
          /\ \A i \in 1..Len(received) : received'[i] = received[i]
      BY <2>2, <1>a
    <3>2. Newest = received[1] + Len(received) - 1 /\ g = Newest + 1
      BY <2>2, <3>1, <1>b, <1>c DEF ReceivedInv, Newest
    <3>3. received'[1] = received[1] /\ received'[1] \in {1, 2}
      BY <2>2, <3>1 DEF ReceivedInv
    <3>4. \A i \in 1..Len(received') : received'[i] = received'[1] + i - 1
      BY <3>1, <3>2, <3>3 DEF ReceivedInv
    <3>5. Newest' <= workGen' /\ \A h \in hooks' : h <= Newest'
      BY <1>a, <1>b, <1>c DEF ReceivedInv, TypeOK, Gen
    <3> QED BY <3>3, <3>4, <3>5 DEF ReceivedInv
  <2> QED BY <2>1, <2>2
<1>2. PhaseInv'
    BY <1>a, <1>b DEF Land, PhaseInv, task, TypeOK, FollowUp, Gen, Bound
<1>3. MessageInv'
  <2>1. \A h \in FollowUp : msg'[h] = msg[h] /\ (h # g => ph[h] = "idle")
    BY DEF Land, PhaseInv, task, FollowUp, Gen
  <2>2. ASSUME NEW h \in FollowUp, Bound', msg'[h] \in {"pending", "failed"} PROVE Newest' < h
    <3>1. h # g
      BY <2>2, <2>1 DEF Land, PhaseInv, Bound, task
    <3>2. ~(h < g)
      BY <2>2, <2>1 DEF Land, PhaseInv, FollowUp, Gen
    <3> QED BY <3>1, <3>2, <1>a DEF FollowUp, Gen
  <2> QED
    <3>1. \A h \in FollowUp : msg'[h] = "delivered" => h <= Newest' /\ h <= provGen'
      BY <1>a, <1>b, <1>c, <2>1 DEF Land, MessageInv, task, FollowUp, Gen
    <3> QED BY <2>2, <3>1 DEF Land, MessageInv, task
<1>4. TurnInv'
    BY <1>a, <1>b, <1>c DEF Land, TurnInv, task, session, TypeOK, Final, Gen, Clock
<1>5. DeclInv'
    BY <1>a DEF Land, DeclInv, DeclarationCurrent, Unresolved, Bound, task
<1>6. EndInv'
    BY EndFrame DEF Land, task, session, provider, Bound
<1> QED BY <1>1, <1>2, <1>3, <1>4, <1>5, <1>6

\* The dispatch returns after its prompt landed.
LEMMA DispatchAcceptedStep ==
    ASSUME IndInv, TypeOK', DispatchAccepted
    PROVE  IndInv'
<1> USE DEF IndInv
<1>a. Newest' = Newest /\ 1 \in Gen
    BY DEF DispatchAccepted, provider, Newest, Gen
<1>1. ReceivedInv'
    BY ReceivedFrame DEF DispatchAccepted, task, session, provider, Bound
<1>2. PhaseInv'
    BY <1>a DEF DispatchAccepted, PhaseInv, TypeOK, FollowUp, Gen, Bound, task, provider
<1>3. MessageInv'
    BY MessageFrame DEF DispatchAccepted, task, session, provider, Bound
<1>4. TurnInv'
    BY <1>a DEF DispatchAccepted, PhaseInv, TurnInv, TypeOK, Max2, Gen, task, provider
<1>5. DeclInv'
    BY DeclFrame DEF DispatchAccepted, task, session, provider, Bound
<1>6. EndInv'
    BY EndFrame DEF DispatchAccepted, TypeOK, Gen, task
<1> QED BY <1>1, <1>2, <1>3, <1>4, <1>5, <1>6

\* The dispatch returns with an uncertain outcome.
LEMMA DispatchUncertainStep ==
    ASSUME IndInv, TypeOK', DispatchUncertain
    PROVE  IndInv'
<1> USE DEF IndInv
<1>a. Newest' = Newest /\ 1 \in Gen
    BY DEF DispatchUncertain, provider, Newest, Gen
<1>1. ReceivedInv'
    BY ReceivedFrame DEF DispatchUncertain, task, session, provider, Bound
<1>2. PhaseInv'
    BY <1>a DEF DispatchUncertain, PhaseInv, TypeOK, FollowUp, Gen, Bound, task, provider
<1>3. MessageInv'
    BY MessageFrame DEF DispatchUncertain, task, session, provider, Bound
<1>4. TurnInv'
    BY TurnFrame DEF DispatchUncertain, task, session, provider, Bound
<1>5. DeclInv'
    BY DeclFrame DEF DispatchUncertain, task, session, provider, Bound
<1>6. EndInv'
    BY EndFrame DEF DispatchUncertain, TypeOK, Gen, task
<1> QED BY <1>1, <1>2, <1>3, <1>4, <1>5, <1>6

\* A follow-up is appended behind every earlier one.
LEMMA AppendMessageStep ==
    ASSUME IndInv, TypeOK', AppendMessage
    PROVE  IndInv'
<1> USE DEF IndInv
<1>a. /\ Newest' = Newest /\ Newest \in Nat /\ workGen + 1 \in FollowUp /\ msg[workGen + 1] = "none"
      /\ \A g \in Gen : g # workGen + 1 => msg'[g] = msg[g]
      /\ msg'[workGen + 1] = "pending"
    BY NewestFacts DEF AppendMessage, provider, Newest, MessageInv, TypeOK, FollowUp, Gen
<1>b. ph[workGen + 1] \notin {"audit", "sending"}
    BY <1>a DEF PhaseInv
<1>1. ReceivedInv'
    BY <1>a DEF AppendMessage, ReceivedInv, TypeOK, Gen, provider
<1>2. PhaseInv'
    BY <1>a, <1>b DEF AppendMessage, PhaseInv, TypeOK, FollowUp, Gen, Bound, provider
<1>3. MessageInv'
    BY <1>a, <1>b DEF AppendMessage, MessageInv, ReceivedInv, TypeOK, FollowUp, Gen, Bound, provider
<1>4. TurnInv'
    BY TurnFrame DEF AppendMessage, session, provider
<1>5. DeclInv'
    BY DeclFrame DEF AppendMessage
<1>6. EndInv'
    BY EndFrame DEF AppendMessage, Bound
<1> QED BY <1>1, <1>2, <1>3, <1>4, <1>5, <1>6

\* An attempt opens only when every earlier message was delivered.
LEMMA OpenDeliveryStep ==
    ASSUME NEW g \in FollowUp, IndInv, TypeOK', OpenDelivery(g)
    PROVE  IndInv'
<1> USE DEF IndInv
<1>a. Newest' = Newest /\ g \in Gen
    BY DEF OpenDelivery, provider, Newest, Gen, FollowUp
<1>1. ReceivedInv'
    BY ReceivedFrame DEF OpenDelivery, task, session, provider, Bound
<1>2. PhaseInv'
    BY <1>a DEF OpenDelivery, PhaseInv, TypeOK, FollowUp, Gen, Bound, task, provider, TailIdle, PredecessorsDelivered
<1>3. MessageInv'
    BY MessageFrame DEF OpenDelivery, task, session, provider, Bound
<1>4. TurnInv'
    BY TurnFrame DEF OpenDelivery, task, session, provider, Bound
<1>5. DeclInv'
    BY DeclFrame DEF OpenDelivery, task, session, provider, Bound
<1>6. EndInv'
    BY EndFrame DEF OpenDelivery, TypeOK, task, Bound
<1> QED BY <1>1, <1>2, <1>3, <1>4, <1>5, <1>6

\* An attempt is postponed with the journal unchanged.
LEMMA PostponeStep ==
    ASSUME NEW g \in FollowUp, IndInv, TypeOK', Postpone(g)
    PROVE  IndInv'
<1> USE DEF IndInv
<1>a. Newest' = Newest /\ g \in Gen
    BY DEF Postpone, provider, Newest, Gen, FollowUp
<1>1. ReceivedInv'
    BY ReceivedFrame DEF Postpone, task, session, provider, Bound
<1>2. PhaseInv'
    BY <1>a DEF Postpone, PhaseInv, TypeOK, FollowUp, Gen, Bound, task, provider
<1>3. MessageInv'
    BY MessageFrame DEF Postpone, task, session, provider, Bound
<1>4. TurnInv'
    BY TurnFrame DEF Postpone, task, session, provider, Bound
<1>5. DeclInv'
    BY DeclFrame DEF Postpone, task, session, provider, Bound
<1>6. EndInv'
    BY <1>a, EndFrame DEF Postpone, TypeOK, task
<1> QED BY <1>1, <1>2, <1>3, <1>4, <1>5, <1>6

\* An attempt fails before the write.
LEMMA AuthorityLostStep ==
    ASSUME NEW g \in FollowUp, IndInv, TypeOK', AuthorityLost(g)
    PROVE  IndInv'
<1> USE DEF IndInv
<1>a. Newest' = Newest /\ g \in Gen
    BY DEF AuthorityLost, provider, Newest, Gen, FollowUp
<1>b. msg[g] \in {"pending", "failed"} /\ msg' = [msg EXCEPT ![g] = "failed"]
    BY DEF AuthorityLost, PhaseInv
<1>1. ReceivedInv'
    BY ReceivedFrame DEF AuthorityLost, task, session, provider, Bound
<1>2. PhaseInv'
    BY <1>a DEF AuthorityLost, PhaseInv, TypeOK, FollowUp, Gen, Bound, task, provider
<1>3. MessageInv'
    BY <1>a, <1>b DEF AuthorityLost, MessageInv, TypeOK, FollowUp, Gen, Bound
<1>4. TurnInv'
    BY TurnFrame DEF AuthorityLost, task, session, provider, Bound
<1>5. DeclInv'
    BY <1>a, <1>b DEF AuthorityLost, DeclInv, DeclarationCurrent, Unresolved, Bound, provider, TypeOK
<1>6. EndInv'
    BY <1>a, EndFrame DEF AuthorityLost, TypeOK
<1> QED BY <1>1, <1>2, <1>3, <1>4, <1>5, <1>6

\* An attempt starts writing: its message was never received.
LEMMA BeginDeliveryStep ==
    ASSUME NEW g \in FollowUp, IndInv, TypeOK', BeginDelivery(g)
    PROVE  IndInv'
<1> USE DEF IndInv
<1>a. Newest' = Newest /\ g \in Gen
    BY DEF BeginDelivery, provider, Newest, Gen, FollowUp
<1>b. msg[g] \in {"pending", "failed"} /\ Bound /\ Newest < g /\ Newest \in Nat
    BY NewestFacts DEF BeginDelivery, TargetMatches, PhaseInv, MessageInv
<1>1. ReceivedInv'
    BY ReceivedFrame DEF BeginDelivery, task, session, provider, Bound
<1>2. PhaseInv'
    BY <1>a, <1>b DEF BeginDelivery, PhaseInv, TypeOK, FollowUp, Gen, Bound, provider
<1>3. MessageInv'
    BY <1>a, <1>b DEF BeginDelivery, MessageInv, TypeOK, FollowUp, Gen, Bound
<1>4. TurnInv'
    BY TurnFrame DEF BeginDelivery, WithdrawIfAwaiting, provider
<1>5. DeclInv'
  <2>1. decl.at = 0
    <3>1. Unresolved
      BY <1>b DEF Unresolved
    <3>2. decl.at \in Nat
      BY DEF TypeOK, Clock
    <3> QED BY <1>b, <3>1, <3>2 DEF DeclInv, DeclarationCurrent
  <2> QED BY <2>1, <1>a DEF BeginDelivery, WithdrawIfAwaiting, DeclInv, DeclarationCurrent, NoDecl, provider, TypeOK, Clock
<1>6. EndInv'
    BY <1>b, EndFrame DEF BeginDelivery, Bound
<1> QED BY <1>1, <1>2, <1>3, <1>4, <1>5, <1>6

\* A known rejection: the provider received nothing.
LEMMA KnownUndeliveredStep ==
    ASSUME NEW g \in FollowUp, IndInv, TypeOK', KnownUndelivered(g)
    PROVE  IndInv'
<1> USE DEF IndInv
<1>a. Newest' = Newest /\ g \in Gen
    BY DEF KnownUndelivered, provider, Newest, Gen, FollowUp
<1>b. msg[g] \in {"delivering", "failed"} /\ Newest < g
    BY DEF KnownUndelivered, PhaseInv
<1>1. ReceivedInv'
    BY ReceivedFrame DEF KnownUndelivered, task, session, provider, Bound
<1>2. PhaseInv'
    BY <1>a DEF KnownUndelivered, PhaseInv, TypeOK, FollowUp, Gen, Bound, task, provider
<1>3. MessageInv'
    BY <1>a, <1>b DEF KnownUndelivered, MessageInv, TypeOK, FollowUp, Gen, Bound
<1>4. TurnInv'
    BY TurnFrame DEF KnownUndelivered, task, session, provider, Bound
<1>5. DeclInv'
    BY <1>a, <1>b DEF KnownUndelivered, DeclInv, DeclarationCurrent, Unresolved, Bound, provider, TypeOK
<1>6. EndInv'
    BY <1>a, EndFrame DEF KnownUndelivered, TypeOK
<1> QED BY <1>1, <1>2, <1>3, <1>4, <1>5, <1>6

\* A message completes once it was received: nothing was declared meanwhile.
LEMMA CompleteStep ==
    ASSUME NEW g \in FollowUp, IndInv, TypeOK', Bound, g <= Newest,
           msg[g] \notin {"none", "delivered"}, Complete(g),
           UNCHANGED <<workGen, gates, received>>
    PROVE  /\ MessageInv' /\ DeclInv'
           /\ decl' = decl \/ decl' = NoDecl
           /\ \A h \in Gen \ {g} : msg'[h] = msg[h]
<1> USE DEF IndInv
<1>a. Newest' = Newest /\ g \in Gen /\ g \in Nat /\ Newest \in Nat
    BY NewestFacts DEF Newest, Gen, FollowUp
<1>b. decl.at = 0
  <2>1. Unresolved
    BY DEF Unresolved
  <2>2. decl.at \in Nat
    BY DEF TypeOK, Clock
  <2> QED BY <2>1, <2>2 DEF DeclInv, DeclarationCurrent
<1>c. decl'.at = 0 /\ (decl' = decl \/ decl' = NoDecl)
    BY <1>b DEF Complete, WithdrawIfAwaiting, NoDecl
<1>d. msg' = [msg EXCEPT ![g] = "delivered"] /\ provGen' = Max2(provGen, g) /\ status' = "running"
    BY DEF Complete
<1>e. /\ \A h \in Gen \ {g} : msg'[h] = msg[h]
      /\ msg'[g] = "delivered"
    BY <1>a, <1>d DEF TypeOK
<1>f. g <= workGen
    BY <1>a DEF MessageInv, FollowUp, TypeOK, Gen
<1>1. MessageInv'
  <2>1. \A h \in Gen : msg'[h] = "none" <=> (h = 1 \/ h > workGen')
    BY <1>a, <1>e, <1>f DEF MessageInv, FollowUp, TypeOK, Gen
  <2>2. provGen' <= workGen' /\ provGen <= provGen' /\ g <= provGen'
    BY <1>a, <1>d, <1>f DEF MessageInv, Max2, TypeOK, Gen
  <2>3. \A h \in FollowUp : msg'[h] = "delivered" => (h <= Newest' /\ h <= provGen')
    BY <1>a, <1>e, <2>2 DEF MessageInv, FollowUp, TypeOK, Gen
  <2>4. \A h \in FollowUp : msg'[h] \in {"pending", "failed"} => Newest' < h
    BY <1>a, <1>e DEF MessageInv, FollowUp, Gen
  <2> QED BY <2>1, <2>2, <2>3, <2>4 DEF MessageInv
<1>2. DeclInv'
    BY <1>c DEF DeclInv, DeclarationCurrent
<1> QED BY <1>1, <1>2, <1>c, <1>e

\* The prompt hook settles the dispatch or a message the provider received.
LEMMA AcknowledgeStep ==
    ASSUME NEW g \in Gen, IndInv, TypeOK', g \in hooks, Acknowledge(g),
           UNCHANGED <<standing, workGen, gates, reports, answer, received, ph>>
    PROVE  /\ PhaseInv' /\ MessageInv' /\ DeclInv' /\ EndInv'
           /\ decl' = decl \/ decl' = NoDecl
<1> USE DEF IndInv
<1>a. Newest' = Newest /\ g <= Newest /\ g \in Nat /\ Newest \in Nat
    BY NewestFacts DEF Newest, Gen, ReceivedInv
<1>1. CASE g \in FollowUp /\ Bound /\ msg[g] \in {"delivering", "uncertain"}
  <2>1. Complete(g) /\ status' = "running"
    BY <1>1 DEF Acknowledge, Complete, FollowUp
  <2>2. /\ MessageInv' /\ DeclInv' /\ (decl' = decl \/ decl' = NoDecl)
        /\ \A h \in Gen \ {g} : msg'[h] = msg[h]
    BY <1>1, <1>a, <2>1, CompleteStep
  <2>3. ph[g] \notin {"audit", "sending"}
    BY <1>1, <1>a DEF PhaseInv
  <2>4. msg'[g] = "delivered"
    BY <2>1 DEF Complete, TypeOK
  <2>5. PhaseInv'
    BY <1>1, <1>a, <2>2, <2>3, <2>4 DEF PhaseInv, FollowUp, Gen
  <2>6. EndInv'
    BY <2>1, EndFrame
  <2> QED BY <2>2, <2>5, <2>6
<1>2. CASE ~(g \in FollowUp /\ Bound /\ msg[g] \in {"delivering", "uncertain"})
  <2>1. UNCHANGED <<msg, provGen, decl>> /\ (status' = status \/ (status = "dispatching" /\ status' = "running"))
    BY <1>2 DEF Acknowledge, FollowUp, Gen
  <2>2. Bound' <=> Bound
    BY <2>1 DEF Bound
  <2>3. PhaseInv' /\ MessageInv'
    BY <2>1, <2>2, PhaseFrame, MessageFrame
  <2>4. DeclInv'
    BY <2>1, <2>2, DeclFrame
  <2>5. EndInv'
    BY <2>1, EndFrame
  <2> QED BY <2>1, <2>3, <2>4, <2>5
<1> QED BY <1>1, <1>2

\* The transport returns after the message landed.
LEMMA AcceptedStep ==
    ASSUME NEW g \in FollowUp, IndInv, TypeOK', Accepted(g)
    PROVE  IndInv'
<1> USE DEF IndInv
<1>a. Newest' = Newest /\ g \in Gen /\ Newest = g /\ ph[g] = "landed"
    BY DEF Accepted, provider, Newest, Gen, FollowUp, PhaseInv
<1>b. \A h \in Gen : ph'[h] = "idle"
    BY <1>a DEF Accepted, PhaseInv, TypeOK
<1>c. /\ MessageInv' /\ DeclInv' /\ EndInv'
      /\ decl' = decl \/ decl' = NoDecl
  <2>1. CASE msg[g] = "delivered"
    <3>1. UNCHANGED <<status, provGen, decl, msg, workGen, gates, received, standing, answer>>
      BY <2>1 DEF Accepted, provider
    <3>2. Bound' <=> Bound
      BY <3>1 DEF Bound
    <3>3. MessageInv' /\ DeclInv'
      BY <3>1, <3>2, MessageFrame, DeclFrame
    <3>4. EndInv'
      BY <1>b, <3>1, EndFrame
    <3> QED BY <3>1, <3>3, <3>4
  <2>2. CASE msg[g] # "delivered"
    <3>1. Complete(g) /\ Bound /\ UNCHANGED <<workGen, gates, received, standing, answer>>
      BY <2>2 DEF Accepted, provider
    <3>2. msg[g] # "none"
      <4>1. g <= workGen /\ g # 1
        BY <1>a DEF ReceivedInv, FollowUp
      <4> QED BY <4>1, <1>a DEF MessageInv, TypeOK, Gen
    <3>3. g <= Newest
      BY <1>a DEF Gen
    <3>4. MessageInv' /\ DeclInv' /\ (decl' = decl \/ decl' = NoDecl)
      BY <2>2, <3>1, <3>2, <3>3, CompleteStep
    <3>5. EndInv'
      BY <3>1, EndFrame DEF Complete
    <3> QED BY <3>4, <3>5
  <2> QED BY <2>1, <2>2
<1>1. ReceivedInv'
    BY ReceivedFrame DEF Accepted, provider
<1>2. PhaseInv'
    BY <1>b DEF PhaseInv, FollowUp, Gen
<1>3. TurnInv'
    BY <1>a, <1>c DEF Accepted, TurnInv, TypeOK, Max2, NoDecl, Gen, provider
<1> QED BY <1>1, <1>2, <1>3, <1>c

\* The outcome of an attempt is uncertain: a received message is never open
\* to another attempt.
LEMMA DeliveryUncertainStep ==
    ASSUME NEW g \in FollowUp, IndInv, TypeOK', DeliveryUncertain(g)
    PROVE  IndInv'
<1> USE DEF IndInv
<1>a. Newest' = Newest /\ g \in Gen
    BY DEF DeliveryUncertain, provider, Newest, Gen, FollowUp
<1>b. /\ msg[g] # "none"
      /\ msg' = [msg EXCEPT ![g] = IF msg[g] = "delivered" THEN "delivered" ELSE "uncertain"]
  <2>1. msg[g] # "none"
    <3>1. CASE ph[g] = "sending"
      BY <3>1 DEF PhaseInv
    <3>2. CASE ph[g] = "landed"
      <4>1. g <= workGen /\ g # 1
        BY <3>2, <1>a DEF PhaseInv, ReceivedInv, FollowUp
      <4> QED BY <4>1, <1>a DEF MessageInv, TypeOK, Gen
    <3> QED BY <3>1, <3>2 DEF DeliveryUncertain
  <2> QED BY <2>1 DEF DeliveryUncertain
<1>c. \A h \in Gen : ph'[h] = "idle"
    BY <1>a DEF DeliveryUncertain, PhaseInv, TypeOK
<1>1. ReceivedInv'
    BY ReceivedFrame DEF DeliveryUncertain, provider
<1>2. PhaseInv'
    BY <1>c DEF PhaseInv, FollowUp, Gen
<1>3. MessageInv'
    BY <1>a, <1>b DEF DeliveryUncertain, MessageInv, TypeOK, FollowUp, Gen, Bound
<1>4. TurnInv'
    BY TurnFrame DEF DeliveryUncertain, session, provider
<1>5. DeclInv'
    BY <1>a, <1>b DEF DeliveryUncertain, DeclInv, DeclarationCurrent, Unresolved, Bound, provider, TypeOK
<1>6. EndInv'
    BY <1>c, EndFrame DEF DeliveryUncertain
<1> QED BY <1>1, <1>2, <1>3, <1>4, <1>5, <1>6

\* A restart settles the interrupted attempt; nothing is in flight.
LEMMA InterruptedRecoveredStep ==
    ASSUME NEW g \in FollowUp, IndInv, TypeOK', InterruptedRecovered(g)
    PROVE  IndInv'
<1> USE DEF IndInv
<1>a. Newest' = Newest /\ g \in Gen
    BY DEF InterruptedRecovered, provider, Newest, Gen, FollowUp
<1>b. ph' = ph /\ (Bound' <=> Bound)
    BY DEF InterruptedRecovered, Bound
<1>1. ReceivedInv'
    BY ReceivedFrame DEF InterruptedRecovered, provider
<1>2. PhaseInv'
    BY <1>a, <1>b DEF InterruptedRecovered, PhaseInv, TailIdle, TypeOK, FollowUp, Gen
<1>3. MessageInv'
    BY <1>a, <1>b DEF InterruptedRecovered, MessageInv, TypeOK, FollowUp, Gen
<1>4. TurnInv'
    BY TurnFrame DEF InterruptedRecovered, session, provider
<1>5. DeclInv'
    BY <1>a, <1>b DEF InterruptedRecovered, DeclInv, DeclarationCurrent, Unresolved, provider, TypeOK
<1>6. EndInv'
    BY EndFrame DEF InterruptedRecovered
<1> QED BY <1>1, <1>2, <1>3, <1>4, <1>5, <1>6

\* The task ended before the message was delivered.
LEMMA EndedBeforeDeliveryStep ==
    ASSUME NEW g \in FollowUp, IndInv, TypeOK', EndedBeforeDelivery(g)
    PROVE  IndInv'
<1> USE DEF IndInv
<1>a. Newest' = Newest /\ g \in Gen
    BY DEF EndedBeforeDelivery, provider, Newest, Gen, FollowUp
<1>b. ph' = ph /\ (Bound' <=> Bound)
    BY DEF EndedBeforeDelivery, Bound
<1>1. ReceivedInv'
    BY ReceivedFrame DEF EndedBeforeDelivery, provider
<1>2. PhaseInv'
  <2>1. /\ ~Bound' /\ msg[g] # "delivered" /\ msg'[g] = "failed"
        /\ \A h \in Gen \ {g} : msg'[h] = msg[h]
    BY <1>a, <1>b DEF EndedBeforeDelivery, TypeOK
  <2>2. \A h \in FollowUp : ph'[h] = "audit" => msg'[h] \in {"pending", "failed"}
    BY <1>a, <1>b, <2>1 DEF PhaseInv, FollowUp, Gen
  <2>3. \A h \in FollowUp : ph'[h] = "sending" =>
             (msg'[h] = "delivering" \/ (msg'[h] = "failed" /\ ~Bound')) /\ Newest' < h
    BY <1>a, <1>b, <2>1 DEF PhaseInv, FollowUp, Gen
  <2>4. \A h \in FollowUp : ph'[h] \in {"audit", "sending"} =>
             \A k \in 2..(h - 1) : msg'[k] = "delivered"
    <3> SUFFICES ASSUME NEW h \in FollowUp, ph[h] \in {"audit", "sending"}, NEW k \in 2..(h - 1)
                 PROVE  msg'[k] = "delivered"
        BY <1>b
    <3>1. k \in Gen /\ msg[k] = "delivered"
        BY DEF PhaseInv, FollowUp, Gen
    <3> QED BY <2>1, <3>1
  <2>5. UNCHANGED <<ph, received>>
    BY <1>b DEF EndedBeforeDelivery, provider
  <2> QED BY <1>a, <2>2, <2>3, <2>4, <2>5 DEF PhaseInv
<1>3. MessageInv'
    BY <1>a, <1>b DEF EndedBeforeDelivery, MessageInv, TypeOK, FollowUp, Gen
<1>4. TurnInv'
    BY TurnFrame DEF EndedBeforeDelivery, session, provider
<1>5. DeclInv'
    BY <1>a, <1>b DEF EndedBeforeDelivery, DeclInv, DeclarationCurrent, Unresolved, provider, TypeOK
<1>6. EndInv'
    BY EndFrame DEF EndedBeforeDelivery
<1> QED BY <1>1, <1>2, <1>3, <1>4, <1>5, <1>6

\* The hook of an exclusive task also accepts the staged turn.
LEMMA ExclusiveHookStep ==
    ASSUME NEW g \in Gen, IndInv, TypeOK', ExclusiveHook(g)
    PROVE  IndInv'
<1> USE DEF IndInv
<1>a. /\ Newest' = Newest /\ g <= Newest /\ g \in Nat
      /\ g \in hooks /\ Acknowledge(g)
      /\ UNCHANGED <<standing, workGen, gates, reports, answer, received, ph, finals, clk>>
    BY DEF ExclusiveHook, Newest, ReceivedInv, Gen
<1>1. ReceivedInv'
    BY ReceivedFrame DEF ExclusiveHook
<1>2. PhaseInv' /\ MessageInv' /\ DeclInv' /\ EndInv' /\ (decl' = decl \/ decl' = NoDecl)
    BY <1>a, AcknowledgeStep
<1>3. TurnInv'
  <2>1. accGen' <= Newest'
    BY <1>a DEF ExclusiveHook, TurnInv, Max2
  <2> QED BY <1>a, <1>2, <2>1 DEF TurnInv, NoDecl
<1> QED BY <1>1, <1>2, <1>3

\* The hook of a standing worker settles by the journaled digest.
LEMMA StandingHookStep ==
    ASSUME NEW g \in Gen, IndInv, TypeOK', StandingHook(g)
    PROVE  IndInv'
<1> USE DEF IndInv
<1>a. /\ g \in hooks /\ Acknowledge(g)
      /\ UNCHANGED <<standing, workGen, gates, reports, answer, received, ph, finals, clk, accGen>>
    BY DEF StandingHook, session
<1>1. ReceivedInv'
    BY ReceivedFrame DEF StandingHook
<1>2. PhaseInv' /\ MessageInv' /\ DeclInv' /\ EndInv' /\ (decl' = decl \/ decl' = NoDecl)
    BY <1>a, AcknowledgeStep
<1>3. TurnInv'
    BY <1>a, <1>2, TurnFrame
<1> QED BY <1>1, <1>2, <1>3

\* The worker's reply proves the dispatch; a checkpoint withdraws.
LEMMA ReplyStep ==
    ASSUME IndInv, TypeOK', Reply
    PROVE  IndInv'
<1> USE DEF IndInv
<1>a. /\ Newest' = Newest /\ Newest \in Nat /\ Newest >= 1 /\ Bound /\ Bound'
      /\ UNCHANGED <<standing, workGen, provGen, msg, reports, answer, received, hooks, ph, finals, clk>>
    BY NewestFacts DEF Reply, Newest, provider, Bound
<1>b. (UNCHANGED <<gates, decl>>) \/ decl' = NoDecl
    BY DEF Reply
<1>1. ReceivedInv'
    BY <1>a, ReceivedFrame
<1>2. PhaseInv' /\ MessageInv'
    BY <1>a, PhaseFrame, MessageFrame
<1>3. TurnInv'
  <2>1. accGen' <= Newest'
    BY <1>a DEF Reply, WorkerProof, TurnInv, Max2, TypeOK
  <2> QED BY <1>a, <1>b, <2>1 DEF TurnInv, NoDecl
<1>4. DeclInv'
    BY <1>a, <1>b, DeclFrame
<1>5. EndInv'
    BY <1>a, EndFrame DEF Bound
<1> QED BY <1>1, <1>2, <1>3, <1>4, <1>5

\* A declaration is accepted when everything sent was delivered.
LEMMA DeclareStep ==
    ASSUME NEW g \in Gen, IndInv, TypeOK', Declare(g)
    PROVE  IndInv'
<1> USE DEF IndInv
<1>a. /\ Newest' = Newest /\ Newest \in Nat /\ Newest >= 1 /\ Bound /\ Bound' /\ received # <<>>
      /\ UNCHANGED <<standing, workGen, provGen, msg, gates, reports, answer, received, hooks, ph, finals>>
    BY NewestFacts DEF Declare, MayDeclare, Newest, provider, Bound
<1>b. decl' = [at |-> clk + 1, gen |-> provGen] /\ clk' = clk + 1 /\ clk \in Nat
    BY DEF Declare, TypeOK, Clock
<1>1. ReceivedInv'
    BY <1>a, ReceivedFrame
<1>2. PhaseInv' /\ MessageInv'
    BY <1>a, PhaseFrame, MessageFrame
<1>3. TurnInv'
  <2>1. accGen' <= Newest'
    BY <1>a DEF Declare, WorkerProof, TurnInv, Max2, TypeOK
  <2>2. \A f \in finals \cup reports : f.at \in Nat
    BY DEF TypeOK, Final, Clock
  <2> QED BY <1>a, <1>b, <2>1, <2>2 DEF TurnInv
<1>4. DeclInv'
  <2>1. ~Unresolved /\ ~gates
    BY DEF Declare, MayDeclare
  <2>2. provGen = workGen
    <3>1. CASE workGen = 1
      BY <3>1 DEF MessageInv, TypeOK, Gen
    <3>2. CASE workGen # 1
      <4>1. workGen \in FollowUp /\ workGen \in Gen
        BY <3>2 DEF TypeOK, Gen, FollowUp
      <4>2. msg[workGen] # "none"
        BY <3>2, <4>1 DEF MessageInv, Gen
      <4>3. msg[workGen] = "delivered"
        BY <2>1, <4>1, <4>2 DEF Unresolved
      <4> QED BY <4>1, <4>3 DEF MessageInv, TypeOK, Gen
    <3> QED BY <3>1, <3>2
  <2> QED BY <1>a, <1>b, <2>1, <2>2 DEF DeclInv, DeclarationCurrent, Unresolved
<1>5. EndInv'
    BY <1>a, EndFrame DEF Bound
<1> QED BY <1>1, <1>2, <1>3, <1>4, <1>5

\* A final is observed for the accepted generation.
LEMMA TurnEndsStep ==
    ASSUME IndInv, TypeOK', TurnEnds
    PROVE  IndInv'
<1> USE DEF IndInv
<1>a. /\ Newest' = Newest /\ Newest \in Nat /\ Newest # 0 /\ (Bound' <=> Bound)
      /\ UNCHANGED <<accGen, decl, reports, status>> /\ clk' = clk + 1 /\ clk \in Nat
    BY NewestFacts DEF TurnEnds, task, session, provider, Newest, TypeOK, Clock, Bound
<1>1. ReceivedInv' /\ PhaseInv' /\ MessageInv' /\ DeclInv'
    BY <1>a, ReceivedFrame, PhaseFrame, MessageFrame, DeclFrame DEF TurnEnds, task, provider
<1>2. TurnInv'
  <2> DEFINE new == [gen |-> accGen, at |-> clk + 1, saw |-> Newest, kept |-> FALSE]
  <2>1. finals' \cup reports' = (finals \cup reports) \cup {new}
    BY <1>a DEF TurnEnds
  <2>2. new.gen <= new.saw /\ new.at = clk' /\ new.saw = Newest' /\ new.saw # 0
    BY <1>a DEF TurnInv
  <2>3. \A f \in finals \cup reports : f.at \in Nat
    BY DEF TypeOK, Final, Clock
  <2> HIDE DEF new
  <2> QED BY <1>a, <2>1, <2>2, <2>3 DEF TurnInv
<1>3. EndInv'
    BY <1>a, EndFrame DEF TurnEnds, task
<1> QED BY <1>1, <1>2, <1>3

\* A final is retained behind a staged input.
LEMMA FinalDeferredStep ==
    ASSUME IndInv, TypeOK', FinalDeferred
    PROVE  IndInv'
<1> USE DEF IndInv
<1>a. /\ Newest' = Newest /\ Newest \in Nat /\ (Bound' <=> Bound) /\ pend \in Nat
      /\ UNCHANGED <<accGen, decl, reports, status>> /\ clk' = clk + 1 /\ clk \in Nat
    BY NewestFacts DEF FinalDeferred, task, session, provider, Newest, TypeOK, Clock, Bound
<1>1. ReceivedInv' /\ PhaseInv' /\ MessageInv' /\ DeclInv'
    BY <1>a, ReceivedFrame, PhaseFrame, MessageFrame, DeclFrame DEF FinalDeferred, task, provider
<1>2. TurnInv'
  <2> DEFINE new == [gen |-> pend, at |-> clk + 1, saw |-> Newest, kept |-> TRUE]
  <2>1. finals' \cup reports' \subseteq (finals \cup reports) \cup {new}
    BY <1>a DEF FinalDeferred
  <2>2. /\ new.saw = 0 \/ new.gen <= new.saw
        /\ new.at = clk' /\ new.saw = Newest'
    BY <1>a DEF FinalDeferred
  <2>3. new.saw = 0 => ~(decl'.at > 0)
    BY <1>a, NewestFacts DEF DeclInv
  <2>4. \A f \in finals \cup reports : f.at \in Nat
    BY DEF TypeOK, Final, Clock
  <2> HIDE DEF new
  <2> QED BY <1>a, <2>1, <2>2, <2>3, <2>4 DEF TurnInv
<1>3. EndInv'
    BY <1>a, EndFrame DEF FinalDeferred, task
<1> QED BY <1>1, <1>2, <1>3

\* A final is journaled as a report of the bound task, or dropped.
LEMMA ReportStep ==
    ASSUME NEW f \in finals, IndInv, TypeOK', ReportTurn(f) \/ DropFinal(f)
    PROVE  IndInv'
<1> USE DEF IndInv
<1>a. /\ UNCHANGED <<standing, workGen, provGen, gates, decl, msg, answer, received, hooks, ph, clk, accGen>>
      /\ Bound' => Bound
      /\ finals' \cup reports' \subseteq finals \cup reports
    BY DEF ReportTurn, DropFinal, Reportable, task, session, provider, Bound
<1>1. ReceivedInv' /\ PhaseInv' /\ MessageInv' /\ DeclInv' /\ TurnInv'
    BY <1>a, ReceivedFrame, PhaseFrame, MessageFrame, DeclFrame, TurnFrame
<1>2. EndInv'
  <2>1. status' # "completed" \/ status = "completed"
    BY DEF ReportTurn, DropFinal, task
  <2> QED BY <1>a, <2>1, EndFrame
<1> QED BY <1>1, <1>2

\* The release returns the turn that answers the newest instruction.
LEMMA ReleaseStep ==
    ASSUME IndInv, TypeOK', Release
    PROVE  IndInv'
<1> USE DEF IndInv
<1>a. /\ UNCHANGED <<standing, workGen, provGen, gates, decl, msg, received, hooks, ph, clk, accGen, finals, reports>>
      /\ Bound /\ ~Bound' /\ status' = "completed"
    BY DEF Release, ReleaseReady, provider, Bound
<1>b. decl.at > 0 /\ ~Unresolved /\ received # <<>>
    BY DEF Release, ReleaseReady, DeclInv
<1>1. ReceivedInv' /\ PhaseInv' /\ MessageInv' /\ DeclInv' /\ TurnInv'
    BY <1>a, ReceivedFrame, PhaseFrame, MessageFrame, DeclFrame, TurnFrame
<1>2. \A g \in Gen : ph[g] # "sending"
  <2>1. ph[1] # "sending"
    BY <1>b DEF PhaseInv
  <2>2. \A g \in FollowUp : ph[g] # "sending"
    BY <1>a, <1>b DEF PhaseInv, Unresolved
  <2> QED BY <2>1, <2>2 DEF Gen, FollowUp
<1>3. ~standing => answer'.gen = workGen /\ answer'.saw = workGen
  <2> SUFFICES ASSUME ~standing PROVE answer'.gen = workGen /\ answer'.saw = workGen
    OBVIOUS
  <2>1. PICK f \in reports : Covers(f) /\ answer' = f
    BY DEF Release, IsAnswer
  <2>2. f.gen = workGen /\ f.at >= decl.at /\ f \in Final
    BY <2>1 DEF Covers, TypeOK
  <2>3. f.at \in Nat /\ f.saw \in Nat /\ decl.at \in Nat
    BY <2>2 DEF TypeOK, Final, Clock
  <2>4. f.saw # 0 /\ f.gen <= f.saw /\ f.saw <= Newest
    BY <1>b, <2>1, <2>2, <2>3 DEF TurnInv
  <2>5. Newest <= workGen
    BY DEF ReceivedInv
  <2>6. Newest \in Nat /\ workGen \in Nat
    BY NewestFacts DEF TypeOK, Gen
  <2> QED BY <2>1, <2>2, <2>3, <2>4, <2>5, <2>6
<1>4. EndInv'
    BY <1>a, <1>2, <1>3 DEF EndInv, ReleasedAnswerIsCurrent
<1> QED BY <1>1, <1>4

\* A hook that matches nothing changes nothing.
LEMMA HookIgnoredStep ==
    ASSUME NEW g \in Gen, IndInv, TypeOK', HookIgnored(g)
    PROVE  IndInv'
<1> USE DEF IndInv
<1>a. /\ UNCHANGED <<standing, workGen, provGen, gates, decl, msg, reports, answer, received, ph, clk, accGen>>
      /\ Bound' => Bound
      /\ hooks' \subseteq hooks /\ finals' \cup reports' \subseteq finals \cup reports
    BY DEF HookIgnored, task, session, provider, Bound
<1>1. ReceivedInv' /\ PhaseInv' /\ MessageInv' /\ DeclInv' /\ TurnInv'
    BY <1>a, ReceivedFrame, PhaseFrame, MessageFrame, DeclFrame, TurnFrame
<1>2. EndInv'
    BY <1>a, EndFrame DEF HookIgnored, task
<1> QED BY <1>1, <1>2

\* A failed, cancelled or expired task.
LEMMA EndTaskStep ==
    ASSUME IndInv, TypeOK', EndTask
    PROVE  IndInv'
<1> USE DEF IndInv
<1>a. /\ UNCHANGED <<standing, workGen, provGen, gates, decl, msg, reports, answer, received, ph, clk, accGen>>
      /\ Bound' => Bound
      /\ hooks' \subseteq hooks /\ finals' \cup reports' \subseteq finals \cup reports
    BY DEF EndTask, task, session, provider, Bound
<1>1. ReceivedInv' /\ PhaseInv' /\ MessageInv' /\ DeclInv' /\ TurnInv'
    BY <1>a, ReceivedFrame, PhaseFrame, MessageFrame, DeclFrame, TurnFrame
<1>2. EndInv'
    BY <1>a, EndFrame DEF EndTask, task
<1> QED BY <1>1, <1>2

\* The process, the binding and the daemon come and go.
LEMMA SurroundingsStep ==
    ASSUME IndInv, TypeOK', Surroundings
    PROVE  IndInv'
<1> USE DEF IndInv
<1>a. /\ UNCHANGED <<status, standing, workGen, provGen, gates, decl, msg, reports, answer, received, hooks, clk, accGen>>
      /\ Bound' <=> Bound
      /\ finals' \subseteq finals
      /\ ph' = ph \/ ph' = [g \in Gen |-> "idle"]
    BY DEF Surroundings, Dies, Resume, LoseBinding, RepairBinding, Crash, task, session, provider, Bound
<1>1. ReceivedInv' /\ MessageInv' /\ DeclInv' /\ TurnInv'
    BY <1>a, ReceivedFrame, MessageFrame, DeclFrame, TurnFrame
<1>2. PhaseInv'
  <2>1. CASE ph' = ph
    BY <1>a, <2>1, PhaseFrame
  <2>2. CASE ph' = [g \in Gen |-> "idle"]
    BY <2>2 DEF PhaseInv, Gen, FollowUp
  <2> QED BY <1>a, <2>1, <2>2
<1>3. EndInv'
    BY <1>a, EndFrame
<1> QED BY <1>1, <1>2, <1>3

-----------------------------------------------------------------------------
\* Every step preserves the inductive invariant.
LEMMA InvStep == IndInv /\ [Next]_vars => IndInv'
<1> SUFFICES ASSUME IndInv, [Next]_vars PROVE IndInv'
    OBVIOUS
<1>0. TypeOK'
    BY TypeStep DEF IndInv
<1>1. CASE Dispatching
    BY <1>0, <1>1, DispatchAcceptedStep, DispatchUncertainStep DEF Dispatching
<1>2. CASE AppendMessage
    BY <1>0, <1>2, AppendMessageStep
<1>3. ASSUME NEW g \in Gen, Land(g) \/ Hook(g) \/ Declare(g) PROVE IndInv'
    BY <1>0, <1>3, LandStep, ExclusiveHookStep, StandingHookStep, HookIgnoredStep, DeclareStep DEF Hook
<1>4. ASSUME NEW g \in FollowUp, Delivering(g) PROVE IndInv'
    BY <1>0, <1>4, OpenDeliveryStep, PostponeStep, AuthorityLostStep, BeginDeliveryStep,
       KnownUndeliveredStep, AcceptedStep, DeliveryUncertainStep, InterruptedRecoveredStep,
       EndedBeforeDeliveryStep DEF Delivering
<1>5. CASE Reply \/ TurnEnds \/ FinalDeferred
    BY <1>0, <1>5, ReplyStep, TurnEndsStep, FinalDeferredStep
<1>6. ASSUME NEW f \in finals, ReportTurn(f) \/ DropFinal(f) PROVE IndInv'
    BY <1>0, <1>6, ReportStep
<1>7. CASE Release \/ EndTask
    BY <1>0, <1>7, ReleaseStep, EndTaskStep
<1>8. CASE Surroundings
    BY <1>0, <1>8, SurroundingsStep
<1>9. CASE UNCHANGED vars
  <2>1. /\ UNCHANGED <<status, standing, workGen, provGen, gates, decl, msg, reports, answer, received, hooks, clk, accGen, ph, finals>>
        /\ (Bound' <=> Bound)
    BY <1>9 DEF vars, task, session, provider, Bound
  <2> QED BY <1>0, <2>1, ReceivedFrame, PhaseFrame, MessageFrame, DeclFrame, TurnFrame, EndFrame DEF IndInv
<1> QED
    BY <1>1, <1>2, <1>3, <1>4, <1>5, <1>6, <1>7, <1>8, <1>9 DEF Next

\* The inductive invariant holds in every reachable state.
LEMMA Invariant == Spec => []IndInv
BY InitInv, InvStep, PTL DEF Spec

\* What releaseTeamTask delivers answers the newest follow-up: no earlier
\* turn, delayed or retained final can take its place.
THEOREM AnswerCurrent == Spec => []ReleasedAnswerIsCurrent
<1>1. IndInv => ReleasedAnswerIsCurrent
    BY DEF IndInv, EndInv
<1> QED BY <1>1, Invariant, PTL

\* A declaration never stands beside an undelivered message or a gate.
THEOREM DeclarationStaysCurrent == Spec => []DeclarationCurrent
<1>1. IndInv => DeclarationCurrent
    BY DEF IndInv, DeclInv
<1> QED BY <1>1, Invariant, PTL

\* The journal says delivered only of what the provider received: the prompts
\* received have no gap, so a generation up to the newest is one of them.
THEOREM NothingInventedDelivered == Spec => []DeliveredWasReceived
<1>1. IndInv => DeliveredWasReceived
  <2> SUFFICES ASSUME IndInv, NEW g \in FollowUp, msg[g] = "delivered"
               PROVE  \E i \in 1..Len(received) : received[i] = g
      BY DEF DeliveredWasReceived
  <2> USE DEF IndInv
  <2>1. g <= Newest /\ g \in Nat /\ g >= 2
      BY DEF MessageInv, FollowUp
  <2>2. received # <<>>
      BY <2>1, NewestFacts
  <2>3. Len(received) \in Nat \ {0} /\ received[1] \in {1, 2}
      BY <2>2 DEF TypeOK, ReceivedInv
  <2>4. Newest = received[1] + Len(received) - 1
      BY <2>2, <2>3 DEF Newest, ReceivedInv
  <2> DEFINE i == g - received[1] + 1
  <2>5. i \in 1..Len(received) /\ received[1] + i - 1 = g
      BY <2>1, <2>3, <2>4
  <2>6. received[i] = g
      BY <2>5 DEF ReceivedInv
  <2> QED BY <2>5, <2>6
<1> QED BY <1>1, Invariant, PTL

-----------------------------------------------------------------------------
(* The protocol implements TaskContract. *)

\* The claimed task is an open contract with one instruction.
LEMMA ContractInit == Init => Contract!Init
BY DEF Init, Contract!Init, Bound

\* A step that keeps the instructions, what was received and how the task
\* ended is a stutter of the contract.
LEMMA ContractStutter ==
    ASSUME UNCHANGED <<workGen, received>>, Bound' <=> Bound,
           ~Bound => (status' = status)
    PROVE  UNCHANGED Contract!vars
BY DEF Contract!vars, Bound

\* A prompt that lands is the contract's next instruction given.
LEMMA ContractLand ==
    ASSUME NEW g \in Gen, IndInv, Land(g)
    PROVE  Contract!Next
<1> USE DEF IndInv
<1>1. g <= workGen /\ (g = Newest + 1 \/ (g = 2 /\ received = <<>>))
    BY LandNext
<1>2. status # "completed" /\ UNCHANGED <<status, workGen>> /\ received' = Append(received, g)
    BY DEF Land, EndInv, task
<1>3. g \in 1..workGen /\ Contract!Newest(received) = Newest
    BY <1>1 DEF TypeOK, Gen, Contract!Newest, Newest
<1>4. Contract!Give(g)
    BY <1>1, <1>2, <1>3 DEF Contract!Give, Bound
<1> QED BY <1>3, <1>4 DEF Contract!Next

\* A release finishes the contract: the newest instruction was received.
LEMMA ContractRelease ==
    ASSUME IndInv, Release
    PROVE  Contract!Next
<1> USE DEF IndInv
<1>1. Bound /\ ~Unresolved /\ decl.at > 0 /\ received # <<>>
    BY DEF Release, ReleaseReady, DeclInv, Bound
<1>2. Newest = workGen
  <2>1. Newest <= workGen /\ Newest \in Nat /\ Newest >= 1 /\ workGen \in Gen
    BY <1>1, NewestFacts DEF ReceivedInv, TypeOK
  <2>2. CASE workGen = 1
    BY <2>1, <2>2
  <2>3. CASE workGen # 1
    <3>1. workGen \in FollowUp
      BY <2>1, <2>3 DEF Gen, FollowUp
    <3>2. msg[workGen] # "none"
      BY <2>1, <2>3 DEF MessageInv, Gen
    <3>3. workGen <= Newest
      BY <1>1, <3>1, <3>2 DEF Unresolved, MessageInv
    <3> QED BY <2>1, <3>3 DEF Gen
  <2> QED BY <2>2, <2>3
<1>3. status' = "completed" /\ ~Bound' /\ UNCHANGED <<workGen, received>>
    BY DEF Release, Bound, provider
<1>4. Contract!Newest(received) = Newest
    BY DEF Contract!Newest, Newest
<1> QED BY <1>1, <1>2, <1>3, <1>4 DEF Contract!Next, Contract!Finish

\* Every step is a step of the contract or changes nothing it speaks of.
LEMMA ContractStep ==
    ASSUME IndInv, [Next]_vars
    PROVE  [Contract!Next]_Contract!vars
<1> USE DEF task, session, provider, Bound
<1>1. ASSUME NEW g \in Gen, Land(g) PROVE Contract!Next
    BY <1>1, ContractLand
<1>2. CASE AppendMessage
    BY <1>2 DEF AppendMessage, Contract!Next, Contract!Ask
<1>3. CASE Release
    BY <1>3, ContractRelease
<1>4. CASE EndTask
    BY <1>4 DEF EndTask, Contract!Next, Contract!Drop
<1>5. CASE Dispatching
    BY <1>5, ContractStutter DEF Dispatching, DispatchAccepted, DispatchUncertain
<1>6. ASSUME NEW g \in FollowUp, Delivering(g) PROVE UNCHANGED Contract!vars
  <2>1. CASE OpenDelivery(g) \/ Postpone(g) \/ AuthorityLost(g) \/ BeginDelivery(g) \/ KnownUndelivered(g)
    BY <2>1, ContractStutter DEF OpenDelivery, Postpone, AuthorityLost, BeginDelivery, KnownUndelivered
  <2>2. CASE Accepted(g)
    BY <2>2, ContractStutter DEF Accepted, Complete
  <2>3. CASE DeliveryUncertain(g) \/ InterruptedRecovered(g) \/ EndedBeforeDelivery(g)
    BY <2>3, ContractStutter DEF DeliveryUncertain, InterruptedRecovered, EndedBeforeDelivery
  <2> QED BY <1>6, <2>1, <2>2, <2>3 DEF Delivering
<1>7. ASSUME NEW g \in Gen, Hook(g) \/ Declare(g) PROVE UNCHANGED Contract!vars
  <2>1. CASE ExclusiveHook(g) \/ StandingHook(g)
    BY <2>1, ContractStutter DEF ExclusiveHook, StandingHook, Acknowledge, Complete
  <2>2. CASE HookIgnored(g) \/ Declare(g)
    BY <2>2, ContractStutter DEF HookIgnored, Declare
  <2> QED BY <1>7, <2>1, <2>2 DEF Hook
<1>8. CASE Reply \/ TurnEnds \/ FinalDeferred
    BY <1>8, ContractStutter DEF Reply, TurnEnds, FinalDeferred
<1>9. ASSUME NEW f \in finals, ReportTurn(f) \/ DropFinal(f) PROVE UNCHANGED Contract!vars
    BY <1>9, ContractStutter DEF ReportTurn, DropFinal, Reportable
<1>10. CASE Surroundings
    BY <1>10, ContractStutter DEF Surroundings, Dies, Resume, LoseBinding, RepairBinding, Crash
<1>11. CASE UNCHANGED vars
    BY <1>11, ContractStutter DEF vars
<1> QED
    BY <1>1, <1>2, <1>3, <1>4, <1>5, <1>6, <1>7, <1>8, <1>9, <1>10, <1>11 DEF Next

\* At most once, in order, nothing skipped, and no release before the newest
\* follow-up was received, whatever crashes and races happen.
THEOREM Implementation == Spec => ImplementsContract
<1>1. Spec => Contract!Init
    BY ContractInit DEF Spec
<1>2. IndInv /\ [Next]_vars => [Contract!Next]_Contract!vars
    BY ContractStep
<1> QED BY <1>1, <1>2, Invariant, PTL DEF ImplementsContract, Contract!Spec, Spec

=============================================================================
