-------------------------- MODULE AgreementProofs --------------------------
(***************************************************************************)
(* A winner a provider has stored is the one the consumer decided on, and *)
(* the auction implements AuctionOutcome: for any number of auctions at   *)
(* once and any failures.                                                  *)
(***************************************************************************)
EXTENDS DecisionProofs

\* The consumer has decided that w wins t.
Decided(t, w) == \E f \in flows : f.txn = t /\ f.winner = w

\* What brings a winner to a provider, in flight or between the read of the
\* count and the rest of the handler, comes from a decision.
ToldOf == \A m \in net : m.type = "START_FLOW" => Decided(m.txn, m.winner)
CountedFor ==
    \A p \in Provider : \A o \in flowOps[p] : o.delta = 1 => Decided(o.txn, p)
StoredFor ==
    \A p \in Provider, t \in Txn :
        winner[p][t] # NoWinner => Decided(t, winner[p][t])

Heard == ToldOf /\ CountedFor /\ StoredFor

LEMMA HeardInit == Init => Heard
  BY DEF Init, WireInit, ProviderInit, ConsumerInit, Heard, ToldOf, CountedFor, StoredFor

\* A decision is never taken back: ending the flow only moves it on.
LEMMA DecisionsStay ==
    ASSUME TypeOK, [Next]_vars, NEW t, NEW w, Decided(t, w)
    PROVE  Decided(t, w)'
  <1>1. PICK f \in flows : f.txn = t /\ f.winner = w
    BY DEF Decided
  <1>2. CASE f \in flows'
    BY <1>1, <1>2 DEF Decided
  <1>3. CASE EndFlowStep
    <2>1. PICK g \in flows : flows' = (flows \ {g}) \cup {[g EXCEPT !.stage = "ended"]}
      BY <1>3 DEF EndFlowStep, FinishFlow
    <2>2. g \in Flow
      BY DEF TypeOK
    <2>3. [g EXCEPT !.stage = "ended"].txn = g.txn /\ [g EXCEPT !.stage = "ended"].winner = g.winner
      BY <2>2 DEF Flow
    <2> QED
      BY <1>1, <2>1, <2>3 DEF Decided
  <1>4. flows \subseteq flows' \/ EndFlowStep
    <2>1. CASE ConsumerStep
      BY <2>1 DEF ConsumerStep, TriggerBuy, InformStep, HandleInformVote
    <2>2. CASE FailureStep \/ (\E p \in Provider : ProviderStep(p)) \/ UNCHANGED vars
      BY <2>2 DEF FailureStep, ProviderStep, vars, consumerVars
    <2> QED
      BY <2>1, <2>2 DEF Next
  <1> QED
    BY <1>2, <1>3, <1>4

\* A step that tells nobody of a winner and stores none.
LEMMA HeardFrame ==
    ASSUME TypeOK, Heard, [Next]_vars,
           \A m \in net' : m.type = "START_FLOW" => m \in net,
           \A p \in Provider : \A o \in flowOps'[p] : o.delta = 1 => o \in flowOps[p],
           \A p \in Provider, t \in Txn :
               winner'[p][t] # NoWinner => winner'[p][t] = winner[p][t]
    PROVE  Heard'
  <1>1. ToldOf'
    BY DecisionsStay DEF Heard, ToldOf
  <1>2. CountedFor'
    BY DecisionsStay DEF Heard, CountedFor
  <1>3. StoredFor'
    BY DecisionsStay DEF Heard, StoredFor
  <1> QED
    BY <1>1, <1>2, <1>3 DEF Heard

-----------------------------------------------------------------------------
(* The steps that tell or store a winner *)

LEMMA HeardBuy ==
    ASSUME TypeOK, Heard, [Next]_vars, NEW p0 \in Provider, BuyStep(p0)
    PROVE  Heard'
  <1>1. PICK m0 \in net : HandleBuy(p0, m0)
    BY DEF BuyStep
  <1>2. m0.txn \in Txn
    BY <1>1, EventTypes DEF TypeOK, HandleBuy, Arrives, BuyEvent
  <1>3. \A m \in net' : m.type = "START_FLOW" => m \in net
    BY <1>1 DEF HandleBuy, Handle, RequestVote
  <1>4. \A p \in Provider, t \in Txn :
          winner'[p][t] # NoWinner => winner'[p][t] = winner[p][t]
    BY <1>1, <1>2 DEF HandleBuy, TypeOK
  <1>5. UNCHANGED flowOps
    BY <1>1 DEF HandleBuy
  <1> QED
    BY <1>3, <1>4, <1>5, HeardFrame

\* The winner learns of its flow, the others store the winner at once.
LEMMA HeardStart ==
    ASSUME TypeOK, Heard, [Next]_vars, NEW p0 \in Provider, StartStep(p0),
           UNCHANGED flows
    PROVE  Heard'
  <1>1. PICK m0 \in net : HandleStartFlow(p0, m0)
    BY DEF StartStep
  <1>2. m0.txn \in Txn /\ m0.type = "START_FLOW"
    BY <1>1, EventTypes DEF TypeOK, HandleStartFlow, Arrives, StartEvent
  <1>3. Decided(m0.txn, m0.winner)
    BY <1>2 DEF Heard, ToldOf
  <1>4. ToldOf'
    BY <1>1 DEF HandleStartFlow, Consume, Heard, ToldOf, Decided
  <1>5. CountedFor'
    <2>1. ASSUME NEW p \in Provider, NEW o \in flowOps'[p], o.delta = 1
          PROVE  o \in flowOps[p] \/ (o.txn = m0.txn /\ p = m0.winner)
      BY <1>1, <2>1 DEF HandleStartFlow, TypeOK
    <2> QED
      BY <1>3, <2>1 DEF Heard, CountedFor, Decided
  <1>6. StoredFor'
    <2>1. ASSUME NEW p \in Provider, NEW t \in Txn
          PROVE  \/ winner'[p][t] = winner[p][t]
                 \/ t = m0.txn /\ winner'[p][t] = m0.winner
      <3>1. \/ winner' = winner
            \/ winner' = [winner EXCEPT ![p0][m0.txn] = m0.winner]
        BY <1>1 DEF HandleStartFlow
      <3>2. winner \in [Provider -> [Txn -> Name \cup {NoWinner}]]
        BY DEF TypeOK
      <3> QED
        BY <1>2, <3>1, <3>2
    <2> QED
      BY <1>3, <2>1 DEF Heard, StoredFor, Decided
  <1> QED
    BY <1>4, <1>5, <1>6 DEF Heard

\* The winner of a flow stores itself after counting it.
LEMMA HeardCount ==
    ASSUME TypeOK, Heard, NEW p0 \in Provider, CountStep(p0), UNCHANGED flows
    PROVE  Heard'
  <1>1. PICK o0 \in flowOps[p0] : FinishFlowOp(p0, o0)
    BY DEF CountStep
  <1>2. o0.txn \in Txn
    BY DEF TypeOK, FlowOp
  <1>3. ToldOf'
    BY <1>1 DEF FinishFlowOp, wireVars, Heard, ToldOf, Decided
  <1>4. CountedFor'
    <2>1. \A p \in Provider : flowOps'[p] \subseteq flowOps[p]
      BY <1>1 DEF FinishFlowOp, TypeOK
    <2> QED
      BY <2>1 DEF Heard, CountedFor, Decided
  <1>5. StoredFor'
    <2>1. ASSUME NEW p \in Provider, NEW t \in Txn
          PROVE  \/ winner'[p][t] = winner[p][t]
                 \/ o0.delta = 1 /\ p = p0 /\ t = o0.txn /\ winner'[p][t] = p0
      BY <1>1, <1>2 DEF FinishFlowOp, TypeOK
    <2>2. o0.delta = 1 => Decided(o0.txn, p0)
      BY DEF Heard, CountedFor
    <2> QED
      BY <2>1, <2>2 DEF Heard, StoredFor, Decided
  <1> QED
    BY <1>3, <1>4, <1>5 DEF Heard

\* The decision itself: every START_FLOW carries it.
LEMMA HeardInform ==
    ASSUME TypeOK, Heard, [Next]_vars, InformStep, UNCHANGED providerVars
    PROVE  Heard'
  <1>1. PICK m0 \in net : HandleInformVote(m0)
    BY DEF InformStep
  <1>2. ToldOf'
    <2>1. ASSUME NEW m \in net', m.type = "START_FLOW", m \notin net
          PROVE  Decided(m.txn, m.winner)'
      <3>1. PICK w \in Winners, q \in Provider :
              /\ m = StartFlow(m0.txn, q, w)
              /\ flows' = flows \cup {[txn |-> m0.txn, by |-> m0.from,
                                       winner |-> w, stage |-> "streaming"]}
        BY <1>1, <2>1 DEF HandleInformVote, Handle, Consume
      <3>2. m.txn = m0.txn /\ m.winner = w
        BY <3>1 DEF StartFlow
      <3>3. [txn |-> m0.txn, by |-> m0.from, winner |-> w, stage |-> "streaming"] \in flows'
        BY <3>1
      <3> QED
        BY <3>2, <3>3 DEF Decided
    <2>2. ASSUME NEW m \in net, m.type = "START_FLOW"
          PROVE  Decided(m.txn, m.winner)'
      BY <2>2, DecisionsStay DEF Heard, ToldOf
    <2> QED
      BY <2>1, <2>2 DEF ToldOf
  <1>3. CountedFor' /\ StoredFor'
    BY DecisionsStay DEF Heard, CountedFor, StoredFor, providerVars
  <1> QED
    BY <1>2, <1>3 DEF Heard

-----------------------------------------------------------------------------
(* The other steps *)

\* No other event handler of a provider tells or stores a winner.
LEMMA HeardVote ==
    ASSUME TypeOK, Heard, [Next]_vars, NEW p0 \in Provider,
           RequestStep(p0) \/ PriceStep(p0) \/ CastStep(p0) \/ ReplyStep(p0)
    PROVE  Heard'
  <1>1. \A m \in net' : m.type = "START_FLOW" => m \in net
    <2>1. CASE RequestStep(p0)
      <3>1. PICK m0 \in net : \/ AcceptRequest(p0, m0)
                              \/ RetryRequest(p0, m0)
                              \/ DropRequest(p0, m0)
        BY <2>1 DEF RequestStep
      <3>2. m0 \in RequestEvent
        BY <3>1, EventTypes
           DEF TypeOK, AcceptRequest, RetryRequest, DropRequest, Arrives
      <3>3. [m0 EXCEPT !.tries = @ + 1].type = "REQUEST_VOTE"
        BY <3>2 DEF RequestEvent
      <3> QED
        BY <3>1, <3>3 DEF AcceptRequest, RetryRequest, DropRequest, Consume, Handle
    <2>2. CASE PriceStep(p0) \/ CastStep(p0)
      BY <2>2 DEF PriceStep, SeeAllPrices, wireVars, CastStep, CastVote, Send, ReplyVote
    <2>3. CASE ReplyStep(p0)
      BY <2>3 DEF ReplyStep, HandleReplyVote, Handle, Consume, InformVote
    <2> QED
      BY <2>1, <2>2, <2>3
  <1>2. UNCHANGED <<flowOps, winner>>
    BY DEF RequestStep, AcceptRequest, RetryRequest, DropRequest, PriceStep, CastStep,
           SeeAllPrices, CastVote, ReplyStep, HandleReplyVote, providerVars
  <1> QED
    BY <1>1, <1>2, HeardFrame

LEMMA HeardRest ==
    ASSUME TypeOK, Heard, [Next]_vars, NEW p0 \in Provider,
           EndStep(p0) \/ BeaconStep(p0) \/ EmitStep(p0)
    PROVE  Heard'
  <1>1. \A m \in net' : m.type = "START_FLOW" => m \in net
    <2>1. CASE EndStep(p0) \/ BeaconStep(p0)
      BY <2>1 DEF EndStep, HandleTransactionEnd, BeaconStep, BeaconRead, BeaconWrite,
                  Consume, wireVars
    <2>2. CASE EmitStep(p0)
      BY <2>2 DEF EmitStep, EmitBeacon, Send, Beacon
    <2> QED
      BY <2>1, <2>2
  <1>2. \A p \in Provider : \A o \in flowOps'[p] : o.delta = 1 => o \in flowOps[p]
    <2>1. CASE EndStep(p0)
      <3>1. PICK m0 \in net : HandleTransactionEnd(p0, m0)
        BY <2>1 DEF EndStep
      <3>2. \/ flowOps' = flowOps
            \/ \E n \in Int : flowOps' = [flowOps EXCEPT ![p0] = @ \cup
                   {[txn |-> m0.txn, delta |-> -1, seen |-> n]}]
        BY <3>1 DEF HandleTransactionEnd, TypeOK
      <3>3. ASSUME NEW n \in Int, NEW p \in Provider,
                   flowOps' = [flowOps EXCEPT ![p0] = @ \cup
                     {[txn |-> m0.txn, delta |-> -1, seen |-> n]}]
            PROVE  \A o \in flowOps'[p] : o.delta = 1 => o \in flowOps[p]
        <4>1. [txn |-> m0.txn, delta |-> -1, seen |-> n].delta # 1
          OBVIOUS
        <4> QED
          BY <3>3, <4>1 DEF TypeOK
      <3> QED
        BY <3>2, <3>3
    <2>2. CASE BeaconStep(p0) \/ EmitStep(p0)
      BY <2>2 DEF BeaconStep, BeaconRead, BeaconWrite, EmitStep, EmitBeacon, providerVars
    <2> QED
      BY <2>1, <2>2
  <1>3. UNCHANGED winner
    BY DEF EndStep, HandleTransactionEnd, BeaconStep, BeaconRead, BeaconWrite,
           EmitStep, EmitBeacon, providerVars
  <1> QED
    BY <1>1, <1>2, <1>3, HeardFrame

\* Neither do the other steps of the consumer, nor any failure.
LEMMA HeardOthers ==
    ASSUME TypeOK, Heard, [Next]_vars,
           \/ ((\E t \in Txn : TriggerBuy(t)) \/ EndFlowStep) /\ UNCHANGED providerVars
           \/ FailureStep
    PROVE  Heard'
  <1>1. \A m \in net' : m.type = "START_FLOW" => m \in net
    BY DEF TriggerBuy, EndFlowStep, FinishFlow, Send, Buy, TransactionEnd,
           FailureStep, ConnectionFails, Crash, Consume
  <1>2. UNCHANGED <<flowOps, winner>>
    BY DEF FailureStep, providerVars
  <1> QED
    BY <1>1, <1>2, HeardFrame

-----------------------------------------------------------------------------
(* Every provider stores what was decided *)

LEMMA HeardStep ==
    ASSUME TypeOK, Heard, [Next]_vars
    PROVE  Heard'
  <1>1. CASE ConsumerStep
    BY <1>1, HeardInform, HeardOthers DEF ConsumerStep
  <1>2. CASE FailureStep
    BY <1>2, HeardOthers
  <1>3. ASSUME NEW p \in Provider, ProviderStep(p) PROVE Heard'
    <2>1. UNCHANGED flows
      BY <1>3 DEF ProviderStep, consumerVars
    <2> QED
      BY <1>3, <2>1, HeardBuy, HeardStart, HeardCount, HeardVote, HeardRest
         DEF ProviderStep
  <1>4. CASE UNCHANGED vars
    BY <1>4, HeardFrame DEF vars, wireVars, providerVars
  <1> QED
    BY <1>1, <1>2, <1>3, <1>4 DEF Next

\* The invariant of the winners.
THEOREM HeardHolds == Spec => []Heard
  <1>1. TypeOK /\ Heard /\ [Next]_vars => Heard'
    BY HeardStep
  <1> QED
    BY <1>1, HeardInit, TypeCorrect, PTL DEF Spec

\* Two providers never store different winners of a transaction that is decided
\* once: what each has stored is what the consumer decided.
THEOREM Agreed == Spec => []Agreement
  <1>1. Heard => Agreement
    BY DEF Heard, StoredFor, Decided, Agreement
  <1> QED
    BY <1>1, HeardHolds, PTL

-----------------------------------------------------------------------------
(* Every step is a step of AuctionOutcome, or changes nothing it can see *)

\* The refinement mapping of Outcome, by name.
outcomeBar == [t \in Txn |-> {f.winner : f \in {g \in flows : g.txn = t}}]
learnedBar == [p \in Provider |-> [t \in Txn |-> {winner[p][t]} \ {NoWinner}]]

barVars == <<triggered, allFFSnew, outcomeBar, learnedBar>>

\* What the steps rest on.
Inv == TypeOK /\ Core /\ Heard

THEOREM InvHolds == NamesMatch /\ Spec => []Inv
  BY TypeCorrect, CoreHolds, HeardHolds, PTL DEF Inv

-----------------------------------------------------------------------------
(* What is decided and what is stored *)

\* The outcome of a transaction that has a decision is the winner of it.
LEMMA OutcomeOfDecided ==
    ASSUME Inv, NEW t \in Txn, NEW w, Decided(t, w)
    PROVE  outcomeBar[t] = {w}
  <1>1. PICK f \in flows : f.txn = t /\ f.winner = w
    BY DEF Decided
  <1>2. \A g \in flows : g.txn = t => g = f
    BY <1>1 DEF Inv, Core, OneDecision
  <1> QED
    BY <1>1, <1>2 DEF outcomeBar

\* A provider can only have stored the winner that is decided.
LEMMA StoredIsDecided ==
    ASSUME Inv, NEW p \in Provider, NEW t \in Txn, NEW w, Decided(t, w)
    PROVE  winner[p][t] \in {NoWinner, w}
  <1>1. CASE winner[p][t] # NoWinner
    <2>1. Decided(t, winner[p][t])
      BY <1>1 DEF Inv, Heard, StoredFor
    <2> QED
      BY <2>1 DEF Inv, Core, OneDecision, Decided
  <1> QED
    BY <1>1

\* A provider without a record of a transaction has no winner of it: every
\* provider had voted before the decision.
LEMMA UnknownIsUndecided ==
    ASSUME Inv, NEW p \in Provider, NEW t \in Txn, t \notin transactions[p]
    PROVE  winner[p][t] = NoWinner
  <1> SUFFICES ASSUME winner[p][t] # NoWinner PROVE FALSE
    OBVIOUS
  <1>1. PICK f \in flows : f.txn = t
    BY DEF Inv, Heard, StoredFor, Decided
  <1>2. allFFSnew[t] = Provider
    BY <1>1 DEF Inv, Core, DecisionComesLast
  <1>3. allFFS[p][t] = Provider
    BY <1>2 DEF Inv, Core, EvaluationInOnePlace
  <1>4. allFFS[p][t] = {}
    BY DEF Inv, Core, BuyComesFirst
  <1> QED
    BY <1>3, <1>4

-----------------------------------------------------------------------------
(* The steps of the providers *)

\* Storing the decided winner, or nothing, is to learn it or a stutter.
LEMMA StoreIsLearn ==
    ASSUME Inv, NEW p \in Provider, NEW t \in Txn, NEW w, Decided(t, w),
           winner' = [winner EXCEPT ![p][t] = w],
           UNCHANGED <<triggered, allFFSnew, flows>>
    PROVE  Outcome!Next \/ UNCHANGED barVars
  <1>1. winner[p][t] \in {NoWinner, w} /\ outcomeBar[t] = {w}
    BY StoredIsDecided, OutcomeOfDecided
  <1>2. UNCHANGED outcomeBar
    BY DEF outcomeBar
  <1>3. winner \in [Provider -> [Txn -> Name \cup {NoWinner}]]
    BY DEF Inv, TypeOK
  <1>4. CASE winner[p][t] = w
    <2>1. winner' = winner
      BY <1>3, <1>4
    <2> QED
      BY <1>2, <2>1 DEF barVars, learnedBar
  <1>5. CASE winner[p][t] = NoWinner /\ w # NoWinner
    <2>1. learnedBar[p][t] = {}
      BY <1>5 DEF learnedBar
    <2>2. learnedBar' = [learnedBar EXCEPT ![p][t] = {w}]
      <3>1. ASSUME NEW q \in Provider, NEW s \in Txn
            PROVE  winner'[q][s] = IF q = p /\ s = t THEN w ELSE winner[q][s]
        BY <1>3
      <3>2. {w} \ {NoWinner} = {w}
        BY <1>5
      <3>3. ASSUME NEW q \in Provider
            PROVE  learnedBar'[q] = IF q = p THEN [learnedBar[q] EXCEPT ![t] = {w}]
                                    ELSE learnedBar[q]
        <4>1. learnedBar[q] = [s \in Txn |-> {winner[q][s]} \ {NoWinner}]
          BY DEF learnedBar
        <4>2. learnedBar'[q] = [s \in Txn |-> {winner'[q][s]} \ {NoWinner}]
          BY DEF learnedBar
        <4>3. CASE q = p
          <5>1. ASSUME NEW s \in Txn
                PROVE  {winner'[q][s]} \ {NoWinner} =
                         IF s = t THEN {w} ELSE {winner[q][s]} \ {NoWinner}
            <6>1. CASE s = t
              BY <3>1, <3>2, <4>3, <6>1
            <6>2. CASE s # t
              BY <3>1, <4>3, <6>2
            <6> QED
              BY <6>1, <6>2
          <5> DEFINE old(s) == {winner[q][s]} \ {NoWinner}
                     new(s) == {winner'[q][s]} \ {NoWinner}
          <5>2. learnedBar[q] = [s \in Txn |-> old(s)] /\ learnedBar'[q] = [s \in Txn |-> new(s)]
            BY <4>1, <4>2
          <5>3. \A s \in Txn : new(s) = IF s = t THEN {w} ELSE old(s)
            BY <5>1
          <5> HIDE DEF old, new
          <5> QED
            BY <4>3, <5>2, <5>3
        <4>4. CASE q # p
          BY <3>1, <4>1, <4>2, <4>4
        <4> QED
          BY <4>3, <4>4
      <3>4. learnedBar = [q \in Provider |-> learnedBar[q]]
            /\ learnedBar' = [q \in Provider |-> learnedBar'[q]]
        BY DEF learnedBar
      <3> QED
        BY <3>3, <3>4
    <2>3. outcomeBar[t] \notin {{}, {NoWinner}}
      BY <1>1, <1>5
    <2>4. Outcome!Learn(p, t)
      BY <1>1, <1>2, <2>1, <2>2, <2>3 DEF Outcome!Learn, outcomeBar, learnedBar
    <2> QED
      BY <2>4 DEF Outcome!Next
  <1> QED
    BY <1>1, <1>4, <1>5

LEMMA ProviderRefines ==
    ASSUME NamesMatch, Inv, NEW p \in Provider, ProviderStep(p)
    PROVE  Outcome!Next \/ UNCHANGED barVars
  <1>1. UNCHANGED <<triggered, allFFSnew, flows>>
    BY DEF ProviderStep, consumerVars
  <1>2. winner' = winner => UNCHANGED barVars
    BY <1>1 DEF barVars, outcomeBar, learnedBar
  <1>3. CASE BuyStep(p)
    <2>1. PICK m \in net : HandleBuy(p, m)
      BY <1>3 DEF BuyStep
    <2>2. m.txn \in Txn /\ m = Buy(m.txn, p)
      BY <2>1, EventShapes, EventTypes DEF Inv, TypeOK, HandleBuy, Arrives, BuyEvent
    <2>3. m.txn \notin transactions[p]
      BY <2>2 DEF Inv, Core, BuyComesFirst
    <2>4. winner[p][m.txn] = NoWinner
      BY <2>2, <2>3, UnknownIsUndecided
    <2>5. winner' = [winner EXCEPT ![p][m.txn] = NoWinner]
      BY <2>1 DEF HandleBuy
    <2>6. winner' = winner
      BY <2>2, <2>4, <2>5 DEF Inv, TypeOK
    <2> QED
      BY <1>2, <2>6
  <1>4. CASE StartStep(p)
    <2>1. PICK m \in net : HandleStartFlow(p, m)
      BY <1>4 DEF StartStep
    <2>2. m.txn \in Txn /\ Decided(m.txn, m.winner)
      BY <2>1, EventTypes
         DEF Inv, TypeOK, HandleStartFlow, Arrives, StartEvent, Heard, ToldOf
    <2>3. winner' = winner \/ winner' = [winner EXCEPT ![p][m.txn] = m.winner]
      BY <2>1 DEF HandleStartFlow
    <2> QED
      BY <1>1, <1>2, <2>2, <2>3, StoreIsLearn
  <1>5. CASE CountStep(p)
    <2>1. PICK o \in flowOps[p] : FinishFlowOp(p, o)
      BY <1>5 DEF CountStep
    <2>2. o.txn \in Txn /\ (o.delta = 1 => Decided(o.txn, p))
      BY DEF Inv, TypeOK, FlowOp, Heard, CountedFor
    <2>3. winner' = winner \/ (o.delta = 1 /\ winner' = [winner EXCEPT ![p][o.txn] = p])
      BY <2>1 DEF FinishFlowOp
    <2> QED
      BY <1>1, <1>2, <2>2, <2>3, StoreIsLearn
  <1>6. CASE RequestStep(p) \/ PriceStep(p) \/ CastStep(p) \/ ReplyStep(p) \/ EndStep(p)
    <2>1. winner' = winner
      BY <1>6 DEF RequestStep, AcceptRequest, RetryRequest, DropRequest, PriceStep,
                  SeeAllPrices, CastStep, CastVote, ReplyStep, HandleReplyVote,
                  EndStep, HandleTransactionEnd, providerVars
    <2> QED
      BY <1>2, <2>1
  <1>7. CASE BeaconStep(p) \/ EmitStep(p)
    <2>1. winner' = winner
      BY <1>7 DEF BeaconStep, BeaconRead, BeaconWrite, EmitStep, EmitBeacon, providerVars
    <2> QED
      BY <1>2, <2>1
  <1> QED
    BY <1>3, <1>4, <1>5, <1>6, <1>7 DEF ProviderStep

-----------------------------------------------------------------------------
(* The steps of the consumer *)

LEMMA TriggerRefines ==
    ASSUME Inv, NEW t \in Txn, TriggerBuy(t), UNCHANGED providerVars
    PROVE  Outcome!Next
  <1>1. t \notin triggered /\ triggered' = triggered \cup {t}
    BY DEF TriggerBuy
  <1>2. UNCHANGED <<allFFSnew, outcomeBar, learnedBar>>
    BY DEF TriggerBuy, outcomeBar, learnedBar, providerVars
  <1>3. Outcome!Open(t)
    BY <1>1, <1>2 DEF Outcome!Open, outcomeBar, learnedBar
  <1> QED
    BY <1>3 DEF Outcome!Next

\* An evaluation is counted; the last one decides a transaction that nobody has
\* decided before.
LEMMA InformRefines ==
    ASSUME Inv, InformStep, UNCHANGED providerVars
    PROVE  Outcome!Next
  <1>1. PICK m \in net : HandleInformVote(m)
    BY DEF InformStep
  <1> DEFINE t == m.txn
             p == m.from
             rows == allFFSnew[t] \cup {p}
             Decision(w) == [txn |-> t, by |-> p, winner |-> w, stage |-> "streaming"]
  <1>2. t \in Txn /\ p \in Provider /\ m = InformVote(t, p)
    BY <1>1, EventShapes, EventTypes
       DEF Inv, TypeOK, HandleInformVote, Arrives, InformEvent
  <1>3. t \in triggered /\ p \notin allFFSnew[t]
    BY <1>2 DEF Inv, Core, EvaluationInOnePlace
  <1>4. /\ allFFSnew' = [allFFSnew EXCEPT ![t] = @ \cup {p}]
        /\ UNCHANGED <<triggered, winner>>
        /\ \/ ~HasAllEvaluations(rows) /\ flows' = flows
           \/ /\ HasAllEvaluations(rows)
              /\ \E w \in Winners : flows' = flows \cup {Decision(w)}
    BY <1>1, <1>3 DEF HandleInformVote, providerVars
  <1>5. HasAllEvaluations(rows) <=> rows = Provider
    <2>1. rows \in SUBSET Provider
      BY <1>2 DEF Inv, TypeOK
    <2>2. Cardinality(rows) >= Cardinality(Provider) => rows = Provider
      BY <2>1, FullRows
    <2>3. Cardinality(Provider) >= Cardinality(Provider)
      BY ProviderAssumption, FS_CardinalityType
    <2> QED
      BY <2>2, <2>3 DEF HasAllEvaluations
  <1>6. UNCHANGED learnedBar
    BY <1>4 DEF learnedBar
  <1>7. \A f \in flows : f.txn # t
    BY <1>2, <1>3 DEF Inv, Core, DecisionComesLast
  <1>8. IF rows = Provider
        THEN \E w \in Name \cup {NoWinner} : outcomeBar' = [outcomeBar EXCEPT ![t] = {w}]
        ELSE UNCHANGED outcomeBar
    <2>1. CASE rows = Provider
      <3>1. PICK w \in Winners : flows' = flows \cup {Decision(w)}
        BY <1>4, <1>5, <2>1
      <3>2. w \in Name \cup {NoWinner}
        BY ListedAssumption DEF Winners, ListedName
      <3>3. Decision(w).txn = t /\ Decision(w).winner = w
        OBVIOUS
      <3> HIDE DEF Decision
      <3>4. ASSUME NEW s \in Txn
            PROVE  {f.winner : f \in {g \in flows' : g.txn = s}} =
                     IF s = t THEN {w} ELSE {f.winner : f \in {g \in flows : g.txn = s}}
        <4>1. CASE s = t
          <5>1. {g \in flows' : g.txn = s} = {Decision(w)}
            BY <1>7, <3>1, <3>3, <4>1
          <5> QED
            BY <3>3, <4>1, <5>1
        <4>2. CASE s # t
          <5>1. {g \in flows' : g.txn = s} = {g \in flows : g.txn = s}
            BY <3>1, <3>3, <4>2
          <5> QED
            BY <4>2, <5>1
        <4> QED
          BY <4>1, <4>2
      <3>5. outcomeBar' = [outcomeBar EXCEPT ![t] = {w}]
        <4> DEFINE old(s) == {f.winner : f \in {g \in flows : g.txn = s}}
                   new(s) == {f.winner : f \in {g \in flows' : g.txn = s}}
        <4>1. outcomeBar = [s \in Txn |-> old(s)] /\ outcomeBar' = [s \in Txn |-> new(s)]
          BY DEF outcomeBar
        <4>2. \A s \in Txn : new(s) = IF s = t THEN {w} ELSE old(s)
          BY <3>4
        <4> HIDE DEF old, new
        <4> QED
          BY <4>1, <4>2
      <3> QED
        BY <2>1, <3>2, <3>5
    <2>2. CASE rows # Provider
      BY <1>4, <1>5, <2>2 DEF outcomeBar
    <2> QED
      BY <2>1, <2>2
  <1>9. Outcome!Evaluate(t, p)
    BY <1>2, <1>3, <1>4, <1>6, <1>8 DEF Outcome!Evaluate, outcomeBar, learnedBar
  <1> QED
    BY <1>2, <1>9 DEF Outcome!Next

\* Ending the flow keeps its winner.
LEMMA EndRefines ==
    ASSUME Inv, EndFlowStep, UNCHANGED providerVars
    PROVE  UNCHANGED barVars
  <1>1. PICK g \in flows : FinishFlow(g)
    BY DEF EndFlowStep
  <1> DEFINE h == [g EXCEPT !.stage = "ended"]
  <1>2. h.txn = g.txn /\ h.winner = g.winner
    BY DEF Inv, TypeOK, Flow
  <1>3. flows' = (flows \ {g}) \cup {h} /\ UNCHANGED <<triggered, allFFSnew>>
    BY <1>1 DEF FinishFlow
  <1> HIDE DEF h
  <1>4. ASSUME NEW s \in Txn
        PROVE  {f.winner : f \in {x \in flows' : x.txn = s}} =
                 {f.winner : f \in {x \in flows : x.txn = s}}
    BY <1>2, <1>3
  <1>5. UNCHANGED outcomeBar
    BY <1>4 DEF outcomeBar
  <1>6. UNCHANGED learnedBar
    BY DEF learnedBar, providerVars
  <1> QED
    BY <1>3, <1>5, <1>6 DEF barVars

-----------------------------------------------------------------------------
(* The refinement *)

LEMMA StepRefines ==
    ASSUME NamesMatch, Inv, [Next]_vars
    PROVE  Outcome!Next \/ UNCHANGED barVars
  <1>1. CASE ConsumerStep
    BY <1>1, TriggerRefines, InformRefines, EndRefines DEF ConsumerStep
  <1>2. CASE FailureStep \/ UNCHANGED vars
    BY <1>2 DEF FailureStep, vars, providerVars, consumerVars, barVars, outcomeBar, learnedBar
  <1> QED
    BY <1>1, <1>2, ProviderRefines DEF Next

LEMMA InitRefines == Init => Outcome!Init
  BY DEF Init, ProviderInit, ConsumerInit, Outcome!Init

\* Messages, retries, polling, beacons and failures aside, the auction counts
\* every evaluation once, decides once, and its providers learn the decision.
THEOREM AuctionImplementsOutcome == NamesMatch /\ Spec => ImplementsOutcome
  <1> SUFFICES ASSUME NamesMatch PROVE Spec => ImplementsOutcome
    OBVIOUS
  <1>1. Inv /\ [Next]_vars => [Outcome!Next]_Outcome!outcomeVars
    BY StepRefines DEF barVars, outcomeBar, learnedBar, Outcome!outcomeVars
  <1> QED
    BY <1>1, InitRefines, InvHolds, PTL DEF Spec, ImplementsOutcome, Outcome!Spec
=============================================================================
