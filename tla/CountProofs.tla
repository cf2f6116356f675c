---------------------------- MODULE CountProofs ----------------------------
(***************************************************************************)
(* The flow count of a provider never exceeds the flows it was told it    *)
(* won, although its handlers read and write it without the mutex: for    *)
(* any number of auctions at once and any failures.                        *)
(***************************************************************************)
EXTENDS AgreementProofs

\* A provider is told of a flow once: a START_FLOW is alone with its transaction
\* and receiver, and what it tells has not been told.
ToldOnce ==
    \A m \in net : m.type = "START_FLOW" =>
        /\ m.txn \notin FlowsToldOf(m.to)
        /\ \A n \in net : n.type = "START_FLOW" /\ n.txn = m.txn /\ n.to = m.to => n = m

ToldFinite == \A p \in Provider : IsFiniteSet(FlowsToldOf(p))

\* The count a handler has read was bounded before its own flow was told.
SeenIsBounded ==
    \A p \in Provider : \A o \in flowOps[p] :
        o.seen <= Cardinality(FlowsToldOf(p) \ (IF o.delta = 1 THEN {o.txn} ELSE {}))

Counted == ToldOnce /\ ToldFinite /\ SeenIsBounded /\ CountIsBounded

LEMMA CountedInit == Init => Counted
  <1> SUFFICES ASSUME Init PROVE Counted
    OBVIOUS
  <1>1. ASSUME NEW p \in Provider PROVE FlowsToldOf(p) = {}
    <2>1. \A t \in Txn : winner[p][t] # p
      BY NameAssumption DEF Init, ProviderInit
    <2> QED
      BY <2>1 DEF FlowsToldOf, Init, ProviderInit
  <1>2. IsFiniteSet({}) /\ Cardinality({}) = 0
    BY FS_EmptySet
  <1>3. ToldOnce
    BY DEF ToldOnce, Init, WireInit
  <1>4. ToldFinite
    BY <1>1, <1>2 DEF ToldFinite
  <1>5. SeenIsBounded
    BY DEF SeenIsBounded, Init, ProviderInit
  <1>6. CountIsBounded
    <2>1. \A p \in Provider : activeFlowCount[p] = 0
      BY DEF Init, ProviderInit
    <2> QED
      BY <1>1, <1>2, <2>1 DEF CountIsBounded
  <1> QED
    BY <1>3, <1>4, <1>5, <1>6 DEF Counted

\* More flows told, larger bounds, also without any one of them.
LEMMA MoreTold ==
    ASSUME NEW S, NEW T, IsFiniteSet(T), S \subseteq T, NEW U
    PROVE  /\ IsFiniteSet(S \ U) /\ IsFiniteSet(T \ U)
           /\ Cardinality(S \ U) \in Nat /\ Cardinality(T \ U) \in Nat
           /\ Cardinality(S \ U) <= Cardinality(T \ U)
  <1>1. T \ U \subseteq T /\ S \ U \subseteq T \ U
    OBVIOUS
  <1>2. IsFiniteSet(T \ U)
    BY <1>1, FS_Subset
  <1>3. IsFiniteSet(S \ U) /\ Cardinality(S \ U) <= Cardinality(T \ U)
    BY <1>1, <1>2, FS_Subset
  <1> QED
    BY <1>2, <1>3, FS_CardinalityType

\* A step that tells nothing and leaves the counting alone.
LEMMA CountedFrame ==
    ASSUME Counted,
           \A m \in net' : m.type = "START_FLOW" => m \in net,
           UNCHANGED <<flowOps, winner, activeFlowCount>>
    PROVE  Counted'
  <1>1. \A p : FlowsToldOf(p)' = FlowsToldOf(p)
    BY DEF FlowsToldOf
  <1>2. ToldOnce'
    BY <1>1 DEF Counted, ToldOnce
  <1>3. ToldFinite' /\ SeenIsBounded' /\ CountIsBounded'
    BY <1>1 DEF Counted, ToldFinite, SeenIsBounded, CountIsBounded
  <1> QED
    BY <1>2, <1>3 DEF Counted

-----------------------------------------------------------------------------
(* The decision tells, START_FLOW is told *)

\* Nobody has heard of a transaction that is not decided.
LEMMA UndecidedUntold ==
    ASSUME Inv, NEW t \in Txn, \A f \in flows : f.txn # t
    PROVE  /\ \A p \in Provider : t \notin FlowsToldOf(p)
           /\ \A m \in net : m.type = "START_FLOW" => m.txn # t
  <1>1. \A w : ~Decided(t, w)
    BY DEF Decided
  <1>2. ASSUME NEW p \in Provider PROVE t \notin FlowsToldOf(p)
    <2>1. winner[p][t] # p
      BY <1>1, NameAssumption DEF Inv, Heard, StoredFor
    <2>2. \A o \in flowOps[p] : o.delta = 1 => o.txn # t
      BY <1>1 DEF Inv, Heard, CountedFor
    <2> QED
      BY <2>1, <2>2 DEF FlowsToldOf
  <1>3. \A m \in net : m.type = "START_FLOW" => m.txn # t
    BY <1>1 DEF Inv, Heard, ToldOf
  <1> QED
    BY <1>2, <1>3

\* The decision sends each provider one START_FLOW, of a transaction untold.
LEMMA CountedInform ==
    ASSUME Inv, Counted, InformStep, UNCHANGED providerVars
    PROVE  Counted'
  <1>1. PICK m0 \in net : HandleInformVote(m0)
    BY DEF InformStep
  <1>2. UNCHANGED <<flowOps, winner, activeFlowCount>>
    BY DEF providerVars
  <1>3. CASE \A m \in net' : m.type = "START_FLOW" => m \in net
    BY <1>2, <1>3, CountedFrame
  <1>4. CASE \E m \in net' : m.type = "START_FLOW" /\ m \notin net
    <2>1. PICK w : net' = (net \ {m0}) \cup {StartFlow(m0.txn, q, w) : q \in Provider}
      BY <1>1, <1>4 DEF HandleInformVote, Handle, Consume
    <2>2. m0.txn \in Txn /\ m0.from \in Provider /\ m0 = InformVote(m0.txn, m0.from)
      BY <1>1, EventTypes, EventShapes
         DEF Inv, TypeOK, HandleInformVote, Arrives, InformEvent
    <2>3. \A f \in flows : f.txn # m0.txn
      BY <2>2 DEF Inv, Core, EvaluationInOnePlace, DecisionComesLast
    <2>4. /\ \A p \in Provider : m0.txn \notin FlowsToldOf(p)
          /\ \A m \in net : m.type = "START_FLOW" => m.txn # m0.txn
      BY <2>2, <2>3, UndecidedUntold
    <2>5. \A p : FlowsToldOf(p)' = FlowsToldOf(p)
      BY <1>2 DEF FlowsToldOf
    <2>6. ASSUME NEW m \in net', m.type = "START_FLOW"
          PROVE  \/ m \in net /\ m.txn # m0.txn
                 \/ m.to \in Provider /\ m = StartFlow(m0.txn, m.to, w) /\ m.txn = m0.txn
      BY <2>1, <2>4, <2>6 DEF StartFlow
    <2>7. ToldOnce'
      BY <2>4, <2>5, <2>6 DEF Counted, ToldOnce
    <2>8. ToldFinite' /\ SeenIsBounded' /\ CountIsBounded'
      BY <1>2, <2>5 DEF Counted, ToldFinite, SeenIsBounded, CountIsBounded
    <2> QED
      BY <2>7, <2>8 DEF Counted
  <1> QED
    BY <1>3, <1>4

\* The winner reads the count before its flow is told: it is told by this.
LEMMA CountedWon ==
    ASSUME Inv, Counted, NEW p0 \in Provider, NEW m0 \in net,
           HandleStartFlow(p0, m0), m0.txn \in transactions[p0], m0.winner = p0
    PROVE  Counted'
  <1> DEFINE t0 == m0.txn
             o0 == [txn |-> t0, delta |-> 1, seen |-> activeFlowCount[p0]]
  <1>1. m0.type = "START_FLOW" /\ m0.to = p0 /\ t0 \in Txn
    BY EventTypes DEF Inv, TypeOK, HandleStartFlow, Arrives, StartEvent
  <1>2. /\ net' = net \ {m0}
        /\ flowOps' = [flowOps EXCEPT ![p0] = @ \cup {o0}]
        /\ UNCHANGED <<winner, activeFlowCount>>
    BY DEF HandleStartFlow, Consume
  <1>3. t0 \notin FlowsToldOf(p0)
    BY <1>1 DEF Counted, ToldOnce
  <1>4. flowOps \in [Provider -> SUBSET FlowOp]
    BY DEF Inv, TypeOK
  <1>5. /\ flowOps'[p0] = flowOps[p0] \cup {o0}
        /\ \A p \in Provider : p # p0 => flowOps'[p] = flowOps[p]
    BY <1>2, <1>4
  <1>6. o0.txn = t0 /\ o0.delta = 1 /\ o0.seen = activeFlowCount[p0]
    OBVIOUS
  <1> HIDE DEF t0, o0
  <1>7. /\ FlowsToldOf(p0)' = FlowsToldOf(p0) \cup {t0}
        /\ \A p \in Provider : p # p0 => FlowsToldOf(p)' = FlowsToldOf(p)
    BY <1>2, <1>5, <1>6 DEF FlowsToldOf
  <1>8. ToldFinite'
    <2>1. IsFiniteSet(FlowsToldOf(p0) \cup {t0})
      BY FS_AddElement DEF Counted, ToldFinite
    <2> QED
      BY <1>7, <2>1 DEF Counted, ToldFinite
  <1>9. ToldOnce'
    <2>1. \A m \in net : m.type = "START_FLOW" => m.to \in Provider
      BY EventTypes DEF Inv, TypeOK, StartEvent
    <2>2. ASSUME NEW m \in net', m.type = "START_FLOW"
          PROVE  m.txn \notin FlowsToldOf(m.to)'
      <3>1. m \in net /\ m # m0 /\ m.to \in Provider /\ m.txn \notin FlowsToldOf(m.to)
        BY <1>2, <2>1, <2>2 DEF Counted, ToldOnce
      <3>2. ~(m.txn = t0 /\ m.to = p0)
        BY <1>1, <2>2, <3>1 DEF Counted, ToldOnce, t0
      <3> QED
        BY <1>7, <3>1, <3>2
    <2> QED
      BY <1>2, <2>2 DEF Counted, ToldOnce
  <1>10. activeFlowCount[p0] \in Int /\ \A o \in flowOps[p0] : o.seen \in Int
    BY DEF Inv, TypeOK, FlowOp
  <1>11. SeenIsBounded'
    <2>1. ASSUME NEW o \in flowOps[p0], NEW U,
                 o.seen <= Cardinality(FlowsToldOf(p0) \ U)
          PROVE  o.seen <= Cardinality((FlowsToldOf(p0) \cup {t0}) \ U)
      <3>1. IsFiniteSet(FlowsToldOf(p0) \cup {t0})
        BY <1>7, <1>8 DEF ToldFinite
      <3>2. /\ Cardinality(FlowsToldOf(p0) \ U) \in Nat
            /\ Cardinality((FlowsToldOf(p0) \cup {t0}) \ U) \in Nat
            /\ Cardinality(FlowsToldOf(p0) \ U) <= Cardinality((FlowsToldOf(p0) \cup {t0}) \ U)
        BY <3>1, MoreTold
      <3> QED
        BY <1>10, <2>1, <3>2
    <2>2. (FlowsToldOf(p0) \cup {t0}) \ {t0} = FlowsToldOf(p0)
      BY <1>3
    <2>3. ASSUME NEW p \in Provider, NEW o \in flowOps'[p]
          PROVE  o.seen <= Cardinality(FlowsToldOf(p)' \ (IF o.delta = 1 THEN {o.txn} ELSE {}))
      <3>1. CASE p # p0
        BY <1>5, <1>7, <3>1 DEF Counted, SeenIsBounded
      <3>2. CASE p = p0 /\ o \in flowOps[p0]
        BY <1>7, <2>1, <3>2 DEF Counted, SeenIsBounded
      <3>3. CASE p = p0 /\ o = o0
        BY <1>6, <1>7, <2>2, <3>3 DEF Counted, CountIsBounded
      <3> QED
        BY <1>5, <3>1, <3>2, <3>3
    <2> QED
      BY <2>3 DEF SeenIsBounded
  <1>12. CountIsBounded'
    <2>1. ASSUME NEW p \in Provider
          PROVE  activeFlowCount[p] <= Cardinality(FlowsToldOf(p)')
      <3>1. FlowsToldOf(p) \subseteq FlowsToldOf(p)' /\ IsFiniteSet(FlowsToldOf(p)')
        BY <1>7, <1>8 DEF ToldFinite
      <3>2. /\ FlowsToldOf(p) \ {} = FlowsToldOf(p)
            /\ FlowsToldOf(p)' \ {} = FlowsToldOf(p)'
        OBVIOUS
      <3>3. /\ Cardinality(FlowsToldOf(p)) \in Nat /\ Cardinality(FlowsToldOf(p)') \in Nat
            /\ Cardinality(FlowsToldOf(p)) <= Cardinality(FlowsToldOf(p)')
        BY <3>1, <3>2, MoreTold
      <3>4. activeFlowCount[p] \in Int /\ activeFlowCount[p] <= Cardinality(FlowsToldOf(p))
        BY DEF Inv, TypeOK, Counted, CountIsBounded
      <3> QED
        BY <3>3, <3>4
    <2> QED
      BY <1>2, <2>1 DEF CountIsBounded
  <1> QED
    BY <1>8, <1>9, <1>11, <1>12 DEF Counted

\* Anybody else stores the winner, or knows nothing of the transaction.
LEMMA CountedLost ==
    ASSUME Inv, Counted, NEW p0 \in Provider, NEW m0 \in net,
           HandleStartFlow(p0, m0), ~(m0.txn \in transactions[p0] /\ m0.winner = p0)
    PROVE  Counted'
  <1>1. m0.type = "START_FLOW" /\ m0.to = p0 /\ m0.txn \in Txn
    BY EventTypes DEF Inv, TypeOK, HandleStartFlow, Arrives, StartEvent
  <1>2. net' = net \ {m0} /\ UNCHANGED <<flowOps, activeFlowCount>>
    BY DEF HandleStartFlow, Consume
  <1>3. CASE m0.txn \notin transactions[p0]
    BY <1>2, <1>3, CountedFrame DEF HandleStartFlow
  <1>4. CASE m0.winner # p0 /\ winner' = [winner EXCEPT ![p0][m0.txn] = m0.winner]
    <2>1. m0.txn \notin FlowsToldOf(p0)
      BY <1>1 DEF Counted, ToldOnce
    <2>2. winner \in [Provider -> [Txn -> Name \cup {NoWinner}]]
      BY DEF Inv, TypeOK
    <2>3. ASSUME NEW p \in Provider, NEW t \in Txn
          PROVE  winner'[p][t] = p <=> winner[p][t] = p
      <3>1. CASE p = p0 /\ t = m0.txn
        <4>1. winner[p][t] # p
          BY <2>1, <3>1 DEF FlowsToldOf
        <4> QED
          BY <1>4, <2>2, <3>1, <4>1
      <3>2. CASE ~(p = p0 /\ t = m0.txn)
        BY <1>4, <2>2, <3>2
      <3> QED
        BY <3>1, <3>2
    <2>4. \A p \in Provider : FlowsToldOf(p)' = FlowsToldOf(p)
      BY <1>2, <2>3 DEF FlowsToldOf
    <2>5. ToldOnce'
      <3>1. \A m \in net : m.type = "START_FLOW" => m.to \in Provider
        BY EventTypes DEF Inv, TypeOK, StartEvent
      <3> QED
        BY <1>2, <2>4, <3>1 DEF Counted, ToldOnce
    <2>6. ToldFinite' /\ SeenIsBounded' /\ CountIsBounded'
      BY <1>2, <2>4 DEF Counted, ToldFinite, SeenIsBounded, CountIsBounded
    <2> QED
      BY <2>5, <2>6 DEF Counted
  <1> QED
    BY <1>3, <1>4 DEF HandleStartFlow

-----------------------------------------------------------------------------
(* The count is read, and written *)

\* The end of a flow reads the count; it tells of nothing.
LEMMA CountedEnd ==
    ASSUME Inv, Counted, NEW p0 \in Provider, EndStep(p0)
    PROVE  Counted'
  <1>1. PICK m0 \in net : HandleTransactionEnd(p0, m0)
    BY DEF EndStep
  <1> DEFINE o0 == [txn |-> m0.txn, delta |-> -1, seen |-> activeFlowCount[p0]]
  <1>2. net' = net \ {m0} /\ UNCHANGED <<winner, activeFlowCount>>
    BY <1>1 DEF HandleTransactionEnd, Consume
  <1>3. CASE UNCHANGED flowOps
    BY <1>2, <1>3, CountedFrame
  <1>4. CASE flowOps' = [flowOps EXCEPT ![p0] = @ \cup {o0}]
    <2>1. flowOps \in [Provider -> SUBSET FlowOp]
      BY DEF Inv, TypeOK
    <2>2. /\ flowOps'[p0] = flowOps[p0] \cup {o0}
          /\ \A p \in Provider : p # p0 => flowOps'[p] = flowOps[p]
      BY <1>4, <2>1
    <2>3. o0.delta = -1 /\ o0.delta # 1 /\ o0.seen = activeFlowCount[p0]
      OBVIOUS
    <2> HIDE DEF o0
    <2>4. \A p \in Provider : FlowsToldOf(p)' = FlowsToldOf(p)
      BY <1>2, <2>2, <2>3 DEF FlowsToldOf
    <2>5. ToldOnce'
      <3>1. \A m \in net : m.type = "START_FLOW" => m.to \in Provider
        BY EventTypes DEF Inv, TypeOK, StartEvent
      <3> QED
        BY <1>2, <2>4, <3>1 DEF Counted, ToldOnce
    <2>6. ToldFinite' /\ CountIsBounded'
      BY <1>2, <2>4 DEF Counted, ToldFinite, CountIsBounded
    <2>7. SeenIsBounded'
      <3>1. o0.seen <= Cardinality(FlowsToldOf(p0) \ {})
        <4>1. FlowsToldOf(p0) \ {} = FlowsToldOf(p0)
          OBVIOUS
        <4> QED
          BY <2>3, <4>1 DEF Counted, CountIsBounded
      <3> QED
        BY <2>2, <2>3, <2>4, <3>1 DEF Counted, SeenIsBounded
    <2> QED
      BY <2>5, <2>6, <2>7 DEF Counted
  <1> QED
    BY <1>1, <1>3, <1>4 DEF HandleTransactionEnd

\* What is written exceeds what was read by the flow of the handler at most.
LEMMA CountedWrite ==
    ASSUME Inv, Counted, NEW p0 \in Provider, CountStep(p0)
    PROVE  Counted'
  <1>1. PICK o0 \in flowOps[p0] : FinishFlowOp(p0, o0)
    BY DEF CountStep
  <1>2. o0 \in FlowOp /\ o0.txn \in Txn /\ o0.delta \in {1, -1} /\ o0.seen \in Int
    BY DEF Inv, TypeOK, FlowOp
  <1>3. /\ UNCHANGED net
        /\ flowOps' = [flowOps EXCEPT ![p0] = @ \ {o0}]
        /\ activeFlowCount' = [activeFlowCount EXCEPT ![p0] = o0.seen + o0.delta]
        /\ IF o0.delta = 1 THEN winner' = [winner EXCEPT ![p0][o0.txn] = p0]
                           ELSE UNCHANGED winner
    BY <1>1 DEF FinishFlowOp, wireVars
  <1>4. /\ flowOps \in [Provider -> SUBSET FlowOp]
        /\ activeFlowCount \in [Provider -> Int]
        /\ winner \in [Provider -> [Txn -> Name \cup {NoWinner}]]
    BY DEF Inv, TypeOK
  <1>5. /\ flowOps'[p0] = flowOps[p0] \ {o0}
        /\ \A p \in Provider : p # p0 => flowOps'[p] = flowOps[p] /\ winner'[p] = winner[p]
        /\ activeFlowCount'[p0] = o0.seen + o0.delta
        /\ \A p \in Provider : p # p0 => activeFlowCount'[p] = activeFlowCount[p]
    BY <1>3, <1>4
  <1>6. \A p \in Provider : FlowsToldOf(p)' = FlowsToldOf(p)
    <2>1. \A p \in Provider : p # p0 => FlowsToldOf(p)' = FlowsToldOf(p)
      BY <1>5 DEF FlowsToldOf
    <2>2. CASE o0.delta = 1
      <3>1. \A t \in Txn : winner'[p0][t] = p0 <=> winner[p0][t] = p0 \/ t = o0.txn
        BY <1>2, <1>3, <1>4, <2>2
      <3>2. FlowsToldOf(p0)' = FlowsToldOf(p0)
        BY <1>2, <1>5, <2>2, <3>1 DEF FlowsToldOf
      <3> QED
        BY <2>1, <3>2
    <2>3. CASE o0.delta # 1
      <3>1. FlowsToldOf(p0)' = FlowsToldOf(p0)
        BY <1>3, <1>5, <2>3 DEF FlowsToldOf
      <3> QED
        BY <2>1, <3>1
    <2> QED
      BY <2>2, <2>3
  <1>7. ToldOnce'
    <2>1. \A m \in net : m.type = "START_FLOW" => m.to \in Provider
      BY EventTypes DEF Inv, TypeOK, StartEvent
    <2> QED
      BY <1>3, <1>6, <2>1 DEF Counted, ToldOnce
  <1>8. ToldFinite' /\ SeenIsBounded'
    <2>1. \A p \in Provider : flowOps'[p] \subseteq flowOps[p]
      BY <1>5
    <2> QED
      BY <1>6, <2>1 DEF Counted, ToldFinite, SeenIsBounded
  <1>9. o0.seen + o0.delta <= Cardinality(FlowsToldOf(p0))
    <2>1. IsFiniteSet(FlowsToldOf(p0)) /\ Cardinality(FlowsToldOf(p0)) \in Nat
      BY FS_CardinalityType DEF Counted, ToldFinite
    <2>2. CASE o0.delta = 1
      <3>1. o0.txn \in FlowsToldOf(p0)
        BY <2>2 DEF FlowsToldOf
      <3>2. Cardinality(FlowsToldOf(p0) \ {o0.txn}) = Cardinality(FlowsToldOf(p0)) - 1
        BY <2>1, <3>1, FS_RemoveElement
      <3>3. o0.seen <= Cardinality(FlowsToldOf(p0) \ {o0.txn})
        BY <2>2 DEF Counted, SeenIsBounded
      <3> QED
        BY <1>2, <2>1, <2>2, <3>2, <3>3
    <2>3. CASE o0.delta = -1
      <3>1. o0.seen <= Cardinality(FlowsToldOf(p0) \ {})
        BY <2>3 DEF Counted, SeenIsBounded
      <3>2. FlowsToldOf(p0) \ {} = FlowsToldOf(p0)
        OBVIOUS
      <3> QED
        BY <1>2, <2>1, <2>3, <3>1, <3>2
    <2> QED
      BY <1>2, <2>2, <2>3
  <1>10. CountIsBounded'
    BY <1>5, <1>6, <1>9 DEF Counted, CountIsBounded
  <1> QED
    BY <1>7, <1>8, <1>10 DEF Counted

-----------------------------------------------------------------------------
(* The other steps *)

\* A BUY comes before anything is told of its transaction.
LEMMA CountedBuy ==
    ASSUME Inv, Counted, NEW p0 \in Provider, BuyStep(p0)
    PROVE  Counted'
  <1>1. PICK m0 \in net : HandleBuy(p0, m0)
    BY DEF BuyStep
  <1>2. m0.txn \in Txn /\ m0 = Buy(m0.txn, p0)
    BY <1>1, EventTypes, EventShapes DEF Inv, TypeOK, HandleBuy, Arrives, BuyEvent
  <1>3. m0.txn \notin transactions[p0]
    BY <1>2 DEF Inv, Core, BuyComesFirst
  <1>4. winner[p0][m0.txn] = NoWinner
    BY <1>2, <1>3, UnknownIsUndecided
  <1>5. winner' = winner
    BY <1>1, <1>2, <1>4 DEF HandleBuy, Inv, TypeOK
  <1>6. \A m \in net' : m.type = "START_FLOW" => m \in net
    BY <1>1 DEF HandleBuy, Handle, RequestVote
  <1> QED
    BY <1>1, <1>5, <1>6, CountedFrame DEF HandleBuy

LEMMA CountedVote ==
    ASSUME Inv, Counted, NEW p0 \in Provider,
           RequestStep(p0) \/ PriceStep(p0) \/ CastStep(p0) \/ ReplyStep(p0)
    PROVE  Counted'
  <1>1. \A m \in net' : m.type = "START_FLOW" => m \in net
    <2>1. CASE RequestStep(p0)
      <3>1. PICK m0 \in net : \/ AcceptRequest(p0, m0)
                              \/ RetryRequest(p0, m0)
                              \/ DropRequest(p0, m0)
        BY <2>1 DEF RequestStep
      <3>2. m0 \in RequestEvent
        BY <3>1, EventTypes
           DEF Inv, TypeOK, AcceptRequest, RetryRequest, DropRequest, Arrives
      <3>3. [m0 EXCEPT !.tries = @ + 1].type = "REQUEST_VOTE"
        BY <3>2 DEF RequestEvent
      <3> QED
        BY <3>1, <3>3 DEF AcceptRequest, RetryRequest, DropRequest, Consume, Handle
    <2>2. CASE PriceStep(p0) \/ CastStep(p0)
      BY <2>2 DEF PriceStep, SeeAllPrices, wireVars, CastStep, CastVote, Send, ReplyVote
    <2>3. CASE ReplyStep(p0)
      BY <2>3 DEF ReplyStep, HandleReplyVote, Handle, Consume, InformVote
    <2> QED
      BY <2>1, <2>2, <2>3
  <1>2. UNCHANGED <<flowOps, winner, activeFlowCount>>
    BY DEF RequestStep, AcceptRequest, RetryRequest, DropRequest, PriceStep, CastStep,
           SeeAllPrices, CastVote, ReplyStep, HandleReplyVote, providerVars
  <1> QED
    BY <1>1, <1>2, CountedFrame

LEMMA CountedBeacon ==
    ASSUME Counted, NEW p0 \in Provider, BeaconStep(p0) \/ EmitStep(p0)
    PROVE  Counted'
  <1>1. \A m \in net' : m.type = "START_FLOW" => m \in net
    <2>1. CASE BeaconStep(p0)
      BY <2>1 DEF BeaconStep, BeaconRead, BeaconWrite, Consume, wireVars
    <2>2. CASE EmitStep(p0)
      BY <2>2 DEF EmitStep, EmitBeacon, Send, Beacon
    <2> QED
      BY <2>1, <2>2
  <1>2. UNCHANGED <<flowOps, winner, activeFlowCount>>
    BY DEF BeaconStep, BeaconRead, BeaconWrite, EmitStep, EmitBeacon, providerVars
  <1> QED
    BY <1>1, <1>2, CountedFrame

LEMMA CountedOthers ==
    ASSUME Counted,
           \/ ((\E t \in Txn : TriggerBuy(t)) \/ EndFlowStep) /\ UNCHANGED providerVars
           \/ FailureStep
           \/ UNCHANGED vars
    PROVE  Counted'
  <1>1. \A m \in net' : m.type = "START_FLOW" => m \in net
    BY DEF TriggerBuy, EndFlowStep, FinishFlow, Send, Buy, TransactionEnd,
           FailureStep, ConnectionFails, Crash, Consume, vars, wireVars
  <1>2. UNCHANGED <<flowOps, winner, activeFlowCount>>
    BY DEF FailureStep, vars, providerVars
  <1> QED
    BY <1>1, <1>2, CountedFrame

-----------------------------------------------------------------------------
(* The theorem *)

LEMMA CountedStep ==
    ASSUME Inv, Counted, [Next]_vars
    PROVE  Counted'
  <1>1. CASE ConsumerStep
    BY <1>1, CountedInform, CountedOthers DEF ConsumerStep
  <1>2. CASE FailureStep \/ UNCHANGED vars
    BY <1>2, CountedOthers
  <1>3. ASSUME NEW p \in Provider, ProviderStep(p) PROVE Counted'
    <2>1. CASE StartStep(p)
      BY <2>1, CountedWon, CountedLost DEF StartStep
    <2> QED
      BY <1>3, <2>1, CountedBuy, CountedVote, CountedEnd, CountedWrite, CountedBeacon
         DEF ProviderStep
  <1> QED
    BY <1>1, <1>2, <1>3 DEF Next

\* The flow count never exceeds the flows the provider was told it won: handlers
\* that overtake each other lose an update and never invent one.
THEOREM CountStaysBounded == NamesMatch /\ Spec => []CountIsBounded
  <1>1. Inv /\ Counted /\ [Next]_vars => Counted'
    BY CountedStep
  <1>2. Counted => CountIsBounded
    BY DEF Counted
  <1> QED
    BY <1>1, <1>2, InvHolds, CountedInit, PTL DEF Spec
=============================================================================
