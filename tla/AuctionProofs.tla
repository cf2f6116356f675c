--------------------------- MODULE AuctionProofs ---------------------------
(***************************************************************************)
(* Theorems about Auction, for any set of providers, transactions, names, *)
(* beacon links, failure budget and retry budget.                          *)
(***************************************************************************)
EXTENDS Auction, FiniteSetTheorems, TLAPS

-----------------------------------------------------------------------------
(* Functions *)

\* Assigning one cell of a table keeps its type.
LEMMA CellType ==
    ASSUME NEW S, NEW T, NEW V, NEW f \in [S -> [T -> V]],
           NEW a \in S, NEW b \in T, NEW v \in V
    PROVE  [f EXCEPT ![a][b] = v] \in [S -> [T -> V]]
  OBVIOUS

\* Adding an element to one set of a family keeps its type.
LEMMA MemberType ==
    ASSUME NEW S, NEW V, NEW f \in [S -> SUBSET V], NEW a \in S, NEW v \in V
    PROVE  [f EXCEPT ![a] = @ \cup {v}] \in [S -> SUBSET V]
  OBVIOUS

-----------------------------------------------------------------------------
(* Events *)

\* The kind of an event decides its record type.
LEMMA EventTypes ==
    ASSUME NEW m \in Message
    PROVE  /\ m.type = "BUY" => m \in BuyEvent
           /\ m.type = "REQUEST_VOTE" => m \in RequestEvent
           /\ m.type = "REPLY_VOTE" => m \in ReplyEvent
           /\ m.type = "INFORM_VOTE" => m \in InformEvent
           /\ m.type = "START_FLOW" => m \in StartEvent
           /\ m.type = "TRANSACTION_END" => m \in EndEvent
           /\ m.type = "BEACON" => m \in BeaconEvent
  BY DEF Message, BuyEvent, RequestEvent, ReplyEvent, InformEvent, StartEvent,
         EndEvent, BeaconEvent

\* Every event a handler makes is of the type its kind has.
LEMMA NewEvents ==
    ASSUME NEW t \in Txn, NEW p \in Provider, NEW q \in Provider
    PROVE  /\ Buy(t, p) \in Message
           /\ \A c \in Price : RequestVote(t, p, q, c) \in Message
           /\ ReplyVote(t, p, q) \in Message
           /\ InformVote(t, p) \in Message
           /\ \A w \in Name \cup {NoWinner} : StartFlow(t, p, w) \in Message
           /\ TransactionEnd(t, p) \in Message
           /\ \A rate \in Int : Beacon(p, q, rate) \in Message
  BY RetryAssumption
     DEF Message, BuyEvent, RequestEvent, ReplyEvent, InformEvent, StartEvent,
         EndEvent, BeaconEvent, Buy, RequestVote, ReplyVote, InformVote, StartFlow,
         TransactionEnd, Beacon

\* A successful look-up yields the address of a listed provider.
LEMMA AddressIsListed ==
    ASSUME NEW n \in ListedName
    PROVE  AddressOf(n) \in Provider /\ Listed[AddressOf(n)] = n
  BY DEF ListedName, AddressOf

-----------------------------------------------------------------------------
(* Types *)

LEMMA TypeInit == Init => TypeOK
  BY DEF Init, WireInit, ProviderInit, ConsumerInit, TypeOK, Entry, NoEntry, Price

LEMMA EntryTypes ==
    ASSUME NEW e \in Entry
    PROVE  /\ \A c \in Price : WithPrice(e, c) \in Entry
           /\ \A t \in Txn : WithRating(e, t) \in Entry
  BY DEF Entry, Price, WithPrice, WithRating

LEMMA RateType ==
    ASSUME TypeOK, NEW p \in Provider, NEW t \in Txn, NEW n, Rate(p, t, n)
    PROVE  peerScoreMatrix' \in [Provider -> [Name -> Entry]]
  <1>1. CASE n \in ListedName
    <2>1. n \in Name
      BY <1>1, ListedAssumption DEF ListedName
    <2>2. peerScoreMatrix[p][n] \in Entry
      BY <2>1 DEF TypeOK
    <2>3. WithRating(peerScoreMatrix[p][n], t) \in Entry
      BY <2>2, EntryTypes
    <2> QED
      BY <1>1, <2>1, <2>3 DEF TypeOK, Rate
  <1>2. CASE n \notin ListedName
    BY <1>2 DEF TypeOK, Rate
  <1> QED
    BY <1>1, <1>2

LEMMA BuyType ==
    ASSUME TypeOK, NEW p \in Provider, BuyStep(p), UNCHANGED consumerVars
    PROVE  TypeOK'
  <1>1. PICK m \in net : HandleBuy(p, m)
    BY DEF BuyStep
  <1>2. m.txn \in Txn
    BY <1>1, EventTypes DEF TypeOK, HandleBuy, Arrives, BuyEvent
  <1>3. net' \subseteq Message
    <2>1. PriceSent(p, m.txn) \in Price
      BY <1>2 DEF PriceSent, Price
    <2>2. \A q \in Peers(p) : RequestVote(m.txn, p, q, PriceSent(p, m.txn)) \in Message
      BY <1>2, <2>1, NewEvents DEF Peers
    <2> QED
      BY <1>1, <2>2 DEF TypeOK, HandleBuy, Handle
  <1>4. transactions' \in [Provider -> SUBSET Txn]
    BY <1>1, <1>2 DEF TypeOK, HandleBuy
  <1>5. allFFS' \in [Provider -> [Txn -> SUBSET Provider]]
    BY <1>1, <1>2 DEF TypeOK, HandleBuy
  <1>6. winner' \in [Provider -> [Txn -> Name \cup {NoWinner}]]
    BY <1>1, <1>2 DEF TypeOK, HandleBuy
  <1> QED
    BY <1>1, <1>3, <1>4, <1>5, <1>6 DEF TypeOK, HandleBuy, consumerVars

LEMMA RequestType ==
    ASSUME TypeOK, NEW p \in Provider, RequestStep(p), UNCHANGED consumerVars
    PROVE  TypeOK'
  <1>1. PICK m \in net : AcceptRequest(p, m) \/ RetryRequest(p, m) \/ DropRequest(p, m)
    BY DEF RequestStep
  <1>2. m \in RequestEvent
    BY <1>1, EventTypes DEF TypeOK, AcceptRequest, RetryRequest, DropRequest, Arrives
  <1>3. CASE AcceptRequest(p, m)
    <2>1. m.txn \in Txn /\ m.from \in Name /\ m.price \in Price
      BY <1>2, NameAssumption DEF RequestEvent
    <2>2. WithPrice(peerScoreMatrix[p][m.from], m.price) \in Entry
      BY <2>1, EntryTypes DEF TypeOK
    <2>3. peerScoreMatrix' \in [Provider -> [Name -> Entry]]
      BY <1>3, <2>1, <2>2 DEF TypeOK, AcceptRequest
    <2>4. [txn |-> m.txn, to |-> AddressOf(m.from), stage |-> "wait"] \in Vote
      BY <1>3, <2>1, AddressIsListed DEF AcceptRequest, CanLookUp, Vote
    <2>5. voting' \in [Provider -> SUBSET Vote]
      BY <1>3, <2>4 DEF TypeOK, AcceptRequest
    <2> QED
      BY <1>3, <2>3, <2>5 DEF TypeOK, AcceptRequest, Consume, consumerVars
  <1>4. CASE RetryRequest(p, m)
    <2>1. m.tries + 1 \in 0..MaxRetries
      BY <1>2, <1>4, RetryAssumption DEF RetryRequest, RequestEvent
    <2>2. [m EXCEPT !.tries = @ + 1] \in Message
      BY <1>2, <2>1 DEF RequestEvent, Message
    <2> QED
      BY <1>4, <2>2 DEF TypeOK, RetryRequest, Handle, consumerVars, providerVars
  <1>5. CASE DropRequest(p, m)
    BY <1>5 DEF TypeOK, DropRequest, Consume, consumerVars
  <1> QED
    BY <1>1, <1>3, <1>4, <1>5

LEMMA VoteType ==
    ASSUME TypeOK, NEW p \in Provider, PriceStep(p) \/ CastStep(p), UNCHANGED consumerVars
    PROVE  TypeOK'
  <1>1. CASE PriceStep(p)
    <2>1. PICK v \in voting[p] : SeeAllPrices(p, v)
      BY <1>1 DEF PriceStep
    <2>2. [v EXCEPT !.stage = "score"] \in Vote
      <3>1. v \in Vote
        BY DEF TypeOK
      <3> QED
        BY <3>1 DEF Vote
    <2>3. voting' \in [Provider -> SUBSET Vote]
      BY <2>1, <2>2 DEF TypeOK, SeeAllPrices
    <2> QED
      BY <2>1, <2>3 DEF TypeOK, SeeAllPrices, consumerVars, wireVars
  <1>2. CASE CastStep(p)
    <2>1. PICK v \in voting[p] : CastVote(p, v)
      BY <1>2 DEF CastStep
    <2>2. v.txn \in Txn /\ v.to \in Provider
      BY DEF TypeOK, Vote
    <2>3. net' \subseteq Message
      BY <2>1, <2>2, NewEvents DEF TypeOK, CastVote, Send
    <2>4. allFFS' \in [Provider -> [Txn -> SUBSET Provider]]
      BY <2>1, <2>2 DEF TypeOK, CastVote
    <2>5. voting' \in [Provider -> SUBSET Vote]
      BY <2>1 DEF TypeOK, CastVote
    <2> QED
      BY <2>1, <2>3, <2>4, <2>5 DEF TypeOK, CastVote, consumerVars
  <1> QED
    BY <1>1, <1>2

LEMMA ReplyType ==
    ASSUME TypeOK, NEW p \in Provider, ReplyStep(p), UNCHANGED consumerVars
    PROVE  TypeOK'
  <1>1. PICK m \in net : HandleReplyVote(p, m)
    BY DEF ReplyStep
  <1>2. m.txn \in Txn /\ m.from \in Provider
    BY <1>1, EventTypes DEF TypeOK, HandleReplyVote, Arrives, ReplyEvent
  <1>3. CASE m.txn \in transactions[p]
    <2>1. net' \subseteq Message
      BY <1>1, <1>2, <1>3, NewEvents DEF TypeOK, HandleReplyVote, Handle
    <2>2. allFFS' \in [Provider -> [Txn -> SUBSET Provider]]
      <3>1. allFFS' = [allFFS EXCEPT ![p][m.txn] = allFFS[p][m.txn] \cup {m.from}]
        BY <1>1, <1>3 DEF HandleReplyVote
      <3> QED
        BY <1>2, <3>1 DEF TypeOK
    <2> QED
      BY <1>1, <1>3, <2>1, <2>2 DEF TypeOK, HandleReplyVote, consumerVars
  <1>4. CASE m.txn \notin transactions[p]
    BY <1>1, <1>4 DEF TypeOK, HandleReplyVote, Consume, Panic, Process, consumerVars
  <1> QED
    BY <1>3, <1>4

LEMMA FlowType ==
    ASSUME TypeOK, NEW p \in Provider, StartStep(p) \/ EndStep(p) \/ CountStep(p),
           UNCHANGED consumerVars
    PROVE  TypeOK'
  <1>1. CASE StartStep(p)
    <2>1. PICK m \in net : HandleStartFlow(p, m)
      BY <1>1 DEF StartStep
    <2>2. m.txn \in Txn /\ m.winner \in Name \cup {NoWinner}
      BY <2>1, EventTypes DEF TypeOK, HandleStartFlow, Arrives, StartEvent
    <2>3. [txn |-> m.txn, delta |-> 1, seen |-> activeFlowCount[p]] \in FlowOp
      BY <2>2 DEF TypeOK, FlowOp
    <2>4. flowOps' \in [Provider -> SUBSET FlowOp]
      BY <2>1, <2>3 DEF TypeOK, HandleStartFlow
    <2>5. winner' \in [Provider -> [Txn -> Name \cup {NoWinner}]]
      <3>1. \/ winner' = winner
            \/ winner' = [winner EXCEPT ![p][m.txn] = m.winner]
        BY <2>1 DEF HandleStartFlow
      <3>2. winner \in [Provider -> [Txn -> Name \cup {NoWinner}]]
        BY DEF TypeOK
      <3>3. [winner EXCEPT ![p][m.txn] = m.winner] \in [Provider -> [Txn -> Name \cup {NoWinner}]]
        BY <2>2, <3>2, CellType
      <3> QED
        BY <3>1, <3>2, <3>3
    <2> QED
      BY <2>1, <2>4, <2>5 DEF TypeOK, HandleStartFlow, Consume, consumerVars
  <1>2. CASE EndStep(p)
    <2>1. PICK m \in net : HandleTransactionEnd(p, m)
      BY <1>2 DEF EndStep
    <2>2. m.txn \in Txn
      BY <2>1, EventTypes DEF TypeOK, HandleTransactionEnd, Arrives, EndEvent
    <2>3. [txn |-> m.txn, delta |-> -1, seen |-> activeFlowCount[p]] \in FlowOp
      BY <2>2 DEF TypeOK, FlowOp
    <2>4. flowOps' \in [Provider -> SUBSET FlowOp]
      <3> DEFINE o == [txn |-> m.txn, delta |-> -1, seen |-> activeFlowCount[p]]
      <3>1. \/ flowOps' = flowOps
            \/ flowOps' = [flowOps EXCEPT ![p] = @ \cup {o}]
        BY <2>1 DEF HandleTransactionEnd
      <3>2. o \in FlowOp
        BY <2>3
      <3>3. flowOps \in [Provider -> SUBSET FlowOp]
        BY DEF TypeOK
      <3> HIDE DEF o
      <3>4. [flowOps EXCEPT ![p] = @ \cup {o}] \in [Provider -> SUBSET FlowOp]
        BY <3>2, <3>3, MemberType
      <3> QED
        BY <3>1, <3>3, <3>4
    <2>5. peerScoreMatrix' \in [Provider -> [Name -> Entry]]
      BY <2>1, <2>2, RateType DEF TypeOK, HandleTransactionEnd
    <2> QED
      BY <2>1, <2>4, <2>5 DEF TypeOK, HandleTransactionEnd, Consume, consumerVars
  <1>3. CASE CountStep(p)
    <2>1. PICK o \in flowOps[p] : FinishFlowOp(p, o)
      BY <1>3 DEF CountStep
    <2>2. o.txn \in Txn /\ o.seen + o.delta \in Int
      BY DEF TypeOK, FlowOp
    <2>3. flowOps' \in [Provider -> SUBSET FlowOp]
      BY <2>1 DEF TypeOK, FinishFlowOp
    <2>4. activeFlowCount' \in [Provider -> Int]
      BY <2>1, <2>2 DEF TypeOK, FinishFlowOp
    <2>5. winner' \in [Provider -> [Txn -> Name \cup {NoWinner}]]
      <3>1. winner' = winner \/ winner' = [winner EXCEPT ![p][o.txn] = p]
        BY <2>1 DEF FinishFlowOp
      <3>2. winner \in [Provider -> [Txn -> Name \cup {NoWinner}]]
        BY DEF TypeOK
      <3>3. p \in Name \cup {NoWinner}
        BY NameAssumption
      <3>4. [winner EXCEPT ![p][o.txn] = p] \in [Provider -> [Txn -> Name \cup {NoWinner}]]
        BY <2>2, <3>2, <3>3, CellType
      <3> QED
        BY <3>1, <3>2, <3>4
    <2>6. peerScoreMatrix' \in [Provider -> [Name -> Entry]]
      BY <2>1, <2>2, RateType DEF TypeOK, FinishFlowOp
    <2> QED
      BY <2>1, <2>3, <2>4, <2>5, <2>6 DEF TypeOK, FinishFlowOp, wireVars, consumerVars
  <1> QED
    BY <1>1, <1>2, <1>3

LEMMA BeaconType ==
    ASSUME TypeOK, NEW p \in Provider, BeaconStep(p) \/ EmitStep(p), UNCHANGED consumerVars
    PROVE  TypeOK'
  <1>1. ASSUME NEW m \in net, BeaconRead(p, m) PROVE TypeOK'
    <2>1. m.from \in Provider
      BY <1>1, EventTypes DEF TypeOK, BeaconRead, Arrives, BeaconEvent
    <2>2. [origin |-> m.from, entry |-> peerScoreMatrix[p][m.from]] \in BeaconOp
      BY <2>1, NameAssumption DEF TypeOK, BeaconOp
    <2>3. beaconOps' \in [Provider -> SUBSET BeaconOp]
      BY <1>1, <2>2 DEF TypeOK, BeaconRead
    <2> QED
      BY <1>1, <2>3 DEF TypeOK, BeaconRead, Consume, consumerVars
  <1>2. ASSUME NEW o \in beaconOps[p], BeaconWrite(p, o) PROVE TypeOK'
    <2>1. o.origin \in Name /\ o.entry \in Entry
      BY NameAssumption DEF TypeOK, BeaconOp
    <2>2. WithPrice(NoEntry, DefaultPrice) \in Entry
      BY PriceAssumption DEF WithPrice, NoEntry, Entry, Price
    <2>3. peerScoreMatrix' \in [Provider -> [Name -> Entry]]
      BY <1>2, <2>1, <2>2 DEF TypeOK, BeaconWrite
    <2>4. beaconOps' \in [Provider -> SUBSET BeaconOp]
      BY <1>2 DEF TypeOK, BeaconWrite
    <2> QED
      BY <1>2, <2>3, <2>4 DEF TypeOK, BeaconWrite, wireVars, consumerVars
  <1>3. ASSUME NEW q \in Provider, EmitBeacon(p, q) PROVE TypeOK'
    <2>1. RatesSent(p) \subseteq Int
      BY DEF TypeOK, RatesSent, ChannelUtilizationRate
    <2>2. net' \subseteq Message
      <3>1. PICK rate \in RatesSent(p) : Send({Beacon(p, q, rate)})
        BY <1>3 DEF EmitBeacon
      <3>2. Beacon(p, q, rate) \in Message
        BY <2>1, <3>1 DEF Message, BeaconEvent, Beacon
      <3> QED
        BY <3>1, <3>2 DEF TypeOK, Send
    <2> QED
      BY <1>3, <2>2 DEF TypeOK, EmitBeacon, providerVars, consumerVars
  <1> QED
    BY <1>1, <1>2, <1>3 DEF BeaconStep, EmitStep

LEMMA ConsumerType ==
    ASSUME TypeOK, ConsumerStep
    PROVE  TypeOK'
  <1>1. ASSUME NEW t \in Txn, TriggerBuy(t) PROVE TypeOK'
    <2>1. net' \subseteq Message
      BY <1>1, NewEvents DEF TypeOK, TriggerBuy, Send
    <2> QED
      BY <1>1, <2>1 DEF ConsumerStep, TypeOK, TriggerBuy, providerVars
  <1>2. ASSUME NEW m \in net, HandleInformVote(m) PROVE TypeOK'
    <2>1. m.txn \in Txn /\ m.from \in Provider
      BY <1>2, EventTypes DEF TypeOK, HandleInformVote, Arrives, InformEvent
    <2> DEFINE rows == allFFSnew[m.txn] \cup {m.from}
               Decision(w) == [txn |-> m.txn, by |-> m.from, winner |-> w,
                               stage |-> "streaming"]
    <2>2. \A w \in Winners : w \in Name \cup {NoWinner}
      BY ListedAssumption DEF Winners, ListedName
    <2>3. allFFSnew' \in [Txn -> SUBSET Provider]
      <3>1. allFFSnew' = allFFSnew \/ allFFSnew' = [allFFSnew EXCEPT ![m.txn] = rows]
        BY <1>2 DEF HandleInformVote
      <3>2. rows \subseteq Provider
        BY <2>1 DEF TypeOK
      <3> QED
        BY <2>1, <3>1, <3>2 DEF TypeOK
    <2>4. \/ net' = net \ {m} /\ flows' = flows
          \/ \E w \in Winners :
               /\ flows' = flows \cup {Decision(w)}
               /\ net' = (net \ {m}) \cup {StartFlow(m.txn, q, w) : q \in Provider}
      BY <1>2 DEF HandleInformVote, Handle, Consume
    <2>5. net' \subseteq Message
      BY <2>1, <2>2, <2>4, NewEvents DEF TypeOK
    <2>6. flows' \subseteq Flow
      <3>1. \A w \in Winners : Decision(w) \in Flow
        BY <2>1, <2>2 DEF Flow
      <3> QED
        BY <2>4, <3>1 DEF TypeOK
    <2>7. crashed' \subseteq Process
      BY <1>2 DEF TypeOK, HandleInformVote, Panic, Process
    <2> QED
      BY <1>2, <2>3, <2>5, <2>6, <2>7 DEF ConsumerStep, TypeOK, HandleInformVote, providerVars
  <1>3. ASSUME NEW f \in flows, FinishFlow(f) PROVE TypeOK'
    <2>1. f \in Flow
      BY DEF TypeOK
    <2>2. net' \subseteq Message
      <3>1. f.txn \in Txn
        BY <2>1 DEF Flow
      <3>2. \A m \in net' : m \in net \/ \E q \in Provider : m = TransactionEnd(f.txn, q)
        BY <1>3 DEF FinishFlow, Send
      <3> QED
        BY <3>1, <3>2, NewEvents DEF TypeOK
    <2>3. [f EXCEPT !.stage = "ended"] \in Flow
      BY <2>1 DEF Flow
    <2> QED
      BY <1>3, <2>2, <2>3 DEF ConsumerStep, TypeOK, FinishFlow, providerVars
  <1> QED
    BY <1>1, <1>2, <1>3 DEF ConsumerStep, InformStep, EndFlowStep

LEMMA FailureType ==
    ASSUME TypeOK, FailureStep
    PROVE  TypeOK'
  <1>1. ASSUME NEW m \in net, ConnectionFails(m) PROVE TypeOK'
    BY <1>1 DEF FailureStep, TypeOK, ConnectionFails, Consume, Panic, Process,
                providerVars, consumerVars
  <1>2. ASSUME NEW x \in Process, Crash(x) PROVE TypeOK'
    BY <1>2 DEF FailureStep, TypeOK, Crash, Panic, providerVars, consumerVars
  <1> QED
    BY <1>1, <1>2 DEF FailureStep

\* Whatever the configuration, every variable keeps its type.
THEOREM TypeCorrect == Spec => []TypeOK
  <1>1. TypeOK /\ [Next]_vars => TypeOK'
    <2> SUFFICES ASSUME TypeOK, [Next]_vars PROVE TypeOK'
      OBVIOUS
    <2>1. CASE ConsumerStep
      BY <2>1, ConsumerType
    <2>2. CASE FailureStep
      BY <2>2, FailureType
    <2>3. ASSUME NEW p \in Provider, ProviderStep(p) PROVE TypeOK'
      BY <2>3, BuyType, RequestType, VoteType, ReplyType, FlowType, BeaconType
         DEF ProviderStep
    <2>4. CASE UNCHANGED vars
      BY <2>4 DEF TypeOK, vars, wireVars, providerVars, consumerVars
    <2> QED
      BY <2>1, <2>2, <2>3, <2>4 DEF Next
  <1> QED
    BY <1>1, TypeInit, PTL DEF Spec
=============================================================================
