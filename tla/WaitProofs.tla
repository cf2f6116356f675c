----------------------------- MODULE WaitProofs -----------------------------
(***************************************************************************)
(* What an auction waits for and what it leaves.  A price is waited for   *)
(* only while it is to come or was lost, a provider votes with a price for *)
(* everybody, only the winner of an ended flow is rated, and whatever a    *)
(* transaction still needs is under way, lost or given up: for any number  *)
(* of auctions at once, with beacons wherever they do no harm, and under   *)
(* any failures.                                                           *)
(***************************************************************************)
EXTENDS AgreementProofs

HasPrice(p, q) == peerScoreMatrix[p][q].price \notin {"none", "zero"}

\* The providers that ask for something: a faulty one draws its price.
Asking == Provider \ (FreeProviders \ Faulty)

\* A beacon about an unknown peer gives it a price, or there are no beacons.
BeaconsPriced == BeaconLinks = {} \/ DefaultPrice = "default"

\* What p polls for: a price of every other provider that asks for something.
Seen(p) == \A q \in Asking \ {p} : HasPrice(p, q)

\* An entry no rating was written to before a price was.
Whole(e) == e.price # "zero" /\ (e.price = "none" => e = NoEntry)

PricesSent ==
    \A m \in net : m.type = "REQUEST_VOTE" => m.price = PriceSent(m.from, m.txn)
PricesStored ==
    \A p \in Provider : \A q \in Asking \ {p} : Whole(peerScoreMatrix[p][q])
PricesCopied ==
    \A p \in Provider : \A o \in beaconOps[p] : o.origin \in Asking \ {p} => Whole(o.entry)

\* Whoever votes has seen the prices: while it prepares the vote, while the vote
\* is on its way, and once it is counted.
VotesSeen ==
    /\ \A p \in Provider : \A v \in voting[p] : v.stage = "score" => Seen(p)
    /\ \A m \in net : m.type = "REPLY_VOTE" => Seen(m.from)
    /\ \A p, q \in Provider : \A t \in Txn : q \in allFFS[p][t] /\ q # p => Seen(q)

NoBeacon ==
    /\ \A m \in net : m.type # "BEACON"
    /\ \A p \in Provider : beaconOps[p] = {}
BeaconsLinked == BeaconLinks = {} => NoBeacon

Prices == PricesSent /\ PricesStored /\ PricesCopied /\ VotesSeen /\ BeaconsLinked

LEMMA PricesInit == Init => Prices
  <1> SUFFICES ASSUME Init PROVE Prices
    OBVIOUS
  <1>1. PricesSent /\ PricesCopied /\ BeaconsLinked
    BY DEF Init, WireInit, ProviderInit, PricesSent, PricesCopied, BeaconsLinked, NoBeacon
  <1>2. PricesStored
    BY NameAssumption
       DEF Init, ProviderInit, PricesStored, Asking, Whole, NoEntry
  <1>3. VotesSeen
    BY DEF Init, WireInit, ProviderInit, VotesSeen
  <1> QED
    BY <1>1, <1>2, <1>3 DEF Prices

-----------------------------------------------------------------------------
(* What is stored *)

\* A rating touches one entry.
LEMMA RateStores ==
    ASSUME TypeOK, NEW p0 \in Provider, NEW t0 \in Txn, NEW n0, Rate(p0, t0, n0),
           NEW p \in Provider, NEW n \in Name
    PROVE  \/ peerScoreMatrix'[p][n] = peerScoreMatrix[p][n]
           \/ /\ p = p0 /\ n = n0
              /\ peerScoreMatrix'[p][n] = WithRating(peerScoreMatrix[p][n], t0)
  <1>1. CASE n0 \notin ListedName
    BY <1>1 DEF Rate
  <1>2. CASE n0 \in ListedName
    <2>1. peerScoreMatrix' = [peerScoreMatrix EXCEPT ![p0][n0] = WithRating(@, t0)]
      BY <1>2 DEF Rate
    <2>2. CASE p = p0 /\ n = n0
      BY <2>1, <2>2 DEF TypeOK
    <2>3. CASE ~(p = p0 /\ n = n0)
      BY <2>1, <2>3 DEF TypeOK
    <2> QED
      BY <2>2, <2>3
  <1> QED
    BY <1>1, <1>2

LEMMA AcceptStores ==
    ASSUME TypeOK, NEW p0 \in Provider, NEW m0 \in net, AcceptRequest(p0, m0)
    PROVE  /\ m0.type = "REQUEST_VOTE" /\ m0.to = p0 /\ m0.from \in Provider
           /\ m0.from \in Name /\ m0.txn \in Txn
           /\ peerScoreMatrix'[p0][m0.from] =
                WithPrice(peerScoreMatrix[p0][m0.from], m0.price)
           /\ \A p \in Provider, n \in Name : ~(p = p0 /\ n = m0.from) =>
                peerScoreMatrix'[p][n] = peerScoreMatrix[p][n]
  <1>1. m0 \in RequestEvent /\ m0.type = "REQUEST_VOTE" /\ m0.to = p0
    BY EventTypes DEF TypeOK, AcceptRequest, Arrives
  <1>2. m0.from \in Provider /\ m0.from \in Name /\ m0.txn \in Txn
    BY <1>1, NameAssumption DEF RequestEvent
  <1>3. peerScoreMatrix' =
          [peerScoreMatrix EXCEPT ![p0][m0.from] = WithPrice(@, m0.price)]
    BY DEF AcceptRequest
  <1> QED
    BY <1>1, <1>2, <1>3 DEF TypeOK

\* What a beacon writes back, in place of whatever was stored since.
WrittenBack(o) == IF o.entry = NoEntry THEN WithPrice(NoEntry, DefaultPrice) ELSE o.entry

\* What makes p rate n for t: p has uncounted its own flow, or was told of the end.
Judged(p, t, n) ==
    \/ n = p /\ \E o \in flowOps[p] : o.txn = t /\ o.delta = -1
    \/ winner[p][t] = n /\ \E m \in net : m.type = "TRANSACTION_END" /\ m.txn = t

\* The ways an entry changes: the price of a request, the copy of a beacon, the
\* rating of a winner.
Repriced(p, n) ==
    \E m \in net : /\ m.type = "REQUEST_VOTE" /\ m.from = n /\ m.txn \in Txn
                   /\ peerScoreMatrix'[p][n] = WithPrice(peerScoreMatrix[p][n], m.price)
Overwritten(p, n) ==
    \E o \in beaconOps[p] : o.origin = n /\ peerScoreMatrix'[p][n] = WrittenBack(o)
Rated(p, n) ==
    \E t \in Txn : /\ Judged(p, t, n)
                   /\ peerScoreMatrix'[p][n] = WithRating(peerScoreMatrix[p][n], t)

LEMMA EntrySteps ==
    ASSUME TypeOK, [Next]_vars, NEW p \in Provider, NEW n \in Name
    PROVE  \/ peerScoreMatrix'[p][n] = peerScoreMatrix[p][n]
           \/ Repriced(p, n) \/ Overwritten(p, n) \/ Rated(p, n)
  <1> DEFINE Goal == \/ peerScoreMatrix'[p][n] = peerScoreMatrix[p][n]
                     \/ Repriced(p, n) \/ Overwritten(p, n) \/ Rated(p, n)
  <1> SUFFICES Goal
    OBVIOUS
  <1>1. CASE UNCHANGED peerScoreMatrix
    BY <1>1
  <1> HIDE DEF Goal
  <1>2. CASE ConsumerStep \/ FailureStep \/ UNCHANGED vars
    BY <1>1, <1>2 DEF ConsumerStep, FailureStep, vars, providerVars
  <1>3. ASSUME NEW r \in Provider, ProviderStep(r)
        PROVE  Goal
    <2>1. CASE BuyStep(r)
      BY <1>1, <2>1 DEF BuyStep, HandleBuy
    <2>2. CASE RequestStep(r)
      <3>1. PICK m \in net : AcceptRequest(r, m) \/ UNCHANGED peerScoreMatrix
        BY <2>2 DEF RequestStep, RetryRequest, DropRequest, providerVars
      <3>2. CASE AcceptRequest(r, m)
        BY <3>2, AcceptStores DEF Goal, Repriced
      <3> QED
        BY <1>1, <3>1, <3>2
    <2>3. CASE PriceStep(r) \/ CastStep(r) \/ ReplyStep(r)
      BY <1>1, <2>3 DEF PriceStep, SeeAllPrices, CastStep, CastVote, ReplyStep,
                  HandleReplyVote
    <2>4. CASE StartStep(r)
      BY <1>1, <2>4 DEF StartStep, HandleStartFlow
    <2>5. CASE EndStep(r)
      <3>1. PICK m \in net : HandleTransactionEnd(r, m)
        BY <2>5 DEF EndStep
      <3>2. m.txn \in Txn /\ m.type = "TRANSACTION_END"
        BY <3>1, EventTypes DEF TypeOK, HandleTransactionEnd, Arrives, EndEvent
      <3>3. UNCHANGED peerScoreMatrix \/ Rate(r, m.txn, winner[r][m.txn])
        BY <3>1 DEF HandleTransactionEnd
      <3>4. CASE Rate(r, m.txn, winner[r][m.txn])
        BY <3>2, <3>4, RateStores DEF Goal, Rated, Judged
      <3> QED
        BY <1>1, <3>3, <3>4
    <2>6. CASE CountStep(r)
      <3>1. PICK o \in flowOps[r] : FinishFlowOp(r, o)
        BY <2>6 DEF CountStep
      <3>2. o.txn \in Txn /\ o.delta \in {1, -1}
        BY DEF TypeOK, FlowOp
      <3>3. UNCHANGED peerScoreMatrix \/ (o.delta = -1 /\ Rate(r, o.txn, r))
        BY <3>1, <3>2 DEF FinishFlowOp
      <3>4. CASE o.delta = -1 /\ Rate(r, o.txn, r)
        BY <3>2, <3>4, RateStores DEF Goal, Rated, Judged
      <3> QED
        BY <1>1, <3>3, <3>4
    <2>7. CASE BeaconStep(r)
      <3>1. CASE \E m \in net : BeaconRead(r, m)
        BY <1>1, <3>1 DEF BeaconRead
      <3>2. ASSUME NEW o \in beaconOps[r], BeaconWrite(r, o) PROVE Goal
        <4>1. peerScoreMatrix' = [peerScoreMatrix EXCEPT ![r][o.origin] = WrittenBack(o)]
          BY <3>2 DEF BeaconWrite, WrittenBack
        <4>2. CASE r = p /\ o.origin = n
          <5>1. peerScoreMatrix'[p][n] = WrittenBack(o)
            BY <4>1, <4>2 DEF TypeOK
          <5> QED
            BY <4>2, <5>1 DEF Goal, Overwritten
        <4>3. CASE ~(r = p /\ o.origin = n)
          <5>1. peerScoreMatrix'[p][n] = peerScoreMatrix[p][n]
            BY <4>1, <4>3 DEF TypeOK
          <5> QED
            BY <5>1 DEF Goal
        <4> QED
          BY <4>2, <4>3
      <3> QED
        BY <2>7, <3>1, <3>2 DEF BeaconStep
    <2>8. CASE EmitStep(r)
      BY <1>1, <2>8 DEF EmitStep, EmitBeacon, providerVars
    <2> QED
      BY <1>3, <2>1, <2>2, <2>3, <2>4, <2>5, <2>6, <2>7, <2>8 DEF ProviderStep
  <1> QED
    BY <1>2, <1>3 DEF Next

\* The copy of a beacon is an entry that was stored.
LEMMA CopySteps ==
    ASSUME TypeOK, [Next]_vars, NEW p \in Provider, NEW o \in beaconOps'[p], o \notin beaconOps[p]
    PROVE  o.origin \in Provider /\ o.entry = peerScoreMatrix[p][o.origin]
  <1>1. CASE ConsumerStep \/ FailureStep \/ UNCHANGED vars
    BY <1>1 DEF ConsumerStep, FailureStep, vars, providerVars
  <1>2. ASSUME NEW r \in Provider, ProviderStep(r)
        PROVE  o.origin \in Provider /\ o.entry = peerScoreMatrix[p][o.origin]
    <2>1. CASE BeaconStep(r)
      <3>1. CASE \E b \in beaconOps[r] : BeaconWrite(r, b)
        BY <3>1 DEF BeaconWrite, TypeOK
      <3>2. ASSUME NEW m \in net, BeaconRead(r, m)
            PROVE  o.origin \in Provider /\ o.entry = peerScoreMatrix[p][o.origin]
        <4>1. m.from \in Provider
          BY <3>2, EventTypes DEF TypeOK, BeaconRead, Arrives, BeaconEvent
        <4>2. p = r /\ o = [origin |-> m.from, entry |-> peerScoreMatrix[p][m.from]]
          BY <3>2 DEF BeaconRead, TypeOK
        <4> QED
          BY <4>1, <4>2
      <3> QED
        BY <2>1, <3>1, <3>2 DEF BeaconStep
    <2>2. CASE ~BeaconStep(r)
      <3>1. UNCHANGED beaconOps
        BY <1>2, <2>2 DEF ProviderStep, BuyStep, HandleBuy, RequestStep, AcceptRequest,
             RetryRequest, DropRequest, PriceStep, SeeAllPrices, CastStep, CastVote, ReplyStep,
             HandleReplyVote, StartStep, HandleStartFlow, EndStep, HandleTransactionEnd,
             CountStep, FinishFlowOp, EmitStep, EmitBeacon, providerVars
      <3> QED
        BY <3>1
    <2> QED
      BY <2>1, <2>2
  <1> QED
    BY <1>1, <1>2 DEF Next

-----------------------------------------------------------------------------
(* What is sent *)

\* What a step sends, as far as prices, votes and ends of flows go.
Asked(m) ==
    \/ m.price = PriceSent(m.from, m.txn)
    \/ \E n \in net : /\ n.type = "REQUEST_VOTE" /\ n.from = m.from
                       /\ n.txn = m.txn /\ n.price = m.price
Voted(m)    == \E v \in voting[m.from] : v.stage = "score" /\ v.txn = m.txn
OnALink(m)  == <<m.from, m.to>> \in BeaconLinks
Announced(m) == \E f \in flows' : f.txn = m.txn /\ f.stage = "ended"
WellSent(m) == /\ m.type = "REQUEST_VOTE" => Asked(m)
               /\ m.type = "REPLY_VOTE" => m.from \in Provider /\ Voted(m)
               /\ m.type = "BEACON" => OnALink(m)
               /\ m.type = "TRANSACTION_END" => Announced(m)

LEMMA SentSteps ==
    ASSUME TypeOK, [Next]_vars
    PROVE  \A m \in net' : m \in net \/ WellSent(m)
  <1> DEFINE Goal == \A m \in net' : m \in net \/ WellSent(m)
  <1> SUFFICES Goal
    OBVIOUS
  <1>1. CASE ConsumerStep
    <2>1. ASSUME NEW t \in Txn, TriggerBuy(t) PROVE Goal
      BY <2>1 DEF TriggerBuy, Send, Buy, WellSent
    <2>2. ASSUME NEW n \in net, HandleInformVote(n) PROVE Goal
      <3>1. \/ net' = net \ {n}
            \/ \E w : net' = (net \ {n}) \cup {StartFlow(n.txn, q, w) : q \in Provider}
        BY <2>2 DEF HandleInformVote, Handle, Consume
      <3>2. \A q, w : WellSent(StartFlow(n.txn, q, w))
        BY DEF StartFlow, WellSent
      <3> QED
        BY <3>1, <3>2
    <2>3. ASSUME NEW f \in flows, FinishFlow(f) PROVE Goal
      <3>1. [f EXCEPT !.stage = "ended"].txn = f.txn /\ [f EXCEPT !.stage = "ended"].stage = "ended"
        BY DEF TypeOK, Flow
      <3>2. [f EXCEPT !.stage = "ended"] \in flows'
        BY <2>3 DEF FinishFlow
      <3>3. \A q : WellSent(TransactionEnd(f.txn, q))
        BY <3>1, <3>2 DEF TransactionEnd, WellSent, Announced
      <3> QED
        BY <2>3, <3>3 DEF FinishFlow, Send
    <2> QED
      BY <1>1, <2>1, <2>2, <2>3 DEF ConsumerStep, InformStep, EndFlowStep
  <1>2. CASE FailureStep \/ UNCHANGED vars
    BY <1>2 DEF FailureStep, ConnectionFails, Crash, Consume, vars, wireVars
  <1>3. ASSUME NEW p \in Provider, ProviderStep(p) PROVE Goal
    <2>1. CASE BuyStep(p)
      BY <2>1 DEF BuyStep, HandleBuy, Handle, RequestVote, WellSent, Asked
    <2>2. CASE RequestStep(p)
      <3>1. PICK n \in net : AcceptRequest(p, n) \/ RetryRequest(p, n) \/ DropRequest(p, n)
        BY <2>2 DEF RequestStep
      <3>2. n \in RequestEvent /\ n.type = "REQUEST_VOTE"
        BY <3>1, EventTypes DEF TypeOK, AcceptRequest, RetryRequest, DropRequest, Arrives
      <3>3. WellSent([n EXCEPT !.tries = @ + 1])
        BY <3>2 DEF RequestEvent, WellSent, Asked
      <3> QED
        BY <3>1, <3>3 DEF AcceptRequest, RetryRequest, DropRequest, Handle, Consume
    <2>3. CASE PriceStep(p) \/ StartStep(p) \/ EndStep(p) \/ CountStep(p) \/ BeaconStep(p)
      BY <2>3 DEF PriceStep, SeeAllPrices, StartStep, HandleStartFlow, EndStep,
                  HandleTransactionEnd, CountStep, FinishFlowOp, BeaconStep, BeaconRead,
                  BeaconWrite, Consume, wireVars
    <2>4. CASE CastStep(p)
      <3>1. PICK v \in voting[p] : CastVote(p, v)
        BY <2>4 DEF CastStep
      <3>2. WellSent(ReplyVote(v.txn, p, v.to))
        BY <3>1 DEF CastVote, ReplyVote, WellSent, Voted
      <3> QED
        BY <3>1, <3>2 DEF CastVote, Send
    <2>5. CASE ReplyStep(p)
      BY <2>5 DEF ReplyStep, HandleReplyVote, Handle, Consume, InformVote, WellSent
    <2>6. CASE EmitStep(p)
      BY <2>6 DEF EmitStep, EmitBeacon, Send, Beacon, WellSent, OnALink
    <2> QED
      BY <1>3, <2>1, <2>2, <2>3, <2>4, <2>5, <2>6 DEF ProviderStep
  <1> QED
    BY <1>1, <1>2, <1>3 DEF Next

\* Each request is sent with its price, also when it is looked up again.
LEMMA RequestsPriced ==
    ASSUME TypeOK, PricesSent, [Next]_vars
    PROVE  PricesSent'
  BY SentSteps DEF PricesSent, WellSent, Asked, PriceSent

\* Only a provider with a link sends a beacon, and only its receiver copies an entry.
LEMMA BeaconsNeedLinks ==
    ASSUME TypeOK, BeaconsLinked, [Next]_vars
    PROVE  BeaconsLinked'
  <1> SUFFICES ASSUME BeaconLinks = {}, NoBeacon PROVE NoBeacon'
    BY DEF BeaconsLinked, NoBeacon
  <1>1. \A m \in net' : m.type # "BEACON"
    BY SentSteps DEF NoBeacon, WellSent, OnALink
  <1>2. CASE ConsumerStep \/ FailureStep \/ UNCHANGED vars
    BY <1>1, <1>2 DEF NoBeacon, ConsumerStep, FailureStep, vars, providerVars
  <1>3. ASSUME NEW r \in Provider, ProviderStep(r) PROVE UNCHANGED beaconOps
    BY <1>3 DEF ProviderStep, BuyStep, HandleBuy, RequestStep, AcceptRequest, RetryRequest,
       DropRequest, PriceStep, SeeAllPrices, CastStep, CastVote, ReplyStep, HandleReplyVote,
       StartStep, HandleStartFlow, EndStep, HandleTransactionEnd, CountStep, FinishFlowOp,
       BeaconStep, BeaconRead, BeaconWrite, Arrives, NoBeacon, EmitStep, EmitBeacon,
       providerVars
  <1> QED
    BY <1>1, <1>2, <1>3 DEF Next, NoBeacon

\* A BUY or a request that leaves the network is remembered, but for the BUY a
\* provider handles and the request it accepts or looks up again.
LEMMA SentKeeps ==
    ASSUME TypeOK, [Next]_vars,
           NEW m \in net, m.type \in {"BUY", "REQUEST_VOTE"},
           m \notin net' \cup lost' \cup dropped'
    PROVE  \E p \in Provider : \/ HandleBuy(p, m)
                               \/ AcceptRequest(p, m)
                               \/ RetryRequest(p, m)
  <1>1. CASE ConsumerStep
    BY <1>1 DEF ConsumerStep, TriggerBuy, InformStep, HandleInformVote, EndFlowStep,
                FinishFlow, Send, Handle, Consume, Arrives
  <1>2. CASE FailureStep
    BY <1>2 DEF FailureStep, ConnectionFails, Crash, Consume
  <1>3. CASE UNCHANGED vars
    BY <1>3 DEF vars, wireVars
  <1>4. ASSUME NEW p \in Provider, ProviderStep(p)
        PROVE  HandleBuy(p, m) \/ AcceptRequest(p, m) \/ RetryRequest(p, m)
    <2>1. CASE BuyStep(p)
      <3>1. PICK n \in net : HandleBuy(p, n)
        BY <2>1 DEF BuyStep
      <3>2. n = m
        BY <3>1 DEF HandleBuy, Handle
      <3> QED
        BY <3>1, <3>2
    <2>2. CASE RequestStep(p)
      <3>1. PICK n \in net : AcceptRequest(p, n) \/ RetryRequest(p, n) \/ DropRequest(p, n)
        BY <2>2 DEF RequestStep
      <3>2. n = m
        BY <3>1 DEF AcceptRequest, RetryRequest, DropRequest, Handle, Consume
      <3>3. ~DropRequest(p, m)
        BY DEF DropRequest
      <3> QED
        BY <3>1, <3>2, <3>3
    <2>3. CASE PriceStep(p) \/ CastStep(p)
      BY <2>3 DEF PriceStep, SeeAllPrices, wireVars, CastStep, CastVote, Send
    <2>4. CASE ReplyStep(p)
      BY <2>4 DEF ReplyStep, HandleReplyVote, Arrives, Handle, Consume
    <2>5. CASE StartStep(p) \/ EndStep(p)
      BY <2>5 DEF StartStep, HandleStartFlow, EndStep, HandleTransactionEnd, Arrives, Consume
    <2>6. CASE CountStep(p)
      BY <2>6 DEF CountStep, FinishFlowOp, wireVars
    <2>7. CASE BeaconStep(p)
      BY <2>7 DEF BeaconStep, BeaconRead, BeaconWrite, Arrives, Consume, wireVars
    <2>8. CASE EmitStep(p)
      BY <2>8 DEF EmitStep, EmitBeacon, Send
    <2> QED
      BY <1>4, <2>1, <2>2, <2>3, <2>4, <2>5, <2>6, <2>7, <2>8 DEF ProviderStep
  <1> QED
    BY <1>1, <1>2, <1>3, <1>4 DEF Next

\* What was lost or given up stays so.
LEMMA LostStays ==
    ASSUME [Next]_vars
    PROVE  lost \subseteq lost' /\ dropped \subseteq dropped'
  <1>1. CASE ConsumerStep \/ FailureStep \/ UNCHANGED vars
    BY <1>1 DEF ConsumerStep, TriggerBuy, InformStep, HandleInformVote, EndFlowStep,
                FinishFlow, FailureStep, ConnectionFails, Crash, vars, wireVars, providerVars
  <1>2. ASSUME NEW p \in Provider, ProviderStep(p)
        PROVE  lost' = lost /\ dropped \subseteq dropped'
    <2>1. CASE BuyStep(p) \/ RequestStep(p)
      BY <2>1 DEF BuyStep, HandleBuy, RequestStep, AcceptRequest, RetryRequest, DropRequest,
                  providerVars
    <2>2. CASE PriceStep(p) \/ CastStep(p) \/ ReplyStep(p)
      BY <2>2 DEF PriceStep, SeeAllPrices, CastStep, CastVote, ReplyStep, HandleReplyVote,
                  wireVars
    <2>3. CASE StartStep(p) \/ EndStep(p) \/ CountStep(p)
      BY <2>3 DEF StartStep, HandleStartFlow, EndStep, HandleTransactionEnd, CountStep,
                  FinishFlowOp, wireVars
    <2>4. CASE BeaconStep(p) \/ EmitStep(p)
      BY <2>4 DEF BeaconStep, BeaconRead, BeaconWrite, EmitStep, EmitBeacon, wireVars,
                  providerVars
    <2> QED
      BY <1>2, <2>1, <2>2, <2>3, <2>4 DEF ProviderStep
  <1> QED
    BY <1>1, <1>2 DEF Next

-----------------------------------------------------------------------------
(* What is seen stays seen *)

\* A winner has voted for everybody who votes, so its own prices are there, and
\* whoever rates it has its price.
LEMMA RatedWasSeen ==
    ASSUME TypeOK, Core, Heard, VotesSeen, NEW p \in Provider, NEW t \in Txn,
           NEW q \in Asking \ {p}, winner[p][t] = q
    PROVE  HasPrice(p, q)
  <1>1. q \in Provider /\ q # NoWinner
    BY NameAssumption DEF Asking
  <1>2. PICK f \in flows : f.txn = t
    BY <1>1 DEF Heard, StoredFor, Decided
  <1>3. q \in allFFSnew[t]
    BY <1>1, <1>2 DEF Core, DecisionComesLast
  <1>4. p \in allFFS[q][t]
    BY <1>1, <1>3 DEF Core, EvaluationInOnePlace
  <1>5. Seen(p)
    BY <1>1, <1>4 DEF VotesSeen
  <1> QED
    BY <1>5 DEF Seen

\* The entry of a provider that asks for something keeps its price, and gets no
\* rating before a price.
LEMMA EntryKept ==
    ASSUME NamesMatch, BeaconsPriced, TypeOK, Core, Heard, Prices, [Next]_vars,
           NEW p \in Provider, NEW q \in Asking \ {p}
    PROVE  Whole(peerScoreMatrix[p][q])' /\ (HasPrice(p, q) => HasPrice(p, q)')
  <1>1. q \in Provider /\ q \in Name
    BY NameAssumption DEF Asking
  <1>2. Whole(peerScoreMatrix[p][q])
    BY DEF Prices, PricesStored
  <1>3. CASE peerScoreMatrix'[p][q] = peerScoreMatrix[p][q]
    BY <1>2, <1>3 DEF Whole, HasPrice, NoEntry
  <1>4. CASE Repriced(p, q)
    <2>1. PICK m \in net : /\ m.type = "REQUEST_VOTE" /\ m.from = q /\ m.txn \in Txn
                           /\ peerScoreMatrix'[p][q] = WithPrice(peerScoreMatrix[p][q], m.price)
      BY <1>4 DEF Repriced
    <2>2. m.price \in Txn
      BY <2>1 DEF Prices, PricesSent, PriceSent, Asking
    <2>3. peerScoreMatrix'[p][q].price = m.price
      BY <2>1 DEF WithPrice
    <2> QED
      BY <2>2, <2>3, TxnAssumption DEF Whole, HasPrice
  <1>5. CASE Overwritten(p, q)
    <2>1. PICK o \in beaconOps[p] : o.origin = q /\ peerScoreMatrix'[p][q] = WrittenBack(o)
      BY <1>5 DEF Overwritten
    <2>2. Whole(o.entry)
      BY <2>1 DEF Prices, PricesCopied
    <2>3. DefaultPrice = "default"
      BY DEF BeaconsPriced, Prices, BeaconsLinked, NoBeacon
    <2>4. WrittenBack(o).price \notin {"none", "zero"}
      BY <2>2, <2>3 DEF WrittenBack, WithPrice, Whole
    <2> QED
      BY <2>1, <2>4 DEF Whole, HasPrice
  <1>6. CASE Rated(p, q)
    <2>1. PICK t \in Txn : /\ winner[p][t] = q
                           /\ peerScoreMatrix'[p][q] = WithRating(peerScoreMatrix[p][q], t)
      BY <1>6 DEF Rated, Judged
    <2>2. HasPrice(p, q)
      BY <2>1, RatedWasSeen DEF Prices
    <2>3. peerScoreMatrix'[p][q].price = peerScoreMatrix[p][q].price
      BY <2>1, <2>2 DEF WithRating, HasPrice
    <2> QED
      BY <2>2, <2>3 DEF Whole, HasPrice
  <1> QED
    BY <1>1, <1>3, <1>4, <1>5, <1>6, EntrySteps

LEMMA SeenStays ==
    ASSUME NamesMatch, BeaconsPriced, TypeOK, Core, Heard, Prices, [Next]_vars,
           NEW p \in Provider, Seen(p)
    PROVE  Seen(p)'
  <1> SUFFICES ASSUME NEW q \in Asking \ {p} PROVE HasPrice(p, q)'
    BY DEF Seen, Asking
  <1> QED
    BY EntryKept DEF Seen

\* Who votes for whom: the handlers that have seen the prices, the votes under
\* way and those counted.
LEMMA VoteSteps ==
    ASSUME NamesMatch, TypeOK, Core, [Next]_vars
    PROVE  /\ \A p \in Provider : \A v \in voting'[p] :
                v.stage = "score" => v \in voting[p] \/ Seen(p)
           /\ \A p, q \in Provider : \A t \in Txn : q \in allFFS'[p][t] /\ q # p =>
                \/ q \in allFFS[p][t]
                \/ ReplyVote(t, q, p) \in net
  <1> DEFINE Goal == /\ \A p \in Provider : \A v \in voting'[p] :
                          v.stage = "score" => v \in voting[p] \/ Seen(p)
                     /\ \A p, q \in Provider : \A t \in Txn : q \in allFFS'[p][t] /\ q # p =>
                          \/ q \in allFFS[p][t]
                          \/ ReplyVote(t, q, p) \in net
  <1> SUFFICES Goal
    OBVIOUS
  <1>1. CASE UNCHANGED <<voting, allFFS>>
    BY <1>1
  <1>2. CASE ConsumerStep \/ FailureStep \/ UNCHANGED vars
    BY <1>1, <1>2 DEF ConsumerStep, FailureStep, vars, providerVars
  <1>3. ASSUME NEW r \in Provider, ProviderStep(r) PROVE Goal
    <2>1. CASE BuyStep(r)
      <3>1. PICK m \in net : HandleBuy(r, m)
        BY <2>1 DEF BuyStep
      <3>2. m.txn \in Txn
        BY <3>1, EventTypes DEF TypeOK, HandleBuy, Arrives, BuyEvent
      <3>3. allFFS' = [allFFS EXCEPT ![r][m.txn] = {r}] /\ UNCHANGED voting
        BY <3>1 DEF HandleBuy
      <3> QED
        BY <3>2, <3>3 DEF TypeOK
    <2>2. CASE RequestStep(r)
      <3>1. UNCHANGED allFFS
        BY <2>2 DEF RequestStep, AcceptRequest, RetryRequest, DropRequest, providerVars
      <3>2. CASE UNCHANGED voting
        BY <3>1, <3>2
      <3>3. ASSUME NEW m, AcceptRequest(r, m) PROVE Goal
        <4>1. \A p \in Provider : \A v \in voting'[p] : v \in voting[p] \/ v.stage = "wait"
          BY <3>3 DEF AcceptRequest, TypeOK
        <4> QED
          BY <3>1, <4>1
      <3> QED
        BY <2>2, <3>2, <3>3 DEF RequestStep, RetryRequest, DropRequest, providerVars
    <2>3. CASE PriceStep(r)
      <3>1. PICK u \in voting[r] : SeeAllPrices(r, u)
        BY <2>3 DEF PriceStep
      <3>2. Seen(r)
        BY <3>1 DEF SeeAllPrices, HasReceivedAll, Peers, NamesMatch, Seen, HasPrice, Asking
      <3>3. \A p \in Provider : \A v \in voting'[p] : v \in voting[p] \/ p = r
        BY <3>1 DEF SeeAllPrices, TypeOK
      <3>4. UNCHANGED allFFS
        BY <3>1 DEF SeeAllPrices
      <3> QED
        BY <3>2, <3>3, <3>4
    <2>4. CASE CastStep(r)
      <3>1. PICK u \in voting[r] : CastVote(r, u)
        BY <2>4 DEF CastStep
      <3>2. \A p \in Provider : voting'[p] \subseteq voting[p]
        BY <3>1 DEF CastVote, TypeOK
      <3>3. \A p, q \in Provider : \A t \in Txn :
              q \in allFFS'[p][t] => q \in allFFS[p][t] \/ q = p
        <4>1. allFFS' = [allFFS EXCEPT ![r][u.txn] = @ \cup {r}]
          BY <3>1 DEF CastVote
        <4> QED
          BY <4>1 DEF TypeOK
      <3> QED
        BY <3>2, <3>3
    <2>5. CASE ReplyStep(r)
      <3>1. PICK m \in net : HandleReplyVote(r, m)
        BY <2>5 DEF ReplyStep
      <3>2. m = ReplyVote(m.txn, m.from, r) /\ m.txn \in Txn
        BY <3>1, EventShapes, EventTypes DEF TypeOK, HandleReplyVote, Arrives, ReplyEvent
      <3>3. /\ \/ UNCHANGED allFFS
               \/ allFFS' = [allFFS EXCEPT ![r][m.txn] = allFFS[r][m.txn] \cup {m.from}]
            /\ UNCHANGED voting
        BY <3>1 DEF HandleReplyVote
      <3>4. \A p, q \in Provider : \A t \in Txn : q \in allFFS'[p][t] =>
              q \in allFFS[p][t] \/ (q = m.from /\ p = r /\ t = m.txn)
        BY <3>2, <3>3 DEF TypeOK
      <3> QED
        BY <3>2, <3>3, <3>4
    <2>6. CASE StartStep(r) \/ EndStep(r) \/ CountStep(r) \/ BeaconStep(r) \/ EmitStep(r)
      BY <1>1, <2>6 DEF StartStep, HandleStartFlow, EndStep, HandleTransactionEnd, CountStep,
                  FinishFlowOp, BeaconStep, BeaconRead, BeaconWrite, EmitStep, EmitBeacon,
                  providerVars
    <2> QED
      BY <1>3, <2>1, <2>2, <2>3, <2>4, <2>5, <2>6 DEF ProviderStep
  <1> QED
    BY <1>2, <1>3 DEF Next

LEMMA PricesStep ==
    ASSUME NamesMatch, BeaconsPriced, TypeOK, Core, Heard, Prices, [Next]_vars
    PROVE  Prices'
  <1>1. PricesSent' /\ BeaconsLinked'
    BY RequestsPriced, BeaconsNeedLinks DEF Prices
  <1>2. PricesStored'
    BY EntryKept DEF PricesStored, Asking
  <1>3. PricesCopied'
    <2> SUFFICES ASSUME NEW p \in Provider, NEW o \in beaconOps'[p],
                        o.origin \in Asking \ {p}
                 PROVE  Whole(o.entry)
      BY DEF PricesCopied, Asking, Whole, NoEntry
    <2> QED
      BY CopySteps DEF Prices, PricesCopied, PricesStored
  <1>4. VotesSeen'
    <2>1. \A p \in Provider : \A v \in voting'[p] : v.stage = "score" => Seen(p)'
      BY VoteSteps, SeenStays DEF Prices, VotesSeen
    <2>2. \A m \in net' : m.type = "REPLY_VOTE" => Seen(m.from)'
      <3> SUFFICES ASSUME NEW m \in net', m.type = "REPLY_VOTE" PROVE Seen(m.from)'
        OBVIOUS
      <3>1. m.from \in Provider
        BY SentSteps, EventTypes DEF TypeOK, WellSent, ReplyEvent
      <3>2. Seen(m.from)
        BY SentSteps DEF WellSent, Voted, Prices, VotesSeen
      <3> QED
        BY <3>1, <3>2, SeenStays
    <2>3. \A p, q \in Provider : \A t \in Txn : q \in allFFS'[p][t] /\ q # p => Seen(q)'
      <3>1. \A t, q, p : ReplyVote(t, q, p).type = "REPLY_VOTE" /\ ReplyVote(t, q, p).from = q
        BY DEF ReplyVote
      <3> QED
        BY <3>1, VoteSteps, SeenStays DEF Prices, VotesSeen
    <2> QED
      BY <2>1, <2>2, <2>3 DEF VotesSeen
  <1> QED
    BY <1>1, <1>2, <1>3, <1>4 DEF Prices

\* The invariant of the prices.
THEOREM PricesHold == NamesMatch /\ BeaconsPriced /\ Spec => []Prices
  <1> SUFFICES ASSUME NamesMatch, BeaconsPriced PROVE Spec => []Prices
    OBVIOUS
  <1>1. TypeOK /\ Core /\ Heard /\ Prices /\ [Next]_vars => Prices'
    BY PricesStep
  <1> QED
    BY <1>1, PricesInit, TypeCorrect, CoreHolds, HeardHolds, PTL DEF Spec

-----------------------------------------------------------------------------
(* What is waited for *)

\* m leads to p's price of q in t: q's BUY, or its request itself.
Brings(m, t, q, p) ==
    \/ m.type = "BUY" /\ m.txn = t /\ m.to = q
    \/ m.type = "REQUEST_VOTE" /\ m.txn = t /\ m.from = q /\ m.to = p

\* A triggered transaction's price is there or to come, whether p waits or not.
Explained ==
    \A t \in triggered : \A p, q \in Provider :
        p # q => HasPrice(p, q) \/ Coming(t, q, p)

LEMMA ComingBrings ==
    ASSUME NEW t, NEW p, NEW q \in Provider
    PROVE  Coming(t, q, p) <=>
             (\E m \in net \cup lost \cup dropped : Brings(m, t, q, p)) \/ q \notin Asking
  BY DEF Coming, Brings, Asking

LEMMA ExplainedInit == Init => Explained
  BY DEF Init, ConsumerInit, Explained

\* Whatever brought the price still does, or has brought it.
LEMMA ComingStays ==
    ASSUME NamesMatch, TypeOK, Prices, [Next]_vars,
           NEW t \in Txn, NEW p \in Provider, NEW q \in Asking \ {p}, Coming(t, q, p)
    PROVE  HasPrice(p, q)' \/ Coming(t, q, p)'
  <1> SUFFICES HasPrice(p, q)' \/ \E n \in net' \cup lost' \cup dropped' : Brings(n, t, q, p)
    BY DEF Coming, Brings
  <1>1. PICK m \in net \cup lost \cup dropped : Brings(m, t, q, p)
    BY ComingBrings DEF Asking
  <1>2. CASE m \in net' \cup lost' \cup dropped'
    BY <1>1, <1>2
  <1>3. CASE m \notin net' \cup lost' \cup dropped'
    <2>1. m \in net /\ m.type \in {"BUY", "REQUEST_VOTE"}
      BY <1>1, <1>3, LostStays DEF Brings
    <2>2. PICK r \in Provider : HandleBuy(r, m) \/ AcceptRequest(r, m) \/ RetryRequest(r, m)
      BY <1>3, <2>1, SentKeeps
    <2>3. CASE HandleBuy(r, m)
      <3>1. r = q /\ m.txn = t
        BY <1>1, <2>3 DEF Brings, HandleBuy, Arrives
      <3>2. p \in Peers(q)
        BY DEF Peers, NamesMatch
      <3>3. RequestVote(t, q, p, PriceSent(q, t)) \in net'
        BY <2>3, <3>1, <3>2 DEF HandleBuy, Handle
      <3>4. Brings(RequestVote(t, q, p, PriceSent(q, t)), t, q, p)
        BY DEF Brings, RequestVote
      <3> QED
        BY <3>3, <3>4
    <2>4. CASE AcceptRequest(r, m)
      <3>1. r = p /\ m.from = q /\ m.txn \in Txn /\ m.type = "REQUEST_VOTE"
        BY <1>1, <2>1, <2>4, AcceptStores DEF Brings
      <3>2. peerScoreMatrix'[p][q].price = m.price
        <4>1. peerScoreMatrix'[p][q] = WithPrice(peerScoreMatrix[p][q], m.price)
          BY <2>1, <2>4, <3>1, AcceptStores
        <4> QED
          BY <4>1 DEF WithPrice
      <3>3. m.price \in Txn
        BY <2>1, <3>1 DEF Prices, PricesSent, PriceSent, Asking
      <3> QED
        BY <3>2, <3>3, TxnAssumption DEF HasPrice
    <2>5. CASE RetryRequest(r, m)
      <3>1. m \in RequestEvent
        BY <2>1, <2>5, EventTypes DEF TypeOK, RetryRequest, Arrives
      <3>2. [m EXCEPT !.tries = @ + 1] \in net'
        BY <2>5 DEF RetryRequest, Handle
      <3>3. Brings([m EXCEPT !.tries = @ + 1], t, q, p)
        BY <1>1, <3>1 DEF Brings, RequestEvent
      <3> QED
        BY <3>2, <3>3
    <2> QED
      BY <2>2, <2>3, <2>4, <2>5
  <1> QED
    BY <1>2, <1>3

\* The trigger sends every provider its BUY.
LEMMA TriggerBrings ==
    ASSUME [Next]_vars, NEW t \in triggered', t \notin triggered, NEW q \in Provider, NEW p
    PROVE  Coming(t, q, p)'
  <1>1. TriggerBuy(t)
    <2>1. CASE ConsumerStep
      BY <2>1 DEF ConsumerStep, TriggerBuy, InformStep, HandleInformVote, EndFlowStep, FinishFlow
    <2>2. CASE FailureStep \/ (\E r \in Provider : ProviderStep(r)) \/ UNCHANGED vars
      BY <2>2 DEF FailureStep, ProviderStep, vars, consumerVars
    <2> QED
      BY <2>1, <2>2 DEF Next
  <1>2. Buy(t, q) \in net'
    BY <1>1 DEF TriggerBuy, Send
  <1>3. Buy(t, q).type = "BUY" /\ Buy(t, q).txn = t /\ Buy(t, q).to = q
    BY DEF Buy
  <1> QED
    BY <1>2, <1>3 DEF Coming

LEMMA ExplainedStep ==
    ASSUME NamesMatch, BeaconsPriced, TypeOK, Core, Heard, Prices, Explained, [Next]_vars
    PROVE  Explained'
  <1> SUFFICES ASSUME NEW t \in triggered', NEW p \in Provider, NEW q \in Provider, p # q
               PROVE  HasPrice(p, q)' \/ Coming(t, q, p)'
    BY DEF Explained
  <1>1. CASE t \notin triggered
    BY <1>1, TriggerBrings
  <1>2. CASE q \notin Asking
    BY <1>2 DEF Coming, Asking
  <1>3. CASE t \in triggered /\ q \in Asking
    <2>1. t \in Txn
      BY <1>3 DEF TypeOK
    <2>2. CASE Coming(t, q, p)
      BY <1>3, <2>1, <2>2, ComingStays
    <2>3. CASE HasPrice(p, q)
      BY <1>3, <2>3, EntryKept
    <2> QED
      BY <1>3, <2>2, <2>3 DEF Explained
  <1> QED
    BY <1>1, <1>2, <1>3

-----------------------------------------------------------------------------
(* The theorems *)

\* A handler polls for a missing price only while the event that brings it is on
\* its way, or was lost, or the peer asks for nothing.
THEOREM WaitsAreExplained ==
    NamesMatch /\ BeaconsPriced /\ Spec => []WaitIsExplained
  <1> SUFFICES ASSUME NamesMatch, BeaconsPriced PROVE Spec => []WaitIsExplained
    OBVIOUS
  <1>1. TypeOK /\ Core /\ Heard /\ Prices /\ Explained /\ [Next]_vars => Explained'
    BY ExplainedStep
  <1>2. TypeOK /\ Core /\ Explained => WaitIsExplained
    <2> SUFFICES ASSUME TypeOK, Core, Explained, NEW p \in Provider, NEW v \in voting[p],
                        NEW q \in Peers(p), ~HasPrice(p, Listed[q])
                 PROVE  Coming(v.txn, q, p)
      BY DEF WaitIsExplained, HasPrice
    <2>1. q \in Provider /\ Listed[q] = q /\ q # p
      BY DEF Peers, NamesMatch
    <2>2. v.txn \in Txn /\ v.txn \in triggered
      BY DEF TypeOK, Vote, Core, VoteInOnePlace, HandlersInOnePlace, BuyComesFirst
    <2> QED
      BY <2>1, <2>2 DEF Explained
  <1> QED
    BY <1>1, <1>2, ExplainedInit, TypeCorrect, CoreHolds, HeardHolds, PricesHold, PTL DEF Spec

\* What a provider sees when its vote is new.
LEMMA NewReplySeen ==
    ASSUME TypeOK, Prices, [Next]_vars, NEW p \in Provider, NEW m \in RepliesBy(p)' \ RepliesBy(p)
    PROVE  Seen(p)
  <1>1. m \in net' /\ m \notin net /\ m.type = "REPLY_VOTE" /\ m.from = p
    BY DEF RepliesBy
  <1>2. Voted(m)
    BY <1>1, SentSteps DEF WellSent
  <1> QED
    BY <1>1, <1>2 DEF Voted, Prices, VotesSeen

\* A provider votes with a price for every other provider, where everybody asks
\* for something: neither a rating nor a beacon takes a price away between the
\* poll that saw it and the vote that uses it.
THEOREM VotesPriced ==
    NamesMatch /\ BeaconsPriced /\ FreeProviders \subseteq Faulty /\ Spec => VotesArePriced
  <1> SUFFICES ASSUME NamesMatch, BeaconsPriced, FreeProviders \subseteq Faulty
               PROVE  Spec => VotesArePriced
    OBVIOUS
  <1>1. TypeOK /\ Prices /\ [Next]_vars =>
          [\A p \in Provider : RepliesBy(p)' \subseteq RepliesBy(p) \/
             \A q \in Peers(p) : peerScoreMatrix[p][Listed[q]].price \notin {"none", "zero"}]_vars
    BY NewReplySeen DEF Seen, HasPrice, Asking, Peers, NamesMatch
  <1> QED
    BY <1>1, TypeCorrect, PricesHold, PTL DEF Spec, VotesArePriced

-----------------------------------------------------------------------------
(* Only the winner of an ended flow is rated *)

\* The flow of t has ended, and n won it.
Ended(t)     == \E f \in flows : f.txn = t /\ f.stage = "ended"
Earned(t, n) == \E f \in flows : f.txn = t /\ f.winner = n /\ f.stage = "ended"

\* What makes a rating comes from the end of a flow: the event that announces it,
\* the handler that uncounts the flow, the copy a beacon took.
EndsHappened == \A m \in net : m.type = "TRANSACTION_END" => Ended(m.txn)
UncountsEarned ==
    \A p \in Provider : \A o \in flowOps[p] : o.delta = -1 => Earned(o.txn, p)
CopiesEarned ==
    \A p \in Provider : \A o \in beaconOps[p] : \A t \in o.entry.rated : Earned(t, o.origin)

Merit == EndsHappened /\ UncountsEarned /\ CopiesEarned /\ RatingsAreEarned

LEMMA MeritInit == Init => Merit
  <1> SUFFICES ASSUME Init PROVE Merit
    OBVIOUS
  <1>1. EndsHappened /\ UncountsEarned /\ CopiesEarned
    BY DEF Init, WireInit, ProviderInit, EndsHappened, UncountsEarned, CopiesEarned
  <1>2. \A p \in Provider, n \in Name : peerScoreMatrix[p][n].rated = {}
    BY DEF Init, ProviderInit, NoEntry
  <1> QED
    BY <1>1, <1>2 DEF Merit, RatingsAreEarned

\* An ended flow stays, with its winner.
LEMMA EarnedStays ==
    ASSUME [Next]_vars, NEW t, NEW n, Earned(t, n)
    PROVE  Earned(t, n)'
  <1>1. PICK f \in flows : f.txn = t /\ f.winner = n /\ f.stage = "ended"
    BY DEF Earned
  <1>2. f \in flows'
    <2>1. CASE ConsumerStep
      <3>1. CASE EndFlowStep
        <4>1. PICK g \in flows : g.stage = "streaming" /\ flows \ {g} \subseteq flows'
          BY <3>1 DEF EndFlowStep, FinishFlow
        <4> QED
          BY <1>1, <4>1
      <3>2. CASE ~EndFlowStep
        BY <2>1, <3>2 DEF ConsumerStep, TriggerBuy, InformStep, HandleInformVote
      <3> QED
        BY <3>1, <3>2
    <2>2. CASE FailureStep \/ (\E p \in Provider : ProviderStep(p)) \/ UNCHANGED vars
      BY <2>2 DEF FailureStep, ProviderStep, vars, consumerVars
    <2> QED
      BY <2>1, <2>2 DEF Next
  <1> QED
    BY <1>1, <1>2 DEF Earned

\* A transaction is decided once, so the winner of its ended flow is the one decided.
LEMMA EndEarns ==
    ASSUME Core, NEW t, NEW n, Ended(t), Decided(t, n)
    PROVE  Earned(t, n)
  BY DEF Core, OneDecision, Ended, Decided, Earned

\* A new handler that uncounts a flow was started by the winner's TRANSACTION_END.
LEMMA UncountSteps ==
    ASSUME TypeOK, [Next]_vars, NEW p \in Provider, NEW o \in flowOps'[p],
           o \notin flowOps[p], o.delta = -1
    PROVE  /\ o.txn \in Txn /\ winner[p][o.txn] = p
           /\ \E m \in net : m.type = "TRANSACTION_END" /\ m.txn = o.txn
  <1> DEFINE Goal == /\ o.txn \in Txn /\ winner[p][o.txn] = p
                     /\ \E m \in net : m.type = "TRANSACTION_END" /\ m.txn = o.txn
  <1>1. ~UNCHANGED flowOps
    OBVIOUS
  <1>2. PICK r \in Provider : ProviderStep(r)
    BY <1>1 DEF Next, ConsumerStep, FailureStep, vars, providerVars
  <1>3. EndStep(r)
    <2>1. CASE StartStep(r)
      <3>1. PICK m \in net : HandleStartFlow(r, m)
        BY <2>1 DEF StartStep
      <3>2. \E n : flowOps' = [flowOps EXCEPT ![r] = @ \cup
                                 {[txn |-> m.txn, delta |-> 1, seen |-> n]}]
        BY <1>1, <3>1 DEF HandleStartFlow
      <3>3. \A n : [txn |-> m.txn, delta |-> 1, seen |-> n].delta # -1
        OBVIOUS
      <3> QED
        BY <3>2, <3>3 DEF TypeOK
    <2>2. CASE CountStep(r)
      BY <2>2 DEF CountStep, FinishFlowOp, TypeOK
    <2>3. CASE BuyStep(r) \/ RequestStep(r) \/ PriceStep(r) \/ CastStep(r) \/ ReplyStep(r)
      BY <1>1, <2>3 DEF BuyStep, HandleBuy, RequestStep, AcceptRequest, RetryRequest,
           DropRequest, PriceStep, SeeAllPrices, CastStep, CastVote, ReplyStep,
           HandleReplyVote, providerVars
    <2>4. CASE BeaconStep(r) \/ EmitStep(r)
      BY <1>1, <2>4 DEF BeaconStep, BeaconRead, BeaconWrite, EmitStep, EmitBeacon, providerVars
    <2> QED
      BY <1>2, <2>1, <2>2, <2>3, <2>4 DEF ProviderStep
  <1>4. PICK m \in net : HandleTransactionEnd(r, m)
    BY <1>3 DEF EndStep
  <1>5. m.type = "TRANSACTION_END" /\ m.txn \in Txn
    BY <1>4, EventTypes DEF TypeOK, HandleTransactionEnd, Arrives, EndEvent
  <1>6. /\ winner[r][m.txn] = r
        /\ flowOps' = [flowOps EXCEPT ![r] = @ \cup
             {[txn |-> m.txn, delta |-> -1, seen |-> activeFlowCount[r]]}]
    BY <1>1, <1>4 DEF HandleTransactionEnd
  <1>7. p = r /\ o.txn = m.txn
    BY <1>6 DEF TypeOK
  <1> QED
    BY <1>5, <1>6, <1>7

LEMMA EndsKeep ==
    ASSUME TypeOK, EndsHappened, [Next]_vars
    PROVE  EndsHappened'
  <1> SUFFICES ASSUME NEW m \in net', m.type = "TRANSACTION_END" PROVE Ended(m.txn)'
    BY DEF EndsHappened
  <1>1. CASE m \in net
    <2>1. PICK w : Earned(m.txn, w)
      BY <1>1 DEF EndsHappened, Ended, Earned
    <2> QED
      BY <2>1, EarnedStays DEF Earned, Ended
  <1>2. CASE m \notin net
    BY <1>2, SentSteps DEF WellSent, Announced, Ended
  <1> QED
    BY <1>1, <1>2

LEMMA MeritStep ==
    ASSUME TypeOK, Core, Heard, Merit, [Next]_vars
    PROVE  Merit'
  <1>1. EndsHappened'
    BY EndsKeep DEF Merit
  <1>2. UncountsEarned'
    <2> SUFFICES ASSUME NEW p \in Provider, NEW o \in flowOps'[p], o.delta = -1
                 PROVE  Earned(o.txn, p)'
      BY DEF UncountsEarned
    <2>1. CASE o \in flowOps[p]
      BY <2>1, EarnedStays DEF Merit, UncountsEarned
    <2>2. CASE o \notin flowOps[p]
      <3>1. o.txn \in Txn /\ winner[p][o.txn] = p /\ Ended(o.txn)
        BY <2>2, UncountSteps DEF Merit, EndsHappened
      <3>2. Decided(o.txn, p)
        BY <3>1, NameAssumption DEF Heard, StoredFor
      <3> QED
        BY <3>1, <3>2, EndEarns, EarnedStays
    <2> QED
      BY <2>1, <2>2
  <1>3. CopiesEarned'
    <2> SUFFICES ASSUME NEW p \in Provider, NEW o \in beaconOps'[p], NEW t \in o.entry.rated
                 PROVE  Earned(t, o.origin)'
      BY DEF CopiesEarned
    <2>1. CASE o \in beaconOps[p]
      BY <2>1, EarnedStays DEF Merit, CopiesEarned
    <2>2. CASE o \notin beaconOps[p]
      <3>1. o.origin \in Name /\ o.entry = peerScoreMatrix[p][o.origin]
        BY <2>2, CopySteps, NameAssumption
      <3>2. Earned(t, o.origin)
        BY <3>1 DEF Merit, RatingsAreEarned, Earned
      <3> QED
        BY <3>2, EarnedStays
    <2> QED
      BY <2>1, <2>2
  <1>4. RatingsAreEarned'
    <2> SUFFICES ASSUME NEW p \in Provider, NEW n \in Name,
                        NEW t \in peerScoreMatrix'[p][n].rated
                 PROVE  Earned(t, n)'
      BY DEF RatingsAreEarned, Earned
    <2>1. CASE t \in peerScoreMatrix[p][n].rated
      <3>1. Earned(t, n)
        BY <2>1 DEF Merit, RatingsAreEarned, Earned
      <3> QED
        BY <3>1, EarnedStays
    <2>2. CASE Overwritten(p, n)
      <3>1. PICK o \in beaconOps[p] : o.origin = n /\ peerScoreMatrix'[p][n] = WrittenBack(o)
        BY <2>2 DEF Overwritten
      <3>2. t \in o.entry.rated
        BY <3>1 DEF WrittenBack, WithPrice, NoEntry
      <3>3. Earned(t, n)
        BY <3>1, <3>2 DEF Merit, CopiesEarned
      <3> QED
        BY <3>3, EarnedStays
    <2>3. CASE t \notin peerScoreMatrix[p][n].rated /\ Rated(p, n)
      <3>1. PICK s \in Txn : Judged(p, s, n) /\ peerScoreMatrix'[p][n] =
                               WithRating(peerScoreMatrix[p][n], s)
        BY <2>3 DEF Rated
      <3>2. t = s
        BY <2>3, <3>1 DEF WithRating
      <3>3. Earned(s, n)
        <4>1. CASE n = p /\ \E o \in flowOps[p] : o.txn = s /\ o.delta = -1
          BY <4>1 DEF Merit, UncountsEarned
        <4>2. CASE /\ winner[p][s] = n
                   /\ \E m \in net : m.type = "TRANSACTION_END" /\ m.txn = s
          <5>1. Ended(s) /\ Decided(s, n)
            BY <4>2, NameAssumption DEF Merit, EndsHappened, Heard, StoredFor
          <5> QED
            BY <5>1, EndEarns
        <4> QED
          BY <3>1, <4>1, <4>2 DEF Judged
      <3> QED
        BY <3>2, <3>3, EarnedStays
    <2>4. CASE t \notin peerScoreMatrix[p][n].rated /\ Repriced(p, n)
      BY <2>4 DEF Repriced, WithPrice
    <2> QED
      BY <2>1, <2>2, <2>3, <2>4, EntrySteps
  <1> QED
    BY <1>1, <1>2, <1>3, <1>4 DEF Merit

\* A provider rates nobody but the winner of an auction, and only after its flow has
\* ended: whatever was lost, and whatever entry a beacon writes back.
THEOREM RatingsEarned == NamesMatch /\ Spec => []RatingsAreEarned
  <1> SUFFICES ASSUME NamesMatch PROVE Spec => []RatingsAreEarned
    OBVIOUS
  <1>1. TypeOK /\ Core /\ Heard /\ Merit /\ [Next]_vars => Merit'
    BY MeritStep
  <1>2. Merit => RatingsAreEarned
    BY DEF Merit
  <1> QED
    BY <1>1, <1>2, MeritInit, TypeCorrect, CoreHolds, HeardHolds, PTL DEF Spec

-----------------------------------------------------------------------------
(* No auction stops without a trace *)

\* The events that were sent and not handled.
Sent == net \cup lost \cup dropped

\* q's vote for p in t is asked for, prepared or on its way.
UnderWay(t, p, q) ==
    \/ \E m \in Sent : m.type = "REQUEST_VOTE" /\ m.txn = t /\ m.from = p /\ m.to = q
    \/ \E v \in voting[q] : v.txn = t /\ v.to = p
    \/ ReplyVote(t, q, p) \in Sent

\* Whatever a transaction still needs is under way, or was lost or given up: its
\* BUYs, the votes, the evaluations, the decision.
BuysAreSent ==
    \A t \in triggered : \A p \in Provider : t \in transactions[p] \/ Buy(t, p) \in Sent
VotesAreSought ==
    \A p, q \in Provider : \A t \in transactions[p] :
        q \in allFFS[p][t] \/ (q # p /\ UnderWay(t, p, q))
EvaluationsAreSent ==
    \A p \in Provider : \A t \in Txn :
        allFFS[p][t] = Provider => InformVote(t, p) \in Sent \/ p \in allFFSnew[t]
DecisionsAreMade ==
    \A t \in Txn : allFFSnew[t] = Provider => \E f \in flows : f.txn = t

Accounted == BuysAreSent /\ VotesAreSought /\ EvaluationsAreSent /\ DecisionsAreMade

\* With one provider there is nobody to vote, and the vote is never complete.
SeveralProviders == \E p, q \in Provider : p # q

LEMMA AccountedInit == SeveralProviders /\ Init => Accounted
  BY DEF SeveralProviders, Init, WireInit, ProviderInit, ConsumerInit, Accounted, BuysAreSent,
         VotesAreSought, EvaluationsAreSent, DecisionsAreMade

\* A step that handles no event of the vote and leaves the records alone.
LEMMA AccountedFrame ==
    ASSUME Accounted,
           \A m \in Sent : m.type \in VoteKinds => m \in Sent',
           UNCHANGED <<transactions, allFFS, voting, triggered, allFFSnew>>,
           \A f \in flows : \E g \in flows' : g.txn = f.txn
    PROVE  Accounted'
  <1>1. /\ \A p, t : Buy(t, p) \in Sent => Buy(t, p) \in Sent'
        /\ \A p, q, t : ReplyVote(t, q, p) \in Sent => ReplyVote(t, q, p) \in Sent'
        /\ \A p, t : InformVote(t, p) \in Sent => InformVote(t, p) \in Sent'
        /\ \A m \in Sent : m.type = "REQUEST_VOTE" => m \in Sent'
    BY DEF VoteKinds, Buy, ReplyVote, InformVote
  <1> HIDE DEF Sent
  <1>2. \A p, q, t : UnderWay(t, p, q) => UnderWay(t, p, q)'
    BY <1>1 DEF UnderWay
  <1>3. BuysAreSent' /\ VotesAreSought' /\ EvaluationsAreSent'
    BY <1>1, <1>2 DEF Accounted, BuysAreSent, VotesAreSought, EvaluationsAreSent
  <1>4. DecisionsAreMade'
    BY DEF Accounted, DecisionsAreMade
  <1> QED
    BY <1>3, <1>4 DEF Accounted

-----------------------------------------------------------------------------
(* Accounting for the steps of a vote *)

LEMMA TriggerAccounts ==
    ASSUME Accounted, NEW t0 \in Txn, TriggerBuy(t0), UNCHANGED providerVars
    PROVE  Accounted'
  <1>1. Sent \subseteq Sent' /\ \A q \in Provider : Buy(t0, q) \in Sent'
    BY DEF TriggerBuy, Send, Sent, providerVars
  <1>2. \A p, q, t : UnderWay(t, p, q) => UnderWay(t, p, q)'
    BY <1>1 DEF UnderWay, providerVars
  <1>3. triggered' = triggered \cup {t0} /\ UNCHANGED <<transactions, allFFS, allFFSnew, flows>>
    BY DEF TriggerBuy, providerVars
  <1>4. BuysAreSent'
    BY <1>1, <1>3 DEF Accounted, BuysAreSent
  <1>5. VotesAreSought'
    BY <1>2, <1>3 DEF Accounted, VotesAreSought
  <1>6. EvaluationsAreSent'
    BY <1>1, <1>3 DEF Accounted, EvaluationsAreSent
  <1>7. DecisionsAreMade'
    BY <1>3 DEF Accounted, DecisionsAreMade
  <1> QED
    BY <1>4, <1>5, <1>6, <1>7 DEF Accounted

LEMMA BuyAccounts ==
    ASSUME NamesMatch, SeveralProviders, TypeOK, Core, Accounted,
           NEW p0 \in Provider, NEW m0 \in net, HandleBuy(p0, m0), UNCHANGED consumerVars
    PROVE  Accounted'
  <1> DEFINE t0 == m0.txn
  <1>1. m0 = Buy(t0, p0) /\ t0 \in Txn
    BY EventShapes, EventTypes DEF TypeOK, HandleBuy, Arrives, BuyEvent
  <1>2. t0 \notin transactions[p0]
    BY <1>1 DEF Core, BuyComesFirst
  <1>3. /\ net' = (net \ {m0}) \cup
               {RequestVote(t0, p0, q, PriceSent(p0, t0)) : q \in Peers(p0)}
        /\ transactions' = [transactions EXCEPT ![p0] = @ \cup {t0}]
        /\ allFFS' = [allFFS EXCEPT ![p0][t0] = {p0}]
        /\ UNCHANGED <<lost, dropped, voting, triggered, allFFSnew, flows>>
    BY DEF HandleBuy, Handle, consumerVars
  <1>4. /\ transactions'[p0] = transactions[p0] \cup {t0}
        /\ \A p \in Provider : p # p0 => transactions'[p] = transactions[p]
        /\ allFFS'[p0][t0] = {p0}
        /\ \A p \in Provider, t \in Txn :
             p # p0 \/ t # t0 => allFFS'[p][t] = allFFS[p][t]
    BY <1>1, <1>3 DEF TypeOK
  <1> HIDE DEF t0
  <1>5. \A m \in Sent : m \in Sent' \/ m = Buy(t0, p0)
    BY <1>1, <1>3 DEF Sent
  <1>6. \A p, q, t : UnderWay(t, p, q) => UnderWay(t, p, q)'
    BY <1>3, <1>5 DEF UnderWay, Buy, ReplyVote
  <1>7. BuysAreSent'
    <2>1. \A t, p : Buy(t, p) = Buy(t0, p0) => t = t0 /\ p = p0
      BY DEF Buy
    <2> QED
      BY <1>3, <1>4, <1>5, <2>1 DEF Accounted, BuysAreSent
  <1>8. VotesAreSought'
    <2> SUFFICES ASSUME NEW p \in Provider, NEW q \in Provider, NEW t \in transactions'[p]
                 PROVE  q \in allFFS'[p][t] \/ (q # p /\ UnderWay(t, p, q)')
      BY DEF VotesAreSought
    <2>1. CASE p = p0 /\ t = t0 /\ q # p0
      <3>1. q \in Peers(p0)
        BY <2>1 DEF NamesMatch, Peers
      <3>2. RequestVote(t0, p0, q, PriceSent(p0, t0)) \in Sent'
        BY <1>3, <3>1 DEF Sent
      <3>3. UnderWay(t0, p0, q)'
        BY <3>2 DEF UnderWay, RequestVote
      <3> QED
        BY <2>1, <3>3
    <2>2. CASE p = p0 /\ t = t0 /\ q = p0
      BY <1>4, <2>2
    <2>3. CASE ~(p = p0 /\ t = t0)
      <3>1. t \in transactions[p] /\ t \in Txn
        BY <1>4, <2>3 DEF TypeOK
      <3>2. allFFS'[p][t] = allFFS[p][t]
        BY <1>4, <2>3, <3>1
      <3> QED
        BY <1>6, <3>1, <3>2 DEF Accounted, VotesAreSought
    <2> QED
      BY <2>1, <2>2, <2>3
  <1>9. EvaluationsAreSent'
    <2>1. {p0} # Provider
      BY DEF SeveralProviders
    <2>2. \A p, t : InformVote(t, p) \in Sent => InformVote(t, p) \in Sent'
      BY <1>5 DEF Buy, InformVote
    <2> QED
      BY <1>3, <1>4, <2>1, <2>2 DEF Accounted, EvaluationsAreSent
  <1>10. DecisionsAreMade'
    BY <1>3 DEF Accounted, DecisionsAreMade
  <1> QED
    BY <1>7, <1>8, <1>9, <1>10 DEF Accounted

LEMMA AcceptAccounts ==
    ASSUME NamesMatch, TypeOK, Accounted, NEW p0 \in Provider, NEW m0 \in net,
           AcceptRequest(p0, m0), UNCHANGED consumerVars
    PROVE  Accounted'
  <1> DEFINE v0 == [txn |-> m0.txn, to |-> m0.from, stage |-> "wait"]
  <1>1. m0 \in RequestEvent /\ m0.type = "REQUEST_VOTE" /\ m0.to = p0
    BY EventTypes DEF TypeOK, AcceptRequest, Arrives
  <1>2. AddressOf(m0.from) = m0.from
    BY AddressIsListed DEF AcceptRequest, CanLookUp, NamesMatch
  <1>3. /\ net' = net \ {m0}
        /\ voting' = [voting EXCEPT ![p0] = @ \cup {v0}]
        /\ UNCHANGED <<lost, dropped, transactions, allFFS, triggered, allFFSnew, flows>>
    BY <1>2 DEF AcceptRequest, Consume, consumerVars
  <1>4. /\ v0.txn = m0.txn /\ v0.to = m0.from
        /\ voting'[p0] = voting[p0] \cup {v0}
        /\ \A q \in Provider : q # p0 => voting'[q] = voting[q]
    BY <1>3 DEF TypeOK
  <1> HIDE DEF v0
  <1>5. \A m \in Sent : m \in Sent' \/ m = m0
    BY <1>3 DEF Sent
  <1>6. /\ \A p, t : Buy(t, p) \in Sent => Buy(t, p) \in Sent'
        /\ \A p, q, t : ReplyVote(t, q, p) \in Sent => ReplyVote(t, q, p) \in Sent'
        /\ \A p, t : InformVote(t, p) \in Sent => InformVote(t, p) \in Sent'
    BY <1>1, <1>5 DEF Buy, ReplyVote, InformVote
  <1>7. \A p, t : \A q \in Provider : UnderWay(t, p, q) => UnderWay(t, p, q)'
    <2> SUFFICES ASSUME NEW p, NEW t, NEW q \in Provider, UnderWay(t, p, q)
                 PROVE  UnderWay(t, p, q)'
      OBVIOUS
    <2>1. CASE \E m \in Sent : m.type = "REQUEST_VOTE" /\ m.txn = t /\ m.from = p /\ m.to = q
      BY <1>1, <1>4, <1>5, <2>1 DEF UnderWay
    <2>2. CASE \E v \in voting[q] : v.txn = t /\ v.to = p
      BY <1>4, <2>2 DEF UnderWay
    <2>3. CASE ReplyVote(t, q, p) \in Sent
      BY <1>6, <2>3 DEF UnderWay
    <2> QED
      BY <2>1, <2>2, <2>3 DEF UnderWay
  <1>8. BuysAreSent'
    BY <1>3, <1>6 DEF Accounted, BuysAreSent
  <1>9. VotesAreSought'
    BY <1>3, <1>7 DEF Accounted, VotesAreSought
  <1>10. EvaluationsAreSent'
    BY <1>3, <1>6 DEF Accounted, EvaluationsAreSent
  <1>11. DecisionsAreMade'
    BY <1>3 DEF Accounted, DecisionsAreMade
  <1> QED
    BY <1>8, <1>9, <1>10, <1>11 DEF Accounted

LEMMA RetryAccounts ==
    ASSUME TypeOK, Accounted, NEW p0 \in Provider, NEW m0 \in net,
           RetryRequest(p0, m0), UNCHANGED consumerVars
    PROVE  Accounted'
  <1> DEFINE m1 == [m0 EXCEPT !.tries = @ + 1]
  <1>1. m0 \in RequestEvent /\ m0.type = "REQUEST_VOTE"
    BY EventTypes DEF TypeOK, RetryRequest, Arrives
  <1>2. m1.type = "REQUEST_VOTE" /\ m1.txn = m0.txn /\ m1.from = m0.from /\ m1.to = m0.to
    BY <1>1 DEF RequestEvent
  <1>3. /\ net' = (net \ {m0}) \cup {m1}
        /\ UNCHANGED <<lost, providerVars, consumerVars>>
    BY DEF RetryRequest, Handle
  <1> HIDE DEF m1
  <1>4. m1 \in Sent' /\ \A m \in Sent : m \in Sent' \/ m = m0
    BY <1>3 DEF Sent, providerVars
  <1>5. /\ \A p, t : Buy(t, p) \in Sent => Buy(t, p) \in Sent'
        /\ \A p, q, t : ReplyVote(t, q, p) \in Sent => ReplyVote(t, q, p) \in Sent'
        /\ \A p, t : InformVote(t, p) \in Sent => InformVote(t, p) \in Sent'
    BY <1>1, <1>4 DEF Buy, ReplyVote, InformVote
  <1>6. \A p, q, t : UnderWay(t, p, q) => UnderWay(t, p, q)'
    <2> SUFFICES ASSUME NEW p, NEW t, NEW q, UnderWay(t, p, q)
                 PROVE  UnderWay(t, p, q)'
      OBVIOUS
    <2>1. CASE \E m \in Sent : m.type = "REQUEST_VOTE" /\ m.txn = t /\ m.from = p /\ m.to = q
      BY <1>2, <1>4, <2>1 DEF UnderWay
    <2>2. CASE \E v \in voting[q] : v.txn = t /\ v.to = p
      BY <1>3, <2>2 DEF UnderWay, providerVars
    <2>3. CASE ReplyVote(t, q, p) \in Sent
      BY <1>5, <2>3 DEF UnderWay
    <2> QED
      BY <2>1, <2>2, <2>3 DEF UnderWay
  <1>7. BuysAreSent' /\ EvaluationsAreSent'
    BY <1>3, <1>5 DEF Accounted, BuysAreSent, EvaluationsAreSent, providerVars, consumerVars
  <1>8. VotesAreSought' /\ DecisionsAreMade'
    BY <1>3, <1>6 DEF Accounted, VotesAreSought, DecisionsAreMade, providerVars, consumerVars
  <1> QED
    BY <1>7, <1>8 DEF Accounted

\* A handler that has seen the prices prepares the same vote.
LEMMA SeeAccounts ==
    ASSUME TypeOK, Accounted, NEW p0 \in Provider, NEW u \in voting[p0],
           SeeAllPrices(p0, u), UNCHANGED consumerVars
    PROVE  Accounted'
  <1> DEFINE v0 == [u EXCEPT !.stage = "score"]
  <1>1. v0.txn = u.txn /\ v0.to = u.to
    <2>1. u \in Vote
      BY DEF TypeOK
    <2> QED
      BY <2>1 DEF Vote
  <1>2. /\ voting' = [voting EXCEPT ![p0] = (@ \ {u}) \cup {v0}]
        /\ UNCHANGED <<net, lost, dropped, transactions, allFFS, triggered, allFFSnew, flows>>
    BY DEF SeeAllPrices, wireVars, consumerVars
  <1>3. /\ voting'[p0] = (voting[p0] \ {u}) \cup {v0}
        /\ \A q \in Provider : q # p0 => voting'[q] = voting[q]
    BY <1>2 DEF TypeOK
  <1> HIDE DEF v0
  <1>4. Sent' = Sent
    BY <1>2 DEF Sent
  <1>5. \A p, t : \A q \in Provider : UnderWay(t, p, q) => UnderWay(t, p, q)'
    BY <1>1, <1>3, <1>4 DEF UnderWay
  <1> QED
    BY <1>2, <1>4, <1>5 DEF Accounted, BuysAreSent, VotesAreSought, EvaluationsAreSent,
                            DecisionsAreMade

\* Its own row, which it writes again, a provider has since its BUY.
LEMMA CastAccounts ==
    ASSUME TypeOK, Core, Accounted, NEW p0 \in Provider, NEW v0 \in voting[p0],
           CastVote(p0, v0), UNCHANGED consumerVars
    PROVE  Accounted'
  <1> DEFINE t0 == v0.txn
             q0 == v0.to
             m1 == ReplyVote(t0, p0, q0)
  <1>1. t0 \in Txn /\ q0 \in Provider /\ t0 \in transactions[p0]
    BY DEF TypeOK, Vote, Core, VoteInOnePlace, HandlersInOnePlace
  <1>2. p0 \in allFFS[p0][t0]
    BY <1>1 DEF Accounted, VotesAreSought
  <1>3. /\ net' = net \cup {m1}
        /\ voting' = [voting EXCEPT ![p0] = @ \ {v0}]
        /\ UNCHANGED <<lost, dropped, transactions, triggered, allFFSnew, flows>>
    BY DEF CastVote, Send, consumerVars
  <1>4. UNCHANGED allFFS
    <2>1. allFFS' = [allFFS EXCEPT ![p0][t0] = @ \cup {p0}]
      BY DEF CastVote
    <2>2. allFFS[p0][t0] \cup {p0} = allFFS[p0][t0]
      BY <1>2
    <2> QED
      BY <1>1, <2>1, <2>2 DEF TypeOK
  <1>5. /\ voting'[p0] = voting[p0] \ {v0}
        /\ \A q \in Provider : q # p0 => voting'[q] = voting[q]
    BY <1>3 DEF TypeOK
  <1>6. Sent \subseteq Sent' /\ m1 \in Sent'
    BY <1>3 DEF Sent
  <1>7. \A p, t : \A q \in Provider : UnderWay(t, p, q) => UnderWay(t, p, q)'
    BY <1>5, <1>6 DEF UnderWay
  <1> HIDE DEF m1
  <1> QED
    BY <1>3, <1>4, <1>6, <1>7 DEF Accounted, BuysAreSent, VotesAreSought, EvaluationsAreSent,
                                  DecisionsAreMade

\* A complete set of rows has the size of the complete set.
LEMMA FullSize == Cardinality(Provider) >= Cardinality(Provider)
  BY ProviderAssumption, FS_CardinalityType

LEMMA ReplyAccounts ==
    ASSUME TypeOK, Core, Accounted, NEW p0 \in Provider, NEW m0 \in net,
           HandleReplyVote(p0, m0), UNCHANGED consumerVars
    PROVE  Accounted'
  <1> DEFINE t0 == m0.txn
             q0 == m0.from
             rows == allFFS[p0][t0] \cup {q0}
             new == IF HasAllVotes(rows) THEN {InformVote(t0, p0)} ELSE {}
  <1>1. m0 = ReplyVote(t0, q0, p0) /\ t0 \in Txn /\ q0 \in Provider
    BY EventShapes, EventTypes DEF TypeOK, HandleReplyVote, Arrives, ReplyEvent
  <1>2. t0 \in transactions[p0]
    BY <1>1 DEF Core, VoteInOnePlace, RepliesInOnePlace
  <1>3. /\ net' = (net \ {m0}) \cup new
        /\ allFFS' = [allFFS EXCEPT ![p0][t0] = rows]
        /\ UNCHANGED <<lost, dropped, transactions, voting, triggered, allFFSnew, flows>>
    BY <1>2 DEF HandleReplyVote, Handle, consumerVars
  <1>4. /\ allFFS'[p0][t0] = rows
        /\ \A p \in Provider, t \in Txn :
             p # p0 \/ t # t0 => allFFS'[p][t] = allFFS[p][t]
    BY <1>1, <1>3 DEF TypeOK
  <1>5. rows = Provider => InformVote(t0, p0) \in Sent'
    BY <1>3, FullSize DEF Sent, HasAllVotes
  <1>6. \A m \in Sent : m \in Sent' \/ m = m0
    BY <1>3 DEF Sent
  <1>7. /\ \A p, t : Buy(t, p) \in Sent => Buy(t, p) \in Sent'
        /\ \A m \in Sent : m.type = "REQUEST_VOTE" => m \in Sent'
        /\ \A p, t : InformVote(t, p) \in Sent => InformVote(t, p) \in Sent'
        /\ \A p, q, t : ReplyVote(t, q, p) \in Sent =>
             ReplyVote(t, q, p) \in Sent' \/ (t = t0 /\ q = q0 /\ p = p0)
    BY <1>1, <1>6 DEF Buy, ReplyVote, InformVote
  <1>8. q0 \in allFFS'[p0][t0] /\ allFFS[p0][t0] \subseteq allFFS'[p0][t0]
    BY <1>4
  <1> HIDE DEF t0, q0, rows, new
  <1>9. \A p, q, t : UnderWay(t, p, q) => UnderWay(t, p, q)' \/ (t = t0 /\ q = q0 /\ p = p0)
    BY <1>3, <1>7 DEF UnderWay
  <1>10. BuysAreSent'
    BY <1>3, <1>7 DEF Accounted, BuysAreSent
  <1>11. VotesAreSought'
    <2> SUFFICES ASSUME NEW p \in Provider, NEW q \in Provider, NEW t \in transactions[p]
                 PROVE  q \in allFFS'[p][t] \/ (q # p /\ UnderWay(t, p, q)')
      BY <1>3 DEF VotesAreSought
    <2>1. q \in allFFS[p][t] \/ (q # p /\ UnderWay(t, p, q))
      BY DEF Accounted, VotesAreSought
    <2>2. t \in Txn
      BY DEF TypeOK
    <2>3. allFFS[p][t] \subseteq allFFS'[p][t]
      BY <1>4, <1>8, <2>2
    <2> QED
      BY <1>8, <1>9, <2>1, <2>3
  <1>12. EvaluationsAreSent'
    BY <1>3, <1>4, <1>5, <1>7 DEF Accounted, EvaluationsAreSent
  <1>13. DecisionsAreMade'
    BY <1>3 DEF Accounted, DecisionsAreMade
  <1> QED
    BY <1>10, <1>11, <1>12, <1>13 DEF Accounted

LEMMA InformAccounts ==
    ASSUME TypeOK, Core, Accounted, NEW m0 \in net, HandleInformVote(m0),
           UNCHANGED providerVars
    PROVE  Accounted'
  <1> DEFINE t0 == m0.txn
             p0 == m0.from
             rows == allFFSnew[t0] \cup {p0}
  <1>1. m0 = InformVote(t0, p0) /\ t0 \in Txn /\ p0 \in Provider
    BY EventShapes, EventTypes DEF TypeOK, HandleInformVote, Arrives, InformEvent
  <1>2. t0 \in triggered
    BY <1>1 DEF Core, EvaluationInOnePlace
  <1>3. /\ allFFSnew' = [allFFSnew EXCEPT ![t0] = rows]
        /\ \A m \in net : m \in net' \/ m = m0
        /\ UNCHANGED <<lost, dropped, transactions, allFFS, voting, triggered>>
        /\ flows \subseteq flows'
        /\ HasAllEvaluations(rows) => \E f \in flows' : f.txn = t0
    <2> DEFINE d(w) == [txn |-> t0, by |-> p0, winner |-> w, stage |-> "streaming"]
    <2>1. /\ allFFSnew' = [allFFSnew EXCEPT ![t0] = rows]
          /\ UNCHANGED <<lost, dropped, transactions, allFFS, voting, triggered>>
          /\ \A m \in net : m \in net' \/ m = m0
          /\ IF HasAllEvaluations(rows)
             THEN \E w \in Winners : flows' = flows \cup {d(w)}
             ELSE flows' = flows
      BY <1>2 DEF HandleInformVote, Handle, Consume, providerVars
    <2>2. \A w : d(w).txn = t0
      OBVIOUS
    <2> HIDE DEF d, t0, rows
    <2> QED
      BY <2>1, <2>2
  <1>4. /\ allFFSnew'[t0] = rows
        /\ \A t \in Txn : t # t0 => allFFSnew'[t] = allFFSnew[t]
    BY <1>1, <1>3 DEF TypeOK
  <1>5. rows = Provider => HasAllEvaluations(rows)
    BY FullSize DEF HasAllEvaluations
  <1>6. \A m \in Sent : m \in Sent' \/ m = m0
    BY <1>3 DEF Sent
  <1>7. /\ \A p, t : Buy(t, p) \in Sent => Buy(t, p) \in Sent'
        /\ \A m \in Sent : m.type = "REQUEST_VOTE" => m \in Sent'
        /\ \A p, q, t : ReplyVote(t, q, p) \in Sent => ReplyVote(t, q, p) \in Sent'
        /\ \A p, t : InformVote(t, p) \in Sent =>
             InformVote(t, p) \in Sent' \/ (t = t0 /\ p = p0)
    BY <1>1, <1>6 DEF Buy, ReplyVote, InformVote
  <1>8. p0 \in allFFSnew'[t0] /\ \A t \in Txn : allFFSnew[t] \subseteq allFFSnew'[t]
    BY <1>4
  <1> HIDE DEF t0, p0, rows
  <1>9. \A p, q, t : UnderWay(t, p, q) => UnderWay(t, p, q)'
    BY <1>3, <1>7 DEF UnderWay
  <1>10. BuysAreSent' /\ VotesAreSought'
    BY <1>3, <1>7, <1>9 DEF Accounted, BuysAreSent, VotesAreSought
  <1>11. EvaluationsAreSent'
    BY <1>3, <1>7, <1>8 DEF Accounted, EvaluationsAreSent
  <1>12. DecisionsAreMade'
    BY <1>3, <1>4, <1>5 DEF Accounted, DecisionsAreMade
  <1> QED
    BY <1>10, <1>11, <1>12 DEF Accounted

-----------------------------------------------------------------------------
(* Accounting for the other steps *)

\* They take no event of the vote, or keep it among the lost and the dropped.
LEMMA DropAccounts ==
    ASSUME Accounted, NEW p \in Provider, NEW m \in net, DropRequest(p, m),
           UNCHANGED consumerVars
    PROVE  Accounted'
  <1>1. \A n \in Sent : n \in Sent'
    BY DEF DropRequest, Consume, Sent
  <1> HIDE DEF Sent
  <1> QED
    BY <1>1, AccountedFrame DEF DropRequest, consumerVars

LEMMA FlowAccounts ==
    ASSUME Accounted, NEW p \in Provider, StartStep(p) \/ EndStep(p) \/ CountStep(p),
           UNCHANGED consumerVars
    PROVE  Accounted'
  <1>1. \A n \in Sent : n.type \in VoteKinds => n \in Sent'
    BY DEF StartStep, EndStep, CountStep, HandleStartFlow, HandleTransactionEnd, FinishFlowOp,
           Arrives, Consume, wireVars, Sent, VoteKinds
  <1>2. UNCHANGED <<transactions, allFFS, voting>>
    BY DEF StartStep, EndStep, CountStep, HandleStartFlow, HandleTransactionEnd, FinishFlowOp
  <1> HIDE DEF Sent
  <1> QED
    BY <1>1, <1>2, AccountedFrame DEF consumerVars

LEMMA BeaconAccounts ==
    ASSUME Accounted, NEW p \in Provider, BeaconStep(p) \/ EmitStep(p),
           UNCHANGED consumerVars
    PROVE  Accounted'
  <1>1. \A n \in Sent : n.type \in VoteKinds => n \in Sent'
    BY DEF BeaconStep, EmitStep, BeaconRead, BeaconWrite, EmitBeacon, Arrives, Consume, Send,
           wireVars, providerVars, Sent, VoteKinds
  <1>2. UNCHANGED <<transactions, allFFS, voting>>
    BY DEF BeaconStep, EmitStep, BeaconRead, BeaconWrite, EmitBeacon, providerVars
  <1> HIDE DEF Sent
  <1> QED
    BY <1>1, <1>2, AccountedFrame DEF consumerVars

LEMMA FailureAccounts ==
    ASSUME Accounted, FailureStep
    PROVE  Accounted'
  <1>1. \A n \in Sent : n \in Sent'
    BY DEF FailureStep, ConnectionFails, Crash, Consume, providerVars, Sent
  <1> HIDE DEF Sent
  <1> QED
    BY <1>1, AccountedFrame DEF FailureStep, providerVars, consumerVars

LEMMA EndAccounts ==
    ASSUME TypeOK, Accounted, NEW f0 \in flows, FinishFlow(f0), UNCHANGED providerVars
    PROVE  Accounted'
  <1>1. \A n \in Sent : n \in Sent'
    BY DEF FinishFlow, Send, providerVars, Sent
  <1>2. \A f \in flows : \E g \in flows' : g.txn = f.txn
    <2>1. flows' = (flows \ {f0}) \cup {[f0 EXCEPT !.stage = "ended"]}
      BY DEF FinishFlow
    <2>2. [f0 EXCEPT !.stage = "ended"].txn = f0.txn
      BY DEF TypeOK, Flow
    <2> QED
      BY <2>1, <2>2
  <1> HIDE DEF Sent
  <1> QED
    BY <1>1, <1>2, AccountedFrame DEF FinishFlow, providerVars

-----------------------------------------------------------------------------
(* The accounts at rest *)

LEMMA AccountedStep ==
    ASSUME NamesMatch, SeveralProviders, TypeOK, Core, Accounted, [Next]_vars
    PROVE  Accounted'
  <1>1. CASE ConsumerStep
    BY <1>1, TriggerAccounts, InformAccounts, EndAccounts
       DEF ConsumerStep, InformStep, EndFlowStep
  <1>2. CASE FailureStep
    BY <1>2, FailureAccounts
  <1>3. ASSUME NEW p \in Provider, ProviderStep(p) PROVE Accounted'
    <2>1. CASE BuyStep(p)
      BY <1>3, <2>1, BuyAccounts DEF ProviderStep, BuyStep
    <2>2. CASE RequestStep(p)
      BY <1>3, <2>2, AcceptAccounts, RetryAccounts, DropAccounts DEF ProviderStep, RequestStep
    <2>3. CASE PriceStep(p) \/ CastStep(p)
      BY <1>3, <2>3, SeeAccounts, CastAccounts DEF ProviderStep, PriceStep, CastStep
    <2>4. CASE ReplyStep(p)
      BY <1>3, <2>4, ReplyAccounts DEF ProviderStep, ReplyStep
    <2>5. CASE StartStep(p) \/ EndStep(p) \/ CountStep(p)
      BY <1>3, <2>5, FlowAccounts DEF ProviderStep
    <2>6. CASE BeaconStep(p) \/ EmitStep(p)
      BY <1>3, <2>6, BeaconAccounts DEF ProviderStep
    <2> QED
      BY <1>3, <2>1, <2>2, <2>3, <2>4, <2>5, <2>6 DEF ProviderStep
  <1>4. CASE UNCHANGED vars
    BY <1>4, AccountedFrame DEF vars, wireVars, providerVars, consumerVars, Sent
  <1> QED
    BY <1>1, <1>2, <1>3, <1>4 DEF Next

\* When nothing is in flight and nothing was lost or given up, what is accounted
\* for has happened: every provider has the votes, the consumer the evaluations.
LEMMA QuietIsDone ==
    ASSUME TypeOK, Accounted
    PROVE  NoSilentStall
  <1> SUFFICES ASSUME Quiet, lost = {}, dropped = {}, NEW t \in triggered
               PROVE  \E f \in flows : f.txn = t
    BY DEF NoSilentStall
  <1>1. t \in Txn
    BY DEF TypeOK
  <1>2. \A m \in Sent : m.type = "BEACON"
    BY DEF Quiet, Sent
  <1>3. \A p, q \in Provider : ~UnderWay(t, p, q)
    BY <1>2 DEF UnderWay, ReplyVote, Quiet
  <1>4. \A p \in Provider : t \in transactions[p]
    BY <1>2 DEF Accounted, BuysAreSent, Buy
  <1>5. \A p, q \in Provider : q \in allFFS[p][t]
    BY <1>3, <1>4 DEF Accounted, VotesAreSought
  <1>6. \A p \in Provider : allFFS[p][t] = Provider
    BY <1>1, <1>5 DEF TypeOK
  <1>7. \A p \in Provider : p \in allFFSnew[t]
    BY <1>1, <1>2, <1>6 DEF Accounted, EvaluationsAreSent, InformVote
  <1>8. allFFSnew[t] = Provider
    BY <1>1, <1>7 DEF TypeOK
  <1> QED
    BY <1>1, <1>8 DEF Accounted, DecisionsAreMade

\* No auction among several providers stops without a trace: if it is not decided
\* when everything is quiet, an event was lost, a process stopped or a look-up
\* was given up.
THEOREM NothingStalls ==
    NamesMatch /\ SeveralProviders /\ Spec => []NoSilentStall
  <1> SUFFICES ASSUME NamesMatch, SeveralProviders PROVE Spec => []NoSilentStall
    OBVIOUS
  <1>1. TypeOK /\ Core /\ Accounted /\ [Next]_vars => Accounted'
    BY AccountedStep
  <1> QED
    BY <1>1, AccountedInit, QuietIsDone, TypeCorrect, CoreHolds, PTL DEF Spec
=============================================================================
