--------------------------- MODULE DecisionProofs ---------------------------
(***************************************************************************)
(* A transaction is decided once, on complete votes, for every number of  *)
(* providers and transactions and under any failures, provided that the   *)
(* provider list names the providers by their configured ids.              *)
(***************************************************************************)
EXTENDS AuctionProofs

\* The inductive invariant, next to the types.
Core == BuyComesFirst /\ VoteInOnePlace /\ EvaluationInOnePlace
          /\ DecisionComesLast /\ OneDecision

-----------------------------------------------------------------------------
(* Sets and events *)

\* As many rows as providers: a row of every provider.
LEMMA FullRows ==
    ASSUME NEW rows \in SUBSET Provider, Cardinality(rows) >= Cardinality(Provider)
    PROVE  rows = Provider
  <1>1. IsFiniteSet(rows) /\ Cardinality(rows) <= Cardinality(Provider)
    BY ProviderAssumption, FS_Subset
  <1>2. Cardinality(rows) \in Nat /\ Cardinality(Provider) \in Nat
    BY <1>1, ProviderAssumption, FS_CardinalityType
  <1>3. Cardinality(rows) = Cardinality(Provider)
    BY <1>1, <1>2
  <1> QED
    BY <1>3, ProviderAssumption, FS_Subset

\* An event of the vote is the one its fields make.
LEMMA EventShapes ==
    ASSUME NEW m \in Message
    PROVE  /\ m.type = "BUY" => m = Buy(m.txn, m.to)
           /\ m.type = "REPLY_VOTE" => m = ReplyVote(m.txn, m.from, m.to)
           /\ m.type = "INFORM_VOTE" => m = InformVote(m.txn, m.from)
  BY EventTypes DEF BuyEvent, ReplyEvent, InformEvent, Buy, ReplyVote, InformVote

VoteKinds == {"BUY", "REQUEST_VOTE", "REPLY_VOTE", "INFORM_VOTE"}

\* A step that adds no event of the vote and leaves the records alone, whatever
\* it takes from the network.
LEMMA Frame ==
    ASSUME Core,
           \A m \in net' : m.type \in VoteKinds => m \in net,
           UNCHANGED <<transactions, allFFS, voting, triggered, allFFSnew, flows>>
    PROVE  Core'
  <1>1. /\ \A p, t : Buy(t, p) \in net' => Buy(t, p) \in net
        /\ \A p, q, t : ReplyVote(t, q, p) \in net' => ReplyVote(t, q, p) \in net
        /\ \A p, t : InformVote(t, p) \in net' => InformVote(t, p) \in net
        /\ \A m \in net' : m.type = "REQUEST_VOTE" => m \in net
    BY DEF VoteKinds, Buy, ReplyVote, InformVote
  <1>2. BuyComesFirst'
    BY <1>1 DEF Core, BuyComesFirst
  <1>3. RequestsInOnePlace'
    BY <1>1 DEF Core, VoteInOnePlace, RequestsInOnePlace
  <1>4. HandlersInOnePlace'
    BY <1>1 DEF Core, VoteInOnePlace, HandlersInOnePlace
  <1>5. RepliesInOnePlace'
    BY <1>1 DEF Core, VoteInOnePlace, RepliesInOnePlace
  <1>6. EvaluationInOnePlace'
    BY <1>1 DEF Core, EvaluationInOnePlace
  <1>7. DecisionComesLast' /\ OneDecision'
    BY DEF Core, DecisionComesLast, OneDecision
  <1> QED
    BY <1>2, <1>3, <1>4, <1>5, <1>6, <1>7 DEF Core, VoteInOnePlace

LEMMA CoreInit == Init => Core
  BY DEF Init, WireInit, ProviderInit, ConsumerInit, Core, BuyComesFirst,
         VoteInOnePlace, RequestsInOnePlace, HandlersInOnePlace, RepliesInOnePlace,
         EvaluationInOnePlace, DecisionComesLast, OneDecision

-----------------------------------------------------------------------------
(* The steps that touch the vote *)

LEMMA TriggerKeeps ==
    ASSUME TypeOK, Core, NEW t0 \in Txn, TriggerBuy(t0), UNCHANGED providerVars
    PROVE  Core'
  <1>1. /\ \A p, t : Buy(t, p) \in net' => Buy(t, p) \in net \/ t = t0
        /\ \A p, q, t : ReplyVote(t, q, p) \in net' => ReplyVote(t, q, p) \in net
        /\ \A p, t : InformVote(t, p) \in net' => InformVote(t, p) \in net
        /\ \A m \in net' : m.type = "REQUEST_VOTE" => m \in net
    <2>1. \A m \in net' : m \in net \/ \E q \in Provider : m = Buy(t0, q)
      BY DEF TriggerBuy, Send
    <2>2. \A q : Buy(t0, q).type = "BUY" /\ Buy(t0, q).txn = t0
      BY DEF Buy
    <2>3. \A t, p : Buy(t, p).txn = t
      BY DEF Buy
    <2>4. /\ \A p, q, t : ReplyVote(t, q, p).type = "REPLY_VOTE"
          /\ \A p, t : InformVote(t, p).type = "INFORM_VOTE"
      BY DEF ReplyVote, InformVote
    <2> QED
      BY <2>1, <2>2, <2>3, <2>4
  <1>2. BuyComesFirst'
    BY <1>1 DEF Core, BuyComesFirst, TriggerBuy, providerVars
  <1>3. RequestsInOnePlace'
    BY <1>1 DEF Core, VoteInOnePlace, RequestsInOnePlace, providerVars
  <1>4. HandlersInOnePlace'
    BY <1>1 DEF Core, VoteInOnePlace, HandlersInOnePlace, providerVars
  <1>5. RepliesInOnePlace'
    BY <1>1 DEF Core, VoteInOnePlace, RepliesInOnePlace, providerVars
  <1>6. EvaluationInOnePlace'
    BY <1>1 DEF Core, EvaluationInOnePlace, TriggerBuy, providerVars
  <1>7. DecisionComesLast' /\ OneDecision'
    BY DEF Core, DecisionComesLast, OneDecision, TriggerBuy
  <1> QED
    BY <1>2, <1>3, <1>4, <1>5, <1>6, <1>7 DEF Core, VoteInOnePlace

LEMMA BuyKeeps ==
    ASSUME NamesMatch, TypeOK, Core, NEW p0 \in Provider, NEW m0 \in net,
           HandleBuy(p0, m0), UNCHANGED consumerVars
    PROVE  Core'
  <1> DEFINE t0 == m0.txn
  <1>1. m0 = Buy(t0, p0) /\ t0 \in Txn
    BY EventShapes, EventTypes DEF TypeOK, HandleBuy, Arrives, BuyEvent
  <1>2. t0 \in triggered /\ t0 \notin transactions[p0] /\ allFFS[p0][t0] = {}
    BY <1>1 DEF Core, BuyComesFirst
  <1>3. /\ net' = (net \ {m0}) \cup
               {RequestVote(t0, p0, q, PriceSent(p0, t0)) : q \in Peers(p0)}
        /\ transactions' = [transactions EXCEPT ![p0] = @ \cup {t0}]
        /\ allFFS' = [allFFS EXCEPT ![p0][t0] = {p0}]
        /\ UNCHANGED <<voting, triggered, allFFSnew, flows>>
    BY DEF HandleBuy, Handle, consumerVars
  <1>4. \A q \in Peers(p0) : q \in Provider /\ q # p0
    BY DEF NamesMatch, Peers
  <1>5. /\ \A p, t : Buy(t, p) \in net' => Buy(t, p) \in net /\ Buy(t, p) # m0
        /\ \A p, q, t : ReplyVote(t, q, p) \in net' => ReplyVote(t, q, p) \in net
        /\ \A p, t : InformVote(t, p) \in net' => InformVote(t, p) \in net
        /\ \A m \in net' : m.type = "REQUEST_VOTE" =>
             \/ m \in net
             \/ \E q \in Peers(p0) : m = RequestVote(t0, p0, q, PriceSent(p0, t0))
    BY <1>1, <1>3 DEF Buy, RequestVote, ReplyVote, InformVote
  <1>6. /\ transactions'[p0] = transactions[p0] \cup {t0}
        /\ \A p \in Provider : p # p0 => transactions'[p] = transactions[p]
        /\ allFFS'[p0][t0] = {p0}
        /\ \A p \in Provider, t \in Txn :
             p # p0 \/ t # t0 => allFFS'[p][t] = allFFS[p][t]
    BY <1>1, <1>3 DEF TypeOK
  <1> HIDE DEF t0
  <1>7. BuyComesFirst'
    <2>1. \A p, t : Buy(t, p) = m0 <=> (t = t0 /\ p = p0)
      BY <1>1 DEF Buy
    <2> QED
      BY <1>2, <1>3, <1>5, <1>6, <2>1 DEF Core, BuyComesFirst
  <1>8. RequestsInOnePlace'
    <2> SUFFICES ASSUME NEW m \in net', m.type = "REQUEST_VOTE"
                 PROVE  /\ m.txn \in transactions'[m.from] /\ m.from # m.to
                        /\ \A n \in net' : n.type = "REQUEST_VOTE" /\ SameVote(m, n) => n = m
                        /\ \A v \in voting[m.to] : ~(v.txn = m.txn /\ v.to = m.from)
                        /\ ReplyVote(m.txn, m.to, m.from) \notin net'
                        /\ m.to \notin allFFS'[m.from][m.txn]
      BY <1>3 DEF RequestsInOnePlace, SameVote
    <2>1. CASE m \in net
      <3>1. m \in RequestEvent
        BY <2>1, EventTypes DEF TypeOK
      <3>2. m.txn \in transactions[m.from]
        BY <2>1 DEF Core, VoteInOnePlace, RequestsInOnePlace
      <3>3. ~(m.from = p0 /\ m.txn = t0)
        BY <1>2, <3>2
      <3> QED
        BY <1>5, <1>6, <2>1, <3>1, <3>2, <3>3
           DEF Core, VoteInOnePlace, RequestsInOnePlace, RequestEvent, RequestVote, SameVote
    <2>2. ASSUME NEW q \in Peers(p0), m = RequestVote(t0, p0, q, PriceSent(p0, t0))
          PROVE  /\ m.txn \in transactions'[m.from] /\ m.from # m.to
                 /\ \A n \in net' : n.type = "REQUEST_VOTE" /\ SameVote(m, n) => n = m
                 /\ \A v \in voting[m.to] : ~(v.txn = m.txn /\ v.to = m.from)
                 /\ ReplyVote(m.txn, m.to, m.from) \notin net'
                 /\ m.to \notin allFFS'[m.from][m.txn]
      <3>1. m.txn = t0 /\ m.from = p0 /\ m.to = q /\ q \in Provider /\ q # p0
        BY <1>4, <2>2 DEF RequestVote
      <3>2. \A n \in net : n.type = "REQUEST_VOTE" => ~SameVote(m, n)
        BY <1>2, <3>1 DEF Core, VoteInOnePlace, RequestsInOnePlace, SameVote
      <3>3. \A n \in net' : n.type = "REQUEST_VOTE" /\ SameVote(m, n) => n = m
        BY <1>5, <2>2, <3>1, <3>2 DEF SameVote, RequestVote
      <3>4. \A v \in voting[q] : ~(v.txn = t0 /\ v.to = p0)
        BY <1>2, <3>1 DEF Core, VoteInOnePlace, HandlersInOnePlace
      <3>5. ReplyVote(t0, q, p0) \notin net'
        BY <1>1, <1>2, <1>5, <3>1 DEF Core, VoteInOnePlace, RepliesInOnePlace
      <3>6. p0 \in Provider /\ t0 \in transactions'[p0] /\ q \notin allFFS'[p0][t0]
        BY <1>1, <1>6, <3>1
      <3> QED
        BY <3>1, <3>3, <3>4, <3>5, <3>6
    <2> QED
      BY <1>5, <2>1, <2>2
  <1>9. HandlersInOnePlace'
    <2> SUFFICES ASSUME NEW q \in Provider, NEW v \in voting[q]
                 PROVE  /\ v.txn \in transactions'[q] /\ v.txn \in transactions'[v.to]
                        /\ v.to # q
                        /\ \A w \in voting[q] : w.txn = v.txn /\ w.to = v.to => w = v
                        /\ ReplyVote(v.txn, q, v.to) \notin net'
                        /\ q \notin allFFS'[v.to][v.txn]
      BY <1>3 DEF HandlersInOnePlace
    <2>1. v.txn \in Txn /\ v.to \in Provider
      BY DEF TypeOK, Vote
    <2>2. ~(v.to = p0 /\ v.txn = t0)
      BY <1>2 DEF Core, VoteInOnePlace, HandlersInOnePlace
    <2> QED
      BY <1>5, <1>6, <2>1, <2>2 DEF Core, VoteInOnePlace, HandlersInOnePlace
  <1>10. RepliesInOnePlace'
    BY <1>2, <1>5, <1>6 DEF Core, VoteInOnePlace, RepliesInOnePlace
  <1>11. EvaluationInOnePlace'
    <2>1. InformVote(t0, p0) \notin net /\ p0 \notin allFFSnew[t0]
      BY <1>1, <1>2 DEF Core, EvaluationInOnePlace
    <2> QED
      BY <1>3, <1>5, <1>6, <2>1 DEF Core, EvaluationInOnePlace
  <1>12. DecisionComesLast' /\ OneDecision'
    BY <1>3 DEF Core, DecisionComesLast, OneDecision
  <1> QED
    BY <1>7, <1>8, <1>9, <1>10, <1>11, <1>12 DEF Core, VoteInOnePlace

LEMMA AcceptKeeps ==
    ASSUME NamesMatch, TypeOK, Core, NEW p0 \in Provider, NEW m0 \in net,
           AcceptRequest(p0, m0), UNCHANGED consumerVars
    PROVE  Core'
  <1> DEFINE v0 == [txn |-> m0.txn, to |-> m0.from, stage |-> "wait"]
  <1>1. m0 \in RequestEvent /\ m0.type = "REQUEST_VOTE" /\ m0.to = p0
    BY EventTypes DEF TypeOK, AcceptRequest, Arrives
  <1>2. m0.txn \in Txn /\ m0.from \in Provider
    BY <1>1 DEF RequestEvent
  <1>3. AddressOf(m0.from) = m0.from
    BY AddressIsListed DEF AcceptRequest, CanLookUp, NamesMatch
  <1>4. /\ net' = net \ {m0}
        /\ voting' = [voting EXCEPT ![p0] = @ \cup {v0}]
        /\ UNCHANGED <<transactions, allFFS, triggered, allFFSnew, flows>>
    BY <1>3 DEF AcceptRequest, Consume, consumerVars
  <1>5. /\ v0.txn = m0.txn /\ v0.to = m0.from
        /\ voting'[p0] = voting[p0] \cup {v0}
        /\ \A q \in Provider : q # p0 => voting'[q] = voting[q]
    BY <1>4 DEF TypeOK
  <1>6. m0.txn \in transactions[p0]
    BY DEF AcceptRequest, CanLookUp
  <1>7. /\ m0.txn \in transactions[m0.from] /\ m0.from # p0
        /\ \A n \in net : n.type = "REQUEST_VOTE" /\ SameVote(m0, n) => n = m0
        /\ \A v \in voting[p0] : ~(v.txn = m0.txn /\ v.to = m0.from)
        /\ ReplyVote(m0.txn, p0, m0.from) \notin net
        /\ p0 \notin allFFS[m0.from][m0.txn]
    BY <1>1 DEF Core, VoteInOnePlace, RequestsInOnePlace
  <1> HIDE DEF v0
  <1>8. BuyComesFirst'
    BY <1>4 DEF Core, BuyComesFirst
  <1>9. RequestsInOnePlace'
    <2> SUFFICES ASSUME NEW m \in net', m.type = "REQUEST_VOTE"
                 PROVE  /\ m.txn \in transactions[m.from] /\ m.from # m.to
                        /\ \A n \in net' : n.type = "REQUEST_VOTE" /\ SameVote(m, n) => n = m
                        /\ \A v \in voting'[m.to] : ~(v.txn = m.txn /\ v.to = m.from)
                        /\ ReplyVote(m.txn, m.to, m.from) \notin net'
                        /\ m.to \notin allFFS[m.from][m.txn]
      BY <1>4 DEF RequestsInOnePlace, SameVote
    <2>1. m \in net /\ m # m0 /\ m.to \in Provider
      BY <1>4, EventTypes DEF TypeOK, RequestEvent
    <2>2. ~(m.from = m0.from /\ m.to = p0 /\ m.txn = m0.txn)
      BY <1>1, <1>7, <2>1 DEF SameVote
    <2>3. \A v \in voting'[m.to] : v \in voting[m.to] \/ (m.to = p0 /\ v = v0)
      BY <1>5, <2>1
    <2> QED
      BY <1>4, <1>5, <2>1, <2>2, <2>3 DEF Core, VoteInOnePlace, RequestsInOnePlace, SameVote
  <1>10. HandlersInOnePlace'
    <2> SUFFICES ASSUME NEW q \in Provider, NEW v \in voting'[q]
                 PROVE  /\ v.txn \in transactions[q] /\ v.txn \in transactions[v.to]
                        /\ v.to # q
                        /\ \A w \in voting'[q] : w.txn = v.txn /\ w.to = v.to => w = v
                        /\ ReplyVote(v.txn, q, v.to) \notin net'
                        /\ q \notin allFFS[v.to][v.txn]
      BY <1>4 DEF HandlersInOnePlace
    <2>1. CASE v \in voting[q]
      <3>1. \A w \in voting'[q] : w \in voting[q] \/ (q = p0 /\ w = v0)
        BY <1>5
      <3> QED
        BY <1>4, <1>5, <1>7, <2>1, <3>1 DEF Core, VoteInOnePlace, HandlersInOnePlace
    <2>2. CASE v \notin voting[q]
      <3>1. q = p0 /\ v = v0
        BY <1>5, <2>2
      <3> QED
        BY <1>4, <1>5, <1>6, <1>7, <3>1
    <2> QED
      BY <2>1, <2>2
  <1>11. RepliesInOnePlace'
    BY <1>4 DEF Core, VoteInOnePlace, RepliesInOnePlace
  <1>12. EvaluationInOnePlace'
    BY <1>4 DEF Core, EvaluationInOnePlace
  <1>13. DecisionComesLast' /\ OneDecision'
    BY <1>4 DEF Core, DecisionComesLast, OneDecision
  <1> QED
    BY <1>8, <1>9, <1>10, <1>11, <1>12, <1>13 DEF Core, VoteInOnePlace

LEMMA RetryKeeps ==
    ASSUME TypeOK, Core, NEW p0 \in Provider, NEW m0 \in net,
           RetryRequest(p0, m0), UNCHANGED consumerVars
    PROVE  Core'
  <1> DEFINE m1 == [m0 EXCEPT !.tries = @ + 1]
  <1>1. m0 \in RequestEvent /\ m0.type = "REQUEST_VOTE"
    BY EventTypes DEF TypeOK, RetryRequest, Arrives
  <1>2. m1.type = "REQUEST_VOTE" /\ SameVote(m0, m1) /\ SameVote(m1, m0)
    BY <1>1 DEF RequestEvent, SameVote
  <1>3. net' = (net \ {m0}) \cup {m1} /\ UNCHANGED <<providerVars, consumerVars>>
    BY DEF RetryRequest, Handle
  <1> HIDE DEF m1
  <1>4. /\ \A p, t : Buy(t, p) \in net' => Buy(t, p) \in net
        /\ \A p, q, t : ReplyVote(t, q, p) \in net' => ReplyVote(t, q, p) \in net
        /\ \A p, t : InformVote(t, p) \in net' => InformVote(t, p) \in net
    BY <1>2, <1>3 DEF Buy, ReplyVote, InformVote
  <1>5. BuyComesFirst'
    BY <1>3, <1>4 DEF Core, BuyComesFirst, providerVars, consumerVars
  <1>6. RequestsInOnePlace'
    BY <1>1, <1>2, <1>3, <1>4
       DEF Core, VoteInOnePlace, RequestsInOnePlace, SameVote, providerVars
  <1>7. HandlersInOnePlace'
    BY <1>3, <1>4 DEF Core, VoteInOnePlace, HandlersInOnePlace, providerVars
  <1>8. RepliesInOnePlace'
    BY <1>3, <1>4 DEF Core, VoteInOnePlace, RepliesInOnePlace, providerVars
  <1>9. EvaluationInOnePlace'
    BY <1>3, <1>4 DEF Core, EvaluationInOnePlace, providerVars, consumerVars
  <1>10. DecisionComesLast' /\ OneDecision'
    BY <1>3 DEF Core, DecisionComesLast, OneDecision, consumerVars
  <1> QED
    BY <1>5, <1>6, <1>7, <1>8, <1>9, <1>10 DEF Core, VoteInOnePlace

LEMMA SeeKeeps ==
    ASSUME TypeOK, Core, NEW p0 \in Provider, NEW u \in voting[p0],
           SeeAllPrices(p0, u), UNCHANGED consumerVars
    PROVE  Core'
  <1> DEFINE v0 == [u EXCEPT !.stage = "score"]
  <1>1. v0.txn = u.txn /\ v0.to = u.to
    <2>1. u \in Vote
      BY DEF TypeOK
    <2> QED
      BY <2>1 DEF Vote
  <1>2. /\ voting' = [voting EXCEPT ![p0] = (@ \ {u}) \cup {v0}]
        /\ UNCHANGED <<net, transactions, allFFS, triggered, allFFSnew, flows>>
    BY DEF SeeAllPrices, wireVars, consumerVars
  <1>3. /\ voting'[p0] = (voting[p0] \ {u}) \cup {v0}
        /\ \A q \in Provider : q # p0 => voting'[q] = voting[q]
    BY <1>2 DEF TypeOK
  <1> HIDE DEF v0
  <1>4. BuyComesFirst'
    BY <1>2 DEF Core, BuyComesFirst
  <1>5. RequestsInOnePlace'
    <2>1. \A m \in net : m.type = "REQUEST_VOTE" => m.to \in Provider
      BY EventTypes DEF TypeOK, RequestEvent
    <2> QED
      BY <1>1, <1>2, <1>3, <2>1 DEF Core, VoteInOnePlace, RequestsInOnePlace, SameVote
  <1>6. HandlersInOnePlace'
    BY <1>1, <1>2, <1>3 DEF Core, VoteInOnePlace, HandlersInOnePlace
  <1>7. RepliesInOnePlace'
    BY <1>2 DEF Core, VoteInOnePlace, RepliesInOnePlace
  <1>8. EvaluationInOnePlace'
    BY <1>2 DEF Core, EvaluationInOnePlace
  <1>9. DecisionComesLast' /\ OneDecision'
    BY <1>2 DEF Core, DecisionComesLast, OneDecision
  <1> QED
    BY <1>4, <1>5, <1>6, <1>7, <1>8, <1>9 DEF Core, VoteInOnePlace

LEMMA CastKeeps ==
    ASSUME TypeOK, Core, NEW p0 \in Provider, NEW v0 \in voting[p0],
           CastVote(p0, v0), UNCHANGED consumerVars
    PROVE  Core'
  <1> DEFINE t0 == v0.txn
             q0 == v0.to
             m1 == ReplyVote(t0, p0, q0)
  <1>1. t0 \in Txn /\ q0 \in Provider
    BY DEF TypeOK, Vote
  <1>2. /\ net' = net \cup {m1}
        /\ voting' = [voting EXCEPT ![p0] = @ \ {v0}]
        /\ allFFS' = [allFFS EXCEPT ![p0][t0] = @ \cup {p0}]
        /\ UNCHANGED <<transactions, triggered, allFFSnew, flows>>
    BY DEF CastVote, Send, consumerVars
  <1>3. /\ t0 \in transactions[p0] /\ t0 \in transactions[q0] /\ q0 # p0
        /\ \A w \in voting[p0] : w.txn = t0 /\ w.to = q0 => w = v0
        /\ m1 \notin net
        /\ p0 \notin allFFS[q0][t0]
    BY DEF Core, VoteInOnePlace, HandlersInOnePlace
  <1>4. /\ voting'[p0] = voting[p0] \ {v0}
        /\ \A q \in Provider : q # p0 => voting'[q] = voting[q]
        /\ allFFS'[p0][t0] = allFFS[p0][t0] \cup {p0}
        /\ \A p \in Provider, t \in Txn :
             p # p0 \/ t # t0 => allFFS'[p][t] = allFFS[p][t]
    BY <1>1, <1>2 DEF TypeOK
  <1>5. /\ \A p, t : Buy(t, p) \in net' => Buy(t, p) \in net
        /\ \A p, q, t : ReplyVote(t, q, p) \in net' =>
             ReplyVote(t, q, p) \in net \/ (t = t0 /\ q = p0 /\ p = q0)
        /\ \A p, t : InformVote(t, p) \in net' => InformVote(t, p) \in net
        /\ \A m \in net' : m.type = "REQUEST_VOTE" => m \in net
    BY <1>2 DEF Buy, ReplyVote, InformVote
  <1>6. \A p \in Provider, q \in Provider, t \in Txn :
          q # p => (q \in allFFS'[p][t] <=> q \in allFFS[p][t])
    BY <1>1, <1>4
  <1> HIDE DEF t0, q0, m1
  <1>7. BuyComesFirst'
    BY <1>2, <1>3, <1>4, <1>5 DEF Core, BuyComesFirst
  <1>8. RequestsInOnePlace'
    <2> SUFFICES ASSUME NEW m \in net', m.type = "REQUEST_VOTE"
                 PROVE  /\ m.txn \in transactions[m.from] /\ m.from # m.to
                        /\ \A n \in net' : n.type = "REQUEST_VOTE" /\ SameVote(m, n) => n = m
                        /\ \A v \in voting'[m.to] : ~(v.txn = m.txn /\ v.to = m.from)
                        /\ ReplyVote(m.txn, m.to, m.from) \notin net'
                        /\ m.to \notin allFFS'[m.from][m.txn]
      BY <1>2 DEF RequestsInOnePlace, SameVote
    <2>1. m \in net /\ m.to \in Provider /\ m.from \in Provider /\ m.txn \in Txn
      BY <1>5, EventTypes DEF TypeOK, RequestEvent
    <2>2. m.from # m.to /\ ~(m.to = p0 /\ m.from = q0 /\ m.txn = t0)
      BY <2>1 DEF Core, VoteInOnePlace, RequestsInOnePlace, t0, q0
    <2> QED
      BY <1>4, <1>5, <1>6, <2>1, <2>2 DEF Core, VoteInOnePlace, RequestsInOnePlace, SameVote
  <1>9. HandlersInOnePlace'
    <2> SUFFICES ASSUME NEW q \in Provider, NEW v \in voting'[q]
                 PROVE  /\ v.txn \in transactions[q] /\ v.txn \in transactions[v.to]
                        /\ v.to # q
                        /\ \A w \in voting'[q] : w.txn = v.txn /\ w.to = v.to => w = v
                        /\ ReplyVote(v.txn, q, v.to) \notin net'
                        /\ q \notin allFFS'[v.to][v.txn]
      BY <1>2 DEF HandlersInOnePlace
    <2>1. v \in voting[q] /\ voting'[q] \subseteq voting[q]
      BY <1>4
    <2>2. v.txn \in Txn /\ v.to \in Provider /\ v.to # q
      BY <2>1 DEF TypeOK, Vote, Core, VoteInOnePlace, HandlersInOnePlace
    <2>3. ~(q = p0 /\ v.to = q0 /\ v.txn = t0)
      BY <1>3, <1>4
    <2> QED
      BY <1>5, <1>6, <2>1, <2>2, <2>3 DEF Core, VoteInOnePlace, HandlersInOnePlace
  <1>10. RepliesInOnePlace'
    BY <1>2, <1>3, <1>5, <1>6 DEF Core, VoteInOnePlace, RepliesInOnePlace
  <1>11. EvaluationInOnePlace'
    <2>1. \A p \in Provider, t \in Txn : allFFS[p][t] = Provider => allFFS'[p][t] = Provider
      BY <1>1, <1>4
    <2> QED
      BY <1>2, <1>5, <2>1 DEF Core, EvaluationInOnePlace
  <1>12. DecisionComesLast' /\ OneDecision'
    BY <1>2 DEF Core, DecisionComesLast, OneDecision
  <1> QED
    BY <1>7, <1>8, <1>9, <1>10, <1>11, <1>12 DEF Core, VoteInOnePlace

LEMMA ReplyKeeps ==
    ASSUME TypeOK, Core, NEW p0 \in Provider, NEW m0 \in net,
           HandleReplyVote(p0, m0), UNCHANGED consumerVars
    PROVE  Core'
  <1> DEFINE t0 == m0.txn
             q0 == m0.from
             rows == allFFS[p0][t0] \cup {q0}
             new == IF HasAllVotes(rows) THEN {InformVote(t0, p0)} ELSE {}
  <1>1. m0 = ReplyVote(t0, q0, p0) /\ t0 \in Txn /\ q0 \in Provider
    BY EventShapes, EventTypes DEF TypeOK, HandleReplyVote, Arrives, ReplyEvent
  <1>2. t0 \in transactions[p0] /\ q0 # p0 /\ q0 \notin allFFS[p0][t0]
    BY <1>1 DEF Core, VoteInOnePlace, RepliesInOnePlace
  <1>3. /\ net' = (net \ {m0}) \cup new
        /\ allFFS' = [allFFS EXCEPT ![p0][t0] = rows]
        /\ UNCHANGED <<transactions, voting, triggered, allFFSnew, flows>>
    BY <1>2 DEF HandleReplyVote, Handle, consumerVars
  <1>4. /\ allFFS'[p0][t0] = rows
        /\ \A p \in Provider, t \in Txn :
             p # p0 \/ t # t0 => allFFS'[p][t] = allFFS[p][t]
    BY <1>1, <1>3 DEF TypeOK
  <1>5. new # {} => rows = Provider
    <2>1. rows \in SUBSET Provider
      BY <1>1 DEF TypeOK
    <2> QED
      BY <2>1, FullRows DEF HasAllVotes
  <1>6. /\ \A p, t : Buy(t, p) \in net' => Buy(t, p) \in net
        /\ \A p, q, t : ReplyVote(t, q, p) \in net' =>
             ReplyVote(t, q, p) \in net /\ ReplyVote(t, q, p) # m0
        /\ \A p, t : InformVote(t, p) \in net' =>
             InformVote(t, p) \in net \/ (new # {} /\ t = t0 /\ p = p0)
        /\ \A m \in net' : m.type = "REQUEST_VOTE" => m \in net
    BY <1>3 DEF Buy, ReplyVote, InformVote
  <1>7. \A p \in Provider, q \in Provider, t \in Txn :
          q \in allFFS'[p][t] => q \in allFFS[p][t] \/ (p = p0 /\ q = q0 /\ t = t0)
    BY <1>1, <1>4
  <1>8. InformVote(t0, p0) \notin net /\ p0 \notin allFFSnew[t0]
    BY <1>1, <1>2 DEF Core, EvaluationInOnePlace
  <1> HIDE DEF t0, q0, new
  <1>9. BuyComesFirst'
    BY <1>2, <1>3, <1>4, <1>6 DEF Core, BuyComesFirst
  <1>10. RequestsInOnePlace'
    <2> SUFFICES ASSUME NEW m \in net', m.type = "REQUEST_VOTE"
                 PROVE  /\ m.txn \in transactions[m.from] /\ m.from # m.to
                        /\ \A n \in net' : n.type = "REQUEST_VOTE" /\ SameVote(m, n) => n = m
                        /\ \A v \in voting[m.to] : ~(v.txn = m.txn /\ v.to = m.from)
                        /\ ReplyVote(m.txn, m.to, m.from) \notin net'
                        /\ m.to \notin allFFS'[m.from][m.txn]
      BY <1>3 DEF RequestsInOnePlace, SameVote
    <2>1. m \in net /\ m.to \in Provider /\ m.from \in Provider /\ m.txn \in Txn
      BY <1>6, EventTypes DEF TypeOK, RequestEvent
    <2>2. ~(m.to = q0 /\ m.from = p0 /\ m.txn = t0)
      BY <1>1, <2>1 DEF Core, VoteInOnePlace, RequestsInOnePlace
    <2> QED
      BY <1>6, <1>7, <2>1, <2>2 DEF Core, VoteInOnePlace, RequestsInOnePlace, SameVote
  <1>11. HandlersInOnePlace'
    <2> SUFFICES ASSUME NEW q \in Provider, NEW v \in voting[q]
                 PROVE  /\ v.txn \in transactions[q] /\ v.txn \in transactions[v.to]
                        /\ v.to # q
                        /\ \A w \in voting[q] : w.txn = v.txn /\ w.to = v.to => w = v
                        /\ ReplyVote(v.txn, q, v.to) \notin net'
                        /\ q \notin allFFS'[v.to][v.txn]
      BY <1>3 DEF HandlersInOnePlace
    <2>1. v.txn \in Txn /\ v.to \in Provider
      BY DEF TypeOK, Vote
    <2>2. ~(q = q0 /\ v.to = p0 /\ v.txn = t0)
      BY <1>1 DEF Core, VoteInOnePlace, HandlersInOnePlace
    <2> QED
      BY <1>6, <1>7, <2>1, <2>2 DEF Core, VoteInOnePlace, HandlersInOnePlace
  <1>12. RepliesInOnePlace'
    BY <1>1, <1>3, <1>6, <1>7 DEF Core, VoteInOnePlace, RepliesInOnePlace
  <1>13. EvaluationInOnePlace'
    <2>1. t0 \in triggered
      BY <1>1, <1>2 DEF Core, BuyComesFirst
    <2>2. \A p \in Provider, t \in Txn : allFFS[p][t] = Provider => allFFS'[p][t] = Provider
      BY <1>1, <1>4
    <2>3. new # {} => allFFS'[p0][t0] = Provider
      BY <1>4, <1>5
    <2> HIDE DEF rows
    <2> QED
      BY <1>3, <1>6, <1>8, <2>1, <2>2, <2>3 DEF Core, EvaluationInOnePlace
  <1>14. DecisionComesLast' /\ OneDecision'
    BY <1>3 DEF Core, DecisionComesLast, OneDecision
  <1> QED
    BY <1>9, <1>10, <1>11, <1>12, <1>13, <1>14 DEF Core, VoteInOnePlace

LEMMA InformKeeps ==
    ASSUME TypeOK, Core, NEW m0 \in net, HandleInformVote(m0), UNCHANGED providerVars
    PROVE  Core'
  <1> DEFINE t0 == m0.txn
             p0 == m0.from
             rows == allFFSnew[t0] \cup {p0}
             Decision(w) == [txn |-> t0, by |-> p0, winner |-> w, stage |-> "streaming"]
  <1>1. m0 = InformVote(t0, p0) /\ t0 \in Txn /\ p0 \in Provider
    BY EventShapes, EventTypes DEF TypeOK, HandleInformVote, Arrives, InformEvent
  <1>2. t0 \in triggered /\ p0 \notin allFFSnew[t0] /\ allFFS[p0][t0] = Provider
    BY <1>1 DEF Core, EvaluationInOnePlace
  <1>3. /\ allFFSnew' = [allFFSnew EXCEPT ![t0] = rows]
        /\ UNCHANGED <<transactions, allFFS, voting, triggered>>
        /\ \/ net' = net \ {m0} /\ flows' = flows
           \/ /\ HasAllEvaluations(rows)
              /\ \E w \in Winners :
                   /\ flows' = flows \cup {Decision(w)}
                   /\ net' = (net \ {m0}) \cup {StartFlow(t0, q, w) : q \in Provider}
    BY <1>2 DEF HandleInformVote, Handle, Consume, providerVars
  <1>4. /\ allFFSnew'[t0] = rows
        /\ \A t \in Txn : t # t0 => allFFSnew'[t] = allFFSnew[t]
    BY <1>1, <1>3 DEF TypeOK
  <1>5. /\ \A p, t : Buy(t, p) \in net' => Buy(t, p) \in net
        /\ \A p, q, t : ReplyVote(t, q, p) \in net' => ReplyVote(t, q, p) \in net
        /\ \A p, t : InformVote(t, p) \in net' =>
             InformVote(t, p) \in net /\ InformVote(t, p) # m0
        /\ \A m \in net' : m.type = "REQUEST_VOTE" => m \in net
    BY <1>3 DEF Buy, ReplyVote, InformVote, StartFlow
  <1>6. HasAllEvaluations(rows) => rows = Provider
    <2>1. rows \in SUBSET Provider
      BY <1>1 DEF TypeOK
    <2> QED
      BY <2>1, FullRows DEF HasAllEvaluations
  <1>7. \A f \in flows : f.txn # t0
    BY <1>1, <1>2 DEF Core, DecisionComesLast
  <1>8. \/ flows' = flows
        \/ /\ HasAllEvaluations(rows)
           /\ \E d : flows' = flows \cup {d} /\ d.txn = t0
    BY <1>3
  <1> HIDE DEF t0, p0, rows, Decision
  <1>9. BuyComesFirst'
    BY <1>3, <1>5 DEF Core, BuyComesFirst
  <1>10. RequestsInOnePlace'
    BY <1>3, <1>5 DEF Core, VoteInOnePlace, RequestsInOnePlace
  <1>11. HandlersInOnePlace'
    BY <1>3, <1>5 DEF Core, VoteInOnePlace, HandlersInOnePlace
  <1>12. RepliesInOnePlace'
    BY <1>3, <1>5 DEF Core, VoteInOnePlace, RepliesInOnePlace
  <1>13. EvaluationInOnePlace'
    <2>1. \A p \in Provider, t \in Txn :
            p \in allFFSnew'[t] => p \in allFFSnew[t] \/ (t = t0 /\ p = p0)
      BY <1>4 DEF rows
    <2>2. \A p, t : InformVote(t, p) # m0 => p # p0 \/ t # t0
      BY <1>1
    <2> QED
      BY <1>2, <1>3, <1>5, <2>1, <2>2 DEF Core, EvaluationInOnePlace
  <1>14. DecisionComesLast'
    <2>1. \A f \in flows : f.txn \in Txn
      BY DEF TypeOK, Flow
    <2> QED
      BY <1>4, <1>6, <1>7, <1>8, <2>1 DEF Core, DecisionComesLast
  <1>15. OneDecision'
    BY <1>7, <1>8 DEF Core, OneDecision
  <1> QED
    BY <1>9, <1>10, <1>11, <1>12, <1>13, <1>14, <1>15 DEF Core, VoteInOnePlace

LEMMA FinishKeeps ==
    ASSUME TypeOK, Core, NEW f0 \in flows, FinishFlow(f0), UNCHANGED providerVars
    PROVE  Core'
  <1> DEFINE f1 == [f0 EXCEPT !.stage = "ended"]
  <1>1. f1.txn = f0.txn
    BY DEF TypeOK, Flow
  <1>2. /\ flows' = (flows \ {f0}) \cup {f1}
        /\ \A m \in net' : m \in net \/ \E q \in Provider : m = TransactionEnd(f0.txn, q)
        /\ UNCHANGED <<transactions, allFFS, voting, triggered, allFFSnew>>
    BY DEF FinishFlow, Send, providerVars
  <1>3. \A t, q : TransactionEnd(t, q).type = "TRANSACTION_END"
    BY DEF TransactionEnd
  <1>4. /\ \A p, t : Buy(t, p) \in net' => Buy(t, p) \in net
        /\ \A p, q, t : ReplyVote(t, q, p) \in net' => ReplyVote(t, q, p) \in net
        /\ \A p, t : InformVote(t, p) \in net' => InformVote(t, p) \in net
        /\ \A m \in net' : m.type = "REQUEST_VOTE" => m \in net
    BY <1>2, <1>3 DEF Buy, ReplyVote, InformVote
  <1> HIDE DEF f1
  <1>5. BuyComesFirst'
    BY <1>2, <1>4 DEF Core, BuyComesFirst
  <1>6. RequestsInOnePlace'
    BY <1>2, <1>4 DEF Core, VoteInOnePlace, RequestsInOnePlace
  <1>7. HandlersInOnePlace'
    BY <1>2, <1>4 DEF Core, VoteInOnePlace, HandlersInOnePlace
  <1>8. RepliesInOnePlace'
    BY <1>2, <1>4 DEF Core, VoteInOnePlace, RepliesInOnePlace
  <1>9. EvaluationInOnePlace'
    BY <1>2, <1>4 DEF Core, EvaluationInOnePlace
  <1>10. DecisionComesLast'
    BY <1>1, <1>2 DEF Core, DecisionComesLast
  <1>11. OneDecision'
    BY <1>1, <1>2 DEF Core, OneDecision
  <1> QED
    BY <1>5, <1>6, <1>7, <1>8, <1>9, <1>10, <1>11 DEF Core, VoteInOnePlace

-----------------------------------------------------------------------------
(* The steps that leave the vote alone *)

LEMMA DropKeeps ==
    ASSUME Core, NEW p \in Provider, NEW m \in net, DropRequest(p, m),
           UNCHANGED consumerVars
    PROVE  Core'
  BY Frame DEF DropRequest, Consume, consumerVars

LEMMA FlowKeeps ==
    ASSUME Core, NEW p \in Provider, StartStep(p) \/ EndStep(p) \/ CountStep(p),
           UNCHANGED consumerVars
    PROVE  Core'
  BY Frame DEF StartStep, EndStep, CountStep, HandleStartFlow, HandleTransactionEnd,
               FinishFlowOp, Consume, wireVars, consumerVars

LEMMA BeaconKeeps ==
    ASSUME Core, NEW p \in Provider, BeaconStep(p) \/ EmitStep(p),
           UNCHANGED consumerVars
    PROVE  Core'
  <1>1. \A m \in net' : m.type \in VoteKinds => m \in net
    <2>1. CASE BeaconStep(p)
      BY <2>1 DEF BeaconStep, BeaconRead, BeaconWrite, Consume, wireVars
    <2>2. CASE EmitStep(p)
      <3>1. PICK q \in Provider : EmitBeacon(p, q)
        BY <2>2 DEF EmitStep
      <3>2. PICK rate \in RatesSent(p) : net' = net \cup {Beacon(p, q, rate)}
        BY <3>1 DEF EmitBeacon, Send
      <3>3. Beacon(p, q, rate).type \notin VoteKinds
        BY DEF Beacon, VoteKinds
      <3> QED
        BY <3>2, <3>3
    <2> QED
      BY <2>1, <2>2
  <1>2. UNCHANGED <<transactions, allFFS, voting, triggered, allFFSnew, flows>>
    BY DEF BeaconStep, EmitStep, BeaconRead, BeaconWrite, EmitBeacon, providerVars,
           consumerVars
  <1> QED
    BY <1>1, <1>2, Frame

LEMMA FailureKeeps ==
    ASSUME Core, FailureStep
    PROVE  Core'
  BY Frame DEF FailureStep, ConnectionFails, Crash, Consume, providerVars, consumerVars

-----------------------------------------------------------------------------
(* The theorems *)

LEMMA CoreStep ==
    ASSUME NamesMatch, TypeOK, Core, [Next]_vars
    PROVE  Core'
  <1>1. CASE ConsumerStep
    BY <1>1, TriggerKeeps, InformKeeps, FinishKeeps
       DEF ConsumerStep, InformStep, EndFlowStep
  <1>2. CASE FailureStep
    BY <1>2, FailureKeeps
  <1>3. ASSUME NEW p \in Provider, ProviderStep(p) PROVE Core'
    <2>1. CASE BuyStep(p)
      BY <1>3, <2>1, BuyKeeps DEF ProviderStep, BuyStep
    <2>2. CASE RequestStep(p)
      BY <1>3, <2>2, AcceptKeeps, RetryKeeps, DropKeeps DEF ProviderStep, RequestStep
    <2>3. CASE PriceStep(p) \/ CastStep(p)
      BY <1>3, <2>3, SeeKeeps, CastKeeps DEF ProviderStep, PriceStep, CastStep
    <2>4. CASE ReplyStep(p)
      BY <1>3, <2>4, ReplyKeeps DEF ProviderStep, ReplyStep
    <2>5. CASE StartStep(p) \/ EndStep(p) \/ CountStep(p)
      BY <1>3, <2>5, FlowKeeps DEF ProviderStep
    <2>6. CASE BeaconStep(p) \/ EmitStep(p)
      BY <1>3, <2>6, BeaconKeeps DEF ProviderStep
    <2> QED
      BY <1>3, <2>1, <2>2, <2>3, <2>4, <2>5, <2>6 DEF ProviderStep
  <1>4. CASE UNCHANGED vars
    BY <1>4, Frame DEF vars, wireVars, providerVars, consumerVars
  <1> QED
    BY <1>1, <1>2, <1>3, <1>4 DEF Next

\* The inductive invariant of the vote.
THEOREM CoreHolds == NamesMatch /\ Spec => []Core
  <1> SUFFICES ASSUME NamesMatch PROVE Spec => []Core
    OBVIOUS
  <1>1. TypeOK /\ Core /\ [Next]_vars => Core'
    BY CoreStep
  <1> QED
    BY <1>1, CoreInit, TypeCorrect, PTL DEF Spec

\* A transaction is decided at most once.
THEOREM DecidedOnce == NamesMatch /\ Spec => []OneDecision
  <1>1. Core => OneDecision
    BY DEF Core
  <1> QED
    BY <1>1, CoreHolds, PTL

\* A decision rests on everybody's evaluation, and every evaluation on
\* everybody's scores.
THEOREM DecidedOnAll == NamesMatch /\ Spec => []DecisionIsComplete
  <1>1. TypeOK /\ Core => DecisionIsComplete
    BY DEF TypeOK, Flow, Core, DecisionComesLast, EvaluationInOnePlace, DecisionIsComplete
  <1> QED
    BY <1>1, TypeCorrect, CoreHolds, PTL

\* No REPLY_VOTE or INFORM_VOTE handler writes to a nil map.
THEOREM NoNilMapPanic == NamesMatch /\ Spec => []NoNilMapWrite
  <1>1. TypeOK /\ Core => NoNilMapWrite
    <2> SUFFICES ASSUME TypeOK, Core, NEW m \in net
                 PROVE  /\ m.type = "REPLY_VOTE" => m.txn \in transactions[m.to]
                        /\ m.type = "INFORM_VOTE" => m.txn \in triggered
      BY DEF NoNilMapWrite
    <2>1. m.type = "REPLY_VOTE" => m.txn \in transactions[m.to]
      BY EventShapes, EventTypes
         DEF TypeOK, ReplyEvent, Core, VoteInOnePlace, RepliesInOnePlace
    <2>2. m.type = "INFORM_VOTE" => m.txn \in triggered
      BY EventShapes, EventTypes
         DEF TypeOK, InformEvent, Core, EvaluationInOnePlace
    <2> QED
      BY <2>1, <2>2
  <1> QED
    BY <1>1, TypeCorrect, CoreHolds, PTL

\* The vote of one provider for another is asked for, prepared, on its way back
\* or counted, and never two of these: retries and late handlers do not repeat it.
THEOREM VoteKeptOnce == NamesMatch /\ Spec => []VoteInOnePlace
  <1>1. Core => VoteInOnePlace
    BY DEF Core
  <1> QED
    BY <1>1, CoreHolds, PTL

-----------------------------------------------------------------------------
(* What is lost *)

Dead == lost \cup dropped

\* q's vote for p in t is nowhere: not asked for, prepared, on its way or counted.
Gone(t, q, p) ==
    /\ t \in transactions[p] /\ q # p
    /\ \A m \in net : ~(m.type = "REQUEST_VOTE" /\ m.txn = t /\ m.from = p /\ m.to = q)
    /\ \A v \in voting[q] : ~(v.txn = t /\ v.to = p)
    /\ ReplyVote(t, q, p) \notin net
    /\ q \notin allFFS[p][t]

\* A dead event has no second copy, and what it was for has not been reached.
Unmet(m) ==
    /\ m.type = "BUY" => /\ m.txn \in triggered /\ m.txn \notin transactions[m.to]
                         /\ Buy(m.txn, m.to) \notin net
    /\ m.type = "REQUEST_VOTE" => Gone(m.txn, m.to, m.from)
    /\ m.type = "REPLY_VOTE" => Gone(m.txn, m.from, m.to)
    /\ m.type = "INFORM_VOTE" => /\ InformVote(m.txn, m.from) \notin net
                                 /\ m.from \notin allFFSnew[m.txn]
                                 /\ allFFS[m.from][m.txn] = Provider
DeadAreUnmet == \A m \in Dead : Unmet(m)

\* What a step may do to a vote: each thing comes from the one before it.
BuysAdvance ==
    /\ triggered \subseteq triggered'
    /\ \A p \in Provider, t \in Txn :
        /\ Buy(t, p) \in net' => Buy(t, p) \in net \/ t \notin triggered
        /\ t \in transactions[p] => t \in transactions'[p]
        /\ t \in transactions'[p] => t \in transactions[p] \/ Buy(t, p) \in net
VotesAdvance ==
    /\ \A m \in net' : m.type = "REQUEST_VOTE" =>
        \/ \E n \in net : n.type = "REQUEST_VOTE" /\ SameVote(m, n)
        \/ m.txn \notin transactions[m.from]
    /\ \A q \in Provider : \A v \in voting'[q] :
        \/ \E w \in voting[q] : w.txn = v.txn /\ w.to = v.to
        \/ \E n \in net : /\ n.type = "REQUEST_VOTE" /\ n.txn = v.txn
                          /\ n.from = v.to /\ n.to = q
    /\ \A p, q \in Provider : \A t \in Txn :
        /\ ReplyVote(t, q, p) \in net' =>
             ReplyVote(t, q, p) \in net \/ \E v \in voting[q] : v.txn = t /\ v.to = p
        /\ q \in allFFS'[p][t] => q \in allFFS[p][t] \/ q = p \/ ReplyVote(t, q, p) \in net
EvaluationsAdvance ==
    \A p \in Provider, t \in Txn :
        /\ InformVote(t, p) \in net' => InformVote(t, p) \in net \/ allFFS[p][t] # Provider
        /\ p \in allFFSnew'[t] => p \in allFFSnew[t] \/ InformVote(t, p) \in net
        /\ allFFS[p][t] = Provider => allFFS'[p][t] = Provider
Advance == BuysAdvance /\ VotesAdvance /\ EvaluationsAdvance

LEMMA GoneStays ==
    ASSUME Advance, NEW t \in Txn, NEW p \in Provider, NEW q \in Provider, Gone(t, q, p)
    PROVE  Gone(t, q, p)'
  <1>1. t \in transactions'[p] /\ q # p
    BY DEF Gone, Advance, BuysAdvance
  <1>2. \A m \in net' : ~(m.type = "REQUEST_VOTE" /\ m.txn = t /\ m.from = p /\ m.to = q)
    BY DEF Gone, Advance, VotesAdvance, SameVote
  <1>3. \A v \in voting'[q] : ~(v.txn = t /\ v.to = p)
    BY DEF Gone, Advance, VotesAdvance
  <1>4. ReplyVote(t, q, p) \notin net'
    BY DEF Gone, Advance, VotesAdvance
  <1>5. q \notin allFFS'[p][t]
    BY DEF Gone, Advance, VotesAdvance
  <1> QED
    BY <1>1, <1>2, <1>3, <1>4, <1>5 DEF Gone

LEMMA UnmetStays ==
    ASSUME TypeOK, Advance, NEW m \in Dead, Unmet(m)
    PROVE  Unmet(m)'
  <1>1. m \in Message
    BY DEF TypeOK, Dead
  <1>2. m.type = "BUY" => Unmet(m)'
    BY <1>1, EventTypes DEF BuyEvent, Unmet, Advance, BuysAdvance
  <1>3. m.type \in {"REQUEST_VOTE", "REPLY_VOTE"} => Unmet(m)'
    BY <1>1, EventTypes, GoneStays DEF RequestEvent, ReplyEvent, Unmet
  <1>4. m.type = "INFORM_VOTE" => Unmet(m)'
    BY <1>1, EventTypes DEF InformEvent, Unmet, Advance, EvaluationsAdvance
  <1> QED
    BY <1>2, <1>3, <1>4 DEF Unmet

\* An event that dies was in one place.
LEMMA DeathIsUnmet ==
    ASSUME TypeOK, Core, NEW m \in net, net' = net \ {m},
           UNCHANGED <<transactions, allFFS, voting, triggered, allFFSnew>>
    PROVE  Unmet(m)'
  <1>1. m \in Message
    BY DEF TypeOK
  <1>2. CASE m.type = "BUY"
    <2>1. m = Buy(m.txn, m.to) /\ m.txn \in Txn /\ m.to \in Provider
      BY <1>1, <1>2, EventTypes, EventShapes DEF BuyEvent
    <2> QED
      BY <1>2, <2>1 DEF Unmet, Core, BuyComesFirst
  <1>3. CASE m.type = "REQUEST_VOTE"
    <2>1. /\ m.txn \in transactions[m.from] /\ m.from # m.to
          /\ \A n \in net : n.type = "REQUEST_VOTE" /\ SameVote(m, n) => n = m
          /\ \A v \in voting[m.to] : ~(v.txn = m.txn /\ v.to = m.from)
          /\ ReplyVote(m.txn, m.to, m.from) \notin net
          /\ m.to \notin allFFS[m.from][m.txn]
      BY <1>3 DEF Core, VoteInOnePlace, RequestsInOnePlace
    <2>2. Gone(m.txn, m.to, m.from)'
      BY <2>1 DEF Gone, SameVote
    <2> QED
      BY <1>3, <2>2 DEF Unmet
  <1>4. CASE m.type = "REPLY_VOTE"
    <2>1. m = ReplyVote(m.txn, m.from, m.to) /\ m.txn \in Txn /\ m.from \in Provider
             /\ m.to \in Provider
      BY <1>1, <1>4, EventTypes, EventShapes DEF ReplyEvent
    <2>2. m.txn \in transactions[m.to] /\ m.from # m.to /\ m.from \notin allFFS[m.to][m.txn]
      BY <2>1 DEF Core, VoteInOnePlace, RepliesInOnePlace
    <2>3. \A n \in net : n.type = "REQUEST_VOTE" =>
              ~(n.txn = m.txn /\ n.from = m.to /\ n.to = m.from)
      BY <2>1 DEF Core, VoteInOnePlace, RequestsInOnePlace
    <2>4. \A v \in voting[m.from] : ~(v.txn = m.txn /\ v.to = m.to)
      BY <2>1 DEF Core, VoteInOnePlace, HandlersInOnePlace
    <2>5. Gone(m.txn, m.from, m.to)'
      BY <2>1, <2>2, <2>3, <2>4 DEF Gone
    <2> QED
      BY <1>4, <2>5 DEF Unmet
  <1>5. CASE m.type = "INFORM_VOTE"
    <2>1. m = InformVote(m.txn, m.from) /\ m.txn \in Txn /\ m.from \in Provider
      BY <1>1, <1>5, EventTypes, EventShapes DEF InformEvent
    <2> QED
      BY <1>5, <2>1 DEF Unmet, Core, EvaluationInOnePlace
  <1> QED
    BY <1>2, <1>3, <1>4, <1>5 DEF Unmet

\* A step that neither asks for a vote nor counts one.
LEMMA StillAdvance ==
    ASSUME \A m \in net' : m.type \in VoteKinds => m \in net,
           UNCHANGED <<transactions, allFFS, voting, triggered, allFFSnew>>
    PROVE  Advance
  <1>1. /\ \A p, t : Buy(t, p) \in net' => Buy(t, p) \in net
        /\ \A p, q, t : ReplyVote(t, q, p) \in net' => ReplyVote(t, q, p) \in net
        /\ \A p, t : InformVote(t, p) \in net' => InformVote(t, p) \in net
        /\ \A m \in net' : m.type = "REQUEST_VOTE" => m \in net
    BY DEF VoteKinds, Buy, ReplyVote, InformVote
  <1>2. BuysAdvance
    BY <1>1 DEF BuysAdvance
  <1>3. VotesAdvance
    BY <1>1 DEF VotesAdvance, SameVote
  <1>4. EvaluationsAdvance
    BY <1>1 DEF EvaluationsAdvance
  <1> QED
    BY <1>2, <1>3, <1>4 DEF Advance

LEMMA TriggerAdvances ==
    ASSUME NEW t0 \in Txn, TriggerBuy(t0), UNCHANGED providerVars
    PROVE  Advance
  <1>1. \A m \in net' : m \in net \/ \E q \in Provider : m = Buy(t0, q)
    BY DEF TriggerBuy, Send
  <1>2. /\ \A p, t : Buy(t, p) \in net' => Buy(t, p) \in net \/ t = t0
        /\ \A p, q, t : ReplyVote(t, q, p) \in net' => ReplyVote(t, q, p) \in net
        /\ \A p, t : InformVote(t, p) \in net' => InformVote(t, p) \in net
        /\ \A m \in net' : m.type = "REQUEST_VOTE" => m \in net
    <2>1. \A q : Buy(t0, q).type = "BUY" /\ Buy(t0, q).txn = t0
      BY DEF Buy
    <2>2. \A t, p : Buy(t, p).txn = t
      BY DEF Buy
    <2>3. /\ \A p, q, t : ReplyVote(t, q, p).type = "REPLY_VOTE"
          /\ \A p, t : InformVote(t, p).type = "INFORM_VOTE"
      BY DEF ReplyVote, InformVote
    <2> QED
      BY <1>1, <2>1, <2>2, <2>3
  <1>3. BuysAdvance
    BY <1>2 DEF BuysAdvance, TriggerBuy, providerVars
  <1>4. VotesAdvance
    BY <1>2 DEF VotesAdvance, SameVote, providerVars
  <1>5. EvaluationsAdvance
    BY <1>2 DEF EvaluationsAdvance, TriggerBuy, providerVars
  <1> QED
    BY <1>3, <1>4, <1>5 DEF Advance

LEMMA BuyAdvances ==
    ASSUME NamesMatch, TypeOK, Core, NEW p0 \in Provider, NEW m0 \in net,
           HandleBuy(p0, m0), UNCHANGED consumerVars
    PROVE  Advance
  <1> DEFINE t0 == m0.txn
  <1>1. m0 = Buy(t0, p0) /\ t0 \in Txn
    BY EventShapes, EventTypes DEF TypeOK, HandleBuy, Arrives, BuyEvent
  <1>2. t0 \in triggered /\ t0 \notin transactions[p0] /\ allFFS[p0][t0] = {}
    BY <1>1 DEF Core, BuyComesFirst
  <1>3. /\ net' = (net \ {m0}) \cup
               {RequestVote(t0, p0, q, PriceSent(p0, t0)) : q \in Peers(p0)}
        /\ transactions' = [transactions EXCEPT ![p0] = @ \cup {t0}]
        /\ allFFS' = [allFFS EXCEPT ![p0][t0] = {p0}]
        /\ UNCHANGED <<voting, triggered, allFFSnew, flows>>
    BY DEF HandleBuy, Handle, consumerVars
  <1>4. /\ \A p, t : Buy(t, p) \in net' => Buy(t, p) \in net
        /\ \A p, q, t : ReplyVote(t, q, p) \in net' => ReplyVote(t, q, p) \in net
        /\ \A p, t : InformVote(t, p) \in net' => InformVote(t, p) \in net
        /\ \A m \in net' : m.type = "REQUEST_VOTE" =>
             m \in net \/ (m.txn = t0 /\ m.from = p0)
    <2>1. \A m \in net' : m \in net \/ \E q : m = RequestVote(t0, p0, q, PriceSent(p0, t0))
      BY <1>3
    <2>2. \A q, c : /\ RequestVote(t0, p0, q, c).type = "REQUEST_VOTE"
                    /\ RequestVote(t0, p0, q, c).txn = t0
                    /\ RequestVote(t0, p0, q, c).from = p0
      BY DEF RequestVote
    <2>3. /\ \A t, p : Buy(t, p).type = "BUY"
          /\ \A p, q, t : ReplyVote(t, q, p).type = "REPLY_VOTE"
          /\ \A p, t : InformVote(t, p).type = "INFORM_VOTE"
      BY DEF Buy, ReplyVote, InformVote
    <2> HIDE DEF t0
    <2> QED
      BY <2>1, <2>2, <2>3
  <1>5. /\ transactions'[p0] = transactions[p0] \cup {t0}
        /\ \A p \in Provider : p # p0 => transactions'[p] = transactions[p]
        /\ allFFS'[p0][t0] = {p0}
        /\ \A p \in Provider, t \in Txn :
             p # p0 \/ t # t0 => allFFS'[p][t] = allFFS[p][t]
    BY <1>1, <1>3 DEF TypeOK
  <1> HIDE DEF t0
  <1>6. BuysAdvance
    BY <1>1, <1>3, <1>4, <1>5 DEF BuysAdvance
  <1>7. VotesAdvance
    BY <1>2, <1>3, <1>4, <1>5 DEF VotesAdvance, SameVote
  <1>8. EvaluationsAdvance
    <2>1. allFFS[p0][t0] # Provider
      BY <1>2
    <2> QED
      BY <1>3, <1>4, <1>5, <2>1 DEF EvaluationsAdvance
  <1> QED
    BY <1>6, <1>7, <1>8 DEF Advance

LEMMA AcceptAdvances ==
    ASSUME NamesMatch, TypeOK, NEW p0 \in Provider, NEW m0 \in net,
           AcceptRequest(p0, m0), UNCHANGED consumerVars
    PROVE  Advance
  <1> DEFINE v0 == [txn |-> m0.txn, to |-> m0.from, stage |-> "wait"]
  <1>1. m0.type = "REQUEST_VOTE" /\ m0.to = p0
    BY DEF AcceptRequest, Arrives
  <1>2. AddressOf(m0.from) = m0.from
    BY AddressIsListed DEF AcceptRequest, CanLookUp, NamesMatch
  <1>3. /\ net' = net \ {m0}
        /\ voting' = [voting EXCEPT ![p0] = @ \cup {v0}]
        /\ UNCHANGED <<transactions, allFFS, triggered, allFFSnew, flows>>
    BY <1>2 DEF AcceptRequest, Consume, consumerVars
  <1>4. /\ v0.txn = m0.txn /\ v0.to = m0.from
        /\ \A q \in Provider : \A v \in voting'[q] : v \in voting[q] \/ (q = p0 /\ v = v0)
    BY <1>3 DEF TypeOK
  <1> HIDE DEF v0
  <1>5. VotesAdvance
    BY <1>1, <1>3, <1>4 DEF VotesAdvance, SameVote
  <1>6. BuysAdvance /\ EvaluationsAdvance
    BY <1>3 DEF BuysAdvance, EvaluationsAdvance
  <1> QED
    BY <1>5, <1>6 DEF Advance

LEMMA RetryAdvances ==
    ASSUME TypeOK, NEW p0 \in Provider, NEW m0 \in net,
           RetryRequest(p0, m0), UNCHANGED consumerVars
    PROVE  Advance
  <1> DEFINE m1 == [m0 EXCEPT !.tries = @ + 1]
  <1>1. m0 \in RequestEvent /\ m0.type = "REQUEST_VOTE"
    BY EventTypes DEF TypeOK, RetryRequest, Arrives
  <1>2. m1.type = "REQUEST_VOTE" /\ SameVote(m1, m0)
    BY <1>1 DEF RequestEvent, SameVote
  <1>3. net' = (net \ {m0}) \cup {m1} /\ UNCHANGED <<providerVars, consumerVars>>
    BY DEF RetryRequest, Handle
  <1> HIDE DEF m1
  <1>4. /\ \A p, t : Buy(t, p) \in net' => Buy(t, p) \in net
        /\ \A p, q, t : ReplyVote(t, q, p) \in net' => ReplyVote(t, q, p) \in net
        /\ \A p, t : InformVote(t, p) \in net' => InformVote(t, p) \in net
    BY <1>2, <1>3 DEF Buy, ReplyVote, InformVote
  <1>5. VotesAdvance
    BY <1>1, <1>2, <1>3, <1>4 DEF VotesAdvance, SameVote, providerVars
  <1>6. BuysAdvance /\ EvaluationsAdvance
    BY <1>3, <1>4 DEF BuysAdvance, EvaluationsAdvance, providerVars, consumerVars
  <1> QED
    BY <1>5, <1>6 DEF Advance

LEMMA SeeAdvances ==
    ASSUME TypeOK, NEW p0 \in Provider, NEW u \in voting[p0],
           SeeAllPrices(p0, u), UNCHANGED consumerVars
    PROVE  Advance
  <1> DEFINE v0 == [u EXCEPT !.stage = "score"]
  <1>1. v0.txn = u.txn /\ v0.to = u.to
    <2>1. u \in Vote
      BY DEF TypeOK
    <2> QED
      BY <2>1 DEF Vote
  <1>2. /\ voting' = [voting EXCEPT ![p0] = (@ \ {u}) \cup {v0}]
        /\ UNCHANGED <<net, transactions, allFFS, triggered, allFFSnew, flows>>
    BY DEF SeeAllPrices, wireVars, consumerVars
  <1>3. \A q \in Provider : \A v \in voting'[q] : v \in voting[q] \/ (q = p0 /\ v = v0)
    BY <1>2 DEF TypeOK
  <1> HIDE DEF v0
  <1>4. VotesAdvance
    BY <1>1, <1>2, <1>3 DEF VotesAdvance, SameVote
  <1>5. BuysAdvance /\ EvaluationsAdvance
    BY <1>2 DEF BuysAdvance, EvaluationsAdvance
  <1> QED
    BY <1>4, <1>5 DEF Advance

LEMMA CastAdvances ==
    ASSUME TypeOK, NEW p0 \in Provider, NEW v0 \in voting[p0],
           CastVote(p0, v0), UNCHANGED consumerVars
    PROVE  Advance
  <1> DEFINE t0 == v0.txn
             q0 == v0.to
             m1 == ReplyVote(t0, p0, q0)
  <1>1. t0 \in Txn /\ q0 \in Provider
    BY DEF TypeOK, Vote
  <1>2. /\ net' = net \cup {m1}
        /\ voting' = [voting EXCEPT ![p0] = @ \ {v0}]
        /\ allFFS' = [allFFS EXCEPT ![p0][t0] = @ \cup {p0}]
        /\ UNCHANGED <<transactions, triggered, allFFSnew, flows>>
    BY DEF CastVote, Send, consumerVars
  <1>3. /\ \A q \in Provider : voting'[q] \subseteq voting[q]
        /\ allFFS'[p0][t0] = allFFS[p0][t0] \cup {p0}
        /\ \A p \in Provider, t \in Txn :
             p # p0 \/ t # t0 => allFFS'[p][t] = allFFS[p][t]
    BY <1>1, <1>2 DEF TypeOK
  <1>4. /\ \A p, t : Buy(t, p) \in net' => Buy(t, p) \in net
        /\ \A p, q, t : ReplyVote(t, q, p) \in net' =>
             ReplyVote(t, q, p) \in net \/ (t = t0 /\ q = p0 /\ p = q0)
        /\ \A p, t : InformVote(t, p) \in net' => InformVote(t, p) \in net
        /\ \A m \in net' : m.type = "REQUEST_VOTE" => m \in net
    BY <1>2 DEF Buy, ReplyVote, InformVote
  <1>5. \E v \in voting[p0] : v.txn = t0 /\ v.to = q0
    OBVIOUS
  <1> HIDE DEF t0, q0, m1
  <1>6. VotesAdvance
    BY <1>3, <1>4, <1>5 DEF VotesAdvance, SameVote
  <1>7. BuysAdvance
    BY <1>2, <1>4 DEF BuysAdvance
  <1>8. EvaluationsAdvance
    BY <1>2, <1>3, <1>4 DEF EvaluationsAdvance
  <1> QED
    BY <1>6, <1>7, <1>8 DEF Advance

LEMMA ReplyAdvances ==
    ASSUME TypeOK, Core, NEW p0 \in Provider, NEW m0 \in net,
           HandleReplyVote(p0, m0), UNCHANGED consumerVars
    PROVE  Advance
  <1> DEFINE t0 == m0.txn
             q0 == m0.from
             rows == allFFS[p0][t0] \cup {q0}
             new == IF HasAllVotes(rows) THEN {InformVote(t0, p0)} ELSE {}
  <1>1. m0 = ReplyVote(t0, q0, p0) /\ t0 \in Txn /\ q0 \in Provider
    BY EventShapes, EventTypes DEF TypeOK, HandleReplyVote, Arrives, ReplyEvent
  <1>2. t0 \in transactions[p0] /\ q0 \notin allFFS[p0][t0]
    BY <1>1 DEF Core, VoteInOnePlace, RepliesInOnePlace
  <1>3. /\ net' = (net \ {m0}) \cup new
        /\ allFFS' = [allFFS EXCEPT ![p0][t0] = rows]
        /\ UNCHANGED <<transactions, voting, triggered, allFFSnew, flows>>
    BY <1>2 DEF HandleReplyVote, Handle, consumerVars
  <1>4. /\ allFFS'[p0][t0] = rows
        /\ \A p \in Provider, t \in Txn :
             p # p0 \/ t # t0 => allFFS'[p][t] = allFFS[p][t]
    BY <1>1, <1>3 DEF TypeOK
  <1>5. /\ \A p, t : Buy(t, p) \in net' => Buy(t, p) \in net
        /\ \A p, q, t : ReplyVote(t, q, p) \in net' => ReplyVote(t, q, p) \in net
        /\ \A p, t : InformVote(t, p) \in net' =>
             InformVote(t, p) \in net \/ (t = t0 /\ p = p0)
        /\ \A m \in net' : m.type = "REQUEST_VOTE" => m \in net
    BY <1>3 DEF Buy, ReplyVote, InformVote
  <1>6. ReplyVote(t0, q0, p0) \in net /\ allFFS[p0][t0] # Provider
    BY <1>1, <1>2
  <1>7. \A p, q \in Provider : \A t \in Txn :
          q \in allFFS'[p][t] => q \in allFFS[p][t] \/ (p = p0 /\ q = q0 /\ t = t0)
    BY <1>4
  <1> HIDE DEF t0, q0, new, rows
  <1>8. VotesAdvance
    BY <1>3, <1>5, <1>6, <1>7 DEF VotesAdvance, SameVote
  <1>9. BuysAdvance
    BY <1>3, <1>5 DEF BuysAdvance
  <1>10. EvaluationsAdvance
    BY <1>3, <1>4, <1>5, <1>6 DEF EvaluationsAdvance
  <1> QED
    BY <1>8, <1>9, <1>10 DEF Advance

LEMMA InformAdvances ==
    ASSUME TypeOK, NEW m0 \in net, HandleInformVote(m0), UNCHANGED providerVars
    PROVE  Advance
  <1> DEFINE t0 == m0.txn
             p0 == m0.from
  <1>1. m0 = InformVote(t0, p0) /\ t0 \in Txn /\ p0 \in Provider
    BY EventShapes, EventTypes DEF TypeOK, HandleInformVote, Arrives, InformEvent
  <1>2. /\ UNCHANGED <<transactions, allFFS, voting, triggered>>
        /\ \/ UNCHANGED allFFSnew
           \/ allFFSnew' = [allFFSnew EXCEPT ![t0] = allFFSnew[t0] \cup {p0}]
        /\ \A m \in net' : m \in net \/ \E q, w : m = StartFlow(t0, q, w)
    BY DEF HandleInformVote, Handle, Consume, providerVars
  <1>3. /\ \A p, t : Buy(t, p) \in net' => Buy(t, p) \in net
        /\ \A p, q, t : ReplyVote(t, q, p) \in net' => ReplyVote(t, q, p) \in net
        /\ \A p, t : InformVote(t, p) \in net' => InformVote(t, p) \in net
        /\ \A m \in net' : m.type = "REQUEST_VOTE" => m \in net
    <2>1. \A q, w : StartFlow(t0, q, w).type = "START_FLOW"
      BY DEF StartFlow
    <2>2. /\ \A p, t : Buy(t, p).type = "BUY" /\ InformVote(t, p).type = "INFORM_VOTE"
          /\ \A p, q, t : ReplyVote(t, q, p).type = "REPLY_VOTE"
      BY DEF Buy, ReplyVote, InformVote
    <2> QED
      BY <1>2, <2>1, <2>2
  <1>4. \A p \in Provider, t \in Txn :
          p \in allFFSnew'[t] => p \in allFFSnew[t] \/ (t = t0 /\ p = p0)
    BY <1>1, <1>2 DEF TypeOK
  <1>5. InformVote(t0, p0) \in net
    BY <1>1
  <1> HIDE DEF t0, p0
  <1>6. VotesAdvance
    BY <1>2, <1>3 DEF VotesAdvance, SameVote
  <1>7. BuysAdvance
    BY <1>2, <1>3 DEF BuysAdvance
  <1>8. EvaluationsAdvance
    BY <1>2, <1>3, <1>4, <1>5 DEF EvaluationsAdvance
  <1> QED
    BY <1>6, <1>7, <1>8 DEF Advance

LEMMA FinishAdvances ==
    ASSUME NEW f0 \in flows, FinishFlow(f0), UNCHANGED providerVars
    PROVE  Advance
  <1>1. \A m \in net' : m \in net \/ \E q \in Provider : m = TransactionEnd(f0.txn, q)
    BY DEF FinishFlow, Send
  <1>2. \A q : TransactionEnd(f0.txn, q).type \notin VoteKinds
    BY DEF TransactionEnd, VoteKinds
  <1> QED
    BY <1>1, <1>2, StillAdvance DEF FinishFlow, providerVars

\* No step but a failure or a give-up loses anything, and every other step takes a
\* vote from one place to the next.
LEMMA StepAdvances ==
    ASSUME NamesMatch, TypeOK, Core, [Next]_vars
    PROVE  \/ Advance /\ Dead' = Dead
           \/ \E m \in net : /\ net' = net \ {m} /\ Dead' = Dead \cup {m}
                             /\ UNCHANGED <<transactions, allFFS, voting, triggered, allFFSnew>>
  <1> DEFINE Goal == \/ Advance /\ Dead' = Dead
                     \/ \E m \in net :
                          /\ net' = net \ {m} /\ Dead' = Dead \cup {m}
                          /\ UNCHANGED <<transactions, allFFS, voting, triggered, allFFSnew>>
  <1> SUFFICES Goal
    OBVIOUS
  <1>1. CASE ConsumerStep
    <2>1. Dead' = Dead
      BY <1>1 DEF ConsumerStep, TriggerBuy, InformStep, HandleInformVote, EndFlowStep,
                  FinishFlow, providerVars, Dead
    <2>2. Advance
      BY <1>1, TriggerAdvances, InformAdvances, FinishAdvances
         DEF ConsumerStep, InformStep, EndFlowStep
    <2> QED
      BY <2>1, <2>2
  <1>2. CASE FailureStep
    <2>1. CASE \E m \in net : ConnectionFails(m)
      BY <1>2, <2>1 DEF FailureStep, ConnectionFails, Consume, providerVars, consumerVars, Dead
    <2>2. CASE \E x \in Process : Crash(x)
      <3>1. UNCHANGED <<net, lost, dropped, transactions, allFFS, voting, triggered, allFFSnew>>
        BY <1>2, <2>2 DEF FailureStep, Crash, providerVars, consumerVars
      <3> QED
        BY <3>1, StillAdvance DEF Dead
    <2> QED
      BY <1>2, <2>1, <2>2 DEF FailureStep
  <1>3. ASSUME NEW p \in Provider, ProviderStep(p) PROVE Goal
    <2>1. CASE BuyStep(p)
      <3>1. Dead' = Dead
        BY <2>1 DEF BuyStep, HandleBuy, Dead
      <3> QED
        BY <1>3, <2>1, <3>1, BuyAdvances DEF ProviderStep, BuyStep
    <2>2. CASE RequestStep(p)
      <3>1. PICK m \in net : AcceptRequest(p, m) \/ RetryRequest(p, m) \/ DropRequest(p, m)
        BY <2>2 DEF RequestStep
      <3>2. CASE AcceptRequest(p, m)
        <4>1. Dead' = Dead
          BY <3>2 DEF AcceptRequest, Dead
        <4> QED
          BY <1>3, <3>2, <4>1, AcceptAdvances DEF ProviderStep
      <3>3. CASE RetryRequest(p, m)
        <4>1. Dead' = Dead
          BY <3>3 DEF RetryRequest, providerVars, Dead
        <4> QED
          BY <1>3, <3>3, <4>1, RetryAdvances DEF ProviderStep
      <3>4. CASE DropRequest(p, m)
        BY <1>3, <3>4 DEF ProviderStep, DropRequest, Consume, consumerVars, Dead
      <3> QED
        BY <3>1, <3>2, <3>3, <3>4
    <2>3. CASE PriceStep(p)
      <3>1. Dead' = Dead
        BY <2>3 DEF PriceStep, SeeAllPrices, wireVars, Dead
      <3> QED
        BY <1>3, <2>3, <3>1, SeeAdvances DEF ProviderStep, PriceStep
    <2>4. CASE CastStep(p)
      <3>1. Dead' = Dead
        BY <2>4 DEF CastStep, CastVote, Dead
      <3> QED
        BY <1>3, <2>4, <3>1, CastAdvances DEF ProviderStep, CastStep
    <2>5. CASE ReplyStep(p)
      <3>1. Dead' = Dead
        BY <2>5 DEF ReplyStep, HandleReplyVote, Dead
      <3> QED
        BY <1>3, <2>5, <3>1, ReplyAdvances DEF ProviderStep, ReplyStep
    <2>6. CASE StartStep(p) \/ EndStep(p) \/ CountStep(p)
      <3>1. /\ UNCHANGED <<lost, dropped, transactions, allFFS, voting, triggered, allFFSnew>>
            /\ \A m \in net' : m \in net
        BY <1>3, <2>6 DEF ProviderStep, StartStep, EndStep, CountStep, HandleStartFlow,
             HandleTransactionEnd, FinishFlowOp, Consume, wireVars, consumerVars
      <3> QED
        BY <3>1, StillAdvance DEF Dead
    <2>7. CASE BeaconStep(p)
      <3>1. /\ UNCHANGED <<lost, dropped, transactions, allFFS, voting, triggered, allFFSnew>>
            /\ \A m \in net' : m \in net
        BY <1>3, <2>7 DEF ProviderStep, BeaconStep, BeaconRead, BeaconWrite, Consume,
             wireVars, consumerVars
      <3> QED
        BY <3>1, StillAdvance DEF Dead
    <2>8. CASE EmitStep(p)
      <3>1. PICK q \in Provider : EmitBeacon(p, q)
        BY <2>8 DEF EmitStep
      <3>2. PICK rate \in RatesSent(p) : net' = net \cup {Beacon(p, q, rate)}
        BY <3>1 DEF EmitBeacon, Send
      <3>3. Beacon(p, q, rate).type \notin VoteKinds
        BY DEF Beacon, VoteKinds
      <3>4. UNCHANGED <<lost, dropped, transactions, allFFS, voting, triggered, allFFSnew>>
        BY <1>3, <3>1 DEF ProviderStep, EmitBeacon, providerVars, consumerVars
      <3> QED
        BY <3>2, <3>3, <3>4, StillAdvance DEF Dead
    <2> QED
      BY <1>3, <2>1, <2>2, <2>3, <2>4, <2>5, <2>6, <2>7, <2>8 DEF ProviderStep
  <1>4. CASE UNCHANGED vars
    <2>1. UNCHANGED <<net, lost, dropped, transactions, allFFS, voting, triggered, allFFSnew>>
      BY <1>4 DEF vars, wireVars, providerVars, consumerVars
    <2> QED
      BY <2>1, StillAdvance DEF Dead
  <1> QED
    BY <1>1, <1>2, <1>3, <1>4 DEF Next

\* Losing one BUY, vote or evaluation is final: the auction is never decided.  A
\* decision needs everybody's evaluation and that everybody's vote, and there is
\* one event for each, sent once.
THEOREM LossesAreFinal == NamesMatch /\ Spec => []LossIsFinal
  <1> SUFFICES ASSUME NamesMatch PROVE Spec => []LossIsFinal
    OBVIOUS
  <1>1. Init => DeadAreUnmet
    BY DEF Init, WireInit, ProviderInit, DeadAreUnmet, Dead
  <1>2. TypeOK /\ Core /\ DeadAreUnmet /\ [Next]_vars => DeadAreUnmet'
    <2> SUFFICES ASSUME TypeOK, Core, DeadAreUnmet, [Next]_vars, NEW m \in Dead'
                 PROVE  Unmet(m)'
      BY DEF DeadAreUnmet
    <2>1. CASE Advance /\ Dead' = Dead
      BY <2>1, UnmetStays DEF DeadAreUnmet
    <2>2. ASSUME NEW n \in net, net' = net \ {n}, Dead' = Dead \cup {n},
                 UNCHANGED <<transactions, allFFS, voting, triggered, allFFSnew>>
          PROVE  Unmet(m)'
      <3>1. CASE m = n
        BY <2>2, <3>1, DeathIsUnmet
      <3>2. CASE m \in Dead
        <4>1. Advance
          BY <2>2, StillAdvance
        <4> QED
          BY <3>2, <4>1, UnmetStays DEF DeadAreUnmet
      <3> QED
        BY <2>2, <3>1, <3>2
    <2> QED
      BY <2>1, <2>2, StepAdvances
  <1>3. TypeOK /\ Core /\ DeadAreUnmet => LossIsFinal
    <2> SUFFICES ASSUME TypeOK, Core, DeadAreUnmet, NEW m \in Dead, m.type \in VoteKinds,
                        NEW f \in flows, f.txn = m.txn
                 PROVE  FALSE
      BY DEF LossIsFinal, Dead, VoteKinds
    <2>1. m \in Message /\ Unmet(m) /\ f.txn \in Txn
      BY DEF TypeOK, Dead, DeadAreUnmet, Flow
    <2>2. allFFSnew[m.txn] = Provider
      BY DEF Core, DecisionComesLast
    <2>3. \A p \in Provider : allFFS[p][m.txn] = Provider
      BY <2>1, <2>2 DEF Core, EvaluationInOnePlace
    <2>4. CASE m.type = "BUY"
      <3>1. m.to \in Provider /\ m.txn \notin transactions[m.to]
        BY <2>1, <2>4, EventTypes DEF BuyEvent, Unmet
      <3>2. allFFS[m.to][m.txn] = {}
        BY <2>1, <3>1 DEF Core, BuyComesFirst
      <3> QED
        BY <2>3, <3>1, <3>2
    <2>5. CASE m.type = "REQUEST_VOTE"
      BY <2>1, <2>3, <2>5, EventTypes DEF RequestEvent, Unmet, Gone
    <2>6. CASE m.type = "REPLY_VOTE"
      BY <2>1, <2>3, <2>6, EventTypes DEF ReplyEvent, Unmet, Gone
    <2>7. CASE m.type = "INFORM_VOTE"
      BY <2>1, <2>2, <2>7, EventTypes DEF InformEvent, Unmet
    <2> QED
      BY <2>4, <2>5, <2>6, <2>7 DEF VoteKinds
  <1> QED
    BY <1>1, <1>2, <1>3, TypeCorrect, CoreHolds, PTL DEF Spec
=============================================================================
