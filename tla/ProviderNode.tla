---------------------------- MODULE ProviderNode ----------------------------
(***************************************************************************)
(* A provider: the goroutines that serve its connections, the transaction *)
(* records and the peer scores they share.  What one critical section     *)
(* does is one step; where a handler drops the mutex and takes it again,  *)
(* or never takes it, the goroutine is kept between its steps.             *)
(***************************************************************************)
EXTENDS Wire

CONSTANTS
    MaxRetries,     \* lookups after the first failed one (5 in the code)
    BeaconLinks,    \* <<p, q>>: q's address is in p's beacon_config
    FreeProviders,  \* providers configured with price 0
    Faulty,         \* providers run with is_faulty
    DefaultPrice    \* default_peer_last_price: "default", or "zero" if it is 0

ASSUME RetryAssumption  == MaxRetries \in Nat
ASSUME BeaconAssumption == BeaconLinks \subseteq Provider \X Provider
ASSUME PriceAssumption  == DefaultPrice \in {"default", "zero"}
ASSUME ConfigAssumption == FreeProviders \subseteq Provider /\ Faulty \subseteq Provider

VARIABLES
    transactions,    \* transactions[p]: the transactions p has a record of
    allFFS,          \* allFFS[p][t]: the providers whose FFS p has for t
    winner,          \* winner[p][t]: the winner in p's record of t
    peerScoreMatrix, \* peerScoreMatrix[p][n]: what p knows of the provider n
    voting,          \* voting[p]: REQUEST_VOTE handlers past the dial back
    flowOps,         \* flowOps[p]: handlers between the read and the write of
                     \*   activeFlowCount
    activeFlowCount, \* activeFlowCount[p]: the flows p believes it serves
    beaconOps,       \* beaconOps[p]: BEACON handlers between their two locks
    dropped          \* REQUEST_VOTEs whose sender could not be looked up

providerVars == <<transactions, allFFS, winner, peerScoreMatrix, voting, flowOps,
                  activeFlowCount, beaconOps, dropped>>

\* A peer's entry: where its price came from ("none": there is no entry) and
\* the transactions whose rating its feedback contains.
Entry   == [price : Price, rated : SUBSET Txn]
NoEntry == [price |-> "none", rated |-> {}]
\* The entry after one field of it is assigned; where there is no entry Go reads
\* one whose fields are all zero, and writes it back.
WithPrice(e, c)  == [price |-> c, rated |-> e.rated]
WithRating(e, t) == [price |-> IF e.price = "none" THEN "zero" ELSE e.price,
                     rated |-> e.rated \cup {t}]

ProviderInit ==
    /\ transactions    = [p \in Provider |-> {}]
    /\ allFFS          = [p \in Provider |-> [t \in Txn |-> {}]]
    /\ winner          = [p \in Provider |-> [t \in Txn |-> NoWinner]]
    /\ peerScoreMatrix = [p \in Provider |-> [n \in Name |-> NoEntry]]
    /\ voting          = [p \in Provider |-> {}]
    /\ flowOps         = [p \in Provider |-> {}]
    /\ activeFlowCount = [p \in Provider |-> 0]
    /\ beaconOps       = [p \in Provider |-> {}]
    /\ dropped         = {}

-----------------------------------------------------------------------------
(* The vote *)

\* A faulty provider draws its price from [0.1, 1], so it is never zero.
PriceSent(p, t) == IF p \in FreeProviders \ Faulty THEN "zero" ELSE t

HandleBuy(p, m) ==
    /\ Arrives(m, "BUY", p)
    /\ transactions' = [transactions EXCEPT ![p] = @ \cup {m.txn}]
    /\ allFFS' = [allFFS EXCEPT ![p][m.txn] = {p}]
    /\ winner' = [winner EXCEPT ![p][m.txn] = NoWinner]
    /\ Handle(m, {RequestVote(m.txn, p, q, PriceSent(p, m.txn)) : q \in Peers(p)})
    /\ UNCHANGED <<lost, crashed, peerScoreMatrix, voting, flowOps,
                   activeFlowCount, beaconOps, dropped>>

\* getPeerAddressByID: the transaction is known and its list has the sender's id.
CanLookUp(p, m) == m.txn \in transactions[p] /\ m.from \in ListedName
AddressOfOther(n) == CHOOSE q \in Provider : Listed[q] # n  \* mutant: != for ==
AddressOf(n)    == CHOOSE q \in Provider : Listed[q] = n

\* Mutant: the price is stored under the receiver's own id.
AcceptRequestAsOwn(p, m) ==
    /\ Arrives(m, "REQUEST_VOTE", p)
    /\ CanLookUp(p, m)
    /\ Consume(m)
    /\ peerScoreMatrix' = [peerScoreMatrix EXCEPT ![p][p] = WithPrice(@, m.price)]
    /\ voting' = [voting EXCEPT ![p] = @ \cup
         {[txn |-> m.txn, to |-> AddressOf(m.from), stage |-> "wait"]}]
    /\ UNCHANGED <<lost, crashed, transactions, allFFS, winner, flowOps,
                   activeFlowCount, beaconOps, dropped>>

\* The sender is found and dialled, and its price is stored.
AcceptRequest(p, m) ==
    /\ Arrives(m, "REQUEST_VOTE", p)
    /\ CanLookUp(p, m)
    /\ Consume(m)
    /\ peerScoreMatrix' = [peerScoreMatrix EXCEPT ![p][m.from] = WithPrice(@, m.price)]
    /\ voting' = [voting EXCEPT ![p] = @ \cup
         {[txn |-> m.txn, to |-> AddressOf(m.from), stage |-> "wait"]}]
    /\ UNCHANGED <<lost, crashed, transactions, allFFS, winner, flowOps,
                   activeFlowCount, beaconOps, dropped>>

\* Mutant: one retry too many.
RetryRequestOnceMore(p, m) ==
    /\ Arrives(m, "REQUEST_VOTE", p)
    /\ ~CanLookUp(p, m)
    /\ m.tries <= MaxRetries
    /\ Handle(m, {[m EXCEPT !.tries = @ + 1]})
    /\ UNCHANGED <<lost, crashed, providerVars>>

\* Not found: sleep 50 ms and look again.  m stays until the lookups run out.
RetryRequest(p, m) ==
    /\ Arrives(m, "REQUEST_VOTE", p)
    /\ ~CanLookUp(p, m)
    /\ m.tries < MaxRetries
    /\ Handle(m, {[m EXCEPT !.tries = @ + 1]})
    /\ UNCHANGED <<lost, crashed, providerVars>>

DropRequest(p, m) ==
    /\ Arrives(m, "REQUEST_VOTE", p)
    /\ ~CanLookUp(p, m)
    /\ m.tries = MaxRetries
    /\ Consume(m)
    /\ dropped' = dropped \cup {m}
    /\ UNCHANGED <<lost, crashed, transactions, allFFS, winner, peerScoreMatrix,
                   voting, flowOps, activeFlowCount, beaconOps>>

\* Mutant: one price is enough.
HasReceivedOne(p) ==
    \E q \in Peers(p) : peerScoreMatrix[p][Listed[q]].price \notin {"none", "zero"}

\* lastPrice # 0 for every other listed provider.
HasReceivedAll(p) ==
    \A q \in Peers(p) : peerScoreMatrix[p][Listed[q]].price \notin {"none", "zero"}

\* The polling loop ends; the mutex is released before the scores are computed.
SeeAllPrices(p, v) ==
    /\ v \in voting[p] /\ v.stage = "wait" /\ p \notin crashed
    /\ HasReceivedAll(p)
    /\ voting' = [voting EXCEPT ![p] = (@ \ {v}) \cup {[v EXCEPT !.stage = "score"]}]
    /\ UNCHANGED <<wireVars, transactions, allFFS, winner, peerScoreMatrix, flowOps,
                   activeFlowCount, beaconOps, dropped>>

\* Mutant: the handler does not end with its vote.
CastVoteAgain(p, v) ==
    /\ v \in voting[p] /\ v.stage = "score" /\ p \notin crashed
    /\ allFFS' = [allFFS EXCEPT ![p][v.txn] = @ \cup {p}]
    /\ Send({ReplyVote(v.txn, p, v.to)})
    /\ UNCHANGED <<lost, crashed, transactions, winner, peerScoreMatrix, voting,
                   flowOps, activeFlowCount, beaconOps, dropped>>

CastVote(p, v) ==
    /\ v \in voting[p] /\ v.stage = "score" /\ p \notin crashed
    /\ allFFS' = [allFFS EXCEPT ![p][v.txn] = @ \cup {p}]
    /\ voting' = [voting EXCEPT ![p] = @ \ {v}]
    /\ Send({ReplyVote(v.txn, p, v.to)})
    /\ UNCHANGED <<lost, crashed, transactions, winner, peerScoreMatrix, flowOps,
                   activeFlowCount, beaconOps, dropped>>

\* Mutants: off by one, either way.
HasMostVotes(rows)     == Cardinality(rows) >= Cardinality(Provider) - 1
HasMoreThanVotes(rows) == Cardinality(rows) > Cardinality(Provider)

HasAllVotes(rows) == Cardinality(rows) >= Cardinality(Provider)

\* Without a record of the transaction allFFS is a nil map, and the write panics.
HandleReplyVote(p, m) ==
    /\ Arrives(m, "REPLY_VOTE", p)
    /\ IF m.txn \in transactions[p]
       THEN LET rows == allFFS[p][m.txn] \cup {m.from}
            IN  /\ allFFS' = [allFFS EXCEPT ![p][m.txn] = rows]
                /\ Handle(m, IF HasAllVotes(rows) THEN {InformVote(m.txn, p)} ELSE {})
                /\ UNCHANGED crashed
       ELSE Consume(m) /\ Panic(p) /\ UNCHANGED allFFS
    /\ UNCHANGED <<lost, transactions, winner, peerScoreMatrix, voting, flowOps,
                   activeFlowCount, beaconOps, dropped>>

-----------------------------------------------------------------------------
(* The flow.  activeFlowCount is read and written without the mutex. *)

\* Mutants: the winner test inverted; only the winner's record is completed.
HandleStartFlowInverted(p, m) ==
    /\ Arrives(m, "START_FLOW", p)
    /\ Consume(m)
    /\ IF m.txn \in transactions[p] /\ m.winner # p
       THEN /\ flowOps' = [flowOps EXCEPT ![p] = @ \cup
                 {[txn |-> m.txn, delta |-> 1, seen |-> activeFlowCount[p]]}]
            /\ UNCHANGED winner
       ELSE /\ winner' = IF m.txn \in transactions[p]
                         THEN [winner EXCEPT ![p][m.txn] = m.winner] ELSE winner
            /\ UNCHANGED flowOps
    /\ UNCHANGED <<lost, crashed, transactions, allFFS, peerScoreMatrix, voting,
                   activeFlowCount, beaconOps, dropped>>
HandleStartFlowIfWon(p, m) ==
    /\ Arrives(m, "START_FLOW", p)
    /\ Consume(m)
    /\ flowOps' = IF m.txn \in transactions[p] /\ m.winner = p
                  THEN [flowOps EXCEPT ![p] = @ \cup
                         {[txn |-> m.txn, delta |-> 1, seen |-> activeFlowCount[p]]}]
                  ELSE flowOps
    /\ UNCHANGED <<lost, crashed, transactions, allFFS, winner, peerScoreMatrix,
                   voting, activeFlowCount, beaconOps, dropped>>

\* An unknown transaction is logged; a winner first reads the count.
HandleStartFlow(p, m) ==
    /\ Arrives(m, "START_FLOW", p)
    /\ Consume(m)
    /\ IF m.txn \in transactions[p] /\ m.winner = p
       THEN /\ flowOps' = [flowOps EXCEPT ![p] = @ \cup
                 {[txn |-> m.txn, delta |-> 1, seen |-> activeFlowCount[p]]}]
            /\ UNCHANGED winner
       ELSE /\ winner' = IF m.txn \in transactions[p]
                         THEN [winner EXCEPT ![p][m.txn] = m.winner] ELSE winner
            /\ UNCHANGED flowOps
    /\ UNCHANGED <<lost, crashed, transactions, allFFS, peerScoreMatrix, voting,
                   activeFlowCount, beaconOps, dropped>>

\* Mutant: every listed provider is rated.
RateAll(p, t, n) ==
    peerScoreMatrix' = [peerScoreMatrix EXCEPT ![p] =
        [x \in Name |-> IF x \in ListedName THEN WithRating(@[x], t) ELSE @[x]]]

\* The winner's scores absorb the speeds and the rating, if it is on the list.
Rate(p, t, n) ==
    peerScoreMatrix' = IF n \in ListedName
        THEN [peerScoreMatrix EXCEPT ![p][n] = WithRating(@, t)]
        ELSE peerScoreMatrix

\* Mutant: the end of a flow counts it once more.
HandleTransactionEndAdds(p, m) ==
    /\ Arrives(m, "TRANSACTION_END", p)
    /\ Consume(m)
    /\ flowOps' = IF m.txn \in transactions[p] /\ winner[p][m.txn] = p
                  THEN [flowOps EXCEPT ![p] = @ \cup
                         {[txn |-> m.txn, delta |-> 1, seen |-> activeFlowCount[p]]}]
                  ELSE flowOps
    /\ UNCHANGED <<lost, crashed, transactions, allFFS, winner, peerScoreMatrix,
                   voting, activeFlowCount, beaconOps, dropped>>

HandleTransactionEnd(p, m) ==
    /\ Arrives(m, "TRANSACTION_END", p)
    /\ Consume(m)
    /\ IF m.txn \in transactions[p] /\ winner[p][m.txn] = p
       THEN /\ flowOps' = [flowOps EXCEPT ![p] = @ \cup
                 {[txn |-> m.txn, delta |-> -1, seen |-> activeFlowCount[p]]}]
            /\ UNCHANGED peerScoreMatrix
       ELSE /\ IF m.txn \in transactions[p]
               THEN Rate(p, m.txn, winner[p][m.txn]) ELSE UNCHANGED peerScoreMatrix
            /\ UNCHANGED flowOps
    /\ UNCHANGED <<lost, crashed, transactions, allFFS, winner, voting,
                   activeFlowCount, beaconOps, dropped>>

\* The write of the count, from the value read, and the rest of the handler.
FinishFlowOp(p, o) ==
    /\ o \in flowOps[p] /\ p \notin crashed
    /\ flowOps' = [flowOps EXCEPT ![p] = @ \ {o}]
    /\ activeFlowCount' = [activeFlowCount EXCEPT ![p] = o.seen + o.delta]
    /\ IF o.delta = 1
       THEN winner' = [winner EXCEPT ![p][o.txn] = p] /\ UNCHANGED peerScoreMatrix
       ELSE Rate(p, o.txn, p) /\ UNCHANGED winner
    /\ UNCHANGED <<wireVars, transactions, allFFS, voting, beaconOps, dropped>>

-----------------------------------------------------------------------------
(* Beacons *)

\* min(255, 50 * activeFlowCount).
ChannelUtilizationRate(p) ==
    IF 50 * activeFlowCount[p] > 255 THEN 255 ELSE 50 * activeFlowCount[p]

\* A faulty provider announces a random rate in 1..255: its two clamps.
RatesSent(p) == IF p \in Faulty THEN {1, 255} ELSE {ChannelUtilizationRate(p)}

\* Bound: at most one beacon of a link is under way, in flight or in its handler.
BeaconUnderWay(p, q) ==
    \/ \E m \in net : m.type = "BEACON" /\ m.from = p /\ m.to = q
    \/ \E o \in beaconOps[q] : o.origin = p

EmitBeacon(p, q) ==
    /\ <<p, q>> \in BeaconLinks
    /\ p \notin crashed /\ q \notin crashed
    /\ ~BeaconUnderWay(p, q)
    /\ \E rate \in RatesSent(p) : Send({Beacon(p, q, rate)})
    /\ UNCHANGED <<lost, crashed, providerVars>>

\* The entry is copied under one lock and written back under another.
BeaconRead(p, m) ==
    /\ Arrives(m, "BEACON", p)
    /\ Consume(m)
    /\ beaconOps' = [beaconOps EXCEPT ![p] = @ \cup
         {[origin |-> m.from, entry |-> peerScoreMatrix[p][m.from]]}]
    /\ UNCHANGED <<lost, crashed, transactions, allFFS, winner, peerScoreMatrix,
                   voting, flowOps, activeFlowCount, dropped>>

BeaconWrite(p, o) ==
    /\ o \in beaconOps[p] /\ p \notin crashed
    /\ beaconOps' = [beaconOps EXCEPT ![p] = @ \ {o}]
    /\ peerScoreMatrix' = [peerScoreMatrix EXCEPT ![p][o.origin] =
         IF o.entry = NoEntry THEN WithPrice(NoEntry, DefaultPrice) ELSE o.entry]
    /\ UNCHANGED <<wireVars, transactions, allFFS, winner, voting, flowOps,
                   activeFlowCount, dropped>>
=============================================================================
