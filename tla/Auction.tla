------------------------------ MODULE Auction ------------------------------
(***************************************************************************)
(* One consumer and its providers, from TRIGGER_BUY to TRANSACTION_END.   *)
(***************************************************************************)
EXTENDS ProviderNode, ConsumerNode

vars == <<wireVars, providerVars, consumerVars>>

Init == WireInit /\ ProviderInit /\ ConsumerInit

\* The handlers a provider runs for events of the auction.
BuyStep(p)     == \E m \in net : HandleBuy(p, m)
RequestStep(p) == \E m \in net : \/ AcceptRequest(p, m)
                                 \/ RetryRequest(p, m)
                                 \/ DropRequest(p, m)
PriceStep(p)   == \E v \in voting[p] : SeeAllPrices(p, v)
CastStep(p)    == \E v \in voting[p] : CastVote(p, v)
ReplyStep(p)   == \E m \in net : HandleReplyVote(p, m)
StartStep(p)   == \E m \in net : HandleStartFlow(p, m)
EndStep(p)     == \E m \in net : HandleTransactionEnd(p, m)
CountStep(p)   == \E o \in flowOps[p] : FinishFlowOp(p, o)
BeaconStep(p)  == \/ \E m \in net : BeaconRead(p, m)
                  \/ \E o \in beaconOps[p] : BeaconWrite(p, o)
EmitStep(p)    == \E q \in Provider : EmitBeacon(p, q)

ProviderStep(p) ==
    /\ \/ BuyStep(p)
       \/ RequestStep(p)
       \/ PriceStep(p)
       \/ CastStep(p)
       \/ ReplyStep(p)
       \/ StartStep(p)
       \/ EndStep(p)
       \/ CountStep(p)
       \/ BeaconStep(p)
       \/ EmitStep(p)
    /\ UNCHANGED consumerVars

InformStep == \E m \in net : HandleInformVote(m)
EndFlowStep == \E f \in flows : FinishFlow(f)

ConsumerStep ==
    /\ \/ \E t \in Txn : TriggerBuy(t)
       \/ InformStep
       \/ EndFlowStep
    /\ UNCHANGED providerVars

FailureStep ==
    /\ \/ \E m \in net : ConnectionFails(m)
       \/ \E x \in Process : Crash(x)
    /\ UNCHANGED <<providerVars, consumerVars>>

Next == ConsumerStep \/ FailureStep \/ \E p \in Provider : ProviderStep(p)

Spec == Init /\ [][Next]_vars

(***************************************************************************)
(* Every accepted connection and every polling loop is a goroutine of its *)
(* own, so none starves another.  The trigger, the beacon timers and the  *)
(* failures owe nothing.                                                   *)
(***************************************************************************)
Step(A) == A /\ UNCHANGED consumerVars

Fairness ==
    /\ \A p \in Provider :
         /\ WF_vars(Step(BuyStep(p)))
         /\ WF_vars(Step(RequestStep(p)))
         /\ WF_vars(Step(PriceStep(p)))
         /\ WF_vars(Step(CastStep(p)))
         /\ WF_vars(Step(ReplyStep(p)))
         /\ WF_vars(Step(StartStep(p)))
         /\ WF_vars(Step(EndStep(p)))
         /\ WF_vars(Step(CountStep(p)))
         /\ WF_vars(Step(BeaconStep(p)))
    /\ WF_vars(InformStep /\ UNCHANGED providerVars)
    /\ WF_vars(EndFlowStep /\ UNCHANGED providerVars)

FairSpec == Spec /\ Fairness

-----------------------------------------------------------------------------
(* What a round promises *)

BuyEvent     == [type : {"BUY"}, txn : Txn, from : {Consumer}, to : Provider]
RequestEvent == [type : {"REQUEST_VOTE"}, txn : Txn, from : Provider, to : Provider,
                 price : Price, tries : 0..MaxRetries]
ReplyEvent   == [type : {"REPLY_VOTE"}, txn : Txn, from : Provider, to : Provider]
InformEvent  == [type : {"INFORM_VOTE"}, txn : Txn, from : Provider, to : {Consumer}]
StartEvent   == [type : {"START_FLOW"}, txn : Txn, from : {Consumer}, to : Provider,
                 winner : Name \cup {NoWinner}]
EndEvent     == [type : {"TRANSACTION_END"}, txn : Txn, from : {Consumer}, to : Provider]
BeaconEvent  == [type : {"BEACON"}, from : Provider, to : Provider, rate : Int]

Message == BuyEvent \cup RequestEvent \cup ReplyEvent \cup InformEvent
             \cup StartEvent \cup EndEvent \cup BeaconEvent

Vote     == [txn : Txn, to : Provider, stage : {"wait", "score"}]
FlowOp   == [txn : Txn, delta : {1, -1}, seen : Int]
BeaconOp == [origin : Provider, entry : Entry]

\* Every variable has the type the Go declarations give it.
TypeOK ==
    /\ net \subseteq Message
    /\ lost \subseteq Message
    /\ crashed \subseteq Process
    /\ transactions \in [Provider -> SUBSET Txn]
    /\ allFFS \in [Provider -> [Txn -> SUBSET Provider]]
    /\ winner \in [Provider -> [Txn -> Name \cup {NoWinner}]]
    /\ peerScoreMatrix \in [Provider -> [Name -> Entry]]
    /\ voting \in [Provider -> SUBSET Vote]
    /\ flowOps \in [Provider -> SUBSET FlowOp]
    /\ activeFlowCount \in [Provider -> Int]
    /\ beaconOps \in [Provider -> SUBSET BeaconOp]
    /\ dropped \subseteq Message
    /\ triggered \subseteq Txn
    /\ allFFSnew \in [Txn -> SUBSET Provider]
    /\ flows \subseteq Flow

\* However the INFORM_VOTE handlers interleave, one of them, and only one,
\* sees the last evaluation: a transaction is decided at most once.
OneDecision == \A f, g \in flows : f.txn = g.txn => f = g

\* The consumer decides on everybody's evaluation, and every provider made
\* its evaluation from everybody's scores.
DecisionIsComplete ==
    \A f \in flows : /\ allFFSnew[f.txn] = Provider
                     /\ \A p \in Provider : allFFS[p][f.txn] = Provider

\* A winner a provider has stored is the one the consumer decided on, so two
\* providers never disagree about it.
Agreement ==
    \A p \in Provider, t \in Txn :
        winner[p][t] # NoWinner =>
            \E f \in flows : f.txn = t /\ f.winner = winner[p][t]

\* A REPLY_VOTE or an INFORM_VOTE never reaches a process that has no record
\* of its transaction, where writing to the nil allFFS map would panic.
NoNilMapWrite ==
    \A m \in net :
        /\ m.type = "REPLY_VOTE"  => m.txn \in transactions[m.to]
        /\ m.type = "INFORM_VOTE" => m.txn \in triggered

\* No auction stops without a trace: when nothing is in flight and no handler
\* is left, every triggered transaction has been carried to its end, unless a
\* failure or an exhausted lookup took one of its events.
Quiet ==
    /\ \A m \in net : m.type = "BEACON"
    /\ \A p \in Provider : voting[p] = {} /\ flowOps[p] = {}
    /\ \A f \in flows : f.stage = "ended"
NoSilentStall ==
    Quiet /\ lost = {} /\ crashed = {} /\ dropped = {} =>
        \A t \in triggered : \E f \in flows : f.txn = t

\* A handler polls for a missing price only while the REQUEST_VOTE that brings
\* it is still to come, or was lost, or the peer asks for nothing.
Coming(t, q, p) ==
    \/ \E m \in net \cup lost \cup dropped :
         \/ m.type = "BUY" /\ m.txn = t /\ m.to = q
         \/ m.type = "REQUEST_VOTE" /\ m.txn = t /\ m.from = q /\ m.to = p
    \/ q \in FreeProviders \ Faulty
WaitIsExplained ==
    \A p \in Provider : \A v \in voting[p] : \A q \in Peers(p) :
        v.stage = "wait" /\ peerScoreMatrix[p][Listed[q]].price \in {"none", "zero"}
            => Coming(v.txn, q, p)

\* An auction that lost or gave up a BUY, a vote or an evaluation is never decided:
\* no retry, late handler or later answer of another provider makes up for it.
LossIsFinal ==
    \A m \in lost \cup dropped :
        m.type \in {"BUY", "REQUEST_VOTE", "REPLY_VOTE", "INFORM_VOTE"} =>
            ~\E f \in flows : f.txn = m.txn

\* A rating is stored for the winner of its auction and nobody else, and not before
\* the flow has ended, however the ends of several flows interleave.
RatingsAreEarned ==
    \A p \in Provider, n \in Name : \A t \in peerScoreMatrix[p][n].rated :
        \E f \in flows : f.txn = t /\ f.winner = n /\ f.stage = "ended"

\* The flow count never exceeds the flows the provider was told it won: an
\* increment lost to another handler is possible, an invented one is not.
FlowsToldOf(p) == {t \in Txn : winner[p][t] = p}
                      \cup {o.txn : o \in {x \in flowOps[p] : x.delta = 1}}
CountIsBounded ==
    \A p \in Provider : activeFlowCount[p] <= Cardinality(FlowsToldOf(p))

\* "channel_utilization_rate // 0-255": the rate a provider computes from its
\* flow count fits the field of the beacon that carries it.
RateInRange == \A p \in Provider : ChannelUtilizationRate(p) \in 0..255

-----------------------------------------------------------------------------
(* Why a transaction is decided once *)

\* A provider knows a transaction by its one BUY, and only a triggered one.
BuyComesFirst ==
    \A p \in Provider : \A t \in Txn :
        /\ Buy(t, p) \in net => t \in triggered /\ t \notin transactions[p]
        /\ t \in transactions[p] => t \in triggered
        /\ t \notin transactions[p] => allFFS[p][t] = {}

\* The vote of one provider for another is in one place only: asked for, being
\* prepared, on its way back, or counted.  No vote is prepared or counted twice.
SameVote(m, n) == m.from = n.from /\ m.to = n.to /\ m.txn = n.txn

RequestsInOnePlace ==
    \A m \in net : m.type = "REQUEST_VOTE" =>
        /\ m.txn \in transactions[m.from] /\ m.from # m.to
        /\ \A n \in net : n.type = "REQUEST_VOTE" /\ SameVote(m, n) => n = m
        /\ \A v \in voting[m.to] : ~(v.txn = m.txn /\ v.to = m.from)
        /\ ReplyVote(m.txn, m.to, m.from) \notin net
        /\ m.to \notin allFFS[m.from][m.txn]

HandlersInOnePlace ==
    \A q \in Provider : \A v \in voting[q] :
        /\ v.txn \in transactions[q] /\ v.txn \in transactions[v.to] /\ v.to # q
        /\ \A w \in voting[q] : w.txn = v.txn /\ w.to = v.to => w = v
        /\ ReplyVote(v.txn, q, v.to) \notin net
        /\ q \notin allFFS[v.to][v.txn]

RepliesInOnePlace ==
    \A p \in Provider, q \in Provider : \A t \in Txn :
        ReplyVote(t, q, p) \in net =>
            t \in transactions[p] /\ q # p /\ q \notin allFFS[p][t]

VoteInOnePlace == RequestsInOnePlace /\ HandlersInOnePlace /\ RepliesInOnePlace

\* An evaluation is sent when the votes are complete, and counted once.
EvaluationInOnePlace ==
    \A p \in Provider : \A t \in Txn :
        /\ InformVote(t, p) \in net =>
             t \in triggered /\ p \notin allFFSnew[t] /\ allFFS[p][t] = Provider
        /\ p \in allFFSnew[t] => t \in triggered /\ allFFS[p][t] = Provider

\* A decision is made when the evaluations are complete.
DecisionComesLast == \A f \in flows : allFFSnew[f.txn] = Provider

-----------------------------------------------------------------------------
(* What a step may never do *)

RepliesBy(p) == {m \in net : m.type = "REPLY_VOTE" /\ m.from = p}

\* A provider votes only with a price for every other provider of the list.
VotesArePriced ==
    [][\A p \in Provider : RepliesBy(p)' \subseteq RepliesBy(p) \/
         \A q \in Peers(p) : peerScoreMatrix[p][Listed[q]].price \notin {"none", "zero"}]_vars

\* "Check if all peers' prices have been received": the prices a provider
\* votes with are the ones its peers sent for this transaction.  A price of
\* another transaction, or a beacon's default, passes for one of them.
VotesAreFresh ==
    [][\A p \in Provider : \A m \in RepliesBy(p)' \ RepliesBy(p) :
         \A q \in Peers(p) : peerScoreMatrix[p][Listed[q]].price = m.txn]_vars

\* A vote request is given up only where the BUY of its transaction has not
\* arrived: the retries are for that race and for nothing else.
DropIsLate ==
    [][\A m \in dropped' \ dropped : m.txn \notin transactions[m.to]]_vars

\* "The only fields that matter are address and output_dir": whatever else the
\* consumer's config leaves out, the end of a flow is announced to everybody.
EndIsAnnounced ==
    [][\A f \in flows' \ flows : f.stage = "ended" =>
         {TransactionEnd(f.txn, q) : q \in Provider} \subseteq net']_vars

-----------------------------------------------------------------------------
(* What the auction implements *)

Outcome == INSTANCE AuctionOutcome WITH
    nobody    <- NoWinner,
    opened    <- triggered,
    evaluated <- allFFSnew,
    outcome   <- [t \in Txn |-> {f.winner : f \in {g \in flows : g.txn = t}}],
    learned   <- [p \in Provider |-> [t \in Txn |-> {winner[p][t]} \ {NoWinner}]]

\* Messages, retries, polling and failures aside, a round is the counting of
\* every evaluation once, one decision, and providers that learn it.
ImplementsOutcome == Outcome!Spec

-----------------------------------------------------------------------------
(* What must eventually happen *)

Failed == lost # {} \/ crashed # {} \/ dropped # {}

\* Every triggered auction runs to its end unless something fails on the way.
Completes ==
    \A t \in Txn : t \in triggered ~>
        (\E f \in flows : f.txn = t /\ f.stage = "ended") \/ Failed

\* Every provider learns who won.
EveryoneLearns ==
    \A p \in Provider : \A t \in Txn :
        (\E f \in flows : f.txn = t) ~>
            (\E f \in flows : f.txn = t /\ f.winner = winner[p][t]) \/ Failed
=============================================================================
