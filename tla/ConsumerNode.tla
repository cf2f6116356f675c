---------------------------- MODULE ConsumerNode ----------------------------
(***************************************************************************)
(* The consumer: it opens a transaction for every TRIGGER_BUY, collects   *)
(* the providers' evaluations and, with the last one, picks the winner    *)
(* and runs the flow.  The goroutine that decided carries the transaction *)
(* to its end.                                                             *)
(***************************************************************************)
EXTENDS Wire

CONSTANT
    RequirementsSet  \* the consumer's own config has uplink and downlink, not zero

ASSUME RequirementAssumption == RequirementsSet \in BOOLEAN

VARIABLES
    triggered,       \* the transactions the consumer has a record of
    allFFSnew,       \* allFFSnew[t]: the providers whose FFSnew is in t's allFFS
    flows            \* one record per decision: who informed last, who won, and
                     \*   whether the streams are still running

consumerVars == <<triggered, allFFSnew, flows>>

Flow == [txn : Txn, by : Provider, winner : Name \cup {NoWinner},
         stage : {"streaming", "ended"}]

ConsumerInit ==
    /\ triggered = {}
    /\ allFFSnew = [t \in Txn |-> {}]
    /\ flows     = {}

\* A TRIGGER_BUY arrives; its transaction gets a fresh uuid.
TriggerBuy(t) ==
    /\ Consumer \notin crashed
    /\ t \notin triggered
    /\ triggered' = triggered \cup {t}
    /\ Send({Buy(t, q) : q \in Provider})
    /\ UNCHANGED <<lost, crashed, allFFSnew, flows>>

\* Mutants: off by one, either way.
HasMostEvaluations(rows)     == Cardinality(rows) >= Cardinality(Provider) - 1
HasMoreThanEvaluations(rows) == Cardinality(rows) > Cardinality(Provider)

HasAllEvaluations(rows) == Cardinality(rows) >= Cardinality(Provider)

\* calculateFFSfinal: the listed provider with the highest score, or nobody if
\* every score is NaN.  Which one is a matter of the scores.
Winners == ListedName \cup {NoWinner}

\* Without a record of the transaction allFFS is a nil map, and the write panics.
\* The sender's entry in the list takes the address, ports and price it sends of
\* itself (its id is the listed one already): the address is the listed one here.
HandleInformVote(m) ==
    /\ Arrives(m, "INFORM_VOTE", Consumer)
    /\ IF m.txn \in triggered
       THEN LET rows == allFFSnew[m.txn] \cup {m.from}
            IN  /\ allFFSnew' = [allFFSnew EXCEPT ![m.txn] = rows]
                /\ IF HasAllEvaluations(rows)
                   THEN \E w \in Winners :
                          /\ flows' = flows \cup {[txn |-> m.txn, by |-> m.from,
                                        winner |-> w, stage |-> "streaming"]}
                          /\ Handle(m, {StartFlow(m.txn, q, w) : q \in Provider})
                   ELSE Consume(m) /\ UNCHANGED flows
                /\ UNCHANGED crashed
       ELSE Consume(m) /\ Panic(Consumer) /\ UNCHANGED <<allFFSnew, flows>>
    /\ UNCHANGED <<lost, triggered>>

\* The rating divides the measured speeds by the requirements of the consumer's
\* own config, not of the transaction: without them a stream that moved nothing
\* gives 0/0, and an event with a NaN in it cannot be marshalled.
RatingIsNumber(measured) == RequirementsSet \/ measured

\* Both streams have ended, with or without data: the metrics are recorded and
\* the rating is sent to everybody.
FinishFlow(f) ==
    /\ Consumer \notin crashed
    /\ f \in flows /\ f.stage = "streaming"
    /\ flows' = (flows \ {f}) \cup {[f EXCEPT !.stage = "ended"]}
    /\ \E measured \in BOOLEAN :
         Send({TransactionEnd(f.txn, q) : q \in {x \in Provider : RatingIsNumber(measured)}})
    /\ UNCHANGED <<lost, crashed, triggered, allFFSnew>>
=============================================================================
