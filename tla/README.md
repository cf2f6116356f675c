# Formal model of the auction

TLA+ specification of the provider selection of *wifi-trade-consensus*: model-checked
with TLC on small instances and, for all its safety properties, proved with TLAPS for
every number of providers and transactions. Three smaller models go into
what the auction abstracts: the scores and the winner, the uptime behind a score, and
the streams of a flow.

## 1. The system

One **trigger** asks one **consumer** to buy; the consumer auctions every purchase
among the **providers** of the trigger's list. The providers score one another and
cross-check the scores, the consumer picks the winner, streams data from and to it
with `iperf3`, and tells everybody how it went.

```
trigger --TRIGGER_BUY--> consumer --BUY--> every provider
   provider p --REQUEST_VOTE(price)--> every other provider q
   q waits until it has a price of everybody, then q --REPLY_VOTE(FFS)--> p
   p has the FFS of everybody:                     p --INFORM_VOTE(FFSnew)--> consumer
consumer has the FFSnew of everybody: picks the winner
   consumer --START_FLOW(winner)--> everybody;  streams;  --TRANSACTION_END(rating)--> everybody
provider --BEACON(load, signal)--> the addresses of its beacon_config, periodically
```

Every event is one TCP connection, sent by a goroutine of its own and served by a
goroutine of its own. Nothing is acknowledged, retried or timed out.

### Inventory

| component (source) | state | operations | hard parts | correct when |
|---|---|---|---|---|
| transport (`NewListener` of both sides, every `net.Dial`) | open connections | send, serve | any order, silent loss, a failed dial that panics | an event is handled at most once |
| provider, vote (`provider/events.go` 64-317) | `transactions`, their `allFFS`, `peerScoreMatrix[..].lastPrice` | BUY, REQUEST_VOTE, REPLY_VOTE | a request before its BUY, a polling loop without a timeout, lock gaps, nil maps | every provider's evaluation is made once, from everybody's votes; the prices of a vote are of its auction (they need not be: `stale_price`) |
| provider, flow (`provider/events.go` 319-370) | `winner`, `activeFlowCount`, feedback | START_FLOW, TRANSACTION_END | the count has no lock, END may come first | all agree on the winner; the count is the number of flows |
| provider, beacons (`beacon.go`, `events.go` 12-61) | peer entry, its timestamps | emit, receive | read and write-back under two locks; the time taken before the first | no handler takes away a price the auction waits for; uptime is what was heard |
| provider, scoring (`provider/algorithms.go`) | none | FFS, FFSnew, sigmoids, utilization rate | 0/0, tau, rounding at tau, clamps | an evaluation is a number between the scores it comes from |
| consumer, auction (`consumer/events.go`) | `transactions`, their `allFFS`, the running flow | TRIGGER_BUY, INFORM_VOTE, end of flow | concurrent last votes, NaN rating, panic on a dial | one decision, on every evaluation, announced to all |
| consumer, scoring (`consumer/algorithms.go`) | none | FFSfinal, rating | NaN, the threshold -10, nobody wins | who is best in everybody's eyes wins |
| streams (`pkg/iperf3`, `consumer/events.go` 141-183) | server processes, goroutines, two channels | forward, reverse, result | port competition, servers that die, a double send on error | a stream finds a port if there are enough, and both results arrive |
| servers and signal (`pkg/iperf3`, `provider.go` 277-289, 400-420) | child processes, `iperf3Cmds` | start, stop | a handler over a copied struct | an interrupted provider leaves no server behind |
| trigger (`trigger.go`) | none | send TRIGGER_BUY at random intervals | a nil connection | - |
| stats, config, other mains, result file, scripts | - | - | - | not modelled (section 8) |

The hazards of the code, each at its line and with the properties that watch it, are
the `hazards` of `PROJECT.json`.

## 2. The modules

| module | models |
|---|---|
| `Wire` | events, the connections that carry them (`net`), their loss (`lost`), processes that stop (`crashed`), the provider list |
| `ProviderNode` | the handlers and shared state of the providers |
| `ConsumerNode` | the handlers and state of the consumer |
| `Auction` | both, composed over `Wire`: `Next`, fairness, all the properties |
| `AuctionOutcome` | the abstract specification: evaluations are counted, the last one decides, providers learn the outcome |
| `BeaconScore` | the timestamps of one peer's entry and the beacon handlers that race for it |
| `Scoring` | from everybody's scores (FFS) through the evaluations (FFSnew) to the winner |
| `Streams` | the goroutines of the flows one provider won, its ports, the channels back |
| `Iperf3Servers` | the server processes and the provider process that is to stop them |
| `MCAuction`, `MCScoring` | instances for TLC |
| `AuctionProofs` | proof of type correctness of `Auction` |
| `DecisionProofs` | the inductive invariant of the auction and the theorems it gives; what is lost is lost for good |
| `AgreementProofs` | what the providers store is what the consumer decided; `Auction` implements `AuctionOutcome` |
| `CountProofs` | the flow count of a provider is bounded |
| `WaitProofs` | what an auction waits for is to come or was lost; votes have their prices; only winners are rated |
| `ScoringProofs` | sums, means and deviations; what the filters keep and who wins |
| `BeaconProofs` | uptime is earned and credited |
| `StreamProofs` | ports suffice |

How the four fit: `BeaconScore` refines the write-back that `ProviderNode` has as
`BeaconRead` and `BeaconWrite`, for the field the auction leaves out; `Scoring` says
which of the choices `ConsumerNode` leaves to `Winners` is taken, and when an
INFORM_VOTE that `Auction` counts among the lost is not sent; `Streams` fills the gap
between `HandleInformVote` and `FinishFlow`, whose fairness assumes what `Streams`
checks, that a flow ends; `Iperf3Servers` is where the servers of `Streams` come from.
They share no state, so they are separate specifications.

The modules also hold, beside the definition each one varies,
a few operators commented as mutants: the plausible mistakes each property has to
notice.

### State

| TLA+ | code |
|---|---|
| `net`, a set of records | goroutines that are dialling or writing, bytes on the wire, accepted connections whose handler has not begun |
| `transactions[p]` | the keys of `p.transactions` |
| `allFFS[p][t]`, `allFFSnew[t]` | the keys of the maps `allFFS` of the two sides: the code decides on their `len` |
| `winner[p][t]` | `transactions[t].winner.ProviderID`; `NoWinner` is the zero value |
| `peerScoreMatrix[p][n]` | the entry of `n`: `price` is *where `lastPrice` came from* (the transaction whose event brought it, `"default"`, `"zero"`, or `"none"` where there is no entry), `rated` the transactions whose rating went into the feedback |
| `voting[p]` | `handleRequestVote` goroutines past the dial, in the polling loop (`wait`) or after it (`score`) |
| `flowOps[p]` | goroutines between the read and the write of `activeFlowCount` |
| `beaconOps[p]` | `handleBeaconPayload` goroutines between their two critical sections, with the entry they copied |
| `dropped` | a history variable: requests given up after the retries |
| `triggered`, `flows` | the keys of the consumer's `transactions`; one record per goroutine that decided, until it has announced the end |

Of the other modules:

| TLA+ | code |
|---|---|
| `BeaconScore`: `entry` | `beaconTimestamps` of the entry: `NoEntry`, `ZeroEntry` as other handlers create it, or two instants |
| `handlers` | `handleBeaconPayload` goroutines, with the time they took and the entry they copied |
| `Scoring`: `FFS`, `FFSnew` | the rows of the two `allFFS` maps, as integers, an evaluation `Scale` times; `FFS[p]` is the map at p, since q computes its row anew for every REQUEST_VOTE (`events.go` 200-207) |
| `tauP`, `tauC` | the configured bounds, as 4 tau squared, so that comparisons are exact |
| `Streams`: `handler`, `stage`, `port` | where the INFORM_VOTE goroutine and the two stream goroutines of a flow are, and the loop variable `i` |
| `Iperf3Servers`: `iperf3Cmds`, `copyCmds` | the field in main's struct, and in the one `New` made and the signal handler kept |

### Steps

A handler is one step where the code holds the mutex throughout, or where only the
handler itself can see the intermediate state. It is split where another goroutine
can come between:

* `handleRequestVote`: `AcceptRequest` (look-up, dial, price stored), `RetryRequest`
  and `DropRequest` (the five retries), `SeeAllPrices` (the polling loop ends) and
  `CastVote` (scores under a new lock, reply).
* `START_FLOW` and `TRANSACTION_END`: for the winner, the read of `activeFlowCount`
  (`HandleStartFlow`, `HandleTransactionEnd`) and the write with the rest of the
  handler (`FinishFlowOp`). For the others one step: two such handlers of one
  transaction touch different fields.
* `handleBeaconPayload`: `BeaconRead`, `BeaconWrite`.
* `handleInformVote` of the consumer: the decision (`HandleInformVote`) and the end of
  the flow (`FinishFlow`), as the streams lie in between.

`handleBuyEvent` and `handleReplyVote` are one step although they take the mutex in
the middle. What another handler could do in the gap is to put the same key into the
same `allFFS` map (the provider's own row), which the set of keys does not show.

* `handleBeaconPayload` in `BeaconScore`: `TakeTime` (before the first lock),
  `CopyEntry`, `WriteEntry`. The second lock of the branch without an entry reads
  nothing, so the two branches are one step.
* A stream goroutine: each attempt begins and ends (`RunTest`; `FinishTest`, `TurnAway`,
  `LoseServer`, `Break`), and each send on an unbuffered channel is one step with its
  receive (`SendResult`).

`calculateFFSnew` and `calculateFFSfinal` are one step each (`Evaluate`, `Decide`): they
work on rows that are complete.

`ConnectionFails` covers a failed dial, marshal or write at the sender and a read or
parse that fails at the receiver; after a failed dial of START_FLOW or
TRANSACTION_END the consumer may panic, for the deferred `Close` on a nil connection.
`Crash` is a kill, or the abort of the Go runtime when two goroutines use a map
without the mutex.

### Abstractions

Scores are reduced to who has scored whom, and so the winner is any provider of the
list, or nobody (every `FFSfinal` may be NaN). Amounts are reduced to where they came
from. Uptime, load and signal strength are left out of an entry, the rate stays in
the beacon. All providers and the consumer use one list, the trigger's.

`BeaconScore` follows one origin at one provider: a handler touches no other entry.
`Streams` follows one provider: a flow's streams go to its winner only, and `Free` says
what is known of `iperf3`, that a server runs one test at a time and turns others away.

The consumer's `handleInformVote` also overwrites the sender's entry of its list with the
address, ports and price the sender announces of itself (`consumer/events.go` 79-84). The
models take that address to be the one the list had; ports and price of the entry matter
to `Streams` alone, which has them from the winner.

`Scoring` computes with integers where the code has `float64`. A score counts if its
distance from the mean is at most tau standard deviations; squared and multiplied by
the sample size this is an integer comparison, and exact except where both sides are
equal. There the rounding of `float64` decides, for scores on the two sides of the mean
separately, and the model takes every outcome (`Roundings`), so that at a tau of 1
also the whole sample may be dropped: nothing keeps the z of six equal deviations from
being a bit above 1. Every property that needs a score to stay therefore asks for a tau above
1, where somebody's z lies below tau (by more than rounding, unless tau is itself within
rounding of 1). Sums and quotients of what stays
are exact; the comparison of two final scores that are equal as fractions takes the first in
the list.

`calculateFFS` does not skip the scorer itself. A provider has no entry about itself and
gives itself the default, until it has won: `handleTransactionEnd` (`events.go` 353-369)
then makes it one, without uptime, load and strength, and from there its score of itself
is 0. `RowsOf` has both, for the providers in `Served`.

## 3. Properties

Each is stated in words above its definition.

* `Auction`, safety: `OneDecision`, `DecisionIsComplete`, `Agreement`, `NoNilMapWrite`,
  `VoteInOnePlace`, `WaitIsExplained`, `NoSilentStall`, `LossIsFinal` (what is lost of a
  vote is made up for by nothing), `RatingsAreEarned` (nobody but the winner of an ended
  flow is rated), `CountIsBounded`. Of steps: `VotesArePriced`. Liveness: `Completes`,
  `EveryoneLearns`. Refinement: `ImplementsOutcome`.
* `BeaconScore`: `UptimeIsEarned` (no uptime spans a silence longer than
  `beacon_t_limit`) and `UptimeIsCredited` (a peer heard often enough since t is credited
  since t, up to one handling time). They are the two directions of "uptime is how long
  the peer has been heard": the first breaks if a handler keeps an old T_0 it should
  reset, the second if one resets what it should keep.
* `Scoring`: `EveryoneIsHeard` (no 0/0), `OutlierStays`, `EvaluationsInHull`,
  `AgreedScoreStands` (what the others agree on is not swayed by the subject's score of
  itself), `SomeoneWins` (when nobody wins), `WinnerIsUnbeaten` (the filters do not turn
  round two providers that all evaluations agree about), `UnanimousWins`. That the provider
  with the better scores wins is not among them: an evaluation contains the score its
  target gave itself, which can pull it below that of another.
* `Streams`: `PortsSuffice`; liveness `FlowEnds` and `OnlyFailuresStay` (a goroutine
  stays behind only for a stream that failed).

Five properties are of the code's own words and fail: `VotesAreFresh`, `DropIsLate`,
`RateInRange`, `EndIsAnnounced` and `ServersStopped` (section 4). Others that one might expect
hold nowhere and are promised nowhere: a beacon handler may replace a newer price or rating by
the older entry it copied, and a flow whose TRANSACTION_END overtakes its START_FLOW is counted
for ever. The hazards say so where they bite.

## 4. Runs

| run | instance | question |
|---|---|---|
| `auction_round` | 3 providers, 1 auction, 1 retry, fair | the whole round, every interleaving; does it end |
| `auction_two` | 2 providers, 2 auctions, 1 retry | winners, ratings and flow counts of two auctions; the refinement |
| `auction_faults` | 3 providers, 1 auction, 2 failures, up to symmetry | what holds whatever fails, and what a loss costs |
| `auction_beacons` | 3 providers, 1 auction, one beacon link, its emitter faulty | beacons against the auction: waits, votes, prices |
| `beacon_score` | 10 ms of beacons, limit 6, handlers of up to 2 ms | is uptime what was heard |
| `streams` | 2 flows, 4 ports, 1 failure, fair | do the ports suffice; does every flow end |
| `scoring` | 3 providers with two scores each, six pairs of taus | what the filters do to the scores, who wins, when nobody does |
| `stale_price` | 3 providers, 2 auctions, no beacons | refutes `VotesAreFresh`: the price of one auction ends the poll of the other |
| `renamed_provider` | p1 is listed under another id | refutes `DropIsLate` |
| `negative_rate` | 2 providers, 2 auctions | refutes `RateInRange` |
| `unannounced_end` | the consumer's own requirements are left out | refutes `EndIsAnnounced` |
| `orphaned_servers` | 2 servers | refutes `ServersStopped` |

The last five show that the code does otherwise than a comment or the readme says;
`findings` in `PROJECT.json` quotes the lines.

**Bounds.** `MaxRetries` is 1 or 0 where the code has 5: a retry only looks again, so
one tells "found at once", "found later" and "given up" apart. `MaxFailures` bounds lost
events and dead processes together. `BeaconUnderWay` lets a link carry one beacon at a
time: the next one comes an interval later. Three providers are the least where a
handler waits for a third party's price and where "all" differs from "all but one" on
both sides; two with two auctions is the least where state of one auction can leak into
the other. Four providers exceed three million states up to symmetry.

In `beacon_score` the limit is long enough for three handlers to run one after the
other within it (the bound of `UptimeCredited`), `OneDay` short enough for the uptime to
be cut, and the time allows two silences. `MaxHandling`, the longest a handler runs, is
an assumption on the scheduler that `UptimeIsCredited` alone needs. `streams` has as many
ports as streams, and one failure, so that a stream may fail but only because of it.
`scoring` gives every provider two scores to choose from, for all of them one below the
threshold of -10, so that nobody may win, and one above it; the default is below it too. One
provider may have won before and scores itself 0 then (`Served`), one sends its peers
different rows (`Rescored`). Every provider has two scorers, so at a consumer's tau of 1 both
lie on the boundary. The providers' taus are one where nothing may be left of a sample
(1/2), one just above 1 (1.118, where `tauP` is 5) and the shipped 3; the consumer's are 1, its
example value, and 1.118.

**Deadlock** is not checked: the purchases are finite in number, and an auction that
lost an event does stop.

**Fairness.** Weak fairness for every kind of handler of every process: each event has
a goroutine of its own and the Go scheduler starves none; a polling loop comes back
every 50 ms. No more than that: no fairness for the trigger, the beacon timers, or
failures. For a provider it is stated per kind of handler, so that two handlers of one
kind are fair together; a bounded number of events makes this as strong as one
condition per goroutine. That `FinishFlow` is fair is what `Streams` shows as `FlowEnds`,
from weak fairness of each stream goroutine and of the handler's sleep: goroutines run,
and a test that `iperf3` began comes to its end. Nothing is assumed of servers that die
or tests that break.

## 5. Proofs

Proved with TLAPS from the assumptions on the constants that `Wire`, `ProviderNode`
and `ConsumerNode` name, for every finite set of providers, every set of transactions
and any number of failures:

* `TypeCorrect`: `Spec => []TypeOK`.
* `CoreHolds`, and from it `DecidedOnce` (`OneDecision`), `DecidedOnAll`
  (`DecisionIsComplete`) and `NoNilMapPanic` (`NoNilMapWrite`), under `NamesMatch`: the
  list names every provider by its configured id. Without it a provider may send a
  vote request to itself and the counts mean nothing.
* `VoteKeptOnce` (`VoteInOnePlace`) and `LossesAreFinal` (`LossIsFinal`), under the same
  assumption.
* `Agreed`: `Spec => []Agreement`, for any list.
* `AuctionImplementsOutcome`: `NamesMatch /\ Spec => ImplementsOutcome`.
* `CountStaysBounded` (`CountIsBounded`), under `NamesMatch`.
* `WaitsAreExplained` (`WaitIsExplained`), under `NamesMatch` and `BeaconsPriced`: there are
  no beacons, or a peer first heard of in a beacon gets a price
  (`default_peer_last_price` is not 0). With a default of 0 such an entry would make the
  poll wait for a price the peer has no reason to send again.
* `VotesPriced` (`VotesArePriced`), under the same two and where every provider asks a
  price. `TxnAssumption`, that no transaction is one of the marks for a price of another
  origin, serves this and the previous item only.
* `RatingsEarned` (`RatingsAreEarned`), under `NamesMatch`, with any beacons and any default.
* `NothingStalls` (`NoSilentStall`), under `NamesMatch` and `SeveralProviders`: a list of one
  provider is never decided, as nobody replies to it (`events.go:88`).

From the assumptions of `BeaconScore`, for any number of overlapping handlers and any
limits: `BeaconTypeCorrect`, `UptimeEarned`, and under `RoomEnough` (three handling times
fit into the limit) `UptimeCredited`. From those of `Streams`, for any finite set of flows,
any number of servers and of failures: `StreamTypeCorrect` and `PortsAlwaysSuffice`.

From those of `Scoring`, for any number of providers, any set of integer scores and any
values of tau: `ScoringTypes`, `EveryoneHeard` (`EveryoneIsHeard`), `EvaluationsBetween`
(`EvaluationsInHull`), `OutliersStay` (`OutlierStays`), `AgreementStands`
(`AgreedScoreStands`); with two providers or more `SomebodyWins` (`SomeoneWins`),
`WinnerUnbeaten` (`WinnerIsUnbeaten`) and `TheUnanimousWins` (`UnanimousWins`), for any default
score and whoever has won before. A single provider has no scorers, every final score is 0/0
and nobody wins.

**The argument.** `OneDecision` is not inductive: what keeps a second INFORM_VOTE
handler from deciding is that no evaluation reaches the consumer twice, and that rests
on no vote reaching a provider twice. The invariant `Core` therefore follows a vote of
one provider for another through its life: requested (`RequestsInOnePlace`), prepared
(`HandlersInOnePlace`), on its way back (`RepliesInOnePlace`), counted; in each place it
is the only one, and in none of the others. A vote counted for the last missing row is
thus new, and it is the only one that can complete the set: `EvaluationInOnePlace` says
the same of evaluations, `BuyComesFirst` roots both in the BUY that is sent once, and
`DecisionComesLast` ties the decision to the complete set, where no evaluation is left
that could decide again. Loss and crashes only remove events, so they preserve all of
it.

`Agreement` needs a second invariant, `Heard`: a START_FLOW in flight and an increment
under way both name a decision of the consumer, and `DecisionsStay` says a decision is
never taken back. The refinement takes both. `Core` makes the INFORM_VOTE handler the
abstract `Evaluate` (the row is new, and nobody has decided before the last one);
`Heard` makes every store of a winner the abstract `Learn` or a stutter; and
`UnknownIsUndecided` joins them: a BUY, which clears the winner, cannot come after the
decision, as its provider must have voted for the decision to be made.

**Counts.** A handler may write a count that is older than what others wrote since, so
`CountIsBounded` needs `SeenIsBounded`: the count a handler holds is at most the number
of flows its provider was told of, not counting the flow of the handler itself. Flows
told of are never untold, so the bound holds however late the handler writes. For an
increment the handler's own flow must be new when it reads: `ToldOnce`, which follows from
the single decision that sends START_FLOW.

**Prices.** `Explained` says more than `WaitIsExplained`: of every triggered transaction
and every two providers, the price is stored or to come, whether anybody waits or not. The
BUY brings the request, the request brings the price, a retry brings itself, and what is
lost or dropped stays so. That a stored price is never lost again is the invariant
`Prices`. Requests carry a price (`PricesSent`), ratings keep it (`RateKeeps`), and the entry
of a peer that asks for something is `Whole`: it has a price, or it is no entry at all, as
nobody rates a peer before its price came (`PricesStored`). A beacon handler writes an old
entry back, so its copy has to be whole as well (`PricesCopied`); what it writes is then
another price, older but not none. With that `VotesSeen` is inductive: whoever is preparing a
vote, has one on its way or one counted, has a price of everybody. `VotesPriced` follows.

**Losses.** `LossIsFinal` is about what is no longer there, so its invariant says of every dead
event (`Dead`) what it keeps from happening (`Unmet`): without its BUY a provider has no record
of the transaction, without a request or a vote (`Gone`) a row is missing for ever, without an
evaluation the consumer's set stays incomplete. That an event was in one place only (`Core`)
makes this true at the moment it dies (`DeathIsUnmet`); `Advance` says of each step that it asks
for a vote only with the BUY, moves a vote only from the place before, and counts only what
arrives, and that is enough for it to stay true (`UnmetStays`). A decision is made on complete
rows (`DecisionIsComplete`), and one is missing.

**Ratings.** `Merit` follows a rating from the decision to the entry: an announced end is of an
ended flow, a handler that uncounts a flow is the winner's own, a copy a beacon handler holds
has earned ratings only, as has every entry. The winner a provider has stored is the decided
one (`Heard`), and as a transaction is decided once (`Core`) the flow that ended is the one it
won (`EndEarns`).

**Accounts.** Of a quiet auction `NoSilentStall` says that it is done, and nothing inductive
can begin with that. `Accounted` says of every auction, at every moment, that whatever it
still needs was sent: a provider has the transaction or its BUY was sent, it has a vote or
the vote is asked for, prepared or sent, a provider with all votes has sent its evaluation
or it is counted, and a complete set of evaluations has been decided. *Sent* stands for in
flight, lost or given up, so that failures move an event from one to the other and change
nothing. In a quiet state where nothing was lost only the last alternative is left of each.
The step that counts is `HandleReplyVote`: the row that completes the set is new (`Core`),
so it is the one whose handler sends the evaluation, and likewise at the consumer.

**Beacons.** That the entry was earned is inductive only together with the copies
handlers hold (`AllCovered`): a handler extends a copy, not the entry, and whoever writes
last wins. Extending is sound for any copy, old or new, because the limit is tested
against the copy's own T_n. `ZeroEntry` is harmless because 1970 is further back than the
limit. The other direction must bound how old a copy can be: `LastIsRecent` and
`CopyIsRecent` say that the entry, or a copy, is at most one handling time behind any
beacon already handled when it was taken; so a handler in a steady run finds T_n within
the limit and keeps T_0 (`FirstIsEarly`, `CopyIsEarly`). Twice the handling time has to be
taken off the gap allowed between beacons: one for the copy, one for the handler.

**Ports.** `PortsSuffice` counts, but no counter is in the state. The invariant `Covered`
gives every port a stream has left a reason: its server is dead, a test broke there, or
another stream took it and, as ports are tried in order and a stream is served once, is
there for good. A stream that has left all ports therefore maps the ports onto other
streams and failures, which `FailedCounts` turns into the inequality.

**Scores.** The library's sum over a set is a recursive choice; `OneSum` shows that there is
one function satisfying it, by induction over the subsets of the set, which needs no
induction theorem with an operator: the strict subset order of a finite set is
well-founded, so a set of bad subsets would have a least member (`SubsetInduction`). From
there `SumTake`, `SumAdd`, `SumScale` and `SumOrder` are the calculus, and `DeviationsSum` the
identity everything rests on: the squared distances from the mean add up to n times the
variance. Three facts follow. Somebody is within one deviation (`SomeoneIsNear`; otherwise
the sum would be larger), so at a tau above 1 the sample is not empty (`SomeoneStays`), however
the boundary rounds. Nobody is more than sqrt(n - 1) deviations away (`NobodyIsFar`: the others balance the distance, and their own
variance is not negative), so a larger tau drops nobody. And if all agree the variance is
0, and only the agreed score stays (`FilterFlat`). A mean lies between two scores of its
sample, the rounding of the division included (`MeanIsBetween`). The invariant itself is
small: scores do not change, evaluations are what the filter makes of them (`Evaluated`), and
the winner what the consumer's loop makes of those (`Chosen`); the theorems apply the lemmas
once for the providers and once for the consumer. `WinnerBeats` shows that the loop finds a
best one (`BestExists`). `WinnerIsUnbeaten` needs of the filters only that somebody stays and the hull: a final
score lies between the evaluations it comes from, so one whose evaluations are all higher is
higher.

## 6. Only model-checked

Liveness: `Completes`, `EveryoneLearns`, `FlowEnds` and `OnlyFailuresStay`. Properties under
fairness, and ENABLED, are out of the prover's reach. Every other property of a passing run
has its theorem. What the last five runs refute is shown by their counterexamples.

## 7. Plan

1. *(done)* `Wire`, `ProviderNode`, `ConsumerNode`, `Auction`, `AuctionOutcome`; type
   correctness, the single and complete decision, agreement and the refinement proved.
2. *(done)* `Scoring`, model-checked.
3. *(done)* `BeaconScore`, both directions proved.
4. *(done)* `Streams` and `Iperf3Servers`; `PortsSuffice` proved.
5. *(done)* `VoteInOnePlace` and `LossIsFinal` proved.
6. *(done)* `CountIsBounded` and `RatingsAreEarned` proved.
7. *(done)* `WaitIsExplained` and `VotesArePriced` proved with beacons, `NoSilentStall`, and the
   invariants of `Scoring`, with rows that differ from peer to peer.
8. *(left)* The uptime an entry of `Auction` leaves out, proved to be what `BeaconScore`
   describes: a refinement of one by the other.

## 8. Not modelled

* `calculateFaultyFFS` and `calculateFaultyFFnew`: random numbers in place of scores; the
  auction takes any winner, so what depends on them is not claimed.
* The formulas behind one score (`calculateUptime`'s sigmoid, load, signal strength, price
  and speed fittingness, feedback): products of real numbers. `Scoring` takes any score.
  That `delta` is never used (line 223 has `mu` twice) is visible there and concerns no
  other component.
* A provider whose configured price is 0 is a constant of `ProviderNode` that no run sets:
  it keeps every auction of its list from being decided. The theorems that need a price of
  everybody name it in their hypothesis (`FreeProviders \subseteq Faulty`).
* `handleGetProviderStats` (a debug read), configuration files (they are the constants), the
  mains of consumer and trigger, the result file written just before the exit.
* The trigger's normal distributions: purchases come at any time here.
* `iperf3` itself, scripts and containers.

## 9. Running it

```
tlc -workers 2 -config auction_round.cfg MCAuction.tla
tlc -workers 2 -config scoring.cfg MCScoring.tla
tlapm AgreementProofs.tla
```
