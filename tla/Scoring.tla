------------------------------ MODULE Scoring ------------------------------
(***************************************************************************)
(* From scores to a winner.  Every provider turns the scores of all into  *)
(* evaluations (FFSnew) by dropping those more than tau standard          *)
(* deviations off the mean; the consumer does the same with the           *)
(* evaluations and takes the provider with the highest.  Scores are        *)
(* integers and the comparisons exact, by squares; a score exactly tau     *)
(* deviations off is kept or dropped, as float64 happens to round.         *)
(***************************************************************************)
EXTENDS Integers, FiniteSets, Functions

CONSTANTS
    ProviderCount,  \* providers, numbered in the order of provider_list
    Score,          \* bound: Score[t], the scores the others may give t
    DefaultPeerFF,  \* default_peer_ff, for whom the scorer has no entry
    Served,         \* bound: those that may have won an auction before
    Rescored,       \* bound: those whose scores may change between two replies
    ProviderTau,    \* bound: the values of tauP
    ConsumerTau,    \* bound: the values of tauC
    Scale,          \* what a score of 1 is counted in, divisible by all samples
    NaN             \* 0/0

ASSUME CountAssumption == ProviderCount \in Nat \ {0}
ASSUME RowAssumption   ==
    Served \subseteq 1 .. ProviderCount /\ Rescored \subseteq 1 .. ProviderCount
ASSUME ScoreAssumption ==
    Score \in [1 .. ProviderCount -> SUBSET Int] /\ DefaultPeerFF \in Int /\ NaN \notin Int
ASSUME TauAssumption   == ProviderTau \subseteq Nat /\ ConsumerTau \subseteq Nat
ASSUME ScaleAssumption ==
    Scale \in Nat \ {0} /\ \A n \in 1 .. (ProviderCount + 1) : Scale % n = 0

VARIABLES
    FFS,       \* FFS[p][q][t]: the score q gave t, as q sent it to p
    tauP,      \* 4 * tau^2, tau the providers' configured bound
    tauC,      \* 4 * tau^2, tau the consumer's
    FFSnew,    \* FFSnew[p][t]: p's evaluation of t, for those p that are done
    winner     \* of the auction: Undecided, NoWinner or a provider

vars == <<FFS, tauP, tauC, FFSnew, winner>>

Provider  == 1 .. ProviderCount
NoWinner  == 0
Undecided == -1
Others(t) == Provider \ {t}

\* calculateFFS knows no self: q scores itself the default or, once it has won
\* and handleTransactionEnd has made it an entry without uptime, 0.
RowsOf(q) ==
    {row \in [Provider -> (UNION {Score[t] : t \in Provider}) \cup {DefaultPeerFF, 0}] :
        /\ \A t \in Others(q) : row[t] \in Score[t]
        /\ row[q] = DefaultPeerFF \/ (q \in Served /\ row[q] = 0)}
Tables(S) ==
    {table \in [S -> UNION {RowsOf(q) : q \in S}] : \A q \in S : table[q] \in RowsOf(q)}

\* A row is computed anew for every REQUEST_VOTE: two providers may hold
\* different rows of the same one.
Init ==
    /\ \E once \in Tables(Provider \ Rescored), each \in [Provider -> Tables(Rescored)] :
        FFS = [p \in Provider |->
                 [q \in Provider |-> IF q \in Rescored THEN each[p][q] ELSE once[q]]]
    /\ tauP \in ProviderTau /\ tauC \in ConsumerTau
    /\ FFSnew = <<>>
    /\ winner = Undecided

-----------------------------------------------------------------------------
\* Score x[q] counts w[q] times: how many there are, their sum, and n^2 times
\* their variance.

Moments(w, x) ==
    LET n   == SumFunction(w)
        sum == SumFunction([q \in DOMAIN w |-> w[q] * x[q]])
        squares == SumFunction([q \in DOMAIN w |-> w[q] * x[q] * x[q]])
    IN  [n |-> n, sum |-> sum, spread |-> n * squares - sum * sum]

\* n times the distance of v from the mean.
Offset(m, v) == m.n * v - m.sum
Side(m, v)   == IF Offset(m, v) < 0 THEN "below" ELSE "above"

\* No spread and no distance: z is 0, or what rounding makes of it, about 1.
Flat(m, v) == m.spread = 0 /\ Offset(m, v) = 0

\* |z| < tau, and |z| = tau.
WithinSpread(m, tau, v) ==  \* mutant: without SmallestNonzeroFloat64, 0/0
    4 * Offset(m, v) * Offset(m, v) < tau * m.spread
Within(m, tau, v) ==
    \/ 4 * Offset(m, v) * Offset(m, v) < tau * m.spread
    \/ Flat(m, v) /\ tau > 4
AtTau(m, tau, v) ==
    /\ 4 * Offset(m, v) * Offset(m, v) = tau * m.spread
    /\ Flat(m, v) => tau <= 4

\* The sides whose scores at tau are kept: any of them.
Roundings(m, tau, scores) == SUBSET {Side(m, v) : v \in {u \in scores : AtTau(m, tau, u)}}

\* The mean of the scores that stay, once for each way to round.
MeanUncounted(m) ==  \* mutant: sampleN begins at -1
    IF m.n < 2 THEN NaN ELSE (Scale * m.sum) \div (m.n - 1)
Mean(m) == IF m.n = 0 THEN NaN ELSE (Scale * m.sum) \div m.n
Stays(m, tau, sides, v) == Within(m, tau, v) \/ (AtTau(m, tau, v) /\ Side(m, v) \in sides)
Filtered(population, sample, x, tau) ==
    LET m == Moments(population, x)
        Kept(sides) == {q \in DOMAIN sample : Stays(m, tau, sides, x[q])}
    IN  {Mean(Moments(Restrict(sample, Kept(sides)), x)) :
            sides \in Roundings(m, tau, {x[q] : q \in DOMAIN sample})}

-----------------------------------------------------------------------------
\* The providers.  p's own score of t counts twice; t's score of itself is not
\* in the population, but in the sample.

PopulationOfAll(p, t) == [q \in Provider |-> IF q = p THEN 2 ELSE 1]  \* mutant: t's too
PopulationOf(p, t) == [q \in Others(t) |-> IF q = p THEN 2 ELSE 1]
SampleOnce(p, t)   == [q \in Provider |-> 1]  \* mutant: the own score once
SampleOf(p, t)     == [q \in Provider |-> IF q = p THEN 2 ELSE 1]

FFnewOf(p, t) ==
    Filtered(PopulationOf(p, t), SampleOf(p, t), [q \in Provider |-> FFS[p][q][t]], tauP)

Extended(p, new) == [q \in DOMAIN FFSnew \cup {p} |-> IF q = p THEN new ELSE FFSnew[q]]

\* The last REPLY_VOTE is in: calculateFFSnew.
EvaluateAll(p) ==  \* mutant: its own id is not skipped
    /\ p \notin DOMAIN FFSnew
    /\ \E new \in [Provider -> {Scale * FFS[p][p][p]}] : FFSnew' = Extended(p, new)
    /\ UNCHANGED <<FFS, tauP, tauC, winner>>
Evaluate(p) ==
    /\ p \notin DOMAIN FFSnew
    /\ LET outcomes == [t \in Others(p) |-> FFnewOf(p, t)]
       IN  \E new \in [Others(p) -> UNION {outcomes[t] : t \in Others(p)}] :
              /\ \A t \in Others(p) : new[t] \in outcomes[t]
              /\ FFSnew' = Extended(p, new)
    /\ UNCHANGED <<FFS, tauP, tauC, winner>>

\* An INFORM_VOTE that holds NaN cannot be marshalled and is not sent.
Voted == {p \in DOMAIN FFSnew : NaN \notin Range(FFSnew[p])}

-----------------------------------------------------------------------------
\* The consumer.

FFfinalOf(t) ==
    LET scorers == [q \in Others(t) |-> 1]
    IN  Filtered(scorers, scorers, [q \in Others(t) |-> FFSnew[q][t]], tauC)

\* FFSfinal[t] > highestFF; it begins at -10.
LowestZero == 0  \* mutant: highestFF begins at 0
LowestFF   == -10 * Scale * Scale
Beats(final, t, u) ==
    final[u] = NaN \/ final[t] > final[u] \/ (final[t] = final[u] /\ t <= u)
WinnerOfLast(final) ==  \* mutant: highestFF is not raised
    LET above == {t \in Provider : final[t] # NaN /\ final[t] > LowestFF}
    IN  IF above = {} THEN NoWinner ELSE CHOOSE t \in above : \A u \in above : u <= t
WinnerOf(final) ==
    LET above == {t \in Provider : final[t] # NaN /\ final[t] > LowestFF}
    IN  IF above = {} THEN NoWinner
        ELSE CHOOSE t \in above : \A u \in Provider : Beats(final, t, u)

\* The last INFORM_VOTE is in: calculateFFSfinal.
Decide ==
    /\ winner = Undecided /\ Voted = Provider
    /\ LET outcomes == [t \in Provider |-> FFfinalOf(t)]
       IN  \E final \in [Provider -> UNION {outcomes[t] : t \in Provider}] :
              /\ \A t \in Provider : final[t] \in outcomes[t]
              /\ winner' = WinnerOf(final)
    /\ UNCHANGED <<FFS, tauP, tauC, FFSnew>>

Next == Decide \/ \E p \in Provider : Evaluate(p)

Spec == Init /\ [][Next]_vars

-----------------------------------------------------------------------------

TypeOK ==
    /\ \A p, q \in Provider : FFS[p][q] \in RowsOf(q)
    /\ DOMAIN FFSnew \subseteq Provider
    /\ \A p \in DOMAIN FFSnew : DOMAIN FFSnew[p] = Others(p)
    /\ winner \in Provider \cup {NoWinner, Undecided}

\* With a tau above 1 no evaluation is 0/0: who evaluates is heard, and the auction
\* does not wait for a vote that could not be sent.
EveryoneIsHeard == tauP > 4 => Voted = DOMAIN FFSnew

\* With tau^2 > n - 1 (the shipped tau of 3 with up to nine providers) the filter
\* keeps every score but the one a provider gave itself.
OutlierStays ==
    tauP > 4 * (ProviderCount - 1) =>
        \A p \in DOMAIN FFSnew : \A t \in Others(p) :
            LET all == FFS[p][p][t] + SumFunction([q \in Others(t) |-> FFS[p][q][t]])
            IN  \/ FFSnew[p][t] * ProviderCount = Scale * all
                \/ FFSnew[p][t] * (ProviderCount + 1) = Scale * (all + FFS[p][t][t])

\* An evaluation lies between the scores it comes from.
EvaluationsInHull ==
    \A p \in Voted : \A t \in Others(p) :
        /\ \E q \in Provider : FFSnew[p][t] >= Scale * FFS[p][q][t]
        /\ \E q \in Provider : FFSnew[p][t] <= Scale * FFS[p][q][t]

\* The score a provider has about itself, which is in the sample but not in the
\* population, cannot sway an evaluation the others agree on.
AgreedScoreStands ==
    tauP > 4 =>
        \A p \in DOMAIN FFSnew : \A t \in Others(p) : \A v \in Score[t] :
            (\A q \in Others(t) : FFS[p][q][t] = v) => FFSnew[p][t] = Scale * v

\* An auction without a winner is one whose every provider was evaluated at -10
\* or less by somebody.
SomeoneWins ==
    (winner = NoWinner /\ tauC > 4) =>
        \A t \in Provider : \E q \in Others(t) : FFSnew[q][t] <= -10 * Scale

\* Nobody is better than the winner in everybody's eyes: no filter turns round two
\* providers that all evaluations agree about.
WinnerIsUnbeaten ==
    tauC > 4 =>
        ~\E t, u \in Provider :
            /\ winner = t
            /\ \A q \in Others(t), r \in Others(u) : FFSnew[q][t] < FFSnew[r][u]

\* The provider that all others give the same score wins if that is above every
\* score of anybody else, and above where the search for the winner begins.
Unanimous(t) ==
    \E v \in Score[t] :
        /\ v > -10
        /\ \A p \in Provider : \A q \in Others(t) : FFS[p][q][t] = v
        /\ \A p, q \in Provider : \A u \in Others(t) : FFS[p][q][u] < v
UnanimousWins ==
    \A t \in Provider :
        winner # Undecided /\ tauP > 4 /\ tauC > 4 /\ Unanimous(t) => winner = t
=============================================================================
