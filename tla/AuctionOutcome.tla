--------------------------- MODULE AuctionOutcome ---------------------------
(***************************************************************************)
(* What the auction promises, without messages: everybody's evaluation of *)
(* a transaction is collected, the last one decides the winner once and   *)
(* for all, and providers learn that winner and no other.                  *)
(***************************************************************************)
CONSTANTS Provider, Txn, Name, nobody

VARIABLES
    opened,     \* the transactions under way or over
    evaluated,  \* evaluated[t]: the providers whose evaluation has been counted
    outcome,    \* outcome[t]: {} before the decision, then {the winner}, or
                \*   {nobody} when the scores single out no provider
    learned     \* learned[p][t]: {} or {the winner}, as provider p has it

outcomeVars == <<opened, evaluated, outcome, learned>>

Init ==
    /\ opened    = {}
    /\ evaluated = [t \in Txn |-> {}]
    /\ outcome   = [t \in Txn |-> {}]
    /\ learned   = [p \in Provider |-> [t \in Txn |-> {}]]

Open(t) ==
    /\ t \notin opened
    /\ opened' = opened \cup {t}
    /\ UNCHANGED <<evaluated, outcome, learned>>

Evaluate(t, p) ==
    /\ t \in opened /\ p \in Provider \ evaluated[t]
    /\ evaluated' = [evaluated EXCEPT ![t] = @ \cup {p}]
    /\ IF evaluated[t] \cup {p} = Provider
       THEN \E w \in Name \cup {nobody} : outcome' = [outcome EXCEPT ![t] = {w}]
       ELSE UNCHANGED outcome
    /\ UNCHANGED <<opened, learned>>

Learn(p, t) ==
    /\ learned[p][t] = {} /\ outcome[t] \notin {{}, {nobody}}
    /\ learned' = [learned EXCEPT ![p][t] = outcome[t]]
    /\ UNCHANGED <<opened, evaluated, outcome>>

Next == \E t \in Txn : \/ Open(t)
                       \/ \E p \in Provider : Evaluate(t, p) \/ Learn(p, t)

Spec == Init /\ [][Next]_outcomeVars
=============================================================================
