-------------------------------- MODULE Wire --------------------------------
(***************************************************************************)
(* The processes of one deployment and the connections between them.      *)
(*                                                                         *)
(* Every event of the protocol travels on a TCP connection of its own,    *)
(* opened by a goroutine of its own and served by a goroutine of its own, *)
(* so two events between the same processes arrive in any order; none is  *)
(* sent twice.  A connection that cannot be opened or written is logged   *)
(* and the event is gone: no caller retries.                               *)
(***************************************************************************)
EXTENDS Integers, FiniteSets

CONSTANTS
    Provider,       \* the provider processes, each named by its configured id
    Consumer,       \* the consumer process
    Txn,            \* the transactions the trigger starts
    Name,           \* the ids that may appear in the trigger's provider_list
    Listed,         \* Listed[q]: the provider_id written beside q's address
    NoWinner,       \* the ProviderID of the zero-valued providerInfo
    MaxFailures     \* bound: how many failures (connection or process) happen

ASSUME ProviderAssumption == IsFiniteSet(Provider) /\ Consumer \notin Provider
ASSUME NameAssumption     == Provider \subseteq Name /\ NoWinner \notin Name
ASSUME ListedAssumption   == Listed \in [Provider -> Name]
ASSUME FailureAssumption  == MaxFailures \in Nat
ASSUME TxnAssumption      == Txn \cap {"zero", "default", "none"} = {}

VARIABLES
    net,            \* events sent whose handler has not started
    lost,           \* events whose connection failed
    crashed         \* processes that panicked or were killed

wireVars == <<net, lost, crashed>>

Process    == Provider \cup {Consumer}
ListedName == {Listed[q] : q \in Provider}

\* The list names every provider by the id in that provider's own config file.
NamesMatch == \A q \in Provider : Listed[q] = q

\* provider_list without the entry whose id is the caller's own.
Peers(p)   == {q \in Provider : Listed[q] # p}

\* Prices are told apart by where they came from, never by their amount: the
\* event that carries one names its transaction, a provider that asks for
\* nothing sends "zero".
Price == Txn \cup {"zero", "default", "none"}

Buy(t, p)            == [type |-> "BUY", txn |-> t, from |-> Consumer, to |-> p]
RequestVote(t, p, q, c) == [type |-> "REQUEST_VOTE", txn |-> t, from |-> p,
                            to |-> q, price |-> c, tries |-> 0]
ReplyVote(t, q, p)   == [type |-> "REPLY_VOTE", txn |-> t, from |-> q, to |-> p]
InformVote(t, p)     == [type |-> "INFORM_VOTE", txn |-> t, from |-> p, to |-> Consumer]
StartFlow(t, p, w)   == [type |-> "START_FLOW", txn |-> t, from |-> Consumer,
                         to |-> p, winner |-> w]
TransactionEnd(t, p) == [type |-> "TRANSACTION_END", txn |-> t,
                         from |-> Consumer, to |-> p]
Beacon(p, q, rate)   == [type |-> "BEACON", from |-> p, to |-> q, rate |-> rate]

Auctioned == {"BUY", "REQUEST_VOTE", "REPLY_VOTE", "INFORM_VOTE",
              "START_FLOW", "TRANSACTION_END"}

WireInit == net = {} /\ lost = {} /\ crashed = {}

Send(ms)        == net' = net \cup ms
Consume(m)      == net' = net \ {m}
Handle(m, ms)   == net' = (net \ {m}) \cup ms

\* m waits for process x, which is running.
Arrives(m, type, x) == m \in net /\ m.type = type /\ m.to = x /\ x \notin crashed

Panic(x)        == crashed' = crashed \cup {x}

FailureLeft     == Cardinality(lost) + Cardinality(crashed) < MaxFailures

(***************************************************************************)
(* The connection of m fails: dial, marshal and write errors are logged   *)
(* and the event is forgotten.  The dial back of a REQUEST_VOTE handler   *)
(* comes before it changes anything, so its failure is this one too.  The *)
(* consumer does not return after a failed dial of START_FLOW or          *)
(* TRANSACTION_END: it closes the nil connection, which panics.  A beacon *)
(* that fails is one that was not sent.                                    *)
(***************************************************************************)
ConnectionFails(m) ==
    /\ m \in net
    /\ m.type \in Auctioned
    /\ m.from \in crashed \/ m.to \in crashed \/ FailureLeft
    /\ Consume(m)
    /\ lost' = lost \cup {m}
    /\ \/ UNCHANGED crashed
       \/ m.type \in {"START_FLOW", "TRANSACTION_END"} /\ Panic(Consumer)

\* A process stops for good: it is killed, or the Go runtime aborts it on two
\* unsynchronised accesses to one of its maps.  Nothing restarts it.
Crash(x) ==
    /\ x \in Process \ crashed
    /\ FailureLeft
    /\ Panic(x)
    /\ UNCHANGED <<net, lost>>
=============================================================================
