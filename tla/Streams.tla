------------------------------ MODULE Streams ------------------------------
(***************************************************************************)
(* The streams of the flows one provider has won.  The consumer tries the *)
(* provider's iperf3 servers one after the other, for the forward and,    *)
(* 10 ms later, for the reverse stream of each flow, each in a goroutine  *)
(* of its own that hands its result to the INFORM_VOTE handler.           *)
(***************************************************************************)
EXTENDS Integers, FiniteSets

CONSTANTS
    Flow,         \* the flows the provider won
    ServerCount,  \* iperf3_server_count
    MaxFailures   \* bound: servers that die, tests that break

ASSUME FlowAssumption   == IsFiniteSet(Flow)
ASSUME ServerAssumption == ServerCount \in Nat

VARIABLES
    handler,    \* handler[f]: where the INFORM_VOTE handler is
    stage,      \* stage[s]: where the goroutine of the stream s is
    port,       \* port[s]: the port it is at, ServerCount when it has tried all
    dead,       \* the ports whose iperf3 server died
    broken      \* history: <<s, n>>, the test of s on port n broke

vars == <<handler, stage, port, dead, broken>>

Direction == {"forward", "reverse"}
Stream    == Flow \X Direction

\* A port is counted from iperf3_base_server_port.  A provider listens only once
\* a server runs on each, and its servers do not end with it (Iperf3Servers).
Port == 0 .. (ServerCount - 1)

Failures    == Cardinality(dead) + Cardinality(broken)
FailureLeft == Failures < MaxFailures

Init ==
    /\ handler = [f \in Flow |-> "deciding"]
    /\ stage   = [s \in Stream |-> "idle"]
    /\ port    = [s \in Stream |-> 0]
    /\ dead    = {}
    /\ broken  = {}

\* The winner is known: the forward stream begins.
StartForward(f) ==
    /\ handler[f] = "deciding"
    /\ handler' = [handler EXCEPT ![f] = "sleeping"]
    /\ stage'   = [stage EXCEPT ![<<f, "forward">>] = "trying"]
    /\ UNCHANGED <<port, dead, broken>>

\* 10 ms later the reverse stream; the handler then waits for the results.
StartReverse(f) ==
    /\ handler[f] = "sleeping"
    /\ handler' = [handler EXCEPT ![f] = "up"]
    /\ stage'   = [stage EXCEPT ![<<f, "reverse">>] = "trying"]
    /\ UNCHANGED <<port, dead, broken>>

\* iperf3 serves one test at a time and turns others away.
Free(n) == n \in Port \ dead /\ \A s \in Stream : ~(stage[s] = "running" /\ port[s] = n)

RunTest(s) ==
    /\ stage[s] = "trying" /\ Free(port[s])
    /\ stage' = [stage EXCEPT ![s] = "running"]
    /\ UNCHANGED <<handler, port, dead, broken>>

NextPortSkip(s) ==  \* mutant: the loop leaves the last port out
    [port EXCEPT ![s] = IF @ + 2 < ServerCount THEN @ + 1 ELSE ServerCount]
NextPort(s) == [port EXCEPT ![s] = @ + 1]

\* A client that cannot run its test exits with an error: the next port.
TurnAwayPast(s) ==  \* mutant: i <= serverCount
    /\ stage[s] = "trying" /\ ~Free(port[s])
    /\ port' = NextPort(s)
    /\ UNCHANGED <<handler, stage, dead, broken>>
TurnAway(s) ==
    /\ stage[s] = "trying" /\ port[s] \in Port /\ ~Free(port[s])
    /\ port' = NextPort(s)
    /\ UNCHANGED <<handler, stage, dead, broken>>

LoseServer(s) ==
    /\ stage[s] = "running" /\ port[s] \in dead
    /\ port'  = NextPort(s)
    /\ stage' = [stage EXCEPT ![s] = "trying"]
    /\ UNCHANGED <<handler, dead, broken>>

Break(s) ==
    /\ FailureLeft
    /\ stage[s] \in {"trying", "running"} /\ port[s] \in Port
    /\ port'   = NextPort(s)
    /\ stage'  = [stage EXCEPT ![s] = "trying"]
    /\ broken' = broken \cup {<<s, port[s]>>}
    /\ UNCHANGED <<handler, dead>>

\* The test is over: the goroutine has a result to send.
FinishTest(s) ==
    /\ stage[s] = "running" /\ port[s] \notin dead
    /\ stage' = [stage EXCEPT ![s] = "moved"]
    /\ UNCHANGED <<handler, port, dead, broken>>

\* No port is left: it has nil to send.
GiveUpSilently(s) ==  \* mutant: the error is only logged
    /\ stage[s] = "trying" /\ port[s] = ServerCount
    /\ stage' = [stage EXCEPT ![s] = "done"]
    /\ UNCHANGED <<handler, port, dead, broken>>
GiveUp(s) ==
    /\ stage[s] = "trying" /\ port[s] = ServerCount
    /\ stage' = [stage EXCEPT ![s] = "failed"]
    /\ UNCHANGED <<handler, port, dead, broken>>

\* The handler receives from upChannel, then from downChannel, once each.
Receives(s) == handler[s[1]] = IF s[2] = "forward" THEN "up" ELSE "down"
ReceivedUp(f) == [handler EXCEPT ![f] = "ended"]  \* mutant: no second receive
Received(f) == [handler EXCEPT ![f] = IF @ = "up" THEN "down" ELSE "ended"]

\* The channels have no buffer.  After nil the goroutine goes on to send the
\* nil result once more.
Unsent    == {"failed", "again", "moved"}
AfterSend(s) == IF stage[s] = "failed" THEN "again" ELSE "done"
SendResult(s) ==
    /\ stage[s] \in Unsent /\ Receives(s)
    /\ stage'   = [stage EXCEPT ![s] = AfterSend(s)]
    /\ handler' = Received(s[1])
    /\ UNCHANGED <<port, dead, broken>>

ServerDies(n) ==
    /\ FailureLeft /\ n \notin dead
    /\ dead' = dead \cup {n}
    /\ UNCHANGED <<handler, stage, port, broken>>

StreamStep(s) ==
    RunTest(s) \/ TurnAway(s) \/ LoseServer(s) \/ FinishTest(s) \/ GiveUp(s) \/ SendResult(s)

Next ==
    \/ \E n \in Port : ServerDies(n)
    \/ \E f \in Flow : StartForward(f) \/ StartReverse(f)
    \/ \E s \in Stream : StreamStep(s) \/ Break(s)

Spec == Init /\ [][Next]_vars

\* Goroutines run, and an iperf3 test comes to its end.
Fairness ==
    /\ \A f \in Flow : WF_vars(StartReverse(f))
    /\ \A s \in Stream : WF_vars(StreamStep(s))

FairSpec == Spec /\ Fairness

-----------------------------------------------------------------------------

TypeOK ==
    /\ handler \in [Flow -> {"deciding", "sleeping", "up", "down", "ended"}]
    /\ stage \in [Stream -> {"idle", "trying", "running", "moved", "failed", "again", "done"}]
    /\ port \in [Stream -> 0 .. ServerCount]
    /\ dead \subseteq Port
    /\ broken \subseteq Stream \X Port

\* Ports are tried once and in order, while other streams take and leave them;
\* still, a stream fails only if the provider has fewer servers than streams,
\* but for the failures there were.
PortsSuffice ==
    \A s \in Stream : stage[s] \in {"failed", "again"} =>
        ServerCount < Cardinality(Stream) + Failures

\* A flow ends, with data or without: no failure leaves the handler waiting.
FlowEnds == \A f \in Flow : handler[f] = "sleeping" ~> handler[f] = "ended"

\* A goroutine ends, except one whose stream failed: it sends twice what is
\* received once.
OnlyFailuresStay ==
    \A s \in Stream : stage[s] = "trying" ~> stage[s] \in {"done", "again"}
=============================================================================
