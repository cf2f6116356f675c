---------------------------- MODULE StreamProofs ----------------------------
(***************************************************************************)
(* Proofs about Streams, for any set of flows and number of servers.  A   *)
(* stream has left a port only because another stream took it, its server *)
(* died or a test broke there: Covered.  A stream that has left them all  *)
(* therefore counts as many other streams and failures as there are ports.*)
(***************************************************************************)
EXTENDS Streams, FiniteSetTheorems, TLAPS

\* The test of r is, or was to its end, run on port n.
Took(r, n) == port[r] = n /\ stage[r] \in {"running", "moved", "done"}

\* Why a stream other than s, or a failure, keeps s off port n.
Reason(s, n) ==
    \/ n \in dead
    \/ \E r \in Stream : <<r, n>> \in broken
    \/ \E r \in Stream \ {s} : Took(r, n)

Covered == \A s \in Stream, n \in Port : n < port[s] => Reason(s, n)

\* A stream that runs is at a port; one that failed has tried them all.
RunsAtPort == \A s \in Stream : stage[s] = "running" => port[s] \in Port
TriedAll   == \A s \in Stream : stage[s] \in {"failed", "again"} => port[s] = ServerCount

\* A stream begins once.
Unstarted ==
    \A f \in Flow :
        /\ handler[f] = "deciding" => stage[<<f, "forward">>] = "idle"
        /\ handler[f] \in {"deciding", "sleeping"} => stage[<<f, "reverse">>] = "idle"

PortInv == TypeOK /\ RunsAtPort /\ TriedAll /\ Unstarted /\ Covered

LEMMA InitPorts == Init => PortInv
BY ServerAssumption
DEF Init, PortInv, TypeOK, RunsAtPort, TriedAll, Unstarted, Covered, Stream, Direction, Port

-----------------------------------------------------------------------------

\* All but Covered is kept by each action on its own.
LEMMA StartKeeps ==
    ASSUME PortInv, NEW f \in Flow, StartForward(f) \/ StartReverse(f)
    PROVE  (TypeOK /\ RunsAtPort /\ TriedAll /\ Unstarted)'
BY DEF PortInv, TypeOK, RunsAtPort, TriedAll, Unstarted, StartForward, StartReverse,
       Stream, Direction

LEMMA StepKeepsType ==
    ASSUME PortInv, NEW s \in Stream, StreamStep(s) \/ Break(s)
    PROVE  TypeOK'
<1>. USE ServerAssumption DEF PortInv, TypeOK, Port
<1>1. CASE RunTest(s)  BY <1>1 DEF RunTest
<1>2. CASE TurnAway(s) BY <1>2 DEF TurnAway, NextPort
<1>3. CASE LoseServer(s) BY <1>3 DEF LoseServer, NextPort
<1>4. CASE FinishTest(s) BY <1>4 DEF FinishTest
<1>5. CASE GiveUp(s)   BY <1>5 DEF GiveUp
<1>6. CASE SendResult(s)
  <2>1. s[1] \in Flow BY DEF Stream
  <2>. QED BY <1>6, <2>1 DEF SendResult, Received, AfterSend
<1>7. CASE Break(s)    BY <1>7 DEF Break, NextPort
<1>. QED BY <1>1, <1>2, <1>3, <1>4, <1>5, <1>6, <1>7 DEF StreamStep

LEMMA StepKeepsStages ==
    ASSUME PortInv, NEW s \in Stream, StreamStep(s) \/ Break(s)
    PROVE  (RunsAtPort /\ TriedAll)'
<1>. USE ServerAssumption DEF PortInv, TypeOK, RunsAtPort, TriedAll, Port
<1>1. CASE RunTest(s)  BY <1>1 DEF RunTest, Free
<1>2. CASE TurnAway(s) BY <1>2 DEF TurnAway, NextPort
<1>3. CASE LoseServer(s) BY <1>3 DEF LoseServer, NextPort
<1>4. CASE FinishTest(s) BY <1>4 DEF FinishTest
<1>5. CASE GiveUp(s)   BY <1>5 DEF GiveUp
<1>6. CASE SendResult(s) BY <1>6 DEF SendResult, AfterSend
<1>7. CASE Break(s)    BY <1>7 DEF Break, NextPort
<1>. QED BY <1>1, <1>2, <1>3, <1>4, <1>5, <1>6, <1>7 DEF StreamStep

LEMMA StepKeepsUnstarted ==
    ASSUME PortInv, NEW s \in Stream, StreamStep(s) \/ Break(s)
    PROVE  Unstarted'
<1>. USE DEF PortInv, TypeOK, Unstarted
<1>1. stage[s] # "idle"
  BY DEF StreamStep, RunTest, TurnAway, LoseServer, FinishTest, GiveUp, SendResult, Unsent, Break
<1>2. \A r \in Stream : r # s => stage'[r] = stage[r]
  BY DEF StreamStep, RunTest, TurnAway, LoseServer, FinishTest, GiveUp, SendResult, Break
<1>3. \A f \in Flow : handler'[f] \in {"deciding", "sleeping"} => handler'[f] = handler[f]
  <2>1. CASE SendResult(s)
    <3>1. s[1] \in Flow BY DEF Stream
    <3>2. handler[s[1]] \in {"up", "down"} BY <2>1 DEF SendResult, Receives
    <3>. QED BY <2>1, <3>1, <3>2 DEF SendResult, Received
  <2>2. CASE ~SendResult(s)
    BY <2>2 DEF StreamStep, RunTest, TurnAway, LoseServer, FinishTest, GiveUp, Break
  <2>. QED BY <2>1, <2>2
<1>4. \A f \in Flow : <<f, "forward">> \in Stream /\ <<f, "reverse">> \in Stream
  BY DEF Stream, Direction
<1>. QED BY <1>1, <1>2, <1>3, <1>4

-----------------------------------------------------------------------------

\* Covered is kept by a step that keeps what was taken, or records why not, and
\* that has a reason for every port a stream leaves.
LEMMA CoveredKept ==
    ASSUME PortInv, TypeOK',
           dead \subseteq dead', broken \subseteq broken',
           \A r \in Stream, n \in Port :
               Took(r, n) => Took(r, n)' \/ n \in dead' \/ <<r, n>> \in broken',
           \A s \in Stream, n \in Port : n < port'[s] => n < port[s] \/ Reason(s, n)'
    PROVE  Covered'
BY DEF PortInv, Covered, Reason

LEMMA StartCovered ==
    ASSUME PortInv, NEW f \in Flow, StartForward(f) \/ StartReverse(f)
    PROVE  Covered'
<1>1. dead' = dead /\ broken' = broken /\ port' = port
  BY DEF StartForward, StartReverse
<1>2. \A r \in Stream : stage[r] \in {"running", "moved", "done"} => stage'[r] = stage[r]
  <2>1. CASE StartForward(f) BY <2>1 DEF StartForward, PortInv, TypeOK, Unstarted
  <2>2. CASE StartReverse(f) BY <2>2 DEF StartReverse, PortInv, TypeOK, Unstarted
  <2>. QED BY <2>1, <2>2
<1>3. \A r \in Stream, n \in Port : Took(r, n) => Took(r, n)'
  BY <1>1, <1>2 DEF Took
<1>. QED BY <1>1, <1>3, StartKeeps, CoveredKept

LEMMA DieCovered ==
    ASSUME PortInv, NEW n \in Port, ServerDies(n)
    PROVE  PortInv'
<1>1. (TypeOK /\ RunsAtPort /\ TriedAll /\ Unstarted)'
  BY DEF PortInv, TypeOK, RunsAtPort, TriedAll, Unstarted, ServerDies
<1>2. \A r \in Stream, m \in Port : Took(r, m) => Took(r, m)'
  BY DEF ServerDies, Took
<1>3. dead \subseteq dead' /\ broken' = broken /\ port' = port
  BY DEF ServerDies
<1>. QED BY <1>1, <1>2, <1>3, CoveredKept DEF PortInv

\* The steps that leave the ports alone.
LEMMA StayCovered ==
    ASSUME PortInv, NEW s \in Stream,
           RunTest(s) \/ FinishTest(s) \/ GiveUp(s) \/ SendResult(s)
    PROVE  Covered'
<1>1. dead' = dead /\ broken' = broken /\ port' = port
  BY DEF RunTest, FinishTest, GiveUp, SendResult
<1>2. \A r \in Stream : stage[r] \in {"running", "moved", "done"}
                          => stage'[r] \in {"running", "moved", "done"}
  <2>1. CASE RunTest(s) BY <2>1 DEF RunTest, PortInv, TypeOK
  <2>2. CASE FinishTest(s) BY <2>2 DEF FinishTest, PortInv, TypeOK
  <2>3. CASE GiveUp(s) BY <2>3 DEF GiveUp, PortInv, TypeOK
  <2>4. CASE SendResult(s) BY <2>4 DEF SendResult, AfterSend, Unsent, PortInv, TypeOK
  <2>. QED BY <2>1, <2>2, <2>3, <2>4
<1>3. \A r \in Stream, n \in Port : Took(r, n) => Took(r, n)'
  BY <1>1, <1>2 DEF Took
<1>4. StreamStep(s) BY DEF StreamStep
<1>. QED BY <1>1, <1>3, <1>4, StepKeepsType, CoveredKept

\* The steps to the next port: the port that is left has its reason.
LEMMA NextCovered ==
    ASSUME PortInv, NEW s \in Stream, TurnAway(s) \/ LoseServer(s) \/ Break(s)
    PROVE  Covered'
<1>0. PICK n \in 0 .. ServerCount : n = port[s]
  BY DEF PortInv, TypeOK
<1>1. TypeOK' BY StepKeepsType DEF StreamStep
<1>2. /\ n \in Port
      /\ port' = [port EXCEPT ![s] = @ + 1]
      /\ dead' = dead /\ broken \subseteq broken'
      /\ stage[s] \in {"trying", "running"}
      /\ \A r \in Stream : r # s => stage'[r] = stage[r]
  <2>1. CASE TurnAway(s) BY <1>0, <2>1 DEF TurnAway, NextPort
  <2>2. CASE LoseServer(s)
    BY <1>0, <2>2 DEF LoseServer, NextPort, PortInv, TypeOK, RunsAtPort
  <2>3. CASE Break(s) BY <1>0, <2>3 DEF Break, NextPort, PortInv, TypeOK
  <2>. QED BY <2>1, <2>2, <2>3
<1>3. \A r \in Stream : r # s => port'[r] = port[r]
  BY <1>2 DEF PortInv, TypeOK
<1>4. n \in dead' \/ <<s, n>> \in broken' \/ \E r \in Stream \ {s} : Took(r, n) /\ stage[r] = "running"
  <2>1. CASE TurnAway(s)
    <3>1. stage[s] = "trying" /\ ~Free(n) BY <1>0, <2>1 DEF TurnAway
    <3>. QED BY <1>2, <3>1 DEF Free, Took
  <2>2. CASE LoseServer(s) BY <1>0, <1>2, <2>2 DEF LoseServer
  <2>3. CASE Break(s) BY <1>0, <2>3 DEF Break
  <2>. QED BY <2>1, <2>2, <2>3
<1>5. \A r \in Stream, m \in Port :
          Took(r, m) => Took(r, m)' \/ m \in dead' \/ <<r, m>> \in broken'
  <2>. SUFFICES ASSUME NEW r \in Stream, NEW m \in Port, Took(r, m)
                PROVE  Took(r, m)' \/ m \in dead' \/ <<r, m>> \in broken'
    OBVIOUS
  <2>1. CASE r # s BY <1>2, <1>3, <2>1 DEF Took
  <2>2. CASE r = s
    <3>1. m = n /\ stage[s] = "running" BY <1>0, <1>2, <2>2 DEF Took
    <3>2. ~TurnAway(s) BY <3>1 DEF TurnAway
    <3>3. CASE LoseServer(s) BY <1>0, <1>2, <3>1, <3>3 DEF LoseServer
    <3>4. CASE Break(s) BY <1>0, <2>2, <3>1, <3>4 DEF Break
    <3>. QED BY <3>2, <3>3, <3>4
  <2>. QED BY <2>1, <2>2
<1>6. Reason(s, n)'
  <2>1. ASSUME NEW r \in Stream \ {s}, Took(r, n), stage[r] = "running"
        PROVE  Took(r, n)'
    BY <1>2, <1>3, <2>1 DEF Took
  <2>. QED BY <1>4, <2>1 DEF Reason
<1>7. \A r \in Stream, m \in Port : m < port'[r] => m < port[r] \/ Reason(r, m)'
  <2>. SUFFICES ASSUME NEW r \in Stream, NEW m \in Port, m < port'[r]
                PROVE  m < port[r] \/ Reason(r, m)'
    OBVIOUS
  <2>1. CASE r # s BY <1>3, <2>1
  <2>2. CASE r = s
    <3>1. port'[s] = n + 1 BY <1>0, <1>2 DEF PortInv, TypeOK
    <3>2. m < n \/ m = n BY <1>2, <2>2, <3>1, ServerAssumption DEF Port
    <3>. QED BY <1>0, <1>6, <2>2, <3>2
  <2>. QED BY <2>1, <2>2
<1>. QED BY <1>1, <1>2, <1>5, <1>7, CoveredKept

LEMMA NextPorts == PortInv /\ [Next]_vars => PortInv'
<1>. SUFFICES ASSUME PortInv, [Next]_vars PROVE PortInv'
  OBVIOUS
<1>1. ASSUME NEW n \in Port, ServerDies(n) PROVE PortInv'
  BY <1>1, DieCovered
<1>2. ASSUME NEW f \in Flow, StartForward(f) \/ StartReverse(f) PROVE PortInv'
  BY <1>2, StartKeeps, StartCovered DEF PortInv
<1>3. ASSUME NEW s \in Stream, StreamStep(s) \/ Break(s) PROVE PortInv'
  <2>1. Covered' BY <1>3, StayCovered, NextCovered DEF StreamStep
  <2>. QED BY <1>3, <2>1, StepKeepsType, StepKeepsStages, StepKeepsUnstarted DEF PortInv
<1>4. CASE UNCHANGED vars
  <2>1. (TypeOK /\ RunsAtPort /\ TriedAll /\ Unstarted)'
    BY <1>4 DEF vars, PortInv, TypeOK, RunsAtPort, TriedAll, Unstarted
  <2>2. \A r \in Stream, n \in Port : Took(r, n) => Took(r, n)'
    BY <1>4 DEF vars, Took
  <2>. QED BY <1>4, <2>1, <2>2, CoveredKept DEF vars, PortInv
<1>. QED BY <1>1, <1>2, <1>3, <1>4 DEF Next

LEMMA PortsInvariant == Spec => []PortInv
BY InitPorts, NextPorts, PTL DEF Spec

\* The variables of Streams keep to their sets.
THEOREM StreamTypeCorrect == Spec => []TypeOK
BY PortsInvariant, PTL DEF PortInv

-----------------------------------------------------------------------------

\* A set that a function on a finite set covers is no larger than that set.
LEMMA CoveredBy ==
    ASSUME NEW S, NEW T, IsFiniteSet(S), NEW g \in [S -> T],
           \A t \in T : \E s \in S : g[s] = t
    PROVE  IsFiniteSet(T) /\ Cardinality(T) <= Cardinality(S)
<1>1. g \in Surjection(S, T) BY DEF Surjection
<1>. QED BY <1>1, FS_Surjection

LEMMA UnionBound ==
    ASSUME NEW S, NEW T, IsFiniteSet(S), IsFiniteSet(T)
    PROVE  /\ IsFiniteSet(S \cup T)
           /\ Cardinality(S \cup T) <= Cardinality(S) + Cardinality(T)
<1>1. IsFiniteSet(S \cap T) BY FS_Subset
<1>2. /\ Cardinality(S) \in Nat /\ Cardinality(T) \in Nat
      /\ Cardinality(S \cap T) \in Nat
  BY <1>1, FS_CardinalityType
<1>3. /\ IsFiniteSet(S \cup T)
      /\ Cardinality(S \cup T) = Cardinality(S) + Cardinality(T) - Cardinality(S \cap T)
  BY FS_Union
<1>. QED BY <1>2, <1>3

LEMMA StreamFinite == IsFiniteSet(Stream) /\ Cardinality(Stream) \in Nat
<1>1. IsFiniteSet(Direction)
  <2>1. Direction = {} \cup {"forward"} \cup {"reverse"} BY DEF Direction
  <2>. QED BY <2>1, FS_EmptySet, FS_AddElement
<1>2. IsFiniteSet(Stream) BY <1>1, FlowAssumption, FS_Product DEF Stream
<1>. QED BY <1>2, FS_CardinalityType

LEMMA PortFinite == IsFiniteSet(Port) /\ Cardinality(Port) = ServerCount
<1>1. 0 \in Int /\ ServerCount - 1 \in Int BY ServerAssumption
<1>. QED BY <1>1, FS_Interval, ServerAssumption DEF Port

\* A stream that failed counts its ports among the other streams and failures.
LEMMA FailedCounts ==
    ASSUME PortInv, NEW s \in Stream, port[s] = ServerCount
    PROVE  ServerCount < Cardinality(Stream) + Failures
<1>. DEFINE O == Stream \ {s}
            A == {n \in Port : \E r \in O : port[r] = n}
            B == {n \in Port : \E r \in Stream : <<r, n>> \in broken}
<1>1. /\ IsFiniteSet(O)
      /\ Cardinality(O) = Cardinality(Stream) - 1
  BY StreamFinite, FS_RemoveElement
<1>2. IsFiniteSet(A) /\ Cardinality(A) <= Cardinality(O)
  <2>. DEFINE P == {r \in O : port[r] \in Port}
              g == [r \in P |-> port[r]]
  <2>1. IsFiniteSet(P) /\ Cardinality(P) <= Cardinality(O)
    BY <1>1, FS_Subset
  <2>2. g \in [P -> A] OBVIOUS
  <2>3. \A n \in A : \E r \in P : g[r] = n OBVIOUS
  <2>4. IsFiniteSet(A) /\ Cardinality(A) <= Cardinality(P)
    <3>. HIDE DEF A, P, g
    <3>. QED BY <2>1, <2>2, <2>3, CoveredBy
  <2>. QED BY <1>1, <2>1, <2>4, FS_CardinalityType
<1>3. IsFiniteSet(broken)
  <2>1. IsFiniteSet(Stream \X Port) BY StreamFinite, PortFinite, FS_Product
  <2>. QED BY <2>1, FS_Subset DEF PortInv, TypeOK
<1>4. IsFiniteSet(B) /\ Cardinality(B) <= Cardinality(broken)
  <2>. DEFINE g == [b \in broken |-> b[2]]
  <2>1. broken \subseteq Stream \X Port BY DEF PortInv, TypeOK
  <2>2. g \in [broken -> B]
    <3>. SUFFICES ASSUME NEW b \in broken PROVE b[2] \in B
      OBVIOUS
    <3>1. b[1] \in Stream /\ b[2] \in Port /\ b = <<b[1], b[2]>> BY <2>1
    <3>. QED BY <3>1
  <2>3. \A n \in B : \E b \in broken : g[b] = n OBVIOUS
  <2>. HIDE DEF B, g
  <2>. QED BY <1>3, <2>2, <2>3, CoveredBy
<1>5. IsFiniteSet(dead) BY PortFinite, FS_Subset DEF PortInv, TypeOK
<1>6. Port \subseteq A \cup B \cup dead
  <2>. SUFFICES ASSUME NEW n \in Port PROVE n \in A \cup B \cup dead
    OBVIOUS
  <2>1. n < port[s] BY ServerAssumption DEF Port
  <2>2. Reason(s, n) BY <2>1 DEF PortInv, Covered
  <2>. QED BY <2>2 DEF Reason, Took
<1>. HIDE DEF O, A, B
<1>7. /\ IsFiniteSet(A \cup B)
      /\ Cardinality(A \cup B) <= Cardinality(A) + Cardinality(B)
  BY <1>2, <1>4, UnionBound
<1>8. /\ IsFiniteSet(A \cup B \cup dead)
      /\ Cardinality(A \cup B \cup dead) <= Cardinality(A \cup B) + Cardinality(dead)
  BY <1>5, <1>7, UnionBound
<1>9. ServerCount <= Cardinality(A \cup B \cup dead)
  BY <1>6, <1>8, PortFinite, FS_Subset
<1>10. /\ Cardinality(A) \in Nat /\ Cardinality(B) \in Nat /\ Cardinality(dead) \in Nat
       /\ Cardinality(broken) \in Nat /\ Cardinality(O) \in Nat
       /\ Cardinality(A \cup B) \in Nat /\ Cardinality(A \cup B \cup dead) \in Nat
  BY <1>1, <1>2, <1>3, <1>4, <1>5, <1>7, <1>8, FS_CardinalityType
<1>. QED
  BY <1>1, <1>2, <1>4, <1>7, <1>8, <1>9, <1>10, StreamFinite, ServerAssumption DEF Failures

\* A provider with as many servers as streams turns none away for good: the
\* loops over the ports in StartStream and StartReverseStream suffice.
THEOREM PortsAlwaysSuffice == Spec => []PortsSuffice
<1>1. PortInv => PortsSuffice
  BY FailedCounts DEF PortInv, TriedAll, PortsSuffice
<1>. QED BY <1>1, PortsInvariant, PTL
=============================================================================
