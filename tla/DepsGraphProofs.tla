--------------------------- MODULE DepsGraphProofs ---------------------------
(***************************************************************************)
(* Proofs about DepsGraph, for every set of nodes and edges, every graph   *)
(* that can be built over them and both kinds of build.                    *)
(***************************************************************************)
EXTENDS DepsGraph, TLAPS

\* in() and out() record every link at both of its ends.
Linked ==
  \A e \in Edge, n \in Node :
    /\ n \in ToSet(edgeOuts[e]) <=> e \in ToSet(nodeIns[n])
    /\ n \in ToSet(edgeIns[e]) <=> e \in ToSet(nodeOuts[n])

\* Until run() is called nothing has moved.
Fresh ==
  pc = "build" =>
    /\ m_q = <<>> /\ ~m_run
    /\ \A n \in Node : ~m_ready[n]
    /\ \A e \in Edge : m_state[e] = "Closed"

\* Edges that wait for one another are never opened.
CyclesClosed ==
  \A S \in SUBSET Edge : Cyclic(S) => \A e \in S : m_state[e] = "Closed"

Inv == TypeOK /\ Linked /\ Fresh /\ QueueIsOpen /\ InputsComplete /\ CyclesClosed

\* The nodes Node::stat or Node::statSelf is still to visit.
NodePending(n) ==
  \/ pc \in {"build", "thrown", "aborted"}
  \/ pc = "nodes" /\ \E k \in DOMAIN m_nodes : k >= i /\ m_nodes[k] = n
  \/ pc = "outs" /\ \E k \in DOMAIN edgeOuts[Current] : k >= i /\ edgeOuts[Current][k] = n
  \/ pc = "stat" /\ \E k \in DOMAIN edgeOuts[Current] : k > i /\ edgeOuts[Current][k] = n

\* The edges Edge::stat is still to visit.
EdgePending(e) ==
  \/ pc \in {"build", "thrown", "aborted", "nodes"}
  \/ pc = "edges" /\ \E k \in DOMAIN m_edges : k >= i /\ m_edges[k] = e
  \/ pc = "stat" /\
       LET readers == nodeOuts[edgeOuts[Current][i]] IN
         \E k \in DOMAIN readers : k >= j /\ readers[k] = e

\* What is not pending has been brought up to date.
Settled ==
  /\ \A n \in Nodes : BecomesReady(n) => NodePending(n)
  /\ \A e \in Edges : Opens(e) => EdgePending(e)

\* The links of the graph name objects of the graph.
Declared ==
  /\ \A n \in Node : ToSet(nodeIns[n]) \cup ToSet(nodeOuts[n]) \subseteq Edges
  /\ \A e \in Edge : ToSet(edgeIns[e]) \cup ToSet(edgeOuts[e]) \subseteq Nodes

\* Only edges of the graph are opened, and run() ends with an empty queue.
Drained ==
  /\ \A e \in Edge : m_state[e] # "Closed" => e \in Edges
  /\ pc = "done" => m_q = <<>>

IInv == Inv /\ Declared /\ Settled /\ Drained
-----------------------------------------------------------------------------
(* Type correctness.                                                       *)

\* The front of a queue stays where it is when something is appended.
LEMMA FrontKept ==
  ASSUME NEW S, NEW q \in Seq(S), q # <<>>, NEW x \in S
  PROVE  Head(Append(q, x)) = Head(q) /\ Append(q, x) # <<>>
OBVIOUS

\* Edge::stat keeps the queue and the states well typed, and keeps the edge
\* that is being run at the front.
LEMMA EdgeStatType ==
  ASSUME TypeOK, NEW e \in Edge, EdgeStat(e)
  PROVE  /\ m_q' \in Seq(Edge)
         /\ m_state' \in [Edge -> {"Closed", "Open", "Done"}]
         /\ m_q # <<>> => m_q' # <<>> /\ Current' = Current
<1>1. CASE Opens(e)
  <2>1. m_state' = [m_state EXCEPT ![e] = "Open"] /\ m_q' = Append(m_q, e)
    BY <1>1 DEF EdgeStat
  <2>2. m_q \in Seq(Edge) /\ m_state \in [Edge -> {"Closed", "Open", "Done"}]
    BY DEF TypeOK
  <2>3. m_state' \in [Edge -> {"Closed", "Open", "Done"}]
    BY <2>1, <2>2
  <2>4. QED BY <2>1, <2>2, <2>3, FrontKept DEF Current
<1>2. CASE ~Opens(e)
  BY <1>2 DEF EdgeStat, TypeOK, Current
<1>3. QED BY <1>1, <1>2

LEMMA TypeInit == Init => TypeOK
<1> SUFFICES ASSUME Init PROVE TypeOK
  OBVIOUS
<1>1. m_nodes \in Seq(Node) /\ m_edges \in Seq(Edge) /\ m_q \in Seq(Edge)
  BY DEF Init
<1>2. nodeIns \in [Node -> Seq(Edge)] /\ nodeOuts \in [Node -> Seq(Edge)]
  BY DEF Init
<1>3. edgeIns \in [Edge -> Seq(Node)] /\ edgeOuts \in [Edge -> Seq(Node)]
  BY DEF Init
<1>4. m_ready \in [Node -> BOOLEAN] /\ m_run \in BOOLEAN
  BY DEF Init
<1>5. m_state \in [Edge -> {"Closed", "Open", "Done"}]
  BY DEF Init
<1>6. pc = "build" /\ i = 1 /\ j = 1 /\ links = 0
  BY DEF Init
<1>7. QED BY <1>1, <1>2, <1>3, <1>4, <1>5, <1>6 DEF TypeOK, Places

LEMMA TypeStep ==
  ASSUME TypeOK, [Next]_vars
  PROVE  TypeOK'
<1>1. ASSUME NEW n \in Node, AddNode(n) PROVE TypeOK'
  BY <1>1 DEF TypeOK, Places, AddNode, running, Current
<1>2. ASSUME NEW e \in Edge, AddEdge(e) PROVE TypeOK'
  BY <1>2 DEF TypeOK, Places, AddEdge, running, Current
<1>3. ASSUME NEW e \in Edge, NEW n \in Node, In(e, n) PROVE TypeOK'
  BY <1>3 DEF TypeOK, Places, In, running, Current
<1>4. ASSUME NEW e \in Edge, NEW n \in Node, Out(e, n) PROVE TypeOK'
  BY <1>4 DEF TypeOK, Places, Out, running, Current
<1>5. CASE Run
  BY <1>5 DEF TypeOK, Places, Run, shape
<1>6. CASE StatSelf
  <2>1. m_nodes[i] \in Node
    BY <1>6 DEF StatSelf, TypeOK
  <2>2. QED
    BY <1>6, <2>1 DEF TypeOK, Places, StatSelf, shape, BecomesReady, WritersDone
<1>7. CASE NodesSeen
  BY <1>7 DEF TypeOK, Places, NodesSeen, shape
<1>8. CASE StatEdge
  <2>1. m_edges[i] \in Edge
    BY <1>8 DEF StatEdge, TypeOK
  <2>2. QED
    BY <1>8, <2>1, EdgeStatType DEF TypeOK, Places, StatEdge, shape
<1>9. CASE EdgesSeen
  BY <1>9 DEF TypeOK, Places, EdgesSeen, shape
<1>10. CASE TakeFront
  BY <1>10 DEF TypeOK, Places, TakeFront, shape
<1>11. CASE RuleReturns
  <2>1. Current \in Edge
    BY <1>11 DEF RuleReturns, TypeOK, Current
  <2>2. QED
    BY <1>11, <2>1 DEF TypeOK, Places, RuleReturns, shape
<1>12. CASE RuleThrows
  BY <1>12 DEF TypeOK, Places, RuleThrows, shape
<1>13. CASE StatOut
  <2>1. Current \in Edge /\ Current' = Current
    BY <1>13 DEF StatOut, TypeOK, Current
  <2>2. edgeOuts[Current][i] \in Node
    BY <1>13, <2>1 DEF StatOut, TypeOK
  <2>3. pc = "outs" /\ i <= Len(edgeOuts[Current]) /\ UNCHANGED <<shape, m_q, m_run, m_state>>
    BY <1>13 DEF StatOut
  <2>4. CASE BecomesReady(edgeOuts[Current][i])
    <3>1. /\ m_ready' = [m_ready EXCEPT ![edgeOuts[Current][i]] = TRUE]
          /\ pc' = "stat" /\ j' = 1 /\ i' = i
      BY <1>13, <2>4 DEF StatOut
    <3>2. QED BY <2>1, <2>2, <2>3, <3>1 DEF TypeOK, Places, shape
  <2>5. CASE ~BecomesReady(edgeOuts[Current][i])
    <3>1. i' = i + 1 /\ UNCHANGED <<m_ready, pc, j>>
      BY <1>13, <2>5 DEF StatOut
    <3>2. QED BY <2>1, <2>3, <3>1 DEF TypeOK, Places, shape
  <2>6. QED BY <2>4, <2>5
<1>14. CASE StatReader
  <2> DEFINE readers == nodeOuts[edgeOuts[Current][i]]
  <2>0. pc = "stat" /\ UNCHANGED <<shape, m_run, m_ready>>
    BY <1>14 DEF StatReader
  <2>1. Current \in Edge /\ m_q # <<>> /\ i <= Len(edgeOuts[Current])
    BY <2>0 DEF TypeOK, Current
  <2>2. readers \in Seq(Edge)
    BY <2>1 DEF TypeOK
  <2>3. CASE j <= Len(readers)
    <3>1. EdgeStat(readers[j])
      BY <1>14, <2>3 DEF StatReader
    <3>0. j' = j + 1 /\ pc' = pc /\ i' = i
      BY <1>14, <2>3 DEF StatReader
    <3>2. readers[j] \in Edge
      BY <2>2, <2>3 DEF TypeOK
    <3>3. /\ m_q' \in Seq(Edge)
          /\ m_state' \in [Edge -> {"Closed", "Open", "Done"}]
          /\ m_q' # <<>> /\ Current' = Current
      BY <2>1, <3>1, <3>2, EdgeStatType
    <3>4. i <= Len(edgeOuts[Current])'
      BY <2>0, <2>1, <3>0, <3>3 DEF shape
    <3>5. UNCHANGED <<m_nodes, m_edges, nodeIns, nodeOuts, edgeIns, edgeOuts, links, m_run, m_ready, pc, i>>
      BY <2>0, <3>0 DEF shape
    <3>6. j' \in Nat \ {0}
      BY <3>0 DEF TypeOK
    <3>7. QED
      BY <3>3, <3>4, <3>5, <3>6 DEF TypeOK
  <2>4. CASE ~(j <= Len(readers))
    <3>1. pc' = "outs" /\ i' = i + 1 /\ UNCHANGED <<m_state, m_q, j>>
      BY <1>14, <2>4 DEF StatReader
    <3>2. QED
      BY <2>0, <2>1, <3>1 DEF TypeOK, Places, shape, Current
  <2>5. QED BY <2>3, <2>4
<1>15. CASE Pop
  BY <1>15 DEF TypeOK, Places, Pop, shape
<1>16. CASE Finish
  BY <1>16 DEF TypeOK, Places, Finish, shape
<1>17. CASE UNCHANGED vars
  BY <1>17 DEF TypeOK, Places, vars, shape, Current
<1>18. QED
  BY <1>1, <1>2, <1>3, <1>4, <1>5, <1>6, <1>7, <1>8, <1>9, <1>10, <1>11, <1>12,
     <1>13, <1>14, <1>15, <1>16, <1>17
  DEF Next, Build, Walk, Terminated

\* Every state of the graph is well typed, and the edge being run is always at
\* the front of the queue while run() is inside Edge::run.
THEOREM TypeCorrect == Spec => []TypeOK
BY TypeInit, TypeStep, PTL DEF Spec

-----------------------------------------------------------------------------
(* The safety invariant.                                                   *)

LEMMA InvInit == Init => Inv
<1> SUFFICES ASSUME Init PROVE Inv
  OBVIOUS
<1>1. TypeOK
  BY TypeInit
<1>2. Linked
  BY DEF Init, Linked, ToSet
<1>3. Fresh
  BY DEF Init, Fresh
<1>4. QueueIsOpen
  BY DEF Init, QueueIsOpen
<1>5. InputsComplete
  BY DEF Init, InputsComplete
<1>6. CyclesClosed
  BY DEF Init, CyclesClosed
<1>7. QED BY <1>1, <1>2, <1>3, <1>4, <1>5, <1>6 DEF Inv

\* Building the graph moves no edge and no node, so only the links matter.
LEMMA BuildInv ==
  ASSUME Inv, TypeOK', pc = "build", UNCHANGED running, Linked'
  PROVE  Inv'
<1>0. UNCHANGED <<m_q, m_ready, m_run, m_state, pc>>
  BY DEF running
<1>1. /\ m_q = <<>> /\ ~m_run
      /\ \A n \in Node : ~m_ready[n]
      /\ \A e \in Edge : m_state[e] = "Closed"
  BY DEF Inv, Fresh
<1>2. Fresh'
  BY <1>0, <1>1 DEF Fresh
<1>3. QueueIsOpen'
  BY <1>0, <1>1 DEF QueueIsOpen
<1>4. InputsComplete'
  BY <1>0, <1>1 DEF InputsComplete
<1>5. CyclesClosed'
  BY <1>0, <1>1 DEF CyclesClosed
<1>6. QED BY <1>2, <1>3, <1>4, <1>5 DEF Inv

\* A step that only moves the program counter.
LEMMA SilentInv ==
  ASSUME Inv, TypeOK', UNCHANGED <<shape, m_q, m_ready, m_state>>,
         Through' <=> Through,
         pc' = "build" => pc = "build" /\ m_run' = m_run
  PROVE  Inv'
<1>1. Linked'
  BY DEF Inv, Linked, shape
<1>2. Fresh'
  BY DEF Inv, Fresh
<1>3. QueueIsOpen'
  BY DEF Inv, QueueIsOpen
<1>4. InputsComplete'
  BY DEF Inv, InputsComplete, WritersDone, shape
<1>5. CyclesClosed'
  BY DEF Inv, CyclesClosed, Cyclic, DependsOn, shape
<1>6. QED BY <1>1, <1>2, <1>3, <1>4, <1>5 DEF Inv

\* A node becomes ready, all its writers being Done.
LEMMA ReadyInv ==
  ASSUME Inv, TypeOK', UNCHANGED <<shape, m_q, m_state>>,
         NEW n \in Node, WritersDone(n),
         m_ready' = [m_ready EXCEPT ![n] = TRUE],
         Through' <=> Through, pc' # "build"
  PROVE  Inv'
<1>1. Linked'
  BY DEF Inv, Linked, shape
<1>2. Fresh'
  BY DEF Fresh
<1>3. QueueIsOpen'
  BY DEF Inv, QueueIsOpen
<1>4. InputsComplete'
  <2>1. \A m \in Node : m_ready'[m] => m_ready[m] \/ m = n
    BY DEF Inv, TypeOK
  <2>2. \A m \in Node : m_ready[m] => m_ready'[m]
    BY DEF Inv, TypeOK
  <2>3. \A m \in Node : WritersDone(m) => WritersDone(m)'
    BY DEF WritersDone, shape
  <2>4. \A e \in Edge : edgeIns'[e] = edgeIns[e] /\ edgeIns[e] \in Seq(Node)
    BY DEF shape, Inv, TypeOK
  <2>5. QED BY <2>1, <2>2, <2>3, <2>4 DEF Inv, InputsComplete
<1>5. CyclesClosed'
  BY DEF Inv, CyclesClosed, Cyclic, DependsOn, shape
<1>6. QED BY <1>1, <1>2, <1>3, <1>4, <1>5 DEF Inv

\* Edge::stat: opening an edge queues it once, and its inputs are complete.
LEMMA EdgeStatInv ==
  ASSUME Inv, TypeOK', NEW e \in Edge, EdgeStat(e),
         UNCHANGED <<shape, m_ready>>,
         Through' <=> Through, Through => m_q # <<>>, pc' # "build"
  PROVE  Inv'
<1>1. CASE ~Opens(e)
  <2>1. UNCHANGED <<m_q, m_state>>
    BY <1>1 DEF EdgeStat
  <2>2. QED BY <2>1, SilentInv
<1>2. CASE Opens(e)
  <2>1. m_state' = [m_state EXCEPT ![e] = "Open"] /\ m_q' = Append(m_q, e)
    BY <1>2 DEF EdgeStat
  <2>2. m_state[e] = "Closed" /\ \A k \in DOMAIN edgeIns[e] : m_ready[edgeIns[e][k]]
    BY <1>2 DEF Opens
  <2>3. m_q \in Seq(Edge) /\ m_state \in [Edge -> {"Closed", "Open", "Done"}]
    BY DEF Inv, TypeOK
  <2>4. Linked'
    BY DEF Inv, Linked, shape
  <2>5. Fresh'
    BY DEF Fresh
  <2>6. QueueIsOpen'
    <3>1. /\ \A k, l \in 1..Len(m_q) : m_q[k] = m_q[l] => k = l
          /\ \A k \in 1..Len(m_q) :
               m_state[m_q[k]] = IF Through /\ k = 1 THEN "Done" ELSE "Open"
          /\ \A d \in Edge : m_state[d] = "Open" => d \in ToSet(m_q)
      BY DEF Inv, QueueIsOpen
    <3>2. \A k \in 1..Len(m_q) : m_q[k] # e
      BY <3>1, <2>2
    <3>3. /\ Len(m_q') = Len(m_q) + 1
          /\ \A k \in 1..Len(m_q) : m_q'[k] = m_q[k]
          /\ m_q'[Len(m_q) + 1] = e
      BY <2>1, <2>3
    <3>4. \A k, l \in 1..Len(m_q') : m_q'[k] = m_q'[l] => k = l
      BY <3>1, <3>2, <3>3, <2>3
    <3>5. \A k \in 1..Len(m_q') :
            m_state'[m_q'[k]] = IF Through' /\ k = 1 THEN "Done" ELSE "Open"
      <4>1. TAKE k \in 1..Len(m_q')
      <4>2. CASE k = Len(m_q) + 1
        <5>1. m_state'[m_q'[k]] = "Open"
          BY <4>2, <3>3, <2>1, <2>3
        <5>2. ~(Through' /\ k = 1)
          BY <4>2, <2>3
        <5>3. QED BY <5>1, <5>2
      <4>3. CASE k \in 1..Len(m_q)
        BY <4>3, <3>1, <3>2, <3>3, <2>1, <2>3
      <4>4. QED BY <4>2, <4>3, <3>3, <2>3
    <3>6. ASSUME NEW d \in Edge, m_state'[d] = "Open" PROVE d \in ToSet(m_q')
      <4>1. CASE d = e
        BY <4>1, <3>3, <2>1, <2>3 DEF ToSet
      <4>2. CASE d # e
        <5>1. m_state[d] = "Open"
          BY <4>2, <3>6, <2>1, <2>3
        <5>2. PICK k \in 1..Len(m_q) : m_q[k] = d
          BY <5>1, <3>1, <2>3 DEF ToSet
        <5>3. QED BY <5>2, <3>3, <2>1, <2>3 DEF ToSet
      <4>3. QED BY <4>1, <4>2
    <3>7. QED BY <3>4, <3>5, <3>6 DEF QueueIsOpen
  <2>7. InputsComplete'
    <3>1. \A d \in Edge : m_state[d] = "Done" <=> m_state'[d] = "Done"
      BY <2>1, <2>2, <2>3
    <3>2. \A n \in Node : nodeIns'[n] = nodeIns[n] /\ nodeIns[n] \in Seq(Edge)
      BY DEF shape, Inv, TypeOK
    <3>3. \A n \in Node : WritersDone(n) => WritersDone(n)'
      BY <3>1, <3>2 DEF WritersDone
    <3>4. \A d \in Edge : m_state'[d] # "Closed" => d = e \/ m_state[d] # "Closed"
      BY <2>1, <2>3
    <3>5. QED BY <2>2, <3>3, <3>4 DEF Inv, InputsComplete, shape
  <2>8. CyclesClosed'
    <3> SUFFICES ASSUME NEW S \in SUBSET Edge, Cyclic(S), e \in S PROVE FALSE
      <4>1. \A S \in SUBSET Edge : Cyclic(S)' <=> Cyclic(S)
        BY DEF Cyclic, DependsOn, shape
      <4>2. \A d \in Edge : d # e => m_state'[d] = m_state[d]
        BY <2>1, <2>3
      <4>3. QED BY <4>1, <4>2 DEF Inv, CyclesClosed
    <3>1. PICK d \in S : DependsOn(e, d)
      BY DEF Cyclic
    <3>2. PICK n \in Node : n \in ToSet(edgeIns[e]) /\ n \in ToSet(edgeOuts[d])
      <4>1. ToSet(edgeIns[e]) \subseteq Node
        BY DEF ToSet, Inv, TypeOK
      <4>2. QED BY <3>1, <4>1 DEF DependsOn
    <3>3. m_ready[n]
      BY <3>2, <2>2 DEF ToSet
    <3>4. WritersDone(n)
      BY <3>3 DEF Inv, InputsComplete
    <3>5. d \in ToSet(nodeIns[n])
      BY <3>2 DEF Inv, Linked
    <3>6. m_state[d] = "Done"
      BY <3>4, <3>5 DEF WritersDone, ToSet
    <3>7. QED BY <3>6 DEF Inv, CyclesClosed
  <2>9. QED BY <2>4, <2>5, <2>6, <2>7, <2>8 DEF Inv
<1>3. QED BY <1>1, <1>2

\* The rule of the edge at the front returns.
LEMMA RuleInv == ASSUME Inv, TypeOK', RuleReturns PROVE Inv'
<1>1. /\ pc = "rule" /\ pc' = "outs" /\ m_q' = m_q /\ m_ready' = m_ready
      /\ m_state' = [m_state EXCEPT ![Current] = "Done"]
      /\ UNCHANGED shape
  BY DEF RuleReturns
<1>2. /\ m_q \in Seq(Edge) /\ m_q # <<>>
      /\ m_state \in [Edge -> {"Closed", "Open", "Done"}]
  BY <1>1 DEF Inv, TypeOK
<1>3. Current = m_q[1] /\ Current \in Edge /\ 1 \in 1..Len(m_q)
  BY <1>2 DEF Current
<1>4. ~Through /\ Through'
  BY <1>1 DEF Through
<1>5. /\ \A k, l \in 1..Len(m_q) : m_q[k] = m_q[l] => k = l
      /\ \A k \in 1..Len(m_q) : m_state[m_q[k]] = "Open"
      /\ \A d \in Edge : m_state[d] = "Open" => d \in ToSet(m_q)
  BY <1>4 DEF Inv, QueueIsOpen
<1>6. Linked'
  BY <1>1 DEF Inv, Linked, shape
<1>7. Fresh'
  BY <1>1 DEF Fresh
<1>8. QueueIsOpen'
  BY <1>1, <1>2, <1>3, <1>4, <1>5 DEF QueueIsOpen
<1>9. InputsComplete'
  <2>1. \A d \in Edge : m_state[d] = "Done" => m_state'[d] = "Done"
    BY <1>1, <1>2
  <2>2. \A n \in Node : nodeIns'[n] = nodeIns[n] /\ nodeIns[n] \in Seq(Edge)
    BY <1>1 DEF shape, Inv, TypeOK
  <2>3. \A n \in Node : WritersDone(n) => WritersDone(n)'
    BY <2>1, <2>2 DEF WritersDone
  <2>4. \A d \in Edge : m_state'[d] # "Closed" => m_state[d] # "Closed"
    BY <1>1, <1>2, <1>3, <1>5
  <2>5. QED BY <1>1, <2>3, <2>4 DEF Inv, InputsComplete, shape
<1>10. CyclesClosed'
  <2>1. \A d \in Edge : m_state[d] = "Closed" => m_state'[d] = "Closed"
    BY <1>1, <1>2, <1>3, <1>5
  <2>2. QED BY <1>1, <2>1 DEF Inv, CyclesClosed, Cyclic, DependsOn, shape
<1>11. QED BY <1>6, <1>7, <1>8, <1>9, <1>10 DEF Inv

\* The edge that has run leaves the queue.
LEMMA PopInv == ASSUME Inv, TypeOK', Pop PROVE Inv'
<1>1. /\ pc = "outs" /\ pc' = "loop" /\ m_q' = Tail(m_q)
      /\ UNCHANGED <<shape, m_ready, m_state>>
  BY DEF Pop
<1>2. m_q \in Seq(Edge) /\ m_q # <<>>
  BY <1>1 DEF Inv, TypeOK
<1>3. Through /\ ~Through'
  BY <1>1 DEF Through
<1>4. /\ \A k, l \in 1..Len(m_q) : m_q[k] = m_q[l] => k = l
      /\ \A k \in 1..Len(m_q) : m_state[m_q[k]] = IF k = 1 THEN "Done" ELSE "Open"
      /\ \A d \in Edge : m_state[d] = "Open" => d \in ToSet(m_q)
  BY <1>3 DEF Inv, QueueIsOpen
<1>5. /\ Len(m_q') = Len(m_q) - 1
      /\ \A k \in 1..Len(m_q') : m_q'[k] = m_q[k + 1] /\ k + 1 \in 1..Len(m_q)
  BY <1>1, <1>2
<1>6. QueueIsOpen'
  <2>1. \A k, l \in 1..Len(m_q') : m_q'[k] = m_q'[l] => k = l
    BY <1>4, <1>5, <1>2
  <2>2. \A k \in 1..Len(m_q') : m_state'[m_q'[k]] = "Open"
    BY <1>1, <1>4, <1>5, <1>2
  <2>3. ASSUME NEW d \in Edge, m_state'[d] = "Open" PROVE d \in ToSet(m_q')
    <3>1. PICK k \in 1..Len(m_q) : m_q[k] = d
      BY <2>3, <1>1, <1>2, <1>4 DEF ToSet
    <3>2. k # 1
      BY <3>1, <2>3, <1>1, <1>4
    <3>3. k - 1 \in 1..Len(m_q') /\ m_q'[k - 1] = d
      BY <3>1, <3>2, <1>2, <1>5
    <3>4. m_q' \in Seq(Edge)
      BY <1>1, <1>2
    <3>5. QED BY <3>3, <3>4 DEF ToSet
  <2>4. QED BY <1>3, <2>1, <2>2, <2>3 DEF QueueIsOpen
<1>7. Linked'
  BY <1>1 DEF Inv, Linked, shape
<1>8. Fresh'
  BY <1>1 DEF Fresh
<1>9. InputsComplete'
  BY <1>1 DEF Inv, InputsComplete, WritersDone, shape
<1>10. CyclesClosed'
  BY <1>1 DEF Inv, CyclesClosed, Cyclic, DependsOn, shape
<1>11. QED BY <1>6, <1>7, <1>8, <1>9, <1>10 DEF Inv

LEMMA AppendSet ==
  ASSUME NEW S, NEW q \in Seq(S), NEW x \in S
  PROVE  ToSet(Append(q, x)) = ToSet(q) \cup {x}
<1> DEFINE r == Append(q, x)
<1>1. /\ r \in Seq(S) /\ Len(r) = Len(q) + 1
      /\ \A k \in 1..Len(q) : r[k] = q[k]
      /\ r[Len(q) + 1] = x
  OBVIOUS
<1>2. DOMAIN r = 1..(Len(q) + 1) /\ DOMAIN q = 1..Len(q) /\ Len(q) \in Nat
  BY <1>1
<1> HIDE DEF r
<1>3. ASSUME NEW y \in ToSet(r) PROVE y \in ToSet(q) \cup {x}
  <2>1. PICK k \in 1..(Len(q) + 1) : y = r[k]
    BY <1>2, <1>3 DEF ToSet
  <2>2. QED BY <2>1, <1>1, <1>2 DEF ToSet
<1>4. ASSUME NEW y \in ToSet(q) \cup {x} PROVE y \in ToSet(r)
  <2>1. CASE y = x
    <3>1. Len(q) + 1 \in DOMAIN r
      BY <1>2
    <3>2. QED BY <2>1, <3>1, <1>1 DEF ToSet
  <2>2. CASE y \in ToSet(q)
    <3>1. PICK k \in 1..Len(q) : y = q[k]
      BY <2>2, <1>2 DEF ToSet
    <3>2. k \in DOMAIN r
      BY <1>2
    <3>3. QED BY <3>1, <3>2, <1>1 DEF ToSet
  <2>3. QED BY <1>4, <2>1, <2>2
<1>5. ToSet(r) = ToSet(q) \cup {x}
  BY <1>3, <1>4
<1>6. QED BY <1>5 DEF r

LEMMA InvStep == ASSUME Inv, [Next]_vars PROVE Inv'
<1>0. TypeOK'
  BY TypeStep DEF Inv
<1>1. ASSUME NEW n \in Node, AddNode(n) PROVE Inv'
  <2>1. pc = "build" /\ UNCHANGED running /\ UNCHANGED <<nodeIns, nodeOuts, edgeIns, edgeOuts>>
    BY <1>1 DEF AddNode
  <2>2. Linked'
    BY <2>1 DEF Inv, Linked
  <2>3. QED BY <1>0, <2>1, <2>2, BuildInv
<1>2. ASSUME NEW e \in Edge, AddEdge(e) PROVE Inv'
  <2>1. pc = "build" /\ UNCHANGED running /\ UNCHANGED <<nodeIns, nodeOuts, edgeIns, edgeOuts>>
    BY <1>2 DEF AddEdge
  <2>2. Linked'
    BY <2>1 DEF Inv, Linked
  <2>3. QED BY <1>0, <2>1, <2>2, BuildInv
<1>3. ASSUME NEW e \in Edge, NEW n \in Node, In(e, n) PROVE Inv'
  <2>1. /\ pc = "build" /\ UNCHANGED running
        /\ nodeIns' = nodeIns /\ edgeOuts' = edgeOuts
        /\ edgeIns' = [edgeIns EXCEPT ![e] = Append(@, n)]
        /\ nodeOuts' = [nodeOuts EXCEPT ![n] = Append(@, e)]
    BY <1>3 DEF In
  <2>2. edgeIns \in [Edge -> Seq(Node)] /\ nodeOuts \in [Node -> Seq(Edge)]
    BY DEF Inv, TypeOK
  <2>3. \A d \in Edge : ToSet(edgeIns'[d]) = ToSet(edgeIns[d]) \cup (IF d = e THEN {n} ELSE {})
    BY <2>1, <2>2, AppendSet
  <2>4. \A m \in Node : ToSet(nodeOuts'[m]) = ToSet(nodeOuts[m]) \cup (IF m = n THEN {e} ELSE {})
    BY <2>1, <2>2, AppendSet
  <2>5. Linked'
    BY <2>1, <2>3, <2>4 DEF Inv, Linked
  <2>6. QED BY <1>0, <2>1, <2>5, BuildInv
<1>4. ASSUME NEW e \in Edge, NEW n \in Node, Out(e, n) PROVE Inv'
  <2>1. /\ pc = "build" /\ UNCHANGED running
        /\ nodeOuts' = nodeOuts /\ edgeIns' = edgeIns
        /\ edgeOuts' = [edgeOuts EXCEPT ![e] = Append(@, n)]
        /\ nodeIns' = [nodeIns EXCEPT ![n] = Append(@, e)]
    BY <1>4 DEF Out
  <2>2. edgeOuts \in [Edge -> Seq(Node)] /\ nodeIns \in [Node -> Seq(Edge)]
    BY DEF Inv, TypeOK
  <2>3. \A d \in Edge : ToSet(edgeOuts'[d]) = ToSet(edgeOuts[d]) \cup (IF d = e THEN {n} ELSE {})
    BY <2>1, <2>2, AppendSet
  <2>4. \A m \in Node : ToSet(nodeIns'[m]) = ToSet(nodeIns[m]) \cup (IF m = n THEN {e} ELSE {})
    BY <2>1, <2>2, AppendSet
  <2>5. Linked'
    BY <2>1, <2>3, <2>4 DEF Inv, Linked
  <2>6. QED BY <1>0, <2>1, <2>5, BuildInv
<1>5. CASE Run
  BY <1>0, <1>5, SilentInv DEF Run, Through
<1>6. CASE StatSelf
  <2>1. /\ pc = "nodes" /\ pc' = "nodes" /\ UNCHANGED <<shape, m_q, m_state>>
        /\ m_ready' = [m_ready EXCEPT ![m_nodes[i]] = @ \/ BecomesReady(m_nodes[i])]
        /\ i <= Len(m_nodes)
    BY <1>6 DEF StatSelf
  <2>2. m_nodes[i] \in Node /\ m_ready \in [Node -> BOOLEAN]
    BY <2>1 DEF Inv, TypeOK
  <2>3. ~Through /\ ~Through'
    BY <2>1 DEF Through
  <2>4. CASE BecomesReady(m_nodes[i])
    <3>1. m_ready' = [m_ready EXCEPT ![m_nodes[i]] = TRUE]
      BY <2>1, <2>2, <2>4
    <3>2. WritersDone(m_nodes[i])
      BY <2>4 DEF BecomesReady
    <3>3. QED BY <1>0, <2>1, <2>2, <2>3, <3>1, <3>2, ReadyInv
  <2>5. CASE ~BecomesReady(m_nodes[i])
    <3>1. m_ready' = m_ready
      BY <2>1, <2>2, <2>5
    <3>2. QED BY <1>0, <2>1, <2>3, <3>1, SilentInv
  <2>6. QED BY <2>4, <2>5
<1>7. CASE NodesSeen
  BY <1>0, <1>7, SilentInv DEF NodesSeen, Through
<1>8. CASE StatEdge
  <2>1. /\ pc = "edges" /\ pc' = "edges" /\ UNCHANGED <<shape, m_ready>>
        /\ i <= Len(m_edges)
    BY <1>8 DEF StatEdge
  <2>2. EdgeStat(m_edges[i])
    BY <1>8 DEF StatEdge
  <2>3. m_edges[i] \in Edge
    BY <2>1 DEF Inv, TypeOK
  <2>4. ~Through /\ ~Through'
    BY <2>1 DEF Through
  <2>5. QED BY <1>0, <2>1, <2>2, <2>3, <2>4, EdgeStatInv
<1>9. CASE EdgesSeen
  BY <1>0, <1>9, SilentInv DEF EdgesSeen, Through
<1>10. CASE TakeFront
  BY <1>0, <1>10, SilentInv DEF TakeFront, Through
<1>11. CASE RuleReturns
  BY <1>0, <1>11, RuleInv
<1>12. CASE RuleThrows
  BY <1>0, <1>12, SilentInv DEF RuleThrows, Through
<1>13. CASE StatOut
  <2> DEFINE n == edgeOuts[Current][i]
  <2>1. /\ pc = "outs" /\ i <= Len(edgeOuts[Current])
        /\ UNCHANGED <<shape, m_q, m_state>>
    BY <1>13 DEF StatOut
  <2>2. Current \in Edge
    BY <2>1 DEF Inv, TypeOK, Current
  <2>3. n \in Node
    BY <2>1, <2>2 DEF Inv, TypeOK
  <2>4. CASE BecomesReady(n)
    <3>1. m_ready' = [m_ready EXCEPT ![n] = TRUE] /\ pc' = "stat"
      BY <1>13, <2>4 DEF StatOut
    <3>2. WritersDone(n)
      BY <2>4 DEF BecomesReady
    <3>3. Through /\ Through'
      BY <2>1, <3>1 DEF Through
    <3>4. QED BY <1>0, <2>1, <2>3, <3>1, <3>2, <3>3, ReadyInv
  <2>5. CASE ~BecomesReady(n)
    <3>1. m_ready' = m_ready /\ pc' = pc
      BY <1>13, <2>5 DEF StatOut
    <3>2. QED BY <1>0, <2>1, <3>1, SilentInv DEF Through
  <2>6. QED BY <2>4, <2>5
<1>14. CASE StatReader
  <2> DEFINE readers == nodeOuts[edgeOuts[Current][i]]
  <2>1. pc = "stat" /\ UNCHANGED <<shape, m_ready>>
    BY <1>14 DEF StatReader
  <2>2. Current \in Edge /\ m_q # <<>> /\ i <= Len(edgeOuts[Current])
    BY <2>1 DEF Inv, TypeOK, Current
  <2>3. readers \in Seq(Edge)
    BY <2>2 DEF Inv, TypeOK
  <2>4. CASE j <= Len(readers)
    <3>1. EdgeStat(readers[j])
      BY <1>14, <2>4 DEF StatReader
    <3>2. pc' = pc
      BY <1>14, <2>4 DEF StatReader
    <3>3. readers[j] \in Edge
      BY <2>3, <2>4 DEF Inv, TypeOK
    <3>4. Through /\ Through'
      BY <2>1, <3>2 DEF Through
    <3>5. QED BY <1>0, <2>1, <2>2, <3>1, <3>2, <3>3, <3>4, EdgeStatInv
  <2>5. CASE ~(j <= Len(readers))
    <3>1. pc' = "outs" /\ UNCHANGED <<m_state, m_q>>
      BY <1>14, <2>5 DEF StatReader
    <3>2. Through /\ Through'
      BY <2>1, <3>1 DEF Through
    <3>3. QED BY <1>0, <2>1, <3>1, <3>2, SilentInv
  <2>6. QED BY <2>4, <2>5
<1>15. CASE Pop
  BY <1>0, <1>15, PopInv
<1>16. CASE Finish
  BY <1>0, <1>16, SilentInv DEF Finish, Through
<1>17. CASE UNCHANGED vars
  BY <1>0, <1>17, SilentInv DEF vars, Through
<1>18. QED
  BY <1>1, <1>2, <1>3, <1>4, <1>5, <1>6, <1>7, <1>8, <1>9, <1>10, <1>11, <1>12,
     <1>13, <1>14, <1>15, <1>16, <1>17
  DEF Next, Build, Walk, Terminated

THEOREM InvCorrect == Spec => []Inv
BY InvInit, InvStep, PTL DEF Spec

\* The queue always holds the Open edges, each once: no edge is lost between
\* Edge::stat and run(), and none is run twice.
THEOREM QueueCorrect == Spec => []QueueIsOpen
<1>1. Inv => QueueIsOpen
  BY DEF Inv
<1>2. QED BY <1>1, InvCorrect, PTL

\* A rule runs only when everything its edge reads has been written by every
\* edge that writes it.
THEOREM InputsCorrect == Spec => []InputsComplete
<1>1. Inv => InputsComplete
  BY DEF Inv
<1>2. QED BY <1>1, InvCorrect, PTL

\* An edge that has inputs and outputs passes the assertions of Edge::run: its
\* outputs cannot be ready yet.
LEMMA AssertionsHold == Inv => OnlyEmptyEdgesAbort
<1> SUFFICES ASSUME Inv, pc = "loop", m_q # <<>>,
                    edgeIns[Current] # <<>>, edgeOuts[Current] # <<>>
             PROVE  RunAssertions(Current)
  BY DEF OnlyEmptyEdgesAbort
<1>1. Current = m_q[1] /\ Current \in Edge /\ 1 \in 1..Len(m_q)
  BY DEF Inv, TypeOK, Current
<1>2. m_state[Current] = "Open"
  BY <1>1 DEF Inv, QueueIsOpen, Through
<1>3. \A k \in DOMAIN edgeIns[Current] : m_ready[edgeIns[Current][k]]
  BY <1>1, <1>2 DEF Inv, InputsComplete
<1>4. ASSUME NEW k \in DOMAIN edgeOuts[Current] PROVE ~m_ready[edgeOuts[Current][k]]
  <2> DEFINE n == edgeOuts[Current][k]
  <2>1. n \in Node /\ n \in ToSet(edgeOuts[Current])
    BY <1>1 DEF ToSet, Inv, TypeOK
  <2>2. Current \in ToSet(nodeIns[n])
    BY <2>1, <1>1 DEF Inv, Linked
  <2>3. ~WritersDone(n)
    BY <2>2, <1>2 DEF WritersDone, ToSet
  <2>4. QED BY <2>1, <2>3 DEF Inv, InputsComplete
<1>5. QED BY <1>2, <1>3, <1>4 DEF RunAssertions

\* Of the assertions of Edge::run only those about an edge without inputs or
\* outputs can fail: the outputs of an Open edge cannot be ready yet.
THEOREM AssertionsCorrect == Spec => []OnlyEmptyEdgesAbort
BY AssertionsHold, InvCorrect, PTL

-----------------------------------------------------------------------------
(* Completeness: what run() leaves behind.                                 *)

LEMMA DeclaredStep == ASSUME IInv, [Next]_vars PROVE Declared'
<1>0. /\ edgeIns \in [Edge -> Seq(Node)] /\ edgeOuts \in [Edge -> Seq(Node)]
      /\ nodeIns \in [Node -> Seq(Edge)] /\ nodeOuts \in [Node -> Seq(Edge)]
      /\ m_nodes \in Seq(Node) /\ m_edges \in Seq(Edge)
  BY DEF IInv, Inv, TypeOK
<1>1. ASSUME NEW n \in Node, AddNode(n) PROVE Declared'
  <2>1. UNCHANGED <<m_edges, nodeIns, nodeOuts, edgeIns, edgeOuts>> /\ m_nodes' = Append(m_nodes, n)
    BY <1>1 DEF AddNode
  <2>2. Nodes' = Nodes \cup {n} /\ Edges' = Edges
    BY <1>0, <2>1, AppendSet DEF Nodes, Edges
  <2>3. QED BY <2>1, <2>2 DEF IInv, Declared
<1>2. ASSUME NEW e \in Edge, AddEdge(e) PROVE Declared'
  <2>1. UNCHANGED <<m_nodes, nodeIns, nodeOuts, edgeIns, edgeOuts>> /\ m_edges' = Append(m_edges, e)
    BY <1>2 DEF AddEdge
  <2>2. Edges' = Edges \cup {e} /\ Nodes' = Nodes
    BY <1>0, <2>1, AppendSet DEF Nodes, Edges
  <2>3. QED BY <2>1, <2>2 DEF IInv, Declared
<1>3. ASSUME NEW e \in Edge, NEW n \in Node, In(e, n) PROVE Declared'
  <2>1. /\ UNCHANGED <<m_nodes, m_edges, nodeIns, edgeOuts>> /\ e \in Edges /\ n \in Nodes
        /\ edgeIns' = [edgeIns EXCEPT ![e] = Append(@, n)]
        /\ nodeOuts' = [nodeOuts EXCEPT ![n] = Append(@, e)]
    BY <1>3 DEF In
  <2>2. \A d \in Edge : ToSet(edgeIns'[d]) \subseteq ToSet(edgeIns[d]) \cup {n}
    BY <2>1, <1>0, AppendSet
  <2>3. \A m \in Node : ToSet(nodeOuts'[m]) \subseteq ToSet(nodeOuts[m]) \cup {e}
    BY <2>1, <1>0, AppendSet
  <2>4. QED BY <2>1, <2>2, <2>3 DEF IInv, Declared, Nodes, Edges
<1>4. ASSUME NEW e \in Edge, NEW n \in Node, Out(e, n) PROVE Declared'
  <2>1. /\ UNCHANGED <<m_nodes, m_edges, nodeOuts, edgeIns>> /\ e \in Edges /\ n \in Nodes
        /\ edgeOuts' = [edgeOuts EXCEPT ![e] = Append(@, n)]
        /\ nodeIns' = [nodeIns EXCEPT ![n] = Append(@, e)]
    BY <1>4 DEF Out
  <2>2. \A d \in Edge : ToSet(edgeOuts'[d]) \subseteq ToSet(edgeOuts[d]) \cup {n}
    BY <2>1, <1>0, AppendSet
  <2>3. \A m \in Node : ToSet(nodeIns'[m]) \subseteq ToSet(nodeIns[m]) \cup {e}
    BY <2>1, <1>0, AppendSet
  <2>4. QED BY <2>1, <2>2, <2>3 DEF IInv, Declared, Nodes, Edges
<1>5. CASE UNCHANGED shape
  BY <1>5 DEF IInv, Declared, Nodes, Edges, shape
<1>6. QED
  BY <1>1, <1>2, <1>3, <1>4, <1>5
  DEF Next, Build, Run, Walk, StatSelf, NodesSeen, StatEdge, EdgesSeen, TakeFront,
      RuleReturns, RuleThrows, StatOut, StatReader, Pop, Finish, Terminated, vars

\* Edge::stat leaves nothing to do for its edge and makes no work elsewhere.
LEMMA EdgeStatSettles ==
  ASSUME Inv, NEW e \in Edge, EdgeStat(e), UNCHANGED <<shape, m_ready>>
  PROVE  /\ ~Opens(e)'
         /\ \A d \in Edge : Opens(d)' => Opens(d)
         /\ \A n \in Node : BecomesReady(n)' => BecomesReady(n)
<1>1. CASE ~Opens(e)
  <2>1. m_state' = m_state
    BY <1>1 DEF EdgeStat
  <2>2. QED BY <2>1, <1>1 DEF Opens, BecomesReady, WritersDone, shape
<1>2. CASE Opens(e)
  <2>1. m_state' = [m_state EXCEPT ![e] = "Open"]
    BY <1>2 DEF EdgeStat
  <2>2. m_state \in [Edge -> {"Closed", "Open", "Done"}] /\ m_state[e] = "Closed"
    BY <1>2 DEF Opens, Inv, TypeOK
  <2>3. \A d \in Edge : m_state'[d] = "Closed" => d # e /\ m_state[d] = "Closed"
    BY <2>1, <2>2
  <2>4. \A d \in Edge : m_state'[d] = "Done" => m_state[d] = "Done"
    BY <2>1, <2>2
  <2>5. \A n \in Node : nodeIns'[n] = nodeIns[n] /\ nodeIns[n] \in Seq(Edge)
    BY DEF shape, Inv, TypeOK
  <2>6. \A n \in Node : BecomesReady(n)' => BecomesReady(n)
    BY <2>4, <2>5 DEF BecomesReady, WritersDone
  <2>7. QED BY <2>3, <2>6 DEF Opens, shape
<1>3. QED BY <1>1, <1>2

\* Where nothing is pending, a step that moves only the program counter keeps
\* the graph settled.
LEMMA SettledSilent ==
  ASSUME Settled, UNCHANGED <<shape, m_ready, m_state>>,
         \A n \in Nodes : ~NodePending(n) \/ NodePending(n)',
         \A e \in Edges : ~EdgePending(e) \/ EdgePending(e)'
  PROVE  Settled'
<1>1. Nodes' = Nodes /\ Edges' = Edges
  BY DEF Nodes, Edges, shape
<1>2. \A n \in Nodes : BecomesReady(n)' <=> BecomesReady(n)
  BY DEF BecomesReady, WritersDone, shape
<1>3. \A e \in Edges : Opens(e)' <=> Opens(e)
  BY DEF Opens, shape
<1>4. QED BY <1>1, <1>2, <1>3 DEF Settled

LEMMA SettledStep == ASSUME IInv, [Next]_vars PROVE Settled'
<1>0. /\ m_nodes \in Seq(Node) /\ m_edges \in Seq(Edge)
      /\ i \in Nat \ {0} /\ j \in Nat \ {0}
      /\ m_ready \in [Node -> BOOLEAN]
      /\ m_state \in [Edge -> {"Closed", "Open", "Done"}]
      /\ Inv /\ Settled
  BY DEF IInv, Inv, TypeOK
<1>00. Nodes \subseteq Node /\ Edges \subseteq Edge
  BY <1>0 DEF Nodes, Edges, ToSet
<1>1. ASSUME pc' \in {"build", "thrown", "aborted"} PROVE Settled'
  BY <1>1 DEF Settled, NodePending, EdgePending
<1>2. CASE Build \/ RuleThrows
  <2>1. pc' \in {"build", "thrown"}
    BY <1>2 DEF Build, AddNode, AddEdge, In, Out, running, RuleThrows
  <2>2. QED BY <2>1, <1>1
<1>3. CASE Run
  <2>1. UNCHANGED <<shape, m_ready, m_state>> /\ i' = 1 /\ pc' \in {"nodes", "aborted"}
    BY <1>3 DEF Run
  <2>2. CASE pc' = "nodes"
    <3>1. \A n \in Nodes : NodePending(n)'
      BY <2>1, <2>2, <1>0 DEF NodePending, Nodes, ToSet, shape
    <3>2. \A e \in Edges : EdgePending(e)'
      BY <2>2 DEF EdgePending
    <3>3. QED BY <2>1, <3>1, <3>2, <1>0, SettledSilent
  <2>3. QED BY <2>1, <2>2, <1>1
<1>4. CASE StatSelf
  <2>0. m_nodes[i] \in Node
    BY <1>4, <1>0 DEF StatSelf
  <2> PICK n \in Node : n = m_nodes[i]
    BY <2>0
  <2>1. /\ pc = "nodes" /\ pc' = "nodes" /\ i' = i + 1 /\ UNCHANGED <<shape, m_q, m_state>>
        /\ m_ready' = [m_ready EXCEPT ![n] = @ \/ BecomesReady(n)]
        /\ i <= Len(m_nodes)
    BY <1>4 DEF StatSelf
  <2>2. n \in Node /\ Nodes' = Nodes /\ m_nodes' = m_nodes
    BY <2>1, <1>0 DEF Nodes, shape
  <2>3. \A m \in Node : WritersDone(m)' <=> WritersDone(m)
    BY <2>1 DEF WritersDone, shape
  <2>4. ~BecomesReady(n)'
    BY <2>1, <2>2, <2>3, <1>0 DEF BecomesReady
  <2>5. ASSUME NEW m \in Nodes, BecomesReady(m)' PROVE NodePending(m)'
    <3>1. m # n
      BY <2>4, <2>5
    <3>2. BecomesReady(m)
      BY <2>1, <2>2, <2>3, <2>5, <3>1, <1>0, <1>00 DEF BecomesReady
    <3>3. PICK k \in DOMAIN m_nodes : k >= i /\ m_nodes[k] = m
      BY <3>2, <2>1, <1>0 DEF Settled, NodePending
    <3>4. k >= i' /\ k \in DOMAIN m_nodes'
      BY <3>1, <3>3, <2>1, <2>2, <1>0
    <3>5. QED BY <3>3, <3>4, <2>1, <2>2 DEF NodePending
  <2>6. \A e \in Edges' : EdgePending(e)'
    BY <2>1 DEF EdgePending
  <2>7. QED BY <2>2, <2>5, <2>6 DEF Settled
<1>5. CASE NodesSeen
  <2>1. /\ pc = "nodes" /\ pc' = "edges" /\ i' = 1 /\ i > Len(m_nodes)
        /\ UNCHANGED <<shape, m_ready, m_state>>
    BY <1>5 DEF NodesSeen
  <2>2. \A n \in Nodes : ~NodePending(n)
    BY <2>1, <1>0 DEF NodePending
  <2>3. \A e \in Edges : EdgePending(e)'
    BY <2>1, <1>0 DEF EdgePending, Edges, ToSet, shape
  <2>4. QED BY <2>1, <2>2, <2>3, <1>0, SettledSilent
<1>6. CASE StatEdge
  <2>0. m_edges[i] \in Edge
    BY <1>6, <1>0 DEF StatEdge
  <2> PICK e \in Edge : e = m_edges[i]
    BY <2>0
  <2>1. /\ pc = "edges" /\ pc' = "edges" /\ i' = i + 1
        /\ UNCHANGED <<shape, m_ready>> /\ i <= Len(m_edges)
    BY <1>6 DEF StatEdge
  <2>2. e \in Edge /\ Edges' = Edges /\ Nodes' = Nodes /\ m_edges' = m_edges
    BY <2>1, <1>0 DEF Edges, Nodes, shape
  <2>3. EdgeStat(e)
    BY <1>6 DEF StatEdge
  <2>4. /\ ~Opens(e)'
        /\ \A d \in Edge : Opens(d)' => Opens(d)
        /\ \A n \in Node : BecomesReady(n)' => BecomesReady(n)
    BY <2>1, <2>2, <2>3, <1>0, EdgeStatSettles
  <2>5. \A n \in Nodes : ~NodePending(n)
    BY <2>1 DEF NodePending
  <2>6. ASSUME NEW d \in Edges, Opens(d)' PROVE EdgePending(d)'
    <3>1. d # e /\ Opens(d)
      BY <2>4, <2>6, <1>00
    <3>2. PICK k \in DOMAIN m_edges : k >= i /\ m_edges[k] = d
      BY <3>1, <2>1, <1>0 DEF Settled, EdgePending
    <3>3. k >= i' /\ k \in DOMAIN m_edges'
      BY <3>1, <3>2, <2>1, <2>2, <1>0
    <3>4. QED BY <3>2, <3>3, <2>1, <2>2 DEF EdgePending
  <2>7. QED BY <2>2, <2>4, <2>5, <2>6, <1>0, <1>00 DEF Settled
<1>7. CASE EdgesSeen
  <2>1. /\ pc = "edges" /\ i > Len(m_edges) /\ UNCHANGED <<shape, m_ready, m_state>>
    BY <1>7 DEF EdgesSeen
  <2>2. (\A n \in Nodes : ~NodePending(n)) /\ (\A e \in Edges : ~EdgePending(e))
    BY <2>1, <1>0 DEF NodePending, EdgePending
  <2>3. QED BY <2>1, <2>2, <1>0, SettledSilent
<1>8. CASE TakeFront \/ Finish
  <2>1. pc = "loop" /\ UNCHANGED <<shape, m_ready, m_state>>
    BY <1>8 DEF TakeFront, Finish
  <2>2. (\A n \in Nodes : ~NodePending(n)) /\ (\A e \in Edges : ~EdgePending(e))
    BY <2>1 DEF NodePending, EdgePending
  <2>3. QED BY <2>1, <2>2, <1>0, SettledSilent
<1>9. CASE RuleReturns
  <2>1. /\ pc = "rule" /\ pc' = "outs" /\ i' = 1
        /\ m_state' = [m_state EXCEPT ![Current] = "Done"]
        /\ UNCHANGED <<shape, m_q, m_ready>>
    BY <1>9 DEF RuleReturns
  <2>2. Current \in Edge /\ Current' = Current /\ Nodes' = Nodes /\ Edges' = Edges
    BY <2>1 DEF IInv, Inv, TypeOK, Current, Nodes, Edges, shape
  <2>3. ASSUME NEW n \in Nodes, BecomesReady(n)' PROVE NodePending(n)'
    <3>1. ~BecomesReady(n)
      BY <2>1, <1>0 DEF Settled, NodePending
    <3>2. ~WritersDone(n)
      BY <2>1, <2>3, <3>1 DEF BecomesReady
    <3>3. PICK k \in DOMAIN nodeIns[n] : m_state[nodeIns[n][k]] # "Done"
      BY <3>2 DEF WritersDone
    <3>4. nodeIns'[n] = nodeIns[n] /\ nodeIns[n][k] \in Edge
      BY <2>1, <3>3, <1>00 DEF shape, IInv, Inv, TypeOK
    <3>5. m_state'[nodeIns[n][k]] = "Done"
      BY <2>3, <3>3, <3>4 DEF BecomesReady, WritersDone
    <3>6. nodeIns[n][k] = Current
      BY <3>3, <3>4, <3>5, <2>1, <1>0
    <3>7. n \in ToSet(edgeOuts[Current])
      BY <3>3, <3>6, <2>2, <1>0, <1>00 DEF Inv, Linked, ToSet
    <3>8. edgeOuts'[Current'] = edgeOuts[Current] /\ edgeOuts[Current] \in Seq(Node)
      BY <2>1, <2>2 DEF shape, IInv, Inv, TypeOK
    <3>9. QED BY <3>7, <3>8, <2>1 DEF NodePending, ToSet
  <2>4. ASSUME NEW e \in Edges PROVE ~Opens(e)'
    <3>1. ~Opens(e)
      BY <2>1, <1>0 DEF Settled, EdgePending
    <3>2. m_state'[e] = "Closed" => m_state[e] = "Closed"
      BY <2>1, <2>2, <1>0, <1>00
    <3>3. QED BY <3>1, <3>2, <2>1 DEF Opens, shape
  <2>5. QED BY <2>2, <2>3, <2>4 DEF Settled
<1>10. CASE StatOut
  <2> DEFINE n == edgeOuts[Current][i]
  <2>1. /\ pc = "outs" /\ i <= Len(edgeOuts[Current])
        /\ UNCHANGED <<shape, m_q, m_state>>
    BY <1>10 DEF StatOut
  <2>2. /\ Current \in Edge /\ Current' = Current /\ Nodes' = Nodes /\ Edges' = Edges
        /\ edgeOuts' = edgeOuts /\ nodeOuts' = nodeOuts
        /\ edgeOuts[Current] \in Seq(Node)
    BY <2>1 DEF IInv, Inv, TypeOK, Current, Nodes, Edges, shape
  <2>3. n \in Node
    BY <2>1, <2>2, <1>0
  <2>4. \A e \in Edges : ~Opens(e)
    BY <2>1, <1>0 DEF Settled, EdgePending
  <2>5. \A m \in Nodes : BecomesReady(m) =>
          \E k \in DOMAIN edgeOuts[Current] : k >= i /\ edgeOuts[Current][k] = m
    BY <2>1, <1>0 DEF Settled, NodePending
  <2>6. \A m \in Node : WritersDone(m)' <=> WritersDone(m)
    BY <2>1 DEF WritersDone, shape
  <2>7. CASE BecomesReady(n)
    <3>1. m_ready' = [m_ready EXCEPT ![n] = TRUE] /\ pc' = "stat" /\ j' = 1 /\ i' = i
      BY <1>10, <2>7 DEF StatOut
    <3>2. ASSUME NEW m \in Nodes, BecomesReady(m)' PROVE NodePending(m)'
      <4>1. m # n /\ BecomesReady(m)
        BY <3>1, <3>2, <2>3, <2>6, <1>0, <1>00 DEF BecomesReady
      <4>2. PICK k \in DOMAIN edgeOuts[Current] : k >= i /\ edgeOuts[Current][k] = m
        BY <4>1, <2>5
      <4>3. k > i'
        BY <4>1, <4>2, <3>1, <2>2, <1>0
      <4>4. QED BY <4>2, <4>3, <3>1, <2>2 DEF NodePending
    <3>3. ASSUME NEW e \in Edges, Opens(e)' PROVE EdgePending(e)'
      <4>1. m_state[e] = "Closed" /\ edgeIns'[e] = edgeIns[e] /\ edgeIns[e] \in Seq(Node)
        BY <3>3, <2>1, <1>00 DEF Opens, shape, IInv, Inv, TypeOK
      <4>2. PICK k \in DOMAIN edgeIns[e] : ~m_ready[edgeIns[e][k]]
        BY <4>1, <2>4 DEF Opens
      <4>3. m_ready'[edgeIns[e][k]]
        BY <3>3, <4>1, <4>2 DEF Opens
      <4>4. edgeIns[e][k] = n
        BY <4>1, <4>2, <4>3, <3>1, <1>0
      <4>0. n \in ToSet(edgeIns[e])
        BY <4>2, <4>4 DEF ToSet
      <4>5. e \in ToSet(nodeOuts[n])
        BY <4>0, <2>3, <1>0, <1>00 DEF Inv, Linked
      <4>6. nodeOuts[n] \in Seq(Edge)
        BY <2>3 DEF IInv, Inv, TypeOK
      <4>7. PICK l \in DOMAIN nodeOuts[n] : nodeOuts[n][l] = e
        BY <4>5 DEF ToSet
      <4>8. l >= j' /\ nodeOuts'[edgeOuts'[Current'][i']] = nodeOuts[n]
        BY <4>6, <4>7, <3>1, <2>2
      <4>9. QED BY <4>7, <4>8, <3>1 DEF EdgePending
    <3>4. QED BY <2>2, <3>2, <3>3 DEF Settled
  <2>8. CASE ~BecomesReady(n)
    <3>1. m_ready' = m_ready /\ pc' = "outs" /\ i' = i + 1
      BY <1>10, <2>1, <2>8 DEF StatOut
    <3>2. ASSUME NEW m \in Nodes, NodePending(m), BecomesReady(m) PROVE NodePending(m)'
      <4>1. PICK k \in DOMAIN edgeOuts[Current] : k >= i /\ edgeOuts[Current][k] = m
        BY <3>2, <2>5
      <4>2. k >= i'
        BY <4>1, <3>1, <3>2, <2>8, <2>2, <1>0
      <4>3. QED BY <4>1, <4>2, <3>1, <2>2 DEF NodePending
    <3>3. \A m \in Nodes : BecomesReady(m)' => BecomesReady(m)
      BY <2>6, <3>1, <1>00 DEF BecomesReady
    <3>4. \A e \in Edges : ~Opens(e)'
      BY <2>4, <2>1, <3>1 DEF Opens, shape
    <3>5. QED BY <2>2, <3>2, <3>3, <3>4, <1>0 DEF Settled
  <2>9. QED BY <2>7, <2>8
<1>11. CASE StatReader
  <2> DEFINE readers == nodeOuts[edgeOuts[Current][i]]
  <2>1. pc = "stat" /\ UNCHANGED <<shape, m_ready>>
    BY <1>11 DEF StatReader
  <2>2. Current \in Edge /\ m_q # <<>> /\ i <= Len(edgeOuts[Current])
    BY <2>1, <1>0 DEF Inv, TypeOK, Current
  <2>3. readers \in Seq(Edge) /\ Nodes' = Nodes /\ Edges' = Edges
        /\ edgeOuts' = edgeOuts /\ nodeOuts' = nodeOuts
    BY <2>1, <2>2, <1>0 DEF Inv, TypeOK, shape, Nodes, Edges
  <2>4. CASE j <= Len(readers)
    <3>1. EdgeStat(readers[j])
      BY <1>11, <2>4 DEF StatReader
    <3>2. pc' = "stat" /\ i' = i /\ j' = j + 1
      BY <1>11, <2>1, <2>4 DEF StatReader
    <3>3. readers[j] \in Edge
      BY <2>3, <2>4, <1>0
    <3> PICK e \in Edge : e = readers[j]
      BY <3>3
    <3>4. Current' = Current
      BY <2>2, <3>1, <3>3, <1>0, EdgeStatType DEF Inv
    <3>5. /\ ~Opens(e)'
          /\ \A d \in Edge : Opens(d)' => Opens(d)
          /\ \A n \in Node : BecomesReady(n)' => BecomesReady(n)
      <4>1. EdgeStat(e)
        BY <3>1
      <4>2. QED BY <4>1, <2>1, <1>0, EdgeStatSettles
    <3>6. ASSUME NEW n \in Nodes, BecomesReady(n)' PROVE NodePending(n)'
      <4>1. BecomesReady(n)
        BY <3>5, <3>6, <1>00
      <4>2. PICK k \in DOMAIN edgeOuts[Current] : k > i /\ edgeOuts[Current][k] = n
        BY <4>1, <2>1, <1>0 DEF Settled, NodePending
      <4>3. QED BY <4>2, <3>2, <3>4, <2>3 DEF NodePending
    <3>7. ASSUME NEW d \in Edges, Opens(d)' PROVE EdgePending(d)'
      <4>1. d # e /\ Opens(d)
        BY <3>5, <3>7, <1>00
      <4>2. PICK k \in DOMAIN readers : k >= j /\ readers[k] = d
        BY <4>1, <2>1, <1>0 DEF Settled, EdgePending
      <4>3. k >= j'
        BY <4>1, <4>2, <3>2, <2>3, <1>0
      <4>4. QED BY <4>2, <4>3, <3>2, <3>4, <2>3 DEF EdgePending
    <3>8. QED BY <2>3, <3>6, <3>7 DEF Settled
  <2>5. CASE ~(j <= Len(readers))
    <3>1. pc' = "outs" /\ i' = i + 1 /\ UNCHANGED <<m_state, m_q>>
      BY <1>11, <2>5 DEF StatReader
    <3>2. Current' = Current
      BY <3>1 DEF Current
    <3>3. \A e \in Edges : ~EdgePending(e)
      BY <2>1, <2>3, <2>5, <1>0 DEF EdgePending
    <3>4. \A n \in Nodes : NodePending(n) => NodePending(n)'
      <4>1. edgeOuts[Current] \in Seq(Node)
        BY <2>2, <1>0 DEF Inv, TypeOK
      <4>2. \A k \in DOMAIN edgeOuts[Current] : k > i => k >= i'
        BY <4>1, <3>1, <1>0
      <4>3. QED BY <4>2, <3>1, <3>2, <2>1, <2>3 DEF NodePending
    <3>5. QED BY <2>1, <3>1, <3>3, <3>4, <1>0, SettledSilent
  <2>6. QED BY <2>4, <2>5
<1>12. CASE Pop
  <2>1. /\ pc = "outs" /\ i > Len(edgeOuts[Current]) /\ UNCHANGED <<shape, m_ready, m_state>>
    BY <1>12 DEF Pop
  <2>2. Current \in Edge /\ edgeOuts[Current] \in Seq(Node)
    BY <2>1, <1>0 DEF Inv, TypeOK, Current
  <2>3. (\A n \in Nodes : ~NodePending(n)) /\ (\A e \in Edges : ~EdgePending(e))
    BY <2>1, <2>2, <1>0 DEF NodePending, EdgePending
  <2>4. QED BY <2>1, <2>3, <1>0, SettledSilent
<1>13. CASE UNCHANGED vars
  <2>1. UNCHANGED <<shape, m_ready, m_state, pc, i, j, m_q, m_nodes, m_edges, edgeOuts, nodeOuts>>
    BY <1>13 DEF vars, shape
  <2>2. Current' = Current
    BY <2>1 DEF Current
  <2>3. \A n \in Nodes : NodePending(n)' <=> NodePending(n)
    BY <2>1, <2>2 DEF NodePending
  <2>4. \A e \in Edges : EdgePending(e)' <=> EdgePending(e)
    BY <2>1, <2>2 DEF EdgePending
  <2>5. QED BY <2>1, <2>3, <2>4, <1>0, SettledSilent
<1>14. QED
  BY <1>2, <1>3, <1>4, <1>5, <1>6, <1>7, <1>8, <1>9, <1>10, <1>11, <1>12, <1>13
  DEF Next, Walk, Terminated

LEMMA DrainedStep == ASSUME IInv, [Next]_vars PROVE Drained'
<1>0. /\ m_state \in [Edge -> {"Closed", "Open", "Done"}]
      /\ m_nodes \in Seq(Node) /\ m_edges \in Seq(Edge)
      /\ Inv /\ Drained /\ Declared
  BY DEF IInv, Inv, TypeOK
<1>1. ASSUME NEW e \in Edges, EdgeStat(e), UNCHANGED shape, pc' # "done" PROVE Drained'
  <2>1. \A d \in Edge : m_state'[d] # "Closed" => d = e \/ m_state[d] # "Closed"
    BY <1>0, <1>1 DEF EdgeStat
  <2>2. Edges' = Edges
    BY <1>1 DEF Edges, shape
  <2>3. QED BY <1>0, <1>1, <2>1, <2>2 DEF Drained
<1>2. ASSUME UNCHANGED m_state, Edges \subseteq Edges', pc' # "done" PROVE Drained'
  BY <1>0, <1>2 DEF Drained
<1>3. CASE \E e \in Edge : AddEdge(e)
  <2>1. PICK e \in Edge : AddEdge(e)
    BY <1>3
  <2>2. pc' = "build" /\ m_state' = m_state /\ m_edges' = Append(m_edges, e)
    BY <2>1 DEF AddEdge, running
  <2>3. Edges \subseteq Edges'
    BY <2>2, <1>0, AppendSet DEF Edges
  <2>4. QED BY <2>2, <2>3, <1>2
<1>4. CASE (\E n \in Node : AddNode(n)) \/ (\E e \in Edge, n \in Node : In(e, n) \/ Out(e, n))
  <2>1. pc' = "build" /\ m_state' = m_state /\ m_edges' = m_edges
    BY <1>4 DEF AddNode, In, Out, running
  <2>2. QED BY <2>1, <1>2 DEF Edges
<1>5. CASE Run \/ StatSelf \/ NodesSeen \/ EdgesSeen \/ TakeFront \/ RuleThrows \/ StatOut \/ Pop
  <2>1. pc' # "done" /\ m_state' = m_state /\ m_edges' = m_edges
    BY <1>5 DEF Run, StatSelf, NodesSeen, EdgesSeen, TakeFront, RuleThrows, StatOut, Pop, shape
  <2>2. QED BY <2>1, <1>2 DEF Edges
<1>6. CASE StatEdge
  <2>1. pc' # "done" /\ m_edges[i] \in Edges /\ UNCHANGED shape
    BY <1>6, <1>0 DEF StatEdge, IInv, Inv, TypeOK, Edges, ToSet
  <2>2. EdgeStat(m_edges[i])
    BY <1>6 DEF StatEdge
  <2>3. QED BY <1>1, <2>1, <2>2
<1>7. CASE RuleReturns
  <2>1. /\ pc = "rule" /\ pc' = "outs" /\ UNCHANGED shape
        /\ m_state' = [m_state EXCEPT ![Current] = "Done"]
    BY <1>7 DEF RuleReturns
  <2>2. Current \in Edge /\ Current = m_q[1] /\ 1 \in 1..Len(m_q)
    BY <2>1, <1>0 DEF Inv, TypeOK, Current
  <2>3. m_state[Current] = "Open"
    BY <2>1, <2>2, <1>0 DEF Inv, QueueIsOpen, Through
  <2>4. \A d \in Edge : m_state'[d] # "Closed" => m_state[d] # "Closed"
    BY <2>1, <2>2, <2>3, <1>0
  <2>5. QED BY <2>1, <2>4, <1>0 DEF Drained, Edges, shape
<1>8. CASE StatReader
  <2> DEFINE readers == nodeOuts[edgeOuts[Current][i]]
  <2>1. pc = "stat" /\ UNCHANGED shape /\ pc' # "done"
    BY <1>8 DEF StatReader
  <2>2. edgeOuts[Current][i] \in Node
    BY <2>1, <1>0 DEF Inv, TypeOK, Current
  <2>3. CASE j <= Len(readers)
    <3>1. EdgeStat(readers[j])
      BY <1>8, <2>3 DEF StatReader
    <3>0. readers \in Seq(Edge) /\ j \in Nat \ {0}
      BY <2>2, <1>0 DEF Inv, TypeOK
    <3>2. readers[j] \in ToSet(readers)
      BY <3>0, <2>3 DEF ToSet
    <3>3. readers[j] \in Edges
      BY <3>2, <2>2, <1>0 DEF Declared
    <3>4. QED BY <3>1, <3>3, <2>1, <1>1
  <2>4. CASE ~(j <= Len(readers))
    <3>1. m_state' = m_state
      BY <1>8, <2>4 DEF StatReader
    <3>2. QED BY <3>1, <2>1, <1>2 DEF Edges, shape
  <2>5. QED BY <2>3, <2>4
<1>9. CASE Finish
  BY <1>9, <1>0 DEF Finish, Drained, Edges, shape
<1>10. CASE UNCHANGED vars
  BY <1>10, <1>0 DEF vars, Drained, Edges, shape
<1>11. QED
  BY <1>3, <1>4, <1>5, <1>6, <1>7, <1>8, <1>9, <1>10 DEF Next, Build, Walk, Terminated

LEMMA IInvInit == Init => IInv
<1> SUFFICES ASSUME Init PROVE IInv
  OBVIOUS
<1>1. Declared
  BY DEF Init, Declared, ToSet
<1>2. Settled
  BY DEF Init, Settled, NodePending, EdgePending
<1>3. Drained
  BY DEF Init, Drained
<1>4. QED BY <1>1, <1>2, <1>3, InvInit DEF IInv

LEMMA IInvStep == ASSUME IInv, [Next]_vars PROVE IInv'
BY InvStep, DeclaredStep, SettledStep, DrainedStep DEF IInv

\* Nothing is forgotten: every node and edge that could move and is not about
\* to be visited has been moved.
THEOREM IInvCorrect == Spec => []IInv
BY IInvInit, IInvStep, PTL DEF Spec

\* Where nothing is pending, an edge that has not run waits for another one.
LEMMA WaitsForAnother ==
  ASSUME IInv, pc \in {"loop", "done"}, m_q = <<>>, NEW e \in Edges, m_state[e] # "Done"
  PROVE  \E d \in Edges : m_state[d] # "Done" /\ DependsOn(e, d)
<1>1. Edges \subseteq Edge /\ Nodes \subseteq Node
  BY DEF IInv, Inv, TypeOK, Edges, Nodes, ToSet
<1>2. m_state[e] = "Closed"
  <2>1. m_state[e] # "Open"
    BY <1>1 DEF IInv, Inv, QueueIsOpen, ToSet
  <2>2. QED BY <2>1, <1>1 DEF IInv, Inv, TypeOK
<1>3. ~Opens(e)
  BY DEF IInv, Settled, EdgePending
<1>4. PICK k \in DOMAIN edgeIns[e] : ~m_ready[edgeIns[e][k]]
  BY <1>2, <1>3 DEF Opens
<1>5. PICK n \in ToSet(edgeIns[e]) : n = edgeIns[e][k]
  BY <1>4 DEF ToSet
<1>6. n \in Nodes
  BY <1>1, <1>5 DEF IInv, Declared
<1>7. ~BecomesReady(n)
  BY <1>6 DEF IInv, Settled, NodePending
<1>8. PICK l \in DOMAIN nodeIns[n] : m_state[nodeIns[n][l]] # "Done"
  BY <1>4, <1>5, <1>7 DEF BecomesReady, WritersDone
<1>9. PICK d \in ToSet(nodeIns[n]) : d = nodeIns[n][l]
  BY <1>8 DEF ToSet
<1>10. d \in Edges
  BY <1>1, <1>6, <1>9 DEF IInv, Declared
<1>11. n \in ToSet(edgeOuts[d])
  BY <1>1, <1>6, <1>9, <1>10 DEF IInv, Inv, Linked
<1>12. QED BY <1>5, <1>8, <1>9, <1>10, <1>11 DEF DependsOn

\* run() executes every edge except those on, or behind, a dependency cycle,
\* and never touches one of these.
THEOREM CompletenessCorrect == Spec => []RunsAllButCycles
<1>1. IInv => RunsAllButCycles
  <2> SUFFICES ASSUME IInv PROVE RunsAllButCycles
    OBVIOUS
  <2> DEFINE stuck == UNION {S \in SUBSET Edges : Cyclic(S)}
  <2>1. Edges \subseteq Edge
    BY DEF IInv, Inv, TypeOK, Edges, ToSet
  <2>2. \A e \in stuck : m_state[e] = "Closed"
    BY <2>1 DEF IInv, Inv, CyclesClosed
  <2>3. ASSUME pc = "done", NEW e \in Edges \ stuck PROVE m_state[e] = "Done"
    <3> DEFINE U == {d \in Edges : m_state[d] # "Done"}
    <3>1. m_q = <<>>
      BY <2>3 DEF IInv, Drained
    <3>2. Cyclic(U)
      BY <2>3, <3>1, WaitsForAnother DEF Cyclic
    <3>3. U \subseteq stuck
      BY <3>2
    <3>4. QED BY <2>3, <3>3
  <2>4. QED BY <2>2, <2>3 DEF RunsAllButCycles
<1>2. QED BY <1>1, IInvCorrect, PTL

-----------------------------------------------------------------------------
(* Refinement: the safety part of ImplementsOrder.                         *)

Waits == [e \in Edge |-> {d \in Edge : DependsOn(e, d)}]

Executed == {e \in Edge : m_state[e] = "Done"}

Phase ==
  CASE pc = "build" -> "build"
    [] pc = "done" -> "finished"
    [] pc \in {"thrown", "aborted"} -> "failed"
    [] OTHER -> "running"

\* A step that moves none of what DepsOrder sees.
LEMMA StutterStep ==
  ASSUME UNCHANGED <<shape, m_state>>, Phase' = Phase
  PROVE  [Order!Next]_(Order!vars)
<1>1. Edges' = Edges
  BY DEF Edges, shape
<1>2. Waits' = Waits
  BY DEF Waits, DependsOn, shape
<1>3. Executed' = Executed
  BY DEF Executed
<1>4. UNCHANGED Order!vars
  BY <1>1, <1>2, <1>3 DEF Order!vars, Phase, Waits, Executed
<1>5. QED BY <1>4

\* Opening an edge is a stutter: DepsOrder sees only what has been executed.
LEMMA OpeningStutters ==
  ASSUME TypeOK, NEW e \in Edge, EdgeStat(e), UNCHANGED shape, Phase' = Phase
  PROVE  [Order!Next]_(Order!vars)
<1>1. m_state \in [Edge -> {"Closed", "Open", "Done"}]
  BY DEF TypeOK
<1>2. Executed' = Executed
  BY <1>1 DEF EdgeStat, Opens, Executed
<1>3. Edges' = Edges /\ Waits' = Waits
  BY DEF Edges, Waits, DependsOn, shape
<1>4. UNCHANGED Order!vars
  BY <1>2, <1>3 DEF Order!vars, Phase, Waits, Executed
<1>5. QED BY <1>4

LEMMA OrderInit == Init => Order!Init
<1> SUFFICES ASSUME Init PROVE Order!Init
  OBVIOUS
<1>1. Phase = "build"
  BY DEF Init, Phase
<1>2. Edges = {} /\ Executed = {}
  BY DEF Init, Edges, Executed, ToSet
<1>3. Waits = [e \in Edge |-> {}]
  BY DEF Init, Waits, DependsOn, ToSet
<1>4. QED BY <1>1, <1>2, <1>3 DEF Order!Init, Phase, Executed, Waits

LEMMA OrderBuild ==
  ASSUME IInv, Build
  PROVE  Order!Declare
<1>0. /\ edgeIns \in [Edge -> Seq(Node)] /\ edgeOuts \in [Edge -> Seq(Node)]
      /\ m_edges \in Seq(Edge) /\ m_edges' \in Seq(Edge)
  <2>1. [Next]_vars
    BY DEF Next
  <2>2. TypeOK /\ TypeOK'
    BY <2>1, TypeStep DEF IInv, Inv
  <2>3. QED BY <2>2 DEF TypeOK
<1>1. /\ pc = "build" /\ pc' = "build" /\ m_state' = m_state
      /\ Edges \subseteq Edges'
      /\ \A e \in Edge : /\ ToSet(edgeIns[e]) \subseteq ToSet(edgeIns'[e])
                        /\ ToSet(edgeOuts[e]) \subseteq ToSet(edgeOuts'[e])
  <2>1. ASSUME NEW n \in Node, AddNode(n) PROVE <1>1!:
    BY <2>1 DEF AddNode, running, Edges
  <2>2. ASSUME NEW e \in Edge, AddEdge(e) PROVE <1>1!:
    BY <2>2, <1>0, AppendSet DEF AddEdge, running, Edges
  <2>3. ASSUME NEW e \in Edge, NEW n \in Node, In(e, n) PROVE <1>1!:
    <3>1. edgeIns' = [edgeIns EXCEPT ![e] = Append(@, n)] /\ edgeOuts' = edgeOuts /\ m_edges' = m_edges
      BY <2>3 DEF In
    <3>2. \A d \in Edge : ToSet(edgeIns[d]) \subseteq ToSet(edgeIns'[d])
      BY <3>1, <1>0, AppendSet
    <3>3. QED BY <2>3, <3>1, <3>2 DEF In, running, Edges
  <2>4. ASSUME NEW e \in Edge, NEW n \in Node, Out(e, n) PROVE <1>1!:
    <3>1. edgeOuts' = [edgeOuts EXCEPT ![e] = Append(@, n)] /\ edgeIns' = edgeIns /\ m_edges' = m_edges
      BY <2>4 DEF Out
    <3>2. \A d \in Edge : ToSet(edgeOuts[d]) \subseteq ToSet(edgeOuts'[d])
      BY <3>1, <1>0, AppendSet
    <3>3. QED BY <2>4, <3>1, <3>2 DEF Out, running, Edges
  <2>5. QED BY <2>1, <2>2, <2>3, <2>4 DEF Build
<1>2. Phase = "build" /\ Phase' = Phase
  BY <1>1 DEF Phase
<1>3. Edges' \in SUBSET Edge
  BY <1>0 DEF Edges, ToSet
<1>4. Waits' \in [Edge -> SUBSET Edge]
  BY DEF Waits
<1>5. \A e \in Edge : Waits[e] \subseteq Waits'[e]
  BY <1>1 DEF Waits, DependsOn
<1>6. Executed' = Executed
  BY <1>1 DEF Executed
<1>7. QED BY <1>1, <1>2, <1>3, <1>4, <1>5, <1>6 DEF Order!Declare, Phase, Waits, Executed

LEMMA OrderExecute ==
  ASSUME IInv, RuleReturns, NEW e \in Edge, e = Current
  PROVE  Order!Execute(e)
<1>1. /\ pc = "rule" /\ pc' = "outs" /\ UNCHANGED shape
      /\ m_state' = [m_state EXCEPT ![Current] = "Done"]
  BY DEF RuleReturns
<1>2. Current \in Edge /\ Current = m_q[1] /\ 1 \in 1..Len(m_q)
  BY <1>1 DEF IInv, Inv, TypeOK, Current
<1>3. m_state[Current] = "Open" /\ Current \in Edges
  BY <1>1, <1>2 DEF IInv, Inv, QueueIsOpen, Through, Drained
<1>4. Executed' = Executed \cup {Current} /\ Current \notin Executed
  BY <1>1, <1>2, <1>3 DEF Executed, IInv, Inv, TypeOK
<1>5. ASSUME NEW d \in Edge, DependsOn(Current, d) PROVE d \in Executed
  <2>1. PICK n \in ToSet(edgeIns[Current]) : n \in ToSet(edgeOuts[d])
    BY <1>5 DEF DependsOn
  <2>2. n \in Node
    BY <1>2, <2>1 DEF ToSet, IInv, Inv, TypeOK
  <2>3. m_ready[n]
    BY <1>2, <1>3, <2>1 DEF ToSet, IInv, Inv, InputsComplete
  <2>4. d \in ToSet(nodeIns[n])
    BY <2>1, <2>2 DEF IInv, Inv, Linked
  <2>5. QED BY <1>5, <2>2, <2>3, <2>4 DEF IInv, Inv, InputsComplete, WritersDone, ToSet, Executed
<1>6. Waits[Current] \subseteq Executed
  BY <1>2, <1>5 DEF Waits
<1>7. Current \in Edges \ Executed /\ Edges' = Edges
  BY <1>1, <1>3, <1>4 DEF Edges, shape
<1>8. Waits' = Waits
  BY <1>1 DEF Waits, DependsOn, shape
<1>9. Phase = "running" /\ Phase' = Phase
  BY <1>1 DEF Phase
<1>10. Current \in Order!Executable
  BY <1>6, <1>7 DEF Order!Executable, Waits, Executed
<1>11. QED
  BY <1>4, <1>7, <1>8, <1>9, <1>10 DEF Order!Execute, Phase, Waits, Executed

LEMMA OrderFinish ==
  ASSUME IInv, Finish
  PROVE  Order!Finish
<1>1. pc = "loop" /\ pc' = "done" /\ m_q = <<>> /\ UNCHANGED <<shape, m_state>>
  BY DEF Finish
<1>2. Phase = "running" /\ Phase' = "finished"
  BY <1>1 DEF Phase
<1>3. Edges \subseteq Edge
  BY DEF IInv, Inv, TypeOK, Edges, ToSet
<1>4. ASSUME NEW e \in Edges \ Executed PROVE ~(Waits[e] \subseteq Executed)
  <2>1. m_state[e] # "Done"
    BY <1>3, <1>4 DEF Executed
  <2>2. PICK d \in Edges : m_state[d] # "Done" /\ DependsOn(e, d)
    BY <1>1, <1>4, <2>1, WaitsForAnother
  <2>3. QED BY <1>3, <1>4, <2>2 DEF Waits, Executed
<1>5. Order!Executable = {}
  BY <1>4 DEF Order!Executable, Waits, Executed
<1>6. Edges' = Edges /\ Waits' = Waits /\ Executed' = Executed
  BY <1>1 DEF Edges, Waits, DependsOn, Executed, shape
<1>7. QED BY <1>2, <1>5, <1>6 DEF Order!Finish, Phase, Waits, Executed

LEMMA OrderFail ==
  ASSUME UNCHANGED <<shape, m_state>>, Phase = "running", Phase' = "failed"
  PROVE  Order!Fail
<1>1. Edges' = Edges /\ Waits' = Waits /\ Executed' = Executed
  BY DEF Edges, Waits, DependsOn, Executed, shape
<1>2. QED BY <1>1 DEF Order!Fail, Phase, Waits, Executed

LEMMA OrderStart ==
  ASSUME IInv, Run
  PROVE  Order!Start
<1>1. pc = "build" /\ pc' = "nodes" /\ UNCHANGED <<shape, m_state>>
  BY DEF Run, IInv, Inv, Fresh
<1>2. Edges' = Edges /\ Waits' = Waits /\ Executed' = Executed
  BY <1>1 DEF Edges, Waits, DependsOn, Executed, shape
<1>3. Phase = "build" /\ Phase' = "running"
  BY <1>1 DEF Phase
<1>4. QED BY <1>2, <1>3 DEF Order!Start, Phase, Waits, Executed

LEMMA OrderStep ==
  ASSUME IInv, [Next]_vars
  PROVE  [Order!Next]_(Order!vars)
<1>1. CASE Build
  BY <1>1, OrderBuild DEF Order!Next
<1>2. CASE Run
  BY <1>2, OrderStart DEF Order!Next
<1>3. CASE RuleReturns
  <2>1. Current \in Edge
    BY <1>3 DEF RuleReturns, IInv, Inv, TypeOK, Current
  <2> PICK e \in Edge : e = Current
    BY <2>1
  <2>2. Order!Execute(e)
    BY <1>3, OrderExecute
  <2>3. QED BY <2>2 DEF Order!Next, Order!Progress
<1>4. CASE RuleThrows
  <2>1. UNCHANGED <<shape, m_state>> /\ Phase = "running" /\ Phase' = "failed"
    BY <1>4 DEF RuleThrows, Phase
  <2>2. QED BY <2>1, OrderFail DEF Order!Next, Order!Progress
<1>5. CASE TakeFront
  <2>1. UNCHANGED <<shape, m_state>> /\ Phase = "running" /\ pc' \in {"rule", "aborted"}
    BY <1>5 DEF TakeFront, Phase
  <2>2. CASE pc' = "aborted"
    <3>1. Phase' = "failed"
      BY <2>2 DEF Phase
    <3>2. QED BY <2>1, <3>1, OrderFail DEF Order!Next, Order!Progress
  <2>3. CASE pc' = "rule"
    <3>1. Phase' = Phase
      BY <2>1, <2>3 DEF Phase
    <3>2. QED BY <2>1, <3>1, StutterStep
  <2>4. QED BY <2>1, <2>2, <2>3
<1>6. CASE Finish
  BY <1>6, OrderFinish DEF Order!Next, Order!Progress
<1>7. CASE StatSelf \/ NodesSeen \/ EdgesSeen \/ StatOut \/ Pop
  <2>1. UNCHANGED <<shape, m_state>> /\ Phase' = Phase
    BY <1>7 DEF StatSelf, NodesSeen, EdgesSeen, StatOut, Pop, Phase
  <2>2. QED BY <2>1, StutterStep
<1>8. CASE StatEdge
  <2>0. m_edges[i] \in Edge
    BY <1>8 DEF StatEdge, IInv, Inv, TypeOK
  <2> PICK e \in Edge : e = m_edges[i]
    BY <2>0
  <2>1. EdgeStat(e)
    BY <1>8 DEF StatEdge
  <2>2. UNCHANGED shape /\ Phase' = Phase
    BY <1>8 DEF StatEdge, Phase
  <2>3. QED BY <2>1, <2>2, OpeningStutters DEF IInv, Inv
<1>9. CASE StatReader
  <2> DEFINE readers == nodeOuts[edgeOuts[Current][i]]
  <2>1. pc = "stat" /\ UNCHANGED shape
    BY <1>9 DEF StatReader
  <2>2. edgeOuts[Current][i] \in Node
    BY <2>1 DEF IInv, Inv, TypeOK, Current
  <2>3. readers \in Seq(Edge) /\ j \in Nat \ {0}
    BY <2>2 DEF IInv, Inv, TypeOK
  <2>4. CASE j <= Len(readers)
    <3> PICK e \in Edge : e = readers[j]
      BY <2>3, <2>4
    <3>1. EdgeStat(e)
      BY <1>9, <2>4 DEF StatReader
    <3>2. Phase' = Phase
      BY <1>9, <2>4 DEF StatReader, Phase
    <3>3. QED BY <2>1, <3>1, <3>2, OpeningStutters DEF IInv, Inv
  <2>5. CASE ~(j <= Len(readers))
    <3>1. m_state' = m_state /\ pc' = "outs"
      BY <1>9, <2>5 DEF StatReader
    <3>2. Phase' = Phase
      BY <2>1, <3>1 DEF Phase
    <3>3. QED BY <2>1, <3>1, <3>2, StutterStep
  <2>6. QED BY <2>4, <2>5
<1>10. CASE UNCHANGED vars
  <2>1. UNCHANGED <<shape, m_state>> /\ Phase' = Phase
    BY <1>10 DEF vars, Phase
  <2>2. QED BY <2>1, StutterStep
<1>11. QED
  BY <1>1, <1>2, <1>3, <1>4, <1>5, <1>6, <1>7, <1>8, <1>9, <1>10
  DEF Next, Walk, Terminated

\* The queue and the nested loops of stat() do what DepsOrder promises: each
\* edge at most once, after everything it depends on, and run() ends normally
\* only when nothing that could be executed is left.
THEOREM RefinementCorrect == Spec => Order!Spec
<1>1. IInv /\ [Next]_vars => [Order!Next]_(Order!vars)
  BY OrderStep
<1>2. QED BY OrderInit, <1>1, IInvCorrect, PTL DEF Spec, Order!Spec

=============================================================================
