------------------------------ MODULE DepsGraph ------------------------------
(***************************************************************************)
(* The dependency graph that drives every pass of the compiler             *)
(* (pipeline/depsGraph.hpp, pipeline/depsGraph.cpp).                       *)
(*                                                                         *)
(* A graph is built with node(), edge(), in() and out(); run() then        *)
(* executes the rule of an edge when every node the edge reads is ready,   *)
(* and makes a node ready when every edge that writes it is Done.  The     *)
(* program is single-threaded, so run() is a program counter that walks    *)
(* the nested calls run -> Edge::run -> Node::stat -> Edge::stat one loop  *)
(* iteration at a time.                                                    *)
(***************************************************************************)
EXTENDS Naturals, Sequences, SequencesExt

CONSTANTS
  Node,      \* the FDepsGraphNode objects that may be created
  Edge,      \* the FDepsGraphEdge objects that may be created
  MaxLinks,  \* bound: calls of in() and out() while the graph is built
  Asserts    \* TRUE: built with assertions, FALSE: built with NDEBUG

ASSUME GraphAssumption ==
  /\ MaxLinks \in Nat
  /\ Asserts \in BOOLEAN

VARIABLES
  m_nodes,   \* FDepsGraph::m_nodes, in creation order
  m_edges,   \* FDepsGraph::m_edges, in creation order
  m_q,       \* FDepsGraph::m_q
  m_run,     \* FDepsGraph::m_run
  nodeIns,   \* FDepsGraphNode::m_ins: the edges that write a node
  nodeOuts,  \* FDepsGraphNode::m_outs: the edges that read a node
  m_ready,   \* FDepsGraphNode::m_ready
  edgeIns,   \* FDepsGraphEdge::m_ins: the nodes an edge reads
  edgeOuts,  \* FDepsGraphEdge::m_outs: the nodes an edge writes
  m_state,   \* FDepsGraphEdge::m_state
  pc,        \* where the caller of the graph is
  i,         \* the iteration of the outer loop pc is in
  j,         \* the iteration of Node::stat's loop over m_outs
  links      \* calls of in() and out() made so far (for the bound only)

shape == <<m_nodes, m_edges, nodeIns, nodeOuts, edgeIns, edgeOuts, links>>
vars == <<shape, m_q, m_run, m_ready, m_state, pc, i, j>>

Nodes == ToSet(m_nodes)
Edges == ToSet(m_edges)

\* The edge run() took from the queue: it is popped only when it is through.
Current == Head(m_q)

Init ==
  /\ m_nodes = <<>> /\ m_edges = <<>> /\ m_q = <<>> /\ m_run = FALSE
  /\ nodeIns = [n \in Node |-> <<>>] /\ nodeOuts = [n \in Node |-> <<>>]
  /\ edgeIns = [e \in Edge |-> <<>>] /\ edgeOuts = [e \in Edge |-> <<>>]
  /\ m_ready = [n \in Node |-> FALSE]
  /\ m_state = [e \in Edge |-> "Closed"]
  /\ pc = "build" /\ i = 1 /\ j = 1 /\ links = 0

-----------------------------------------------------------------------------
(* Building the graph.                                                     *)

running == <<m_q, m_run, m_ready, m_state, pc, i, j>>

AddNode(n) ==
  /\ pc = "build"
  /\ n \in Node \ Nodes
  /\ m_nodes' = Append(m_nodes, n)
  /\ UNCHANGED <<m_edges, nodeIns, nodeOuts, edgeIns, edgeOuts, links, running>>

AddEdge(e) ==
  /\ pc = "build"
  /\ e \in Edge \ Edges
  /\ m_edges' = Append(m_edges, e)
  /\ UNCHANGED <<m_nodes, nodeIns, nodeOuts, edgeIns, edgeOuts, links, running>>

In(e, n) ==
  /\ pc = "build" /\ links < MaxLinks
  /\ e \in Edges /\ n \in Nodes
  /\ edgeIns' = [edgeIns EXCEPT ![e] = Append(@, n)]
  /\ nodeOuts' = [nodeOuts EXCEPT ![n] = Append(@, e)]
  /\ links' = links + 1
  /\ UNCHANGED <<m_nodes, m_edges, nodeIns, edgeOuts, running>>

Out(e, n) ==
  /\ pc = "build" /\ links < MaxLinks
  /\ e \in Edges /\ n \in Nodes
  /\ edgeOuts' = [edgeOuts EXCEPT ![e] = Append(@, n)]
  /\ nodeIns' = [nodeIns EXCEPT ![n] = Append(@, e)]
  /\ links' = links + 1
  /\ UNCHANGED <<m_nodes, m_edges, nodeOuts, edgeIns, running>>

Build ==
  \/ \E n \in Node : AddNode(n)
  \/ \E e \in Edge : AddEdge(e)
  \/ \E e \in Edge, n \in Node : In(e, n) \/ Out(e, n)

-----------------------------------------------------------------------------
(* The helpers of run().                                                   *)

\* Mutated form: one finished writer is enough.
WritersDone_One(n) ==
  nodeIns[n] # <<>> => \E k \in DOMAIN nodeIns[n] : m_state[nodeIns[n][k]] = "Done"

\* The loop of Node::stat and Node::statSelf: no writer is left to wait for.
WritersDone(n) == \A k \in DOMAIN nodeIns[n] : m_state[nodeIns[n][k]] = "Done"

\* Mutated form: the writers are not looked at.
BecomesReady_AtOnce(n) == ~m_ready[n]

\* Node::statSelf and the first half of Node::stat.
BecomesReady(n) == ~m_ready[n] /\ WritersDone(n)

\* Mutated form: an edge that is Open or Done is not turned away.
Opens_Again(e) == \A k \in DOMAIN edgeIns[e] : m_ready[edgeIns[e][k]]

\* The guards of Edge::stat.
Opens(e) ==
  /\ m_state[e] = "Closed"
  /\ \A k \in DOMAIN edgeIns[e] : m_ready[edgeIns[e][k]]

\* Edge::stat: open the edge and queue it, or leave it alone.
EdgeStat(e) ==
  IF Opens(e)
  THEN /\ m_state' = [m_state EXCEPT ![e] = "Open"]
       /\ m_q' = Append(m_q, e)
  ELSE UNCHANGED <<m_state, m_q>>

\* The assertions at the head of Edge::run.
RunAssertions(e) ==
  /\ m_state[e] = "Open"
  /\ edgeIns[e] # <<>> /\ edgeOuts[e] # <<>>
  /\ \A k \in DOMAIN edgeIns[e] : m_ready[edgeIns[e][k]]
  /\ \A k \in DOMAIN edgeOuts[e] : ~m_ready[edgeOuts[e][k]]

-----------------------------------------------------------------------------
(* run(), one iteration of one of its loops at a time.                     *)

Run ==
  /\ pc = "build"
  /\ pc' = IF Asserts /\ m_run THEN "aborted" ELSE "nodes"
  /\ i' = 1
  /\ UNCHANGED <<shape, m_q, m_run, m_ready, m_state, j>>

\* for (auto node : m_nodes) node->statSelf();
StatSelf ==
  /\ pc = "nodes" /\ i <= Len(m_nodes)
  /\ m_ready' = [m_ready EXCEPT ![m_nodes[i]] = @ \/ BecomesReady(m_nodes[i])]
  /\ i' = i + 1
  /\ UNCHANGED <<shape, m_q, m_run, m_state, pc, j>>

NodesSeen ==
  /\ pc = "nodes" /\ i > Len(m_nodes)
  /\ pc' = "edges" /\ i' = 1
  /\ UNCHANGED <<shape, m_q, m_run, m_ready, m_state, j>>

\* for (auto edge : m_edges) edge->stat();
StatEdge ==
  /\ pc = "edges" /\ i <= Len(m_edges)
  /\ EdgeStat(m_edges[i])
  /\ i' = i + 1
  /\ UNCHANGED <<shape, m_run, m_ready, pc, j>>

EdgesSeen ==
  /\ pc = "edges" /\ i > Len(m_edges)
  /\ pc' = "loop"
  /\ UNCHANGED <<shape, m_q, m_run, m_ready, m_state, i, j>>

\* while (m_q.size()) ... edge->run(), up to the call of the rule.
TakeFront ==
  /\ pc = "loop" /\ m_q # <<>>
  /\ pc' = IF Asserts /\ ~RunAssertions(Current) THEN "aborted" ELSE "rule"
  /\ UNCHANGED <<shape, m_q, m_run, m_ready, m_state, i, j>>

\* Mutated form: the edge is popped before the nodes it writes are updated.
RuleReturns_Popped ==
  /\ pc = "rule"
  /\ m_state' = [m_state EXCEPT ![Current] = "Done"]
  /\ m_q' = Tail(m_q)
  /\ pc' = "outs" /\ i' = 1
  /\ UNCHANGED <<shape, m_run, m_ready, j>>

\* m_rule->run() returns.
RuleReturns ==
  /\ pc = "rule"
  /\ m_state' = [m_state EXCEPT ![Current] = "Done"]
  /\ pc' = "outs" /\ i' = 1
  /\ UNCHANGED <<shape, m_q, m_run, m_ready, j>>

\* m_rule->run() throws: the exception leaves run() and reaches main().
RuleThrows ==
  /\ pc = "rule"
  /\ pc' = "thrown"
  /\ UNCHANGED <<shape, m_q, m_run, m_ready, m_state, i, j>>

\* for (auto out : m_outs) out.lock()->stat(); up to Node::stat's own loop.
StatOut ==
  /\ pc = "outs" /\ i <= Len(edgeOuts[Current])
  /\ LET n == edgeOuts[Current][i] IN
       IF BecomesReady(n)
       THEN /\ m_ready' = [m_ready EXCEPT ![n] = TRUE]
            /\ pc' = "stat" /\ j' = 1
            /\ UNCHANGED i
       ELSE /\ i' = i + 1
            /\ UNCHANGED <<m_ready, pc, j>>
  /\ UNCHANGED <<shape, m_q, m_run, m_state>>

\* Mutated form: the last reader of the node is skipped.
StatReader_Short ==
  /\ pc = "stat"
  /\ LET readers == nodeOuts[edgeOuts[Current][i]] IN
       IF j < Len(readers)
       THEN EdgeStat(readers[j]) /\ j' = j + 1 /\ UNCHANGED <<pc, i>>
       ELSE pc' = "outs" /\ i' = i + 1 /\ UNCHANGED <<m_state, m_q, j>>
  /\ UNCHANGED <<shape, m_run, m_ready>>

\* Mutated form: the loop over the readers does not advance.
StatReader_Stuck ==
  /\ pc = "stat"
  /\ LET readers == nodeOuts[edgeOuts[Current][i]] IN
       IF j <= Len(readers)
       THEN EdgeStat(readers[j]) /\ UNCHANGED <<j, pc, i>>
       ELSE pc' = "outs" /\ i' = i + 1 /\ UNCHANGED <<m_state, m_q, j>>
  /\ UNCHANGED <<shape, m_run, m_ready>>

\* for (auto out : m_outs) out.lock()->stat(); in Node::stat.
StatReader ==
  /\ pc = "stat"
  /\ LET readers == nodeOuts[edgeOuts[Current][i]] IN
       IF j <= Len(readers)
       THEN EdgeStat(readers[j]) /\ j' = j + 1 /\ UNCHANGED <<pc, i>>
       ELSE pc' = "outs" /\ i' = i + 1 /\ UNCHANGED <<m_state, m_q, j>>
  /\ UNCHANGED <<shape, m_run, m_ready>>

\* m_q.pop();
Pop ==
  /\ pc = "outs" /\ i > Len(edgeOuts[Current])
  /\ m_q' = Tail(m_q)
  /\ pc' = "loop"
  /\ UNCHANGED <<shape, m_run, m_ready, m_state, i, j>>

Finish ==
  /\ pc = "loop" /\ m_q = <<>>
  /\ m_run' = TRUE
  /\ pc' = "done"
  /\ UNCHANGED <<shape, m_q, m_ready, m_state, i, j>>

\* run() less the call of the rule, which a client of the graph supplies.
Walk ==
  \/ StatSelf \/ NodesSeen \/ StatEdge \/ EdgesSeen
  \/ TakeFront \/ StatOut \/ StatReader \/ Pop \/ Finish

Stopped == pc \in {"done", "thrown", "aborted"}

Terminated == Stopped /\ UNCHANGED vars

Next == Build \/ Run \/ Walk \/ RuleReturns \/ RuleThrows \/ Terminated

Spec == Init /\ [][Next]_vars

\* run() is a call on the only thread: once made it proceeds, and the rules
\* of the compiler terminate.
FairSpec == Spec /\ WF_vars(Walk) /\ WF_vars(RuleReturns \/ RuleThrows)

-----------------------------------------------------------------------------
(* Properties.                                                             *)

Places == {"build", "nodes", "edges", "loop", "rule", "outs", "stat",
           "done", "thrown", "aborted"}

\* Every variable holds what its declaration says, links name objects of the
\* graph, and an edge is run only while it is at the front of the queue.
TypeOK ==
  /\ m_nodes \in Seq(Node) /\ m_edges \in Seq(Edge) /\ m_q \in Seq(Edge)
  /\ m_run \in BOOLEAN
  /\ nodeIns \in [Node -> Seq(Edge)] /\ nodeOuts \in [Node -> Seq(Edge)]
  /\ edgeIns \in [Edge -> Seq(Node)] /\ edgeOuts \in [Edge -> Seq(Node)]
  /\ m_ready \in [Node -> BOOLEAN]
  /\ m_state \in [Edge -> {"Closed", "Open", "Done"}]
  /\ pc \in Places
  /\ i \in Nat \ {0} /\ j \in Nat \ {0} /\ links \in Nat
  /\ pc \in {"rule", "outs", "stat"} => m_q # <<>>
  /\ pc = "stat" => i <= Len(edgeOuts[Current])

\* The edge at the front of the queue has run and is not popped yet.
Through == pc \in {"outs", "stat"}

\* Edge::stat and Edge::run keep the queue and the edge states in step: what
\* is queued is queued once, and is exactly the Open edges (and, until it is
\* popped, the edge that has just run).  So no edge is lost, and none is run
\* twice.
QueueIsOpen ==
  /\ \A k, l \in 1..Len(m_q) : m_q[k] = m_q[l] => k = l
  /\ \A k \in 1..Len(m_q) :
       m_state[m_q[k]] = IF Through /\ k = 1 THEN "Done" ELSE "Open"
  /\ \A e \in Edge : m_state[e] = "Open" => e \in ToSet(m_q)

\* What an edge reads is complete when its rule runs: all its inputs are ready
\* as soon as it is Open, and a node is ready only once all its writers are
\* Done (Node::stat and Edge::stat re-check after each completed edge).
InputsComplete ==
  /\ \A n \in Node : m_ready[n] => WritersDone(n)
  /\ \A e \in Edge : m_state[e] # "Closed" =>
       \A k \in DOMAIN edgeIns[e] : m_ready[edgeIns[e][k]]

\* The assertions of Edge::run at the head of an edge taken from the queue: of
\* the five only the two about an edge without inputs or outputs can fail.
OnlyEmptyEdgesAbort ==
  pc = "loop" /\ m_q # <<>> /\ ~RunAssertions(Current) =>
    edgeIns[Current] = <<>> \/ edgeOuts[Current] = <<>>

\* e reads a node d writes.
DependsOn(e, d) == ToSet(edgeIns[e]) \cap ToSet(edgeOuts[d]) # {}

\* A set of edges each of which waits for another edge of the set.
Cyclic(S) == \A e \in S : \E d \in S : DependsOn(e, d)

\* run() ends silently with edges it never ran; which ones is exact: those that
\* are, or wait for, edges on a dependency cycle, and no others.
RunsAllButCycles ==
  LET stuck == UNION {S \in SUBSET Edges : Cyclic(S)} IN
    /\ \A e \in stuck : m_state[e] = "Closed"
    /\ pc = "done" => \A e \in Edges \ stuck : m_state[e] = "Done"

\* Once run() is called it ends: with the queue empty, or by an exception or a
\* failed assertion.
Stops == pc = "nodes" ~> Stopped

Order == INSTANCE DepsOrder WITH
  phase <- CASE pc = "build" -> "build"
             [] pc = "done" -> "finished"
             [] pc \in {"thrown", "aborted"} -> "failed"
             [] OTHER -> "running",
  made <- Edges,
  needs <- [e \in Edge |-> {d \in Edge : DependsOn(e, d)}],
  done <- {e \in Edge : m_state[e] = "Done"}

\* The queue, the ready flags and the two nested loops of stat() implement the
\* plain order DepsOrder promises, its progress included.
ImplementsOrder == Order!FairSpec

=============================================================================
