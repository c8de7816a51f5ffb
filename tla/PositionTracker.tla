--------------------------- MODULE PositionTracker ---------------------------
(***************************************************************************)
(* Where the compiler is in the AST (closures/position.hpp, position.cpp): *)
(* a PositionTracker, which every FuncClosure is, and its PositionNodes.   *)
(* An emit function holds the node that move() made for as long as it      *)
(* runs; error() reports the AST of the tracker's current node.            *)
(*                                                                         *)
(* The nodes form a doubly linked list of FWeakPtrs, and a node takes      *)
(* itself out of the list in its destructor, wherever in the list it is.   *)
(* A node is named by the order in which it was made; the root is the      *)
(* first.                                                                  *)
(***************************************************************************)
EXTENDS Naturals

CONSTANT MaxNodes  \* bound: nodes made

ASSUME PositionAssumption == MaxNodes \in Nat \ {0}

VARIABLES
  made,     \* how many nodes have been made
  live,     \* the nodes that are not destroyed
  m_prev,   \* PositionNode::m_prev
  m_next,   \* PositionNode::m_next
  m_node,   \* PositionTracker::m_node
  aborted   \* a destructor failed an assertion or locked a dead node

vars == <<made, live, m_prev, m_next, m_node, aborted>>

Root == 1
Null == 0
Nodes == 1..MaxNodes

\* The constructor of PositionTracker.
Init ==
  /\ made = 1 /\ live = {Root}
  /\ m_prev = [n \in Nodes |-> Null] /\ m_next = [n \in Nodes |-> Null]
  /\ m_node = Root
  /\ aborted = FALSE

\* Mutated form: the tracker does not follow.
MovesTracker_Not(n, next) == m_node

\* Where m_node is after node next was put behind node n.
MovesTracker(n, next) == IF m_next[n] = Null THEN next ELSE m_node

\* PositionNode::push, on node n.
Push(n) ==
  LET next == made + 1 IN
    /\ made < MaxNodes
    /\ made' = next /\ live' = live \cup {next}
    /\ m_prev' = [m_prev EXCEPT ![next] = n]
    /\ m_next' = [m_next EXCEPT ![n] = next]
    /\ m_node' = MovesTracker(n, next)
    /\ UNCHANGED aborted

\* PositionTracker::move.  lock() of a dead node would throw.
Move == ~aborted /\ m_node \in live /\ Push(m_node)

\* What ~PositionNode asserts, and what its calls of lock() need.  An FWeakPtr
\* counts as true while it points to a tracker, whether or not the object lives.
NeighboursAgree(n) ==
  /\ m_prev[n] # Null => m_prev[n] \in live /\ m_next[m_prev[n]] = n
  /\ m_next[n] # Null => m_next[n] \in live /\ m_prev[m_next[n]] = n

\* Mutated form: the node behind keeps its pointer.
Unlink_OneWay(n) ==
  /\ m_next' = IF m_prev[n] = Null THEN m_next ELSE [m_next EXCEPT ![m_prev[n]] = m_next[n]]
  /\ m_prev' = m_prev
  /\ m_node' = IF m_next[n] = Null THEN m_prev[n] ELSE m_node

\* Mutated form: the tracker keeps the destroyed node.
Unlink_Kept(n) ==
  /\ m_next' = IF m_prev[n] = Null THEN m_next ELSE [m_next EXCEPT ![m_prev[n]] = m_next[n]]
  /\ m_prev' = IF m_next[n] = Null THEN m_prev ELSE [m_prev EXCEPT ![m_next[n]] = m_prev[n]]
  /\ m_node' = m_node

\* The assignments of ~PositionNode.
Unlink(n) ==
  /\ m_next' = IF m_prev[n] = Null THEN m_next ELSE [m_next EXCEPT ![m_prev[n]] = m_next[n]]
  /\ m_prev' = IF m_next[n] = Null THEN m_prev ELSE [m_prev EXCEPT ![m_next[n]] = m_prev[n]]
  /\ m_node' = IF m_next[n] = Null THEN m_prev[n] ELSE m_node

\* ~PositionNode: the last FPtr to the node goes.
Destroy(n) ==
  /\ ~aborted /\ n \in live
  /\ IF NeighboursAgree(n)
     THEN live' = live \ {n} /\ Unlink(n) /\ UNCHANGED aborted
     ELSE aborted' = TRUE /\ UNCHANGED <<live, m_prev, m_next, m_node>>
  /\ UNCHANGED made

\* An emit function returns, or is left by an exception.
Return == \E n \in live \ {Root} : Destroy(n)

\* The FuncClosure goes, after the emit functions, which hold it: of its members
\* m_rootNode first.
Close == live = {Root} /\ Destroy(Root)

Terminated == live = {} /\ UNCHANGED vars

Next == Move \/ Return \/ Close \/ Terminated

Spec == Init /\ [][Next]_vars

-----------------------------------------------------------------------------
(* Properties.                                                             *)

\* Every variable holds what its declaration says; the tracker's node is alive
\* whenever curr() or move() may lock it.
TypeOK ==
  /\ made \in Nodes /\ live \subseteq 1..made
  /\ m_prev \in [Nodes -> Nodes \cup {Null}] /\ m_next \in [Nodes -> Nodes \cup {Null}]
  /\ m_node \in IF live = {} THEN {Null} ELSE live
  /\ aborted \in BOOLEAN

\* b is made after a, and none of the nodes between them lives.
Adjacent(a, b) == a < b /\ \A n \in live : ~(a < n /\ n < b)

\* ~PositionNode against every order in which the nodes may die: the links of
\* the live nodes are those of one list in the order of creation, so that no
\* assertion fails and no destructor locks a dead node.
LinksExact ==
  /\ ~aborted
  /\ \A a, b \in live :
       /\ m_next[a] = b <=> Adjacent(a, b)
       /\ m_prev[b] = a <=> Adjacent(a, b)
  /\ \A n \in live : m_prev[n] \in live \cup {Null} /\ m_next[n] \in live \cup {Null}

Abstract == INSTANCE Positions WITH
  Nowhere <- Null, entered <- made, open <- live, curr <- m_node

\* The list implements what Positions promises: the current position is the
\* one entered last among those not left.
ImplementsPositions == Abstract!Spec
=============================================================================
