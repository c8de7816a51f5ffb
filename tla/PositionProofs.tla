---------------------------- MODULE PositionProofs ----------------------------
(***************************************************************************)
(* PositionTracker is correct for any number of nodes: the links of the    *)
(* live nodes are exact in whatever order nodes die, and the list          *)
(* implements Positions.                                                   *)
(*                                                                         *)
(* The last node of a list is the latest that lives.  To say so without    *)
(* choosing a maximum, the inductive invariant reads the links one by one: *)
(* what a link points to is the next live node, and a link that points     *)
(* nowhere says that there is none.                                        *)
(***************************************************************************)
EXTENDS PositionTracker, TLAPS

\* q is where m_next of node n has to point among the nodes of S.
NextOf(S, n, q) ==
  IF q = Null THEN \A k \in S : k <= n
  ELSE q \in S /\ n < q /\ \A k \in S : k <= n \/ q <= k

\* p is where m_prev of node n has to point among the nodes of S.
PrevOf(S, n, p) ==
  IF p = Null THEN \A k \in S : n <= k
  ELSE p \in S /\ p < n /\ \A k \in S : k <= p \/ n <= k

Linked == \A n \in live : NextOf(live, n, m_next[n]) /\ PrevOf(live, n, m_prev[n])

\* Nodes not made yet point nowhere.
Fresh == \A n \in Nodes : n > made => m_next[n] = Null

Inv ==
  /\ TypeOK /\ ~aborted
  /\ Linked /\ Fresh
  /\ live # {} => Root \in live
  /\ \A k \in live : k <= m_node

-----------------------------------------------------------------------------

\* The strengthened invariant says what LinksExact says.
LEMMA InvLinksExact == Inv => LinksExact
<1> SUFFICES ASSUME Inv PROVE LinksExact
  OBVIOUS
<1> USE PositionAssumption
<1>1. live \subseteq Nat /\ Null \notin live
  BY DEF Inv, TypeOK, Nodes, Null
<1>2. ASSUME NEW a \in live, NEW b \in live
      PROVE m_next[a] = b <=> Adjacent(a, b)
  <2>1. NextOf(live, a, m_next[a])
    BY DEF Inv, Linked
  <2>2. CASE m_next[a] = Null
    BY <1>1, <2>1, <2>2 DEF NextOf, Adjacent, Null
  <2>3. CASE m_next[a] # Null
    <3>1. PICK q \in live : q = m_next[a] /\ a < q /\ \A k \in live : k <= a \/ q <= k
      BY <2>1, <2>3 DEF NextOf
    <3>2. b <= a \/ q <= b
      BY <3>1
    <3>3. Adjacent(a, q)
      BY <1>1, <3>1 DEF Adjacent
    <3>4. ASSUME Adjacent(a, b) PROVE q = b
      BY <1>1, <3>1, <3>2, <3>4 DEF Adjacent
    <3>5. QED BY <3>1, <3>3, <3>4
  <2>4. QED BY <2>2, <2>3
<1>3. ASSUME NEW a \in live, NEW b \in live
      PROVE m_prev[b] = a <=> Adjacent(a, b)
  <2>1. PrevOf(live, b, m_prev[b])
    BY DEF Inv, Linked
  <2>2. CASE m_prev[b] = Null
    BY <1>1, <2>1, <2>2 DEF PrevOf, Adjacent, Null
  <2>3. CASE m_prev[b] # Null
    <3>1. PICK p \in live : p = m_prev[b] /\ p < b /\ \A k \in live : k <= p \/ b <= k
      BY <2>1, <2>3 DEF PrevOf
    <3>2. a <= p \/ b <= a
      BY <3>1
    <3>3. Adjacent(p, b)
      BY <1>1, <3>1 DEF Adjacent
    <3>4. ASSUME Adjacent(a, b) PROVE p = a
      BY <1>1, <3>1, <3>2, <3>4 DEF Adjacent
    <3>5. QED BY <3>1, <3>3, <3>4
  <2>4. QED BY <2>2, <2>3
<1>4. \A n \in live : m_prev[n] \in live \cup {Null} /\ m_next[n] \in live \cup {Null}
  BY DEF Inv, Linked, NextOf, PrevOf
<1>5. QED
  BY <1>2, <1>3, <1>4 DEF LinksExact, Inv

\* The constructor of PositionTracker makes a list of one node.
LEMMA InitInv == Init => Inv
<1> SUFFICES ASSUME Init PROVE Inv
  OBVIOUS
<1>1. 1 \in Nodes
  BY PositionAssumption DEF Nodes
<1>2. /\ made = 1 /\ live = {1} /\ m_node = 1 /\ ~aborted /\ aborted \in BOOLEAN
      /\ m_prev = [n \in Nodes |-> 0] /\ m_next = [n \in Nodes |-> 0]
  BY DEF Init, Root, Null
<1>3. TypeOK
  BY <1>1, <1>2 DEF TypeOK, Null
<1>4. Linked /\ Fresh
  BY <1>1, <1>2 DEF Linked, Fresh, NextOf, PrevOf, Null
<1>5. QED
  BY <1>2, <1>3, <1>4 DEF Inv, Root

\* In every state the current node is the last of the list.
LEMMA LastNode ==
  ASSUME Inv, live # {}
  PROVE  m_node \in live /\ m_next[m_node] = Null
<1>1. m_node \in live
  BY DEF Inv, TypeOK
<1>2. live \subseteq Nat
  BY PositionAssumption DEF Inv, TypeOK, Nodes
<1>3. \A k \in live : k <= m_node
  BY DEF Inv
<1>4. NextOf(live, m_node, m_next[m_node])
  BY <1>1 DEF Inv, Linked
<1>5. ASSUME m_next[m_node] # Null PROVE FALSE
  <2>1. m_next[m_node] \in live /\ m_node < m_next[m_node]
    BY <1>4, <1>5 DEF NextOf
  <2>2. m_next[m_node] <= m_node
    BY <1>3, <2>1
  <2>3. m_node \in Nat /\ m_next[m_node] \in Nat
    BY <1>1, <1>2, <2>1
  <2>4. QED BY <2>1, <2>2, <2>3
<1>6. QED
  BY <1>1, <1>5

\* move() puts a new node behind the last one and makes it the current one.
LEMMA MoveInv ==
  ASSUME Inv, Move
  PROVE  Inv' /\ live # {} /\ live' = live \cup {made + 1} /\ m_node' = made + 1
<1>1. live # {} /\ m_node \in live /\ m_next[m_node] = Null
  BY LastNode DEF Move
<1>2. /\ made < MaxNodes /\ made' = made + 1 /\ live' = live \cup {made + 1}
      /\ m_prev' = [m_prev EXCEPT ![made + 1] = m_node]
      /\ m_next' = [m_next EXCEPT ![m_node] = made + 1]
      /\ m_node' = made + 1 /\ ~aborted'
  BY <1>1 DEF Move, Push, MovesTracker, Inv
<1>3. /\ made \in Nodes /\ live \subseteq 1..made
      /\ made + 1 \in Nodes /\ made + 1 \notin live /\ live \subseteq Nodes
      /\ m_prev \in [Nodes -> Nodes \cup {Null}] /\ m_next \in [Nodes -> Nodes \cup {Null}]
  BY <1>2, PositionAssumption DEF Inv, TypeOK, Nodes
<1>4. TypeOK'
  <2>1. made' \in Nodes /\ live' \subseteq 1..made'
    BY <1>2, <1>3, PositionAssumption DEF Nodes
  <2>2. m_prev' \in [Nodes -> Nodes \cup {Null}] /\ m_next' \in [Nodes -> Nodes \cup {Null}]
    BY <1>1, <1>2, <1>3
  <2>3. m_node' \in live' /\ live' # {}
    BY <1>2
  <2>4. aborted' \in BOOLEAN
    BY <1>2 DEF Move, Push, Inv, TypeOK
  <2>5. QED BY <2>1, <2>2, <2>3, <2>4 DEF TypeOK
<1>5. ASSUME NEW n \in live'
      PROVE NextOf(live', n, m_next'[n]) /\ PrevOf(live', n, m_prev'[n])
  <2> DEFINE new == made + 1
  <2>1. live \subseteq Nat /\ m_node \in Nat /\ made \in Nat /\ \A k \in live : k <= m_node
    BY <1>1, <1>3, PositionAssumption DEF Nodes, Inv
  <2>2. CASE n = new
    <3>1. m_prev'[n] = m_node /\ m_next'[n] = Null
      BY <1>1, <1>2, <1>3, <2>2 DEF Inv, Fresh, Nodes
    <3>2. NextOf(live', n, Null)
      BY <1>2, <1>3, <2>1, <2>2 DEF NextOf
    <3>3. PrevOf(live', n, m_node)
      BY <1>1, <1>2, <1>3, <2>1, <2>2 DEF PrevOf, Null
    <3>4. QED BY <3>1, <3>2, <3>3
  <2>3. CASE n = m_node
    <3>1. m_prev'[n] = m_prev[n] /\ m_next'[n] = new
      BY <1>1, <1>2, <1>3, <2>3
    <3>2. NextOf(live', n, new)
      BY <1>1, <1>2, <1>3, <2>1, <2>3 DEF NextOf, Null
    <3>3. PrevOf(live, n, m_prev[n])
      BY <1>1, <2>3 DEF Inv, Linked
    <3>4. PrevOf(live', n, m_prev[n])
      BY <1>1, <1>2, <1>3, <2>1, <2>3, <3>3 DEF PrevOf, Null
    <3>5. QED BY <3>1, <3>2, <3>4
  <2>4. CASE n \in live /\ n # m_node
    <3>1. m_prev'[n] = m_prev[n] /\ m_next'[n] = m_next[n]
      BY <1>1, <1>2, <1>3, <2>4
    <3>2. NextOf(live, n, m_next[n]) /\ PrevOf(live, n, m_prev[n])
      BY <2>4 DEF Inv, Linked
    <3>3. m_next[n] # Null
      <4>1. n \in Nat /\ n <= m_node /\ n # m_node
        BY <2>1, <2>4
      <4>2. ~(m_node <= n)
        BY <2>1, <4>1
      <4>3. QED BY <1>1, <3>2, <4>2 DEF NextOf
    <3>4. NextOf(live', n, m_next[n])
      <4>1. m_next[n] \in live /\ n < m_next[n] /\ \A k \in live : k <= n \/ m_next[n] <= k
        BY <3>2, <3>3 DEF NextOf
      <4>2. m_next[n] <= new
        <5>1. m_next[n] \in 1..made
          BY <1>3, <4>1
        <5>2. QED BY <2>1, <5>1
      <4>3. QED BY <1>2, <3>3, <4>1, <4>2 DEF NextOf
    <3>5. PrevOf(live', n, m_prev[n])
      BY <1>1, <1>2, <1>3, <2>1, <2>4, <3>2 DEF PrevOf, Null
    <3>6. QED BY <3>1, <3>4, <3>5
  <2>5. QED
    BY <1>2, <2>2, <2>3, <2>4
<1>6. Linked'
  BY <1>5 DEF Linked, NextOf, PrevOf
<1>7. Fresh'
  BY <1>1, <1>2, <1>3, PositionAssumption DEF Inv, Fresh, Nodes
<1>8. \A k \in live' : k <= m_node'
  BY <1>2, <1>3, PositionAssumption DEF Nodes
<1>9. live' # {} => Root \in live'
  BY <1>1, <1>2 DEF Inv
<1>10. QED
  BY <1>1, <1>2, <1>4, <1>6, <1>7, <1>8, <1>9 DEF Inv

-----------------------------------------------------------------------------
(* A node dies.                                                            *)

\* What the invariant says of the two links of a live node.
LEMMA Neighbours ==
  ASSUME Inv, NEW n \in live
  PROVE  /\ NextOf(live, n, m_next[n]) /\ PrevOf(live, n, m_prev[n])
         /\ n \in Nat /\ n # Null /\ live \subseteq Nat /\ Null \notin live
         /\ live \subseteq Nodes
         /\ m_prev \in [Nodes -> Nodes \cup {Null}] /\ m_next \in [Nodes -> Nodes \cup {Null}]
  BY PositionAssumption DEF Inv, Linked, TypeOK, Nodes, Null

\* Links of two live nodes agree, from the view of either.
LEMMA LinksAgree ==
  ASSUME Inv, NEW a \in live, NEW b \in live
  PROVE  m_next[a] = b <=> m_prev[b] = a
  BY InvLinksExact DEF LinksExact

\* The assertions of the destructor hold, and the nodes it locks are alive.
LEMMA DestructorSound ==
  ASSUME Inv, NEW n \in live
  PROVE  NeighboursAgree(n)
<1>1. NextOf(live, n, m_next[n]) /\ PrevOf(live, n, m_prev[n])
  BY Neighbours
<1>2. m_prev[n] # Null => m_prev[n] \in live
  BY <1>1 DEF PrevOf
<1>3. m_next[n] # Null => m_next[n] \in live
  BY <1>1 DEF NextOf
<1>4. QED
  BY <1>2, <1>3, LinksAgree DEF NeighboursAgree

\* The destructor of a node closes the gap: the links are exact again.
LEMMA UnlinkLinked ==
  ASSUME Inv, NEW n \in live, Unlink(n), live' = live \ {n}
  PROVE  Linked'
<1> DEFINE p == m_prev[n]
           q == m_next[n]
<1>1. /\ NextOf(live, n, q) /\ PrevOf(live, n, p)
      /\ n \in Nat /\ n # Null /\ live \subseteq Nat /\ Null \notin live
      /\ live \subseteq Nodes
      /\ m_prev \in [Nodes -> Nodes \cup {Null}] /\ m_next \in [Nodes -> Nodes \cup {Null}]
  BY Neighbours
<1>2. ASSUME NEW a \in live, a # n
      PROVE NextOf(live', a, m_next'[a])
  <2>1. NextOf(live, a, m_next[a]) /\ a \in Nat
    BY Neighbours
  <2>2. CASE p = a
    <3>1. m_next'[a] = q
      BY <1>1, <2>2 DEF Unlink
    <3>2. a < n /\ \A k \in live : k <= a \/ n <= k
      BY <1>1, <2>2 DEF PrevOf
    <3>3. CASE q = Null
      <4>1. \A k \in live' : k <= a
        BY <1>1, <2>1, <3>2, <3>3 DEF NextOf
      <4>2. QED BY <3>1, <3>3, <4>1 DEF NextOf
    <3>4. CASE q # Null
      <4>1. q \in live /\ n < q /\ \A k \in live : k <= n \/ q <= k
        BY <1>1, <3>4 DEF NextOf
      <4>2. q \in live' /\ a < q
        <5>1. q \in Nat /\ n \in Nat /\ a \in Nat
          BY <1>1, <2>1, <4>1
        <5>2. a < q /\ q # n
          BY <3>2, <4>1, <5>1
        <5>3. QED BY <4>1, <5>2
      <4>3. ASSUME NEW k \in live' PROVE k <= a \/ q <= k
        BY <1>1, <2>1, <3>2, <4>1
      <4>4. QED BY <3>1, <3>4, <4>2, <4>3 DEF NextOf
    <3>5. QED BY <3>3, <3>4
  <2>3. CASE p # a
    <3>1. m_next'[a] = m_next[a]
      BY <1>1, <2>3 DEF Unlink
    <3>2. m_next[a] # n
      BY <2>3, LinksAgree
    <3>3. QED
      BY <2>1, <3>1, <3>2 DEF NextOf
  <2>4. QED BY <2>2, <2>3
<1>3. ASSUME NEW a \in live, a # n
      PROVE PrevOf(live', a, m_prev'[a])
  <2>1. PrevOf(live, a, m_prev[a]) /\ a \in Nat
    BY Neighbours
  <2>2. CASE q = a
    <3>1. m_prev'[a] = p
      BY <1>1, <2>2 DEF Unlink
    <3>2. n < a /\ \A k \in live : k <= n \/ a <= k
      BY <1>1, <2>2 DEF NextOf
    <3>3. CASE p = Null
      <4>1. \A k \in live' : a <= k
        BY <1>1, <2>1, <3>2, <3>3 DEF PrevOf
      <4>2. QED BY <3>1, <3>3, <4>1 DEF PrevOf
    <3>4. CASE p # Null
      <4>1. p \in live /\ p < n /\ \A k \in live : k <= p \/ n <= k
        BY <1>1, <3>4 DEF PrevOf
      <4>2. p \in live' /\ p < a
        <5>1. p \in Nat /\ n \in Nat /\ a \in Nat
          BY <1>1, <2>1, <4>1
        <5>2. p < a /\ p # n
          BY <3>2, <4>1, <5>1
        <5>3. QED BY <4>1, <5>2
      <4>3. ASSUME NEW k \in live' PROVE k <= p \/ a <= k
        BY <1>1, <2>1, <3>2, <4>1
      <4>4. QED BY <3>1, <3>4, <4>2, <4>3 DEF PrevOf
    <3>5. QED BY <3>3, <3>4
  <2>3. CASE q # a
    <3>1. m_prev'[a] = m_prev[a]
      BY <1>1, <2>3 DEF Unlink
    <3>2. m_prev[a] # n
      BY <2>3, LinksAgree
    <3>3. QED
      BY <2>1, <3>1, <3>2 DEF PrevOf
  <2>4. QED BY <2>2, <2>3
<1>4. QED
  BY <1>2, <1>3 DEF Linked, NextOf, PrevOf

-----------------------------------------------------------------------------

\* Unlinking also moves the tracker back, if the current node dies, and keeps
\* the last node current otherwise.
LEMMA UnlinkCurrent ==
  ASSUME Inv, NEW n \in live, Unlink(n), live' = live \ {n}
  PROVE  /\ \A k \in live' : k <= m_node'
         /\ m_node' \in live' \cup {Null}
         /\ live' # {} => m_node' \in live'
<1>1. /\ NextOf(live, n, m_next[n]) /\ PrevOf(live, n, m_prev[n])
      /\ n \in Nat /\ n # Null /\ live \subseteq Nat /\ Null \notin live
  BY Neighbours
<1>2. m_node \in live /\ \A k \in live : k <= m_node
  BY LastNode DEF Inv
<1>3. CASE m_next[n] # Null
  <2>1. m_node' = m_node
    BY <1>3 DEF Unlink
  <2>2. m_next[n] \in live /\ n < m_next[n] /\ m_next[n] <= m_node
    BY <1>1, <1>2, <1>3 DEF NextOf
  <2>3. m_node # n
    <3>1. m_node \in Nat /\ m_next[n] \in Nat
      BY <1>1, <1>2, <2>2
    <3>2. QED BY <1>1, <2>2, <3>1
  <2>4. QED BY <1>2, <2>1, <2>3
<1>4. CASE m_next[n] = Null
  <2>1. m_node' = m_prev[n]
    BY <1>4 DEF Unlink
  <2>2. \A k \in live : k <= n
    BY <1>1, <1>4 DEF NextOf
  <2>3. CASE m_prev[n] = Null
    <3>1. ASSUME NEW k \in live PROVE k = n
      BY <1>1, <2>2, <2>3 DEF PrevOf
    <3>2. live' = {}
      BY <3>1
    <3>3. QED BY <2>1, <2>3, <3>2
  <2>4. CASE m_prev[n] # Null
    <3>1. m_prev[n] \in live /\ m_prev[n] < n /\ \A k \in live : k <= m_prev[n] \/ n <= k
      BY <1>1, <2>4 DEF PrevOf
    <3>2. m_prev[n] \in live'
      <4>1. m_prev[n] \in Nat
        BY <1>1, <3>1
      <4>2. m_prev[n] # n
        BY <1>1, <3>1, <4>1
      <4>3. QED BY <3>1, <4>2
    <3>3. ASSUME NEW k \in live' PROVE k <= m_prev[n]
      BY <1>1, <2>2, <3>1
    <3>4. QED BY <2>1, <3>2, <3>3
  <2>5. QED BY <2>3, <2>4
<1>5. QED BY <1>3, <1>4

\* The destructor of a node, of the root only when it is the last.
LEMMA DestroyInv ==
  ASSUME Inv, NEW n \in live, Destroy(n), n = Root => live = {Root}
  PROVE  /\ Inv' /\ live' = live \ {n} /\ made' = made
         /\ live' # {} => m_node' \in live'
         /\ live' = {} => m_node' = Null
<1>1. live' = live \ {n} /\ Unlink(n) /\ ~aborted' /\ made' = made
  BY DestructorSound DEF Destroy, Inv
<1>2. /\ n \in Nodes /\ live \subseteq Nodes
      /\ m_prev \in [Nodes -> Nodes \cup {Null}] /\ m_next \in [Nodes -> Nodes \cup {Null}]
  BY Neighbours
<1>3. Linked'
  BY <1>1, UnlinkLinked
<1>4. /\ \A k \in live' : k <= m_node'
      /\ m_node' \in live' \cup {Null}
      /\ live' # {} => m_node' \in live'
  BY <1>1, UnlinkCurrent
<1>5. m_node' \in IF live' = {} THEN {Null} ELSE live'
  BY <1>4
<1>6. m_prev' \in [Nodes -> Nodes \cup {Null}] /\ m_next' \in [Nodes -> Nodes \cup {Null}]
  BY <1>1, <1>2 DEF Unlink
<1>7. aborted' \in BOOLEAN
  BY DestructorSound DEF Destroy, Inv, TypeOK
<1>8. TypeOK'
  BY <1>1, <1>5, <1>6, <1>7 DEF Inv, TypeOK
<1>9. Fresh'
  <2>1. ASSUME NEW x \in Nodes, x > made PROVE m_next'[x] = Null
    <3>1. m_next[x] = Null
      BY <2>1 DEF Inv, Fresh
    <3>2. m_prev[n] # Null => m_prev[n] \in 1..made
      BY DestructorSound DEF NeighboursAgree, Inv, TypeOK
    <3>3. m_prev[n] # Null => m_prev[n] # x
      BY <2>1, <3>2, PositionAssumption DEF Inv, TypeOK, Nodes
    <3>4. QED BY <1>1, <1>2, <3>1, <3>3 DEF Unlink
  <2>2. QED BY <1>1, <2>1 DEF Fresh
<1>10. live' # {} => Root \in live'
  BY <1>1 DEF Inv
<1>11. QED
  BY <1>1, <1>3, <1>4, <1>5, <1>8, <1>9, <1>10 DEF Inv

-----------------------------------------------------------------------------
(* Every step, and what follows for the specification.                     *)

\* The invariant speaks of the variables alone.
LEMMA StutterInv == Inv /\ UNCHANGED vars => Inv'
  BY DEF vars, Inv, TypeOK, Linked, Fresh, NextOf, PrevOf

\* No step breaks the invariant.
LEMMA StepInv == Inv /\ [Next]_vars => Inv'
<1> SUFFICES ASSUME Inv, [Next]_vars PROVE Inv'
  OBVIOUS
<1>1. CASE Move
  BY <1>1, MoveInv
<1>2. CASE Return
  <2>1. PICK n \in live \ {Root} : Destroy(n)
    BY <1>2 DEF Return
  <2>2. QED BY <2>1, DestroyInv
<1>3. CASE Close
  <2>1. Root \in live /\ live = {Root} /\ Destroy(Root)
    BY <1>3 DEF Close
  <2>2. QED BY <2>1, DestroyInv
<1>4. CASE Terminated
  BY <1>4, StutterInv DEF Terminated
<1>5. CASE UNCHANGED vars
  BY <1>5, StutterInv
<1>6. QED
  BY <1>1, <1>2, <1>3, <1>4, <1>5 DEF Next

\* The invariant holds in every state the tracker can reach.
THEOREM Invariance == Spec => []Inv
  BY InitInv, StepInv, PTL DEF Spec

\* The tracker's variables have their types, and curr() and move() lock a node
\* that lives, for any number of nodes.
THEOREM TypeCorrect == Spec => []TypeOK
<1>1. Inv => TypeOK
  BY DEF Inv
<1>2. QED
  BY Invariance, <1>1, PTL

\* However the nodes die, the live ones form one list in the order of creation,
\* and no destructor fails an assertion or locks a dead node.
THEOREM LinksCorrect == Spec => []LinksExact
  BY Invariance, InvLinksExact, PTL

-----------------------------------------------------------------------------
(* The list implements Positions.                                          *)

\* The current node is the one Positions calls the latest.
LEMMA LatestOfLive ==
  ASSUME NEW S \in SUBSET Nat, NEW m \in S, \A k \in S : k <= m
  PROVE  Abstract!Latest(S) = m
<1>1. ASSUME NEW p \in S, \A q \in S : q <= p PROVE p = m
  BY <1>1
<1>2. QED
  BY <1>1 DEF Abstract!Latest

\* The root alone is the initial state of Positions.
LEMMA InitAbstract == Init => Abstract!Init
  BY DEF Init, Abstract!Init, Root

\* Every step of the list is one of Positions, or none.
LEMMA StepAbstract == Inv /\ [Next]_vars => [Abstract!Next]_(Abstract!vars)
<1> SUFFICES ASSUME Inv, [Next]_vars PROVE [Abstract!Next]_(Abstract!vars)
  OBVIOUS
<1>1. CASE Move
  <2>1. made' = made + 1
    BY <1>1 DEF Move, Push
  <2>2. Abstract!Enter
    BY <1>1, <2>1, MoveInv DEF Abstract!Enter
  <2>3. QED BY <2>2 DEF Abstract!Next
<1>2. CASE Return
  <2>1. PICK n \in live \ {Root} : Destroy(n)
    BY <1>2 DEF Return
  <2>2. Inv' /\ live' = live \ {n} /\ made' = made
    BY <2>1, DestroyInv
  <2>3. Root \in live'
    BY <2>1, <2>2 DEF Inv
  <2>4. m_node' \in live' /\ \A k \in live' : k <= m_node'
    BY <2>1, <2>3, DestroyInv DEF Inv
  <2>5. live' \in SUBSET Nat
    BY <2>2, PositionAssumption DEF Inv, TypeOK, Nodes
  <2>6. m_node' = Abstract!Latest(live \ {n})
    BY <2>2, <2>4, <2>5, LatestOfLive
  <2>7. Abstract!Leave(n)
    BY <2>1, <2>2, <2>6 DEF Abstract!Leave, Root
  <2>8. QED BY <2>1, <2>7 DEF Abstract!Next
<1>3. CASE Close
  <2>1. Root \in live /\ live = {Root} /\ Destroy(Root)
    BY <1>3 DEF Close
  <2>2. live' = {} /\ made' = made /\ m_node' = Null
    BY <2>1, DestroyInv
  <2>3. Abstract!Close
    BY <2>1, <2>2 DEF Abstract!Close, Root
  <2>4. QED BY <2>3 DEF Abstract!Next
<1>4. CASE UNCHANGED vars
  BY <1>4 DEF vars, Abstract!vars
<1>5. QED
  BY <1>1, <1>2, <1>3, <1>4 DEF Next, Terminated

\* The list of weak pointers implements Positions: in whatever order the emit
\* functions leave, error() reports the position entered last of those not left.
THEOREM RefinementCorrect == Spec => ImplementsPositions
<1>1. Spec => Abstract!Spec
  BY InitAbstract, StepAbstract, Invariance, PTL DEF Spec, Abstract!Spec
<1>2. QED
  BY <1>1 DEF ImplementsPositions
=============================================================================
