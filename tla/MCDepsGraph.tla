----------------------------- MODULE MCDepsGraph -----------------------------
(***************************************************************************)
(* DepsGraph for TLC.  Which node and which edge is which does not matter, *)
(* and the graph at the call of run() is what counts, not the order of the *)
(* calls that built it: InOrder keeps one order of building it.            *)
(***************************************************************************)
EXTENDS DepsGraph

\* The order in which nodes and edges are created.
NodeOrder == SetToSeq(Node)
EdgeOrder == SetToSeq(Edge)

Sorted(nodes) ==
  \A k, l \in DOMAIN nodes :
    k < l => \E a, b \in DOMAIN NodeOrder :
               NodeOrder[a] = nodes[k] /\ NodeOrder[b] = nodes[l] /\ a <= b

\* Nodes before edges before links; the links of an edge, its inputs first,
\* before those of the edges created after it.
InOrder ==
  pc' = "build" =>
    /\ IsPrefix(m_nodes', NodeOrder) /\ IsPrefix(m_edges', EdgeOrder)
    /\ m_nodes' # m_nodes => m_edges = <<>>
    /\ m_edges' # m_edges => links = 0
    /\ \A k \in DOMAIN m_edges :
         LET e == m_edges[k] IN
           /\ Sorted(edgeIns'[e]) /\ Sorted(edgeOuts'[e])
           /\ edgeIns'[e] # edgeIns[e] => edgeOuts[e] = <<>>
           /\ edgeIns'[e] # edgeIns[e] \/ edgeOuts'[e] # edgeOuts[e] =>
                \A l \in DOMAIN m_edges : l > k =>
                  edgeIns[m_edges[l]] = <<>> /\ edgeOuts[m_edges[l]] = <<>>
=============================================================================
