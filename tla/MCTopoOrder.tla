---------------------------- MODULE MCTopoOrder ----------------------------
(* Every graph of three nodes and up to three edges, of both kinds, node 0 *)
(* standing for an id the graph does not have.                             *)
EXTENDS TopoOrder

MaxEdges == 3

Edge == [source: 0..3, target: 0..3, kind: {"data", "tool"}]

SmallGraphs ==
    {[nodes |-> <<1, 2, 3>>, edges |-> es] : es \in UNION {[1..n -> Edge] : n \in 0..MaxEdges}}

=============================================================================
