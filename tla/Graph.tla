------------------------------- MODULE Graph -------------------------------
(***************************************************************************)
(* The graph a workflow is: engine/graph.go's Graph, its nodes in the      *)
(* order the editor wrote them and its edges in the order they were drawn. *)
(* An edge is a data edge unless its kind is "tool".                       *)
(***************************************************************************)
EXTENDS Naturals, Sequences, FiniteSets

Elements(s) == {s[i] : i \in DOMAIN s}

Injective(s) == \A i, j \in DOMAIN s : s[i] = s[j] => i = j

NodeIds(g) == Elements(g.nodes)

\* Node ids are unique: the editor mints them.  Nothing else is asked of a
\* graph: edges may be doubled, loop, or name nodes that are not there.
WellFormed(g) ==
    /\ g.nodes \in Seq(Elements(g.nodes)) /\ Injective(g.nodes)
    /\ g.edges \in Seq(Elements(g.edges))

\* Positions, in the edge list, of the edges the DAG loop looks at.
DataEdges(g) == {k \in DOMAIN g.edges : g.edges[k].kind # "tool"}

Source(g, k) == g.edges[k].source
Target(g, k) == g.edges[k].target

\* A data edge names a node the graph does not have.
Dangling(g) ==
    \E k \in DataEdges(g) : Source(g, k) \notin NodeIds(g) \/ Target(g, k) \notin NodeIds(g)

\* dataTouched: the nodes at either end of a data edge.  A node that only
\* carries tool edges, or none, is not executed by the DAG loop.
Touched(g) == {Source(g, k) : k \in DataEdges(g)} \cup {Target(g, k) : k \in DataEdges(g)}

\* The data edges into a node: degree is their number.
EdgesInto(g, n) == {k \in DataEdges(g) : Target(g, k) = n}

\* A set of positions as a list, from the first to the last.
InOrder(K) ==
    [i \in 1..Cardinality(K) |-> CHOOSE k \in K : Cardinality({l \in K : l <= k}) = i]

\* What a list holds at some of its positions, in its own order.
Selected(s, K) == [i \in DOMAIN InOrder(K) |-> s[InOrder(K)[i]]]

\* UpstreamOf: the sources feeding a node, in the order of the edge list.
UpstreamOf(g, n) ==
    LET into == InOrder(EdgesInto(g, n)) IN [i \in DOMAIN into |-> Source(g, into[i])]

\* ToolNodesOf: the nodes a Brain may call, joined to it by tool edges.
ToolNodesOf(g, n) ==
    {g.edges[k].source : k \in {e \in DOMAIN g.edges :
                                  g.edges[e].kind = "tool" /\ g.edges[e].target = n}}

\* With a node come the sources of the data edges into it.
Fed(g, C) == \A k \in DataEdges(g) : Target(g, k) \in C => Source(g, k) \in C

\* The nodes from which data reaches n, n included: what SubgraphForNode's walk
\* collects is the least such set.
Ancestors(g, n) ==
    {m \in NodeIds(g) : \A C \in SUBSET NodeIds(g) : n \in C /\ Fed(g, C) => m \in C}

\* SubgraphForNode: the node, its data ancestors and every edge between them,
\* tool edges included.
SubgraphForNode(g, n) ==
    LET kept == Ancestors(g, n) IN
    [nodes |-> Selected(g.nodes, {i \in DOMAIN g.nodes : g.nodes[i] \in kept}),
     edges |-> Selected(g.edges, {k \in DOMAIN g.edges :
                                    Source(g, k) \in kept /\ Target(g, k) \in kept})]

\* An order lists some nodes so that what feeds a node comes before it.
RespectsEdges(g, order) ==
    \A k \in DataEdges(g) : \A j \in DOMAIN order :
        order[j] = Target(g, k) => \E i \in DOMAIN order : i < j /\ order[i] = Source(g, k)

\* The queue TopoOrder starts from: nodes of the data flow that nothing feeds.
Sources(g) ==
    Selected(g.nodes, {i \in DOMAIN g.nodes :
                         g.nodes[i] \in Touched(g) /\ EdgesInto(g, g.nodes[i]) = {}})

\* The edges out of id that, id coming after the nodes of order, are the last
\* their target waits for.
FreedBy(g, id, order) ==
    {k \in DataEdges(g) :
        /\ Source(g, k) = id
        /\ \A l \in EdgesInto(g, Target(g, k)) :
              Source(g, l) \in Elements(order) \cup {id} /\ (Source(g, l) = id => l <= k)}

\* The nodes they free, in the order of the edges.
Freed(g, id, order) ==
    LET ks == InOrder(FreedBy(g, id, order)) IN [i \in DOMAIN ks |-> Target(g, ks[i])]

\* One turn of TopoOrder's loop: the head of the queue comes out, and what it
\* frees joins the queue.
Turn(g, s) ==
    LET id == Head(s.queue) IN
    IF s.queue = <<>> THEN s
    ELSE [queue |-> Tail(s.queue) \o Freed(g, id, s.order), order |-> Append(s.order, id)]

\* As many turns as there are nodes: a node comes out once.
Turns(g) ==
    LET turn[i \in 0..Len(g.nodes)] ==
            IF i = 0 THEN [queue |-> Sources(g), order |-> <<>>] ELSE Turn(g, turn[i-1])
    IN  turn

\* The order TopoOrder answers for a graph it accepts.
TopoOrderOf(g) == Turns(g)[Len(g.nodes)].order

\* No order exists: nodes of which each one waits for another of them.
Deadlocked(g, C) ==
    /\ C # {} /\ C \subseteq NodeIds(g)
    /\ \A n \in C : \E k \in EdgesInto(g, n) : Source(g, k) \in C

=============================================================================
