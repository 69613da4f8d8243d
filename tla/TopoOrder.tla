----------------------------- MODULE TopoOrder -----------------------------
(***************************************************************************)
(* TopoOrder of engine/graph.go: the one test of whether a workflow can    *)
(* run, and the order in which the DAG loop executes its nodes.  It is     *)
(* Kahn's algorithm: a queue of the nodes nothing is left to feed, and for *)
(* every other node the data edges it still waits for.                     *)
(***************************************************************************)
EXTENDS Graph

CONSTANT Graphs     \* the graphs it may be asked about

ASSUME TopoOrderAssumption == \A g \in Graphs : WellFormed(g)

VARIABLES
    graph,      \* the argument
    pc,
    at,         \* position of the range loop over the nodes or the edges
    waiting,    \* degree[n] is the number of edges in waiting[n]
    queue,
    order,
    current     \* the node whose dependents are being released

vars == <<graph, pc, at, waiting, queue, order, current>>

Verdicts == {"ok", "cycle", "missing"}

Init ==
    /\ graph \in Graphs
    /\ pc = "validate"
    /\ at = 1
    /\ waiting = [n \in NodeIds(graph) |-> {}]
    /\ queue = <<>> /\ order = <<>>
    /\ current = {}

\* Variant: tool edges count among those a node waits for.
ValidateAnyKind ==
    /\ pc = "validate"
    /\ IF Dangling(graph)
       THEN pc' = "missing" /\ UNCHANGED waiting
       ELSE /\ pc' = "seed"
            /\ waiting' = [n \in NodeIds(graph) |->
                             {k \in DOMAIN graph.edges : Target(graph, k) = n}]
    /\ UNCHANGED <<graph, at, queue, order, current>>

\* Every data edge must join two nodes of the graph; then each node waits for
\* the data edges into it.
Validate ==
    /\ pc = "validate"
    /\ IF Dangling(graph)
       THEN pc' = "missing" /\ UNCHANGED waiting
       ELSE pc' = "seed" /\ waiting' = [n \in NodeIds(graph) |-> EdgesInto(graph, n)]
    /\ UNCHANGED <<graph, at, queue, order, current>>

\* The first queue: the nodes that wait for nothing, in the node list's order.
Seed ==
    LET n == graph.nodes[at] IN
    /\ pc = "seed" /\ at <= Len(graph.nodes)
    /\ queue' = IF waiting[n] = {} THEN Append(queue, n) ELSE queue
    /\ at' = at + 1
    /\ UNCHANGED <<graph, pc, waiting, order, current>>

Seeded ==
    /\ pc = "seed" /\ at > Len(graph.nodes)
    /\ pc' = "loop"
    /\ UNCHANGED <<graph, at, waiting, queue, order, current>>

\* Variant: an isolated node is emitted like any other.
TakeAny ==
    LET id == Head(queue) IN
    /\ pc = "loop" /\ queue # <<>>
    /\ queue' = Tail(queue)
    /\ pc' = "release" /\ at' = 1 /\ current' = {id}
    /\ order' = Append(order, id)
    /\ UNCHANGED <<graph, waiting>>

\* Variant: the queue is emptied from its other end.
TakeNewest ==
    LET id == queue[Len(queue)] IN
    /\ pc = "loop" /\ queue # <<>>
    /\ queue' = SubSeq(queue, 1, Len(queue) - 1)
    /\ IF id \in Touched(graph)
       THEN order' = Append(order, id) /\ pc' = "release" /\ at' = 1 /\ current' = {id}
       ELSE UNCHANGED <<order, pc, at, current>>
    /\ UNCHANGED <<graph, waiting>>

\* The head of the queue is emitted, unless no data edge touches it.
Take ==
    LET id == Head(queue) IN
    /\ pc = "loop" /\ queue # <<>>
    /\ queue' = Tail(queue)
    /\ IF id \in Touched(graph)
       THEN /\ order' = Append(order, id)
            /\ pc' = "release" /\ at' = 1 /\ current' = {id}
       ELSE UNCHANGED <<order, pc, at, current>>
    /\ UNCHANGED <<graph, waiting>>

\* Variants: a dependent is queued as soon as one edge is released, or never.
ReleaseEarly ==
    /\ pc = "release" /\ at <= Len(graph.edges)
    /\ at' = at + 1
    /\ IF at \in DataEdges(graph) /\ Source(graph, at) \in current
       THEN LET t == Target(graph, at) IN
            /\ waiting' = [waiting EXCEPT ![t] = @ \ {at}]
            /\ queue' = Append(queue, t)
       ELSE UNCHANGED <<waiting, queue>>
    /\ UNCHANGED <<graph, pc, order, current>>
ReleaseNothing ==
    /\ pc = "release" /\ at <= Len(graph.edges)
    /\ at' = at + 1
    /\ IF at \in DataEdges(graph) /\ Source(graph, at) \in current
       THEN waiting' = [waiting EXCEPT ![Target(graph, at)] = @ \ {at}]
       ELSE UNCHANGED waiting
    /\ UNCHANGED <<graph, pc, queue, order, current>>

\* One data edge out of the current node is released; the node it feeds joins
\* the queue when it was the last one that node waited for.
Release ==
    /\ pc = "release" /\ at <= Len(graph.edges)
    /\ at' = at + 1
    /\ IF at \in DataEdges(graph) /\ Source(graph, at) \in current
       THEN LET t == Target(graph, at) IN
            /\ waiting' = [waiting EXCEPT ![t] = @ \ {at}]
            /\ queue' = IF waiting[t] \ {at} = {} THEN Append(queue, t) ELSE queue
       ELSE UNCHANGED <<waiting, queue>>
    /\ UNCHANGED <<graph, pc, order, current>>

Released ==
    /\ pc = "release" /\ at > Len(graph.edges)
    /\ pc' = "loop" /\ current' = {}
    /\ UNCHANGED <<graph, at, waiting, queue, order>>

\* The queue is empty: either every node of the data flow came out, or some
\* of them wait for one another.
Conclude ==
    /\ pc = "loop" /\ queue = <<>>
    /\ pc' = IF Touched(graph) \subseteq Elements(order) THEN "ok" ELSE "cycle"
    /\ UNCHANGED <<graph, at, waiting, queue, order, current>>

Next == Validate \/ Seed \/ Seeded \/ Take \/ Release \/ Released \/ Conclude

Spec == Init /\ [][Next]_vars

----------------------------------------------------------------------------
(* Properties.                                                             *)

\* Every variable holds what the code can store in it.
TypeOK ==
    /\ WellFormed(graph)
    /\ pc \in {"validate", "seed", "loop", "release"} \cup Verdicts
    /\ at \in Nat \ {0}
    /\ waiting \in [NodeIds(graph) -> SUBSET DataEdges(graph)]
    /\ queue \in Seq(NodeIds(graph))
    /\ order \in Seq(NodeIds(graph))
    /\ current \subseteq NodeIds(graph)

\* The DAG loop reads rt.Outputs of what feeds a node: at no point does the
\* order hold a node before one of its sources, doubled edges and tool edges
\* notwithstanding.
SourcesComeFirst == RespectsEdges(graph, order)

\* A node is executed, and billed, at most once.
EachNodeOnce == Injective(order)

\* An accepted graph is executed whole: the order has every node of the data
\* flow, and only those, pure tool nodes being called by the Brain instead.
AcceptedIsWhole == pc = "ok" => Elements(order) = Touched(graph)

\* Only a graph that has no order is refused as cyclic, and an accepted one
\* has no such core: prepareRun's verdict is the right one both ways.
RefusedIsCyclic == pc = "cycle" => \E C \in SUBSET Touched(graph) : Deadlocked(graph, C)

AcceptedIsAcyclic == pc = "ok" => ~ \E C \in SUBSET Touched(graph) : Deadlocked(graph, C)

\* The order is the same at every call for one graph, ties going to the node
\* list and then to the edge list: a run, its fingerprints and its fallback
\* result (the last node of the order) rely on it, and Execution takes
\* TopoOrderOf for it.
AcceptedIsTheOrder == pc = "ok" => order = TopoOrderOf(graph)

=============================================================================
