----------------------------- MODULE Provenance -----------------------------
(***************************************************************************)
(* What a run calls the files it writes after: engine/provenance.go over   *)
(* the DAG loop.  File inputs remember the path they read; a file output   *)
(* whose path says {{source...}} takes the one its value descends from, or *)
(* refuses.                                                                *)
(***************************************************************************)
EXTENDS Graph

CONSTANTS
    Graphs,     \* graphs TopoOrder accepts
    Paths       \* what file inputs may be given to read

\* Node kinds in the graphs: "read", "write" (under a name taken from its
\* source), "other".
VARIABLES
    graph,
    path,       \* what each file input reads
    left,       \* the order's nodes not yet executed
    sources,    \* Runtime.Sources
    named       \* what each file output was written under

vars == <<graph, path, left, sources, named>>

NoSource == "none"

OfKind(g, kind) == {n \in NodeIds(g) : g.kinds[n] = kind}

Init ==
    /\ graph \in Graphs
    /\ path \in [OfKind(graph, "read") -> Paths]
    /\ left = TopoOrderOf(graph)
    /\ sources = [n \in {} |-> NoSource] /\ named = [n \in {} |-> NoSource]

\* sourceOf: a node's own, or what its upstreams agree on.  One that has none
\* says nothing, and neither does one whose own upstreams disagree.
SourceOf(g, own, node) ==
    LET walk[n \in Touched(g)] ==
            LET said == {walk[up] : up \in Elements(UpstreamOf(g, n))} \ {NoSource} IN
            IF n \in DOMAIN own THEN own[n]
            ELSE IF Cardinality(said) = 1 THEN CHOOSE s \in said : TRUE
            ELSE NoSource
    IN  walk[node]

\* A file input that cannot be read ends the run.
ReadFile(n) ==
    /\ n \in OfKind(graph, "read")
    /\ \/ /\ sources' = [m \in DOMAIN sources \cup {n} |-> IF m = n THEN path[n] ELSE sources[m]]
          /\ left' = Tail(left)
       \/ left' = <<>> /\ UNCHANGED sources
    /\ UNCHANGED named

\* resolveSource: without a source there is no name, and the run ends there.
WriteFile(n) ==
    /\ n \in OfKind(graph, "write")
    /\ LET source == SourceOf(graph, sources, n) IN
       IF source = NoSource THEN left' = <<>> /\ UNCHANGED named
       ELSE /\ named' = [m \in DOMAIN named \cup {n} |-> IF m = n THEN source ELSE named[m]]
            /\ left' = Tail(left)
    /\ UNCHANGED sources

Pass(n) == n \in OfKind(graph, "other") /\ left' = Tail(left) /\ UNCHANGED <<sources, named>>

Next ==
    /\ left # <<>> /\ UNCHANGED <<graph, path>>
    /\ ReadFile(Head(left)) \/ WriteFile(Head(left)) \/ Pass(Head(left))

Spec == Init /\ [][Next]_vars

----------------------------------------------------------------------------
\* The files whose contents reach a node: walking back, each file input stands
\* for itself.
FilesReaching(n) ==
    LET reach[m \in Touched(graph)] ==
            IF m \in DOMAIN sources THEN {sources[m]}
            ELSE UNION {reach[up] : up \in Elements(UpstreamOf(graph, m))}
    IN  reach[n]

\* NamedAfterOne: a file is written under a source's name only where one file
\* alone reached it (provenance.go:28-31, :75-80).
NamedAfterOne == \A n \in DOMAIN named : FilesReaching(n) = {named[n]}

=============================================================================
