---------------------------- MODULE MCProvenance ----------------------------
(***************************************************************************)
(* Two or three file inputs, a node that merges two of them, and a file    *)
(* output, joined in every way the editor lets them be.                    *)
(***************************************************************************)
EXTENDS Provenance

Edge(s, t) == [source |-> s, target |-> t, kind |-> "data"]

Kinds == <<"read", "read", "read", "other", "write">>

\* Edges out of the inputs and out of the merge.
Drawable == {Edge(s, t) : s \in 1..3, t \in {4, 5}} \cup {Edge(4, 5)}

Listed(S) == CHOOSE s \in [1..Cardinality(S) -> S] : Injective(s)

SmallGraphs ==
    {[nodes |-> <<1, 2, 3, 4, 5>>, edges |-> Listed(S), kinds |-> Kinds] :
        S \in {S \in SUBSET Drawable : Cardinality(S) \in 1..4}}

=============================================================================
