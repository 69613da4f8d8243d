------------------------------- MODULE Shelf -------------------------------
(***************************************************************************)
(* What the workflow store promises to those who save, copy and delete     *)
(* workflows at the same time: every one of their changes happens at once, *)
(* to the workflow as it stands, and none to a workflow that is gone.      *)
(***************************************************************************)
EXTENDS Naturals

CONSTANTS
    Starts,     \* what there may be at first
    Ids,        \* what a workflow may be called in a request
    Fresh,      \* what a new workflow may start as
    Patches     \* the fields and values a save may give

VARIABLE shelf    \* the workflows there are

Init == shelf \in Starts

Appears(id, w) ==
    /\ id \notin DOMAIN shelf
    /\ shelf' = [x \in DOMAIN shelf \cup {id} |-> IF x = id THEN w ELSE shelf[x]]

Create(id) == \E w \in Fresh : Appears(id, w)

\* A copy has a history and a count of its own.
Copy(id) ==
    \E source \in DOMAIN shelf :
       Appears(id, [shelf[source] EXCEPT !.name = "copy", !.version = 1, !.copies = 0])

\* What a save gives replaces what the workflow has now, one version on, and
\* leaves the rest.
Saved(w, patch) ==
    [f \in DOMAIN w |->
        IF f = "version" THEN w.version + 1 ELSE IF f \in DOMAIN patch THEN patch[f] ELSE w[f]]

Save(id) == \E patch \in Patches : shelf' = [shelf EXCEPT ![id] = Saved(shelf[id], patch)]

\* A copy that was made is counted once, or was not counted.
Count(id) == shelf' = [shelf EXCEPT ![id].copies = @ + 1]

Delete(id) == shelf' = [x \in DOMAIN shelf \ {id} |-> shelf[x]]

Next ==
    \/ \E id \in Ids : Create(id) \/ Copy(id)
    \/ \E id \in DOMAIN shelf : Save(id) \/ Count(id) \/ Delete(id)

Spec == Init /\ [][Next]_shelf

=============================================================================
