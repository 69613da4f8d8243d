------------------------------ MODULE Workflows ------------------------------
(***************************************************************************)
(* The workflows of a project: localstore's workflow files under the       *)
(* handlers that create, save, copy, delete and read them.  A workflow is  *)
(* one file, replaced as a whole; the store's mutex is held from reading   *)
(* it to replacing it, and by readers, who see it between two holders.     *)
(***************************************************************************)
EXTENDS Requests

CONSTANT
    Shelves  \* what the folder may hold when the daemon starts

VARIABLE
    shelf    \* the workflow files, by id

\* What may be asked, in any script.
Wanted(kind) == {r \in UNION Scripts : r.kind = kind}

\* One workflow, as the store keeps it.
IsWorkflow(w) ==
    /\ w = [name |-> w.name, graph |-> w.graph, note |-> w.note,
            version |-> w.version, copies |-> w.copies]
    /\ w.graph \notin {"", "null"}

\* Ids are drawn anew, and a patch is of what a user can change.
ASSUME WorkflowsAssumption ==
    /\ \A start \in Shelves : \A id \in DOMAIN start : IsWorkflow(start[id])
    /\ \A r \in Wanted("create") \cup Wanted("duplicate") : \A start \in Shelves : r.id \notin DOMAIN start
    /\ \A r \in Wanted("create") \cup Wanted("save") : DOMAIN r.patch \subseteq {"name", "graph", "note"}

WorkflowsInit == shelf \in Shelves

\* normalizeGraph: nothing is an empty graph.
Normalized(graph) == IF graph \in {"", "null"} THEN "empty" ELSE graph

\* What a patch gives: a blank name and a graph left out give nothing.
Given(patch) ==
    [f \in {f \in DOMAIN patch : f \in {"name", "graph"} => patch[f] # ""} |->
        IF f = "graph" THEN Normalized(patch[f]) ELSE patch[f]]

\* Update: what is given replaces what there was, one version on.
Updated(w, patch) ==
    [name |-> IF "name" \in DOMAIN patch THEN patch.name ELSE w.name,
     graph |-> IF "graph" \in DOMAIN patch THEN patch.graph ELSE w.graph,
     note |-> IF "note" \in DOMAIN patch THEN patch.note ELSE w.note,
     version |-> w.version + 1, copies |-> w.copies]

NewWorkflow(name, graph, note) ==
    [name |-> name, graph |-> Normalized(graph), note |-> note, version |-> 1, copies |-> 0]

\* Duplicate: private, without the history or the count of its original.
CopyOf(w) == NewWorkflow("copy", w.graph, w.note)

----------------------------------------------------------------------------
(* The mutex around reading and replacing.                                 *)

\* Variant: what is read is read under the readers' lock only.
ReadUnlocked(r, id, pc) ==
    /\ mu = Free /\ UNCHANGED mu
    /\ IF id \in DOMAIN shelf THEN Keep(r, pc, shelf[id]) ELSE Go(r, "refused")

\* get, under the lock; a workflow that is not there is refused.
ReadToReplace(r, id, pc) ==
    /\ mu = Free
    /\ IF id \in DOMAIN shelf THEN mu' = r /\ Keep(r, pc, shelf[id])
       ELSE Go(r, "refused") /\ UNCHANGED mu

\* writeJSONAtomic: the whole file, or it is as it was.
Replace(id, w) == shelf' = Put(shelf, id, w) /\ UNCHANGED mishaps

Release(r) == mu' = IF mu = r THEN Free ELSE mu

----------------------------------------------------------------------------
(* createWorkflow: Create, then Update with what Create does not take.     *)

CreateWorkflow(r) ==
    /\ Stands(r, "create", "begin") /\ mu = Free
    /\ IF r.name = "" THEN Go(r, "refused") /\ UNCHANGED <<shelf, mishaps>>
       ELSE \/ /\ Replace(r.id, NewWorkflow(r.name, r.graph, ""))
               /\ Go(r, IF DOMAIN r.patch = {} THEN "ok" ELSE "describe")
            \/ Mishap /\ Go(r, "refused") /\ UNCHANGED shelf
    /\ UNCHANGED mu

DescribeWorkflow(r) ==
    /\ Stands(r, "create", "describe") /\ ReadToReplace(r, r.id, "update")
    /\ UNCHANGED <<shelf, mishaps>>

\* updateWorkflow.
UpdateWorkflow(r) ==
    /\ Stands(r, "save", "begin") /\ ReadToReplace(r, r.workflow, "update")
    /\ UNCHANGED <<shelf, mishaps>>

Target(r) == IF r.kind = "create" THEN r.id ELSE r.workflow

WriteUpdate(r) ==
    /\ req[r].pc = "update" /\ Release(r)
    /\ \/ Replace(Target(r), Updated(req[r].saw, Given(r.patch))) /\ Go(r, "ok")
       \/ Mishap /\ Go(r, "refused") /\ UNCHANGED shelf

----------------------------------------------------------------------------
(* duplicateWorkflow: the copy, then the count of the original.            *)

DuplicateWorkflow(r) ==
    /\ Stands(r, "duplicate", "begin") /\ ReadToReplace(r, r.workflow, "copy")
    /\ UNCHANGED <<shelf, mishaps>>

WriteCopy(r) ==
    /\ Stands(r, "duplicate", "copy")
    /\ \/ Replace(r.id, CopyOf(req[r].saw)) /\ Go(r, "count") /\ UNCHANGED mu
       \/ Mishap /\ Go(r, "refused") /\ UNCHANGED shelf /\ Release(r)

\* The count is a statistic: failing to write it fails nothing.
WriteCount(r) ==
    /\ Stands(r, "duplicate", "count") /\ Release(r) /\ Go(r, "ok")
    /\ \/ Replace(r.workflow, [req[r].saw EXCEPT !.copies = @ + 1])
       \/ Mishap /\ UNCHANGED shelf

\* deleteWorkflow: the file goes, its runs stay.
DeleteWorkflow(r) ==
    /\ Stands(r, "discard", "begin") /\ mu = Free
    /\ IF r.workflow \notin DOMAIN shelf THEN Go(r, "refused") /\ UNCHANGED shelf
       ELSE shelf' = Without(shelf, r.workflow) /\ Go(r, "ok")
    /\ UNCHANGED <<mu, mishaps>>

----------------------------------------------------------------------------
(* Readers.                                                                *)

\* getWorkflow, and mcpWorkflowGraph, which says what a run may be given.
GetWorkflow(r) ==
    /\ Stands(r, "open", "begin") /\ mu = Free
    /\ IF r.workflow \in DOMAIN shelf THEN Keep(r, "ok", shelf[r.workflow]) ELSE Go(r, "refused")
    /\ UNCHANGED <<shelf, mu, mishaps>>

\* listWorkflows and mcpListWorkflows.
ListWorkflows(r) ==
    /\ Stands(r, "list", "begin") /\ mu = Free /\ Keep(r, "ok", shelf)
    /\ UNCHANGED <<shelf, mu, mishaps>>

----------------------------------------------------------------------------
WorkflowsNext ==
    \E r \in DOMAIN req :
       \/ CreateWorkflow(r) \/ DescribeWorkflow(r) \/ UpdateWorkflow(r) \/ WriteUpdate(r)
       \/ DuplicateWorkflow(r) \/ WriteCopy(r) \/ WriteCount(r) \/ DeleteWorkflow(r)
       \/ GetWorkflow(r) \/ ListWorkflows(r)

----------------------------------------------------------------------------
(* What the store promises.                                                *)

Promise == INSTANCE Shelf WITH
    Starts <- Shelves,
    Ids <- {r.id : r \in Wanted("create") \cup Wanted("duplicate")},
    Fresh <- {NewWorkflow(r.name, r.graph, "") : r \in Wanted("create")},
    Patches <- {Given(r.patch) : r \in Wanted("create") \cup Wanted("save")}

\* ImplementsShelf: whatever requests overlap, fail or are cut short, the
\* workflow files only change the way the shelf says: no save is lost to
\* another, a workflow that was deleted is not written back, and a copy is of
\* one state of its original.
ImplementsShelf == Promise!Spec

=============================================================================
