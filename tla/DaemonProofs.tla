----------------------------- MODULE DaemonProofs -----------------------------
(***************************************************************************)
(* The daemon as a whole, whatever it serves together, whatever write      *)
(* fails and whenever it is restarted: its workflow files change the way   *)
(* an atomic shelf would, a wait is answered with what it waited for, a    *)
(* deleted key is nowhere, a save leaves the other providers alone, and    *)
(* what was configured is what a run is sent to.                           *)
(***************************************************************************)
EXTENDS Daemon, RoutingProofs, FiniteSetTheorems, TLAPS

----------------------------------------------------------------------------
(* The workflow store: where its requests stand, and what they do to the   *)
(* shelf.                                                                  *)

\* Where a request that saves or copies stands with the mutex in its hands.
Held == {"update", "copy", "count"}

\* A request has a place and something it saw.
IsPlace(x) == x = [pc |-> x.pc, saw |-> x.saw]

RequestsFit ==
    /\ DOMAIN req \in Scripts
    /\ \A r \in DOMAIN req : IsPlace(req[r])

\* Who stands in the middle of a change holds the mutex, and what it saw of
\* the workflow it changes is what the workflow still is.
HolderSees ==
    \A r \in DOMAIN req :
       /\ req[r].pc = "update" =>
             /\ r.kind \in {"create", "save"} /\ mu = r
             /\ Target(r) \in DOMAIN shelf /\ req[r].saw = shelf[Target(r)]
       /\ req[r].pc \in {"copy", "count"} =>
             /\ r.kind = "duplicate" /\ mu = r
             /\ r.workflow \in DOMAIN shelf /\ req[r].saw = shelf[r.workflow]

\* An id that was drawn for a workflow is nobody's until it is there.
IdsAreFree ==
    \A r \in DOMAIN req :
       /\ Stands(r, "create", "begin") => r.id \notin DOMAIN shelf
       /\ r.kind = "duplicate" /\ req[r].pc \in {"begin", "copy"} => r.id \notin DOMAIN shelf

ShelfFits == \A id \in DOMAIN shelf : IsWorkflow(shelf[id])

ShelfInv == RequestsFit /\ HolderSees /\ IdsAreFree /\ ShelfFits

\* A step of a request that is not in the middle of a change, and does not
\* begin one.
Aside ==
    /\ UNCHANGED <<shelf, mu>>
    /\ DOMAIN req' = DOMAIN req
    /\ \A r \in DOMAIN req :
          \/ req'[r] = req[r]
          \/ IsPlace(req'[r]) /\ req'[r].pc \notin Held \cup {"begin"}

----------------------------------------------------------------------------
(* How a request moves.                                                    *)

LEMMA Went ==
    ASSUME RequestsFit, NEW r \in DOMAIN req, NEW p, Go(r, p)
    PROVE  /\ DOMAIN req' = DOMAIN req
           /\ req'[r] = [pc |-> p, saw |-> req[r].saw]
           /\ \A s \in DOMAIN req \ {r} : req'[s] = req[s]
  <1>1. IsPlace(req[r])
    BY DEF RequestsFit
  <1>2. req' = [req EXCEPT ![r] = [req[r] EXCEPT !.pc = p]]
    BY DEF Go
  <1>3. [req[r] EXCEPT !.pc = p] = [pc |-> p, saw |-> req[r].saw]
    BY <1>1 DEF IsPlace
  <1> QED BY <1>2, <1>3

LEMMA Kept ==
    ASSUME RequestsFit, NEW r \in DOMAIN req, NEW p, NEW s, Keep(r, p, s)
    PROVE  /\ DOMAIN req' = DOMAIN req
           /\ req'[r] = [pc |-> p, saw |-> s]
           /\ \A q \in DOMAIN req \ {r} : req'[q] = req[q]
  <1>1. IsPlace(req[r])
    BY DEF RequestsFit
  <1>2. req' = [req EXCEPT ![r] = [[req[r] EXCEPT !.pc = p] EXCEPT !.saw = s]]
    BY DEF Keep
  <1>3. [req[r] EXCEPT !.pc = p] = [pc |-> p, saw |-> req[r].saw]
    BY <1>1 DEF IsPlace
  <1>4. [[pc |-> p, saw |-> req[r].saw] EXCEPT !.saw = s] = [pc |-> p, saw |-> s]
    OBVIOUS
  <1> QED BY <1>2, <1>3, <1>4

LEMMA GoesAside ==
    ASSUME RequestsFit, NEW r \in DOMAIN req, NEW p, p \notin Held \cup {"begin"},
           Go(r, p), UNCHANGED <<shelf, mu>>
    PROVE  Aside
  <1>1. req'[r] = [pc |-> p, saw |-> req[r].saw]
    BY Went
  <1>2. IsPlace(req'[r]) /\ req'[r].pc = p
    BY <1>1 DEF IsPlace
  <1> QED BY <1>2, Went DEF Aside

LEMMA KeepsAside ==
    ASSUME RequestsFit, NEW r \in DOMAIN req, NEW p, p \notin Held \cup {"begin"}, NEW s,
           Keep(r, p, s), UNCHANGED <<shelf, mu>>
    PROVE  Aside
  <1>1. req'[r] = [pc |-> p, saw |-> s]
    BY Kept
  <1>2. IsPlace(req'[r]) /\ req'[r].pc = p
    BY <1>1 DEF IsPlace
  <1> QED BY <1>2, Kept DEF Aside

\* Whoever keeps aside changes nothing the promise is about.
LEMMA AsideHolds == ASSUME ShelfInv, Aside PROVE ShelfInv'
  <1>1. ASSUME NEW r \in DOMAIN req
        PROVE  /\ IsPlace(req'[r])
               /\ req'[r].pc \in Held \cup {"begin"} => req'[r] = req[r]
    BY DEF ShelfInv, RequestsFit, Aside
  <1>2. RequestsFit'
    BY <1>1 DEF ShelfInv, RequestsFit, Aside
  <1>3. HolderSees'
    BY <1>1 DEF ShelfInv, HolderSees, Aside, Held, Target
  <1>4. IdsAreFree'
    BY <1>1 DEF ShelfInv, IdsAreFree, Aside, Held, Stands
  <1>5. ShelfFits'
    BY DEF ShelfInv, ShelfFits, Aside
  <1> QED BY <1>2, <1>3, <1>4, <1>5 DEF ShelfInv

----------------------------------------------------------------------------
(* Workflows.                                                              *)

LEMMA NewIsWorkflow ==
    ASSUME NEW name, NEW graph, NEW note
    PROVE  IsWorkflow(NewWorkflow(name, graph, note))
  BY DEF IsWorkflow, NewWorkflow, Normalized

\* What a patch gives is of the fields it may give, and its graph is one.
LEMMA GivenFits ==
    ASSUME NEW patch, DOMAIN patch \subseteq {"name", "graph", "note"}
    PROVE  /\ DOMAIN Given(patch) \subseteq {"name", "graph", "note"}
           /\ "graph" \in DOMAIN Given(patch) => Given(patch).graph \notin {"", "null"}
  BY DEF Given, Normalized

LEMMA UpdateIsSave ==
    ASSUME NEW w, IsWorkflow(w), NEW patch, DOMAIN patch \subseteq {"name", "graph", "note"},
           "graph" \in DOMAIN patch => patch.graph \notin {"", "null"}
    PROVE  Updated(w, patch) = Promise!Saved(w, patch) /\ IsWorkflow(Updated(w, patch))
  <1> DEFINE u == Updated(w, patch)
             s == Promise!Saved(w, patch)
             Fields == {"name", "graph", "note", "version", "copies"}
  <1>1. DOMAIN w = Fields
    BY DEF IsWorkflow
  <1>2. s = [f \in Fields |-> IF f = "version" THEN w.version + 1
                              ELSE IF f \in DOMAIN patch THEN patch[f] ELSE w[f]]
    BY <1>1 DEF Promise!Saved
  <1>3. u = [name |-> u.name, graph |-> u.graph, note |-> u.note, version |-> u.version, copies |-> u.copies]
    BY DEF Updated
  <1>4. /\ u.name = s.name /\ u.graph = s.graph /\ u.note = s.note
        /\ u.version = s.version /\ u.copies = s.copies
    BY <1>2 DEF Updated
  <1>5. s = [name |-> s.name, graph |-> s.graph, note |-> s.note, version |-> s.version, copies |-> s.copies]
    BY <1>2
  <1>6. u = s
    BY <1>3, <1>4, <1>5
  <1>7. u.graph \notin {"", "null"}
    BY DEF Updated, IsWorkflow
  <1> QED BY <1>3, <1>6, <1>7 DEF IsWorkflow

LEMMA CopyIsCopy ==
    ASSUME NEW w, IsWorkflow(w)
    PROVE  CopyOf(w) = [w EXCEPT !.name = "copy", !.version = 1, !.copies = 0]
  <1>1. CopyOf(w) = [name |-> "copy", graph |-> w.graph, note |-> w.note, version |-> 1, copies |-> 0]
    BY DEF CopyOf, NewWorkflow, Normalized, IsWorkflow
  <1>2. w = [name |-> w.name, graph |-> w.graph, note |-> w.note, version |-> w.version, copies |-> w.copies]
    BY DEF IsWorkflow
  <1>3. [w EXCEPT !.name = "copy"] =
           [name |-> "copy", graph |-> w.graph, note |-> w.note, version |-> w.version, copies |-> w.copies]
    BY <1>2
  <1>4. [[name |-> "copy", graph |-> w.graph, note |-> w.note, version |-> w.version, copies |-> w.copies]
            EXCEPT !.version = 1] =
           [name |-> "copy", graph |-> w.graph, note |-> w.note, version |-> 1, copies |-> w.copies]
    OBVIOUS
  <1>5. [[name |-> "copy", graph |-> w.graph, note |-> w.note, version |-> 1, copies |-> w.copies]
            EXCEPT !.copies = 0] =
           [name |-> "copy", graph |-> w.graph, note |-> w.note, version |-> 1, copies |-> 0]
    OBVIOUS
  <1>6. [w EXCEPT !.name = "copy", !.version = 1, !.copies = 0] =
           [[[w EXCEPT !.name = "copy"] EXCEPT !.version = 1] EXCEPT !.copies = 0]
    OBVIOUS
  <1> QED BY <1>1, <1>3, <1>4, <1>5, <1>6

LEMMA CountIsCount ==
    ASSUME NEW w, IsWorkflow(w)
    PROVE  IsWorkflow([w EXCEPT !.copies = @ + 1])
  <1>1. w = [name |-> w.name, graph |-> w.graph, note |-> w.note, version |-> w.version, copies |-> w.copies]
    BY DEF IsWorkflow
  <1>2. [w EXCEPT !.copies = @ + 1] =
           [name |-> w.name, graph |-> w.graph, note |-> w.note, version |-> w.version, copies |-> w.copies + 1]
    BY <1>1
  <1> QED BY <1>2 DEF IsWorkflow

----------------------------------------------------------------------------
(* The steps.                                                              *)

\* Who writes replaces what is there, and nothing else.
LEMMA WriteUpdateIsSave ==
    ASSUME ShelfInv, NEW r \in DOMAIN req, req[r].pc = "update",
           Replace(Target(r), Updated(req[r].saw, Given(r.patch)))
    PROVE  /\ \E id \in DOMAIN shelf : Promise!Save(id)
           /\ DOMAIN shelf' = DOMAIN shelf
           /\ ShelfFits'
  <1> DEFINE t == Target(r)
             patch == Given(r.patch)
             w == shelf[t]
  <1>1. r.kind \in {"create", "save"} /\ t \in DOMAIN shelf /\ req[r].saw = w
    BY DEF ShelfInv, HolderSees
  <1>2. r \in Wanted("create") \cup Wanted("save")
    BY <1>1 DEF ShelfInv, RequestsFit, Wanted
  <1>3. /\ DOMAIN patch \subseteq {"name", "graph", "note"}
        /\ "graph" \in DOMAIN patch => patch.graph \notin {"", "null"}
    BY <1>2, WorkflowsAssumption, GivenFits
  <1>4. IsWorkflow(w)
    BY <1>1 DEF ShelfInv, ShelfFits
  <1> HIDE DEF t, patch, w
  <1>5. Updated(w, patch) = Promise!Saved(w, patch) /\ IsWorkflow(Updated(w, patch))
    BY <1>3, <1>4, UpdateIsSave
  <1>6. shelf' = [x \in DOMAIN shelf \cup {t} |-> IF x = t THEN Updated(w, patch) ELSE shelf[x]]
    BY <1>1 DEF Replace, Put, t, patch
  <1>7. DOMAIN shelf' = DOMAIN shelf
    BY <1>1, <1>6
  <1>8. shelf' = [shelf EXCEPT ![t] = Promise!Saved(shelf[t], patch)]
    BY <1>1, <1>5, <1>6 DEF w
  <1>9. patch \in {Given(q.patch) : q \in Wanted("create") \cup Wanted("save")}
    BY <1>2 DEF patch
  <1>10. Promise!Save(t)
    BY <1>8, <1>9 DEF Promise!Save
  <1>11. ShelfFits'
    BY <1>5, <1>6, <1>7 DEF ShelfInv, ShelfFits
  <1> QED BY <1>1, <1>7, <1>10, <1>11

LEMMA CreateIsCreate ==
    ASSUME ShelfInv, NEW r \in DOMAIN req, Stands(r, "create", "begin"),
           Replace(r.id, NewWorkflow(r.name, r.graph, ""))
    PROVE  /\ Promise!Next
           /\ DOMAIN shelf' = DOMAIN shelf \cup {r.id}
           /\ ShelfFits'
  <1> DEFINE new == NewWorkflow(r.name, r.graph, "")
  <1>1. r \in Wanted("create") /\ r.id \notin DOMAIN shelf
    BY DEF ShelfInv, RequestsFit, IdsAreFree, Wanted, Stands
  <1>2. /\ new \in {NewWorkflow(q.name, q.graph, "") : q \in Wanted("create")}
        /\ r.id \in {q.id : q \in Wanted("create") \cup Wanted("duplicate")}
    BY <1>1
  <1>3. shelf' = [x \in DOMAIN shelf \cup {r.id} |-> IF x = r.id THEN new ELSE shelf[x]]
    BY DEF Replace, Put
  <1>4. IsWorkflow(new)
    BY NewIsWorkflow
  <1> HIDE DEF new
  <1>5. Promise!Create(r.id)
    BY <1>1, <1>2, <1>3 DEF Promise!Create, Promise!Appears
  <1>6. ShelfFits'
    BY <1>3, <1>4 DEF ShelfInv, ShelfFits
  <1> QED BY <1>2, <1>3, <1>5, <1>6 DEF Promise!Next

LEMMA WriteCopyIsCopy ==
    ASSUME ShelfInv, NEW r \in DOMAIN req, Stands(r, "duplicate", "copy"),
           Replace(r.id, CopyOf(req[r].saw))
    PROVE  /\ Promise!Next
           /\ DOMAIN shelf' = DOMAIN shelf \cup {r.id} /\ r.id # r.workflow
           /\ r.workflow \in DOMAIN shelf /\ shelf'[r.workflow] = shelf[r.workflow]
           /\ ShelfFits'
  <1> DEFINE w == shelf[r.workflow]
  <1>1. /\ r \in Wanted("duplicate") /\ r.id \notin DOMAIN shelf
        /\ r.workflow \in DOMAIN shelf /\ req[r].saw = w
    BY DEF ShelfInv, RequestsFit, HolderSees, IdsAreFree, Wanted, Stands
  <1>2. r.id \in {q.id : q \in Wanted("create") \cup Wanted("duplicate")}
    BY <1>1
  <1>3. shelf' = [x \in DOMAIN shelf \cup {r.id} |-> IF x = r.id THEN CopyOf(w) ELSE shelf[x]]
    BY <1>1 DEF Replace, Put
  <1>4. IsWorkflow(w)
    BY <1>1 DEF ShelfInv, ShelfFits
  <1>5. CopyOf(w) = [shelf[r.workflow] EXCEPT !.name = "copy", !.version = 1, !.copies = 0]
    BY <1>4, CopyIsCopy
  <1>6. Promise!Copy(r.id)
    BY <1>1, <1>3, <1>5 DEF Promise!Copy, Promise!Appears
  <1>7. IsWorkflow(CopyOf(w))
    BY NewIsWorkflow DEF CopyOf
  <1>8. ShelfFits'
    BY <1>3, <1>7 DEF ShelfInv, ShelfFits
  <1> QED BY <1>1, <1>2, <1>3, <1>6, <1>8 DEF Promise!Next

LEMMA WriteCountIsCount ==
    ASSUME ShelfInv, NEW r \in DOMAIN req, Stands(r, "duplicate", "count"),
           Replace(r.workflow, [req[r].saw EXCEPT !.copies = @ + 1])
    PROVE  /\ Promise!Next
           /\ DOMAIN shelf' = DOMAIN shelf
           /\ ShelfFits'
  <1> DEFINE w == shelf[r.workflow]
  <1>1. r.workflow \in DOMAIN shelf /\ req[r].saw = w
    BY DEF ShelfInv, HolderSees, Stands
  <1>2. IsWorkflow(w) /\ IsWorkflow([w EXCEPT !.copies = @ + 1])
    BY <1>1, CountIsCount DEF ShelfInv, ShelfFits
  <1>3. shelf' = [x \in DOMAIN shelf \cup {r.workflow} |->
                    IF x = r.workflow THEN [w EXCEPT !.copies = @ + 1] ELSE shelf[x]]
    BY <1>1 DEF Replace, Put
  <1>4. shelf' = [shelf EXCEPT ![r.workflow].copies = @ + 1]
    BY <1>1, <1>3
  <1>5. Promise!Next
    BY <1>1, <1>4 DEF Promise!Next, Promise!Count
  <1>6. DOMAIN shelf' = DOMAIN shelf
    BY <1>1, <1>3
  <1>7. ShelfFits'
    BY <1>2, <1>3 DEF ShelfInv, ShelfFits
  <1> QED BY <1>5, <1>6, <1>7

----------------------------------------------------------------------------
(* Who holds the mutex.                                                    *)

LEMMA NobodyHolds ==
    ASSUME ShelfInv, mu = Free
    PROVE  \A q \in DOMAIN req : req[q].pc \notin Held
  BY RequestsAssumption DEF ShelfInv, RequestsFit, HolderSees, Held

LEMMA OneHolds ==
    ASSUME ShelfInv, NEW r \in DOMAIN req, req[r].pc \in Held
    PROVE  mu = r /\ \A q \in DOMAIN req \ {r} : req[q].pc \notin Held
  BY DEF ShelfInv, HolderSees, Held

LEMMA IdsAreOne ==
    ASSUME RequestsFit, NEW r \in DOMAIN req, NEW q \in DOMAIN req, q.id = r.id
    PROVE  q = r
  BY RequestsAssumption DEF RequestsFit

\* One that is done with its change, while nobody else is in the middle of one.
LEMMA DoneHolds ==
    ASSUME ShelfInv, NEW r \in DOMAIN req,
           DOMAIN req' = DOMAIN req, IsPlace(req'[r]), req'[r].pc \notin Held \cup {"begin"},
           \A q \in DOMAIN req \ {r} : req'[q] = req[q] /\ req[q].pc \notin Held,
           ShelfFits', DOMAIN shelf' \subseteq DOMAIN shelf \cup {r.id}
    PROVE  ShelfInv'
  <1>1. RequestsFit'
    BY DEF ShelfInv, RequestsFit
  <1>2. HolderSees'
    BY DEF ShelfInv, HolderSees, Held
  <1>3. ASSUME NEW q \in DOMAIN req, q # r PROVE q.id \in DOMAIN shelf' => q.id \in DOMAIN shelf
    BY <1>3, IdsAreOne DEF ShelfInv
  <1>4. IdsAreFree'
    <2> SUFFICES ASSUME NEW q \in DOMAIN req'
                 PROVE  /\ Stands(q, "create", "begin")' => q.id \notin DOMAIN shelf'
                        /\ q.kind = "duplicate" /\ req'[q].pc \in {"begin", "copy"} => q.id \notin DOMAIN shelf'
      BY DEF IdsAreFree
    <2>1. CASE q = r
      BY <2>1 DEF Stands, Held
    <2>2. CASE q # r
      BY <1>3, <2>2 DEF ShelfInv, IdsAreFree, Stands
    <2> QED BY <2>1, <2>2
  <1> QED BY <1>1, <1>2, <1>4 DEF ShelfInv

LEMMA GoneDone ==
    ASSUME ShelfInv, NEW r \in DOMAIN req, NEW p, Go(r, p), p \notin Held \cup {"begin"},
           \A q \in DOMAIN req \ {r} : req[q].pc \notin Held,
           ShelfFits', DOMAIN shelf' \subseteq DOMAIN shelf \cup {r.id}
    PROVE  ShelfInv'
  <1>1. /\ DOMAIN req' = DOMAIN req
        /\ req'[r] = [pc |-> p, saw |-> req[r].saw]
        /\ \A q \in DOMAIN req \ {r} : req'[q] = req[q]
    BY Went DEF ShelfInv
  <1>2. IsPlace(req'[r]) /\ req'[r].pc = p
    BY <1>1 DEF IsPlace
  <1> QED BY <1>1, <1>2, DoneHolds

\* One that takes the mutex and begins a change.
LEMMA ReadHolds ==
    ASSUME ShelfInv, NEW r \in DOMAIN req, NEW id, NEW p, ReadToReplace(r, id, p), UNCHANGED shelf,
           \/ p = "update" /\ r.kind \in {"create", "save"} /\ id = Target(r)
           \/ p = "copy" /\ Stands(r, "duplicate", "begin") /\ id = r.workflow
    PROVE  ShelfInv'
  <1>1. \A q \in DOMAIN req : req[q].pc \notin Held
    BY NobodyHolds DEF ReadToReplace
  <1>2. CASE id \notin DOMAIN shelf
    BY <1>2, "refused" \notin Held \cup {"begin"}, GoesAside, AsideHolds DEF ShelfInv, ReadToReplace, Held
  <1>3. CASE id \in DOMAIN shelf
    <2>1. mu' = r /\ Keep(r, p, shelf[id])
      BY <1>3 DEF ReadToReplace
    <2>2. /\ DOMAIN req' = DOMAIN req
          /\ req'[r] = [pc |-> p, saw |-> shelf[id]]
          /\ \A q \in DOMAIN req \ {r} : req'[q] = req[q]
      BY <2>1, Kept DEF ShelfInv
    <2>3. RequestsFit'
      BY <2>2 DEF ShelfInv, RequestsFit, IsPlace
    <2>4. HolderSees'
      BY <1>1, <1>3, <2>1, <2>2 DEF HolderSees, Held, Target, Stands
    <2>5. IdsAreFree'
      BY <2>2 DEF ShelfInv, IdsAreFree, Stands
    <2>6. ShelfFits'
      BY DEF ShelfInv, ShelfFits
    <2> QED BY <2>3, <2>4, <2>5, <2>6 DEF ShelfInv
  <1> QED BY <1>2, <1>3

----------------------------------------------------------------------------
LEMMA WorkflowsStep ==
    ASSUME ShelfInv, WorkflowsNext
    PROVE  ShelfInv' /\ (Promise!Next \/ UNCHANGED shelf)
  <1> PICK r \in DOMAIN req :
         \/ CreateWorkflow(r) \/ DescribeWorkflow(r) \/ UpdateWorkflow(r) \/ WriteUpdate(r)
         \/ DuplicateWorkflow(r) \/ WriteCopy(r) \/ WriteCount(r) \/ DeleteWorkflow(r)
         \/ GetWorkflow(r) \/ ListWorkflows(r)
    BY DEF WorkflowsNext
  <1>a. {"ok", "refused", "describe"} \cap (Held \cup {"begin"}) = {}
    BY DEF Held
  <1>b. ASSUME NEW p \in {"ok", "refused", "describe"}, UNCHANGED <<shelf, mu>>,
               Go(r, p) \/ \E s : Keep(r, p, s)
        PROVE  ShelfInv'
    BY <1>a, <1>b, GoesAside, KeepsAside, AsideHolds DEF ShelfInv
  <1>1. CASE CreateWorkflow(r)
    <2>1. CASE UNCHANGED shelf /\ Go(r, "refused")
      BY <1>1, <1>b, <2>1 DEF CreateWorkflow
    <2>2. CASE /\ Replace(r.id, NewWorkflow(r.name, r.graph, ""))
               /\ Go(r, IF DOMAIN r.patch = {} THEN "ok" ELSE "describe")
      <3>1. Promise!Next /\ DOMAIN shelf' = DOMAIN shelf \cup {r.id} /\ ShelfFits'
        BY <1>1, <2>2, CreateIsCreate DEF CreateWorkflow
      <3>2. \A q \in DOMAIN req : req[q].pc \notin Held
        BY <1>1, NobodyHolds DEF CreateWorkflow
      <3>3. PICK p \in {"ok", "describe"} : Go(r, p)
        BY <2>2
      <3> QED BY <1>a, <3>1, <3>2, <3>3, GoneDone
    <2> QED BY <1>1, <2>1, <2>2 DEF CreateWorkflow
  <1>2. CASE DescribeWorkflow(r)
    <2>1. r.kind = "create" /\ r.id = Target(r)
      BY <1>2 DEF DescribeWorkflow, Stands, Target
    <2> QED BY <1>2, <2>1, ReadHolds DEF DescribeWorkflow
  <1>3. CASE UpdateWorkflow(r)
    <2>1. r.kind = "save" /\ r.workflow = Target(r)
      BY <1>3 DEF UpdateWorkflow, Stands, Target
    <2> QED BY <1>3, <2>1, ReadHolds DEF UpdateWorkflow
  <1>4. CASE WriteUpdate(r)
    <2>1. req[r].pc = "update" /\ mu' = (IF mu = r THEN Free ELSE mu)
      BY <1>4 DEF WriteUpdate, Release
    <2>2. \A q \in DOMAIN req \ {r} : req[q].pc \notin Held
      BY <2>1, OneHolds DEF Held
    <2>3. CASE Replace(Target(r), Updated(req[r].saw, Given(r.patch))) /\ Go(r, "ok")
      <3>1. /\ \E id \in DOMAIN shelf : Promise!Save(id)
            /\ DOMAIN shelf' = DOMAIN shelf /\ ShelfFits'
        BY <2>1, <2>3, WriteUpdateIsSave
      <3>2. Promise!Next
        BY <3>1 DEF Promise!Next
      <3> QED BY <1>a, <2>2, <2>3, <3>1, <3>2, GoneDone
    <2>4. CASE Go(r, "refused") /\ UNCHANGED shelf
      <3>1. ShelfFits'
        BY <2>4 DEF ShelfInv, ShelfFits
      <3> QED BY <1>a, <2>2, <2>4, <3>1, GoneDone
    <2> QED BY <1>4, <2>3, <2>4 DEF WriteUpdate
  <1>5. CASE DuplicateWorkflow(r)
    BY <1>5, ReadHolds DEF DuplicateWorkflow
  <1>6. CASE WriteCopy(r)
    <2>1. Stands(r, "duplicate", "copy") /\ req[r].pc = "copy" /\ r.kind = "duplicate"
      BY <1>6 DEF WriteCopy, Stands
    <2>2. mu = r /\ \A q \in DOMAIN req \ {r} : req[q].pc \notin Held
      BY <2>1, OneHolds DEF Held
    <2>3. CASE Replace(r.id, CopyOf(req[r].saw)) /\ Go(r, "count") /\ UNCHANGED mu
      <3>1. /\ Promise!Next
            /\ DOMAIN shelf' = DOMAIN shelf \cup {r.id} /\ r.id # r.workflow
            /\ r.workflow \in DOMAIN shelf /\ shelf'[r.workflow] = shelf[r.workflow]
            /\ ShelfFits'
        BY <2>1, <2>3, WriteCopyIsCopy
      <3>2. /\ DOMAIN req' = DOMAIN req
            /\ req'[r] = [pc |-> "count", saw |-> req[r].saw]
            /\ \A q \in DOMAIN req \ {r} : req'[q] = req[q]
        BY <2>3, Went DEF ShelfInv
      <3>3. RequestsFit'
        BY <3>2 DEF ShelfInv, RequestsFit, IsPlace
      <3>4. req[r].saw = shelf[r.workflow]
        BY <2>1 DEF ShelfInv, HolderSees
      <3>5. HolderSees'
        BY <2>1, <2>2, <2>3, <3>1, <3>2, <3>4 DEF HolderSees, Held
      <3>6. ASSUME NEW q \in DOMAIN req, q # r PROVE q.id \in DOMAIN shelf' => q.id \in DOMAIN shelf
        BY <3>1, <3>6, IdsAreOne DEF ShelfInv
      <3>7. IdsAreFree'
        BY <2>1, <3>2, <3>6 DEF ShelfInv, IdsAreFree, Stands
      <3> QED BY <3>1, <3>3, <3>5, <3>7 DEF ShelfInv
    <2>4. CASE Go(r, "refused") /\ UNCHANGED shelf
      <3>1. ShelfFits'
        BY <2>4 DEF ShelfInv, ShelfFits
      <3> QED BY <1>a, <2>2, <2>4, <3>1, GoneDone
    <2> QED BY <1>6, <2>3, <2>4 DEF WriteCopy
  <1>7. CASE WriteCount(r)
    <2>1. Stands(r, "duplicate", "count") /\ req[r].pc = "count" /\ Go(r, "ok")
      BY <1>7 DEF WriteCount, Stands
    <2>2. \A q \in DOMAIN req \ {r} : req[q].pc \notin Held
      BY <2>1, OneHolds DEF Held
    <2>3. CASE Replace(r.workflow, [req[r].saw EXCEPT !.copies = @ + 1])
      <3>1. Promise!Next /\ DOMAIN shelf' = DOMAIN shelf /\ ShelfFits'
        BY <2>1, <2>3, WriteCountIsCount
      <3> QED BY <1>a, <2>1, <2>2, <3>1, GoneDone
    <2>4. CASE UNCHANGED shelf
      <3>1. ShelfFits'
        BY <2>4 DEF ShelfInv, ShelfFits
      <3> QED BY <1>a, <2>1, <2>2, <2>4, <3>1, GoneDone
    <2> QED BY <1>7, <2>3, <2>4 DEF WriteCount
  <1>8. CASE DeleteWorkflow(r)
    <2>1. CASE r.workflow \notin DOMAIN shelf
      BY <1>8, <1>b, <2>1 DEF DeleteWorkflow
    <2>2. CASE r.workflow \in DOMAIN shelf
      <3>1. shelf' = [x \in DOMAIN shelf \ {r.workflow} |-> shelf[x]] /\ Go(r, "ok")
        BY <1>8, <2>2 DEF DeleteWorkflow, Without
      <3>2. Promise!Next
        BY <2>2, <3>1 DEF Promise!Next, Promise!Delete
      <3>3. ShelfFits' /\ DOMAIN shelf' \subseteq DOMAIN shelf
        BY <3>1 DEF ShelfInv, ShelfFits
      <3>4. \A q \in DOMAIN req : req[q].pc \notin Held
        BY <1>8, NobodyHolds DEF DeleteWorkflow
      <3> QED BY <1>a, <3>1, <3>2, <3>3, <3>4, GoneDone
    <2> QED BY <2>1, <2>2
  <1>9. CASE GetWorkflow(r)
    BY <1>9, <1>b DEF GetWorkflow
  <1>10. CASE ListWorkflows(r)
    BY <1>10, <1>b DEF ListWorkflows
  <1> QED BY <1>1, <1>2, <1>3, <1>4, <1>5, <1>6, <1>7, <1>8, <1>9, <1>10

----------------------------------------------------------------------------
(* How the requests of each component move.                                *)

\* Where a request may stand on its way, by what it is about.
SettingPlaces ==
    {"machine", "project", "answer", "theirs", "open", "write", "rename", "renamed", "failed",
     "lock", "prefs", "clear"}
WorkflowPlaces == {"describe", "update", "copy", "count"}
RunPlaces == {"record", "poll", "polled", "read", "runs"}
PackPlaces == {"pack", "files"}

SettingKinds == {"set", "delete", "order", "endpoint", "elsewhere"}
WorkflowKinds == {"create", "save", "duplicate", "discard", "open", "list"}
RunKinds == {"run", "status", "output", "cancel", "executions"}
PackKinds == {"edit", "reload"}

\* Requests of these kinds begin, or go on from one of these places to another
\* of them or to their end.
Moves(places, kinds) ==
    /\ DOMAIN req' = DOMAIN req
    /\ \A r \in DOMAIN req :
          \/ req'[r] = req[r]
          \/ /\ req[r].pc \in places \/ (req[r].pc = "begin" /\ r.kind \in kinds)
             /\ IsPlace(req'[r]) /\ req'[r].pc \in places \cup Ended

LEMMA MovesOn ==
    ASSUME RequestsFit, NEW r \in DOMAIN req, NEW places, NEW kinds,
           req[r].pc \in places \/ (req[r].pc = "begin" /\ r.kind \in kinds),
           NEW p \in places \cup Ended, Go(r, p) \/ \E x : Keep(r, p, x)
    PROVE  Moves(places, kinds)
  <1>1. CASE Go(r, p)
    <2>1. req'[r] = [pc |-> p, saw |-> req[r].saw]
      BY <1>1, Went
    <2>2. IsPlace(req'[r]) /\ req'[r].pc = p
      BY <2>1 DEF IsPlace
    <2> QED BY <1>1, <2>2, Went DEF Moves
  <1>2. CASE \E x : Keep(r, p, x)
    <2>1. PICK x : Keep(r, p, x)
      BY <1>2
    <2>2. req'[r] = [pc |-> p, saw |-> x]
      BY <2>1, Kept
    <2>3. IsPlace(req'[r]) /\ req'[r].pc = p
      BY <2>2 DEF IsPlace
    <2> QED BY <2>1, <2>3, Kept DEF Moves
  <1> QED BY <1>1, <1>2

\* Opening the file beside remembers which one it was.
LEMMA Opened ==
    ASSUME RequestsFit, NEW r \in DOMAIN req, NEW i,
           req' = [req EXCEPT ![r] = [@ EXCEPT !.pc = "write", !.saw.at = i]]
    PROVE  Keep(r, "write", [req[r].saw EXCEPT !.at = i])
  <1>1. req[r] = [pc |-> req[r].pc, saw |-> req[r].saw]
    BY DEF RequestsFit, IsPlace
  <1>2. [req[r] EXCEPT !.pc = "write"] = [pc |-> "write", saw |-> req[r].saw]
    BY <1>1
  <1>3. req' = [req EXCEPT ![r] = [[req[r] EXCEPT !.pc = "write"] EXCEPT !.saw.at = i]]
    OBVIOUS
  <1>4. [[pc |-> "write", saw |-> req[r].saw] EXCEPT !.saw.at = i]
          = [pc |-> "write", saw |-> [req[r].saw EXCEPT !.at = i]]
    OBVIOUS
  <1>5. req' = [req EXCEPT ![r] = [pc |-> "write", saw |-> [req[r].saw EXCEPT !.at = i]]]
    BY <1>2, <1>3, <1>4
  <1> QED BY <1>2, <1>5 DEF Keep

LEMMA SettingsMove ==
    ASSUME RequestsFit, SettingsNext
    PROVE  Moves(SettingPlaces, SettingKinds)
  <1> PICK r \in DOMAIN req :
         \/ BeginSet(r) \/ SetOnMachine(r) \/ SetInProject(r) \/ AnswerSet(r)
         \/ BeginDelete(r) \/ DeleteOnMachine(r) \/ DeleteInProject(r)
         \/ SetProviderOrder(r) \/ WritePreferences(r)
         \/ BeginEndpoint(r) \/ LockEndpoint(r) \/ EndpointOnMachine(r) \/ EndpointInProject(r)
         \/ OtherReads(r) \/ OtherWrites(r)
    BY DEF SettingsNext
  <1>a. ASSUME NEW p \in SettingPlaces \cup Ended, Go(r, p) \/ \E x : Keep(r, p, x),
               req[r].pc \in SettingPlaces \/ (req[r].pc = "begin" /\ r.kind \in SettingKinds)
        PROVE  Moves(SettingPlaces, SettingKinds)
    BY <1>a, MovesOn
  <1>1. CASE BeginSet(r)
    BY <1>1, <1>a DEF BeginSet, ReadMachine, Stands, SettingPlaces, SettingKinds, Ended
  <1>2. CASE SetOnMachine(r)
    BY <1>2, <1>a DEF SetOnMachine, WriteMachine, Stands, SettingPlaces, Ended
  <1>3. CASE SetInProject(r)
    BY <1>3, <1>a DEF SetInProject, Stands, SettingPlaces, Ended
  <1>4. CASE AnswerSet(r)
    BY <1>4, <1>a DEF AnswerSet, Stands, SettingPlaces, Ended
  <1>5. CASE BeginDelete(r)
    BY <1>5, <1>a DEF BeginDelete, ReadMachine, Stands, SettingPlaces, SettingKinds, Ended
  <1>6. CASE DeleteOnMachine(r)
    BY <1>6, <1>a DEF DeleteOnMachine, WriteMachine, Stands, SettingPlaces, Ended
  <1>7. CASE DeleteInProject(r)
    BY <1>7, <1>a DEF DeleteInProject, AnswerDelete, Stands, SettingPlaces, Ended
  <1>8. CASE SetProviderOrder(r)
    BY <1>8, <1>a DEF SetProviderOrder, Stands, SettingPlaces, SettingKinds
  <1>9. CASE OpenPartial(r)
    <2>1. CASE Go(r, "failed")
      BY <1>9, <1>a, <2>1 DEF OpenPartial, SettingPlaces
    <2>2. CASE \E i : req' = [req EXCEPT ![r] = [@ EXCEPT !.pc = "write", !.saw.at = i]]
      BY <1>9, <1>a, <2>2, Opened DEF OpenPartial, SettingPlaces
    <2> QED BY <1>9, <2>1, <2>2 DEF OpenPartial
  <1>10. CASE WritePartial(r)
    BY <1>10, <1>a DEF WritePartial, SettingPlaces
  <1>11. CASE RenamePartial(r)
    BY <1>11, <1>a DEF RenamePartial, SettingPlaces
  <1>12. CASE AfterPreferences(r)
    BY <1>12, <1>a DEF AfterPreferences, SettingPlaces, Ended
  <1>13. CASE BeginEndpoint(r)
    BY <1>13, <1>a DEF BeginEndpoint, Stands, SettingPlaces, SettingKinds, Ended
  <1>14. CASE LockEndpoint(r)
    BY <1>14, <1>a DEF LockEndpoint, Stands, SettingPlaces
  <1>15. CASE EndpointOnMachine(r)
    BY <1>15, <1>a DEF EndpointOnMachine, WriteMachine, Stands, SettingPlaces, Ended
  <1>16. CASE EndpointInProject(r)
    BY <1>16, <1>a DEF EndpointInProject, SettingPlaces
  <1>17. CASE OtherReads(r)
    BY <1>17, <1>a DEF OtherReads, Stands, SettingPlaces, SettingKinds
  <1>18. CASE OtherWrites(r)
    BY <1>18, <1>a DEF OtherWrites, Stands, SettingPlaces, Ended
  <1> QED BY <1>1, <1>2, <1>3, <1>4, <1>5, <1>6, <1>7, <1>8, <1>9, <1>10, <1>11, <1>12, <1>13,
             <1>14, <1>15, <1>16, <1>17, <1>18 DEF WritePreferences

LEMMA WorkflowsMove ==
    ASSUME RequestsFit, WorkflowsNext
    PROVE  Moves(WorkflowPlaces, WorkflowKinds)
  <1> PICK r \in DOMAIN req :
         \/ CreateWorkflow(r) \/ DescribeWorkflow(r) \/ UpdateWorkflow(r) \/ WriteUpdate(r)
         \/ DuplicateWorkflow(r) \/ WriteCopy(r) \/ WriteCount(r) \/ DeleteWorkflow(r)
         \/ GetWorkflow(r) \/ ListWorkflows(r)
    BY DEF WorkflowsNext
  <1>a. ASSUME NEW p \in WorkflowPlaces \cup Ended, Go(r, p) \/ \E x : Keep(r, p, x),
               req[r].pc \in WorkflowPlaces \/ (req[r].pc = "begin" /\ r.kind \in WorkflowKinds)
        PROVE  Moves(WorkflowPlaces, WorkflowKinds)
    BY <1>a, MovesOn
  <1>1. CASE CreateWorkflow(r)
    BY <1>1, <1>a DEF CreateWorkflow, Stands, WorkflowPlaces, WorkflowKinds, Ended
  <1>2. CASE DescribeWorkflow(r)
    BY <1>2, <1>a DEF DescribeWorkflow, ReadToReplace, Stands, WorkflowPlaces, Ended
  <1>3. CASE UpdateWorkflow(r)
    BY <1>3, <1>a DEF UpdateWorkflow, ReadToReplace, Stands, WorkflowPlaces, WorkflowKinds, Ended
  <1>4. CASE WriteUpdate(r)
    BY <1>4, <1>a DEF WriteUpdate, WorkflowPlaces, Ended
  <1>5. CASE DuplicateWorkflow(r)
    BY <1>5, <1>a DEF DuplicateWorkflow, ReadToReplace, Stands, WorkflowPlaces, WorkflowKinds, Ended
  <1>6. CASE WriteCopy(r)
    BY <1>6, <1>a DEF WriteCopy, Stands, WorkflowPlaces, Ended
  <1>7. CASE WriteCount(r)
    BY <1>7, <1>a DEF WriteCount, Stands, WorkflowPlaces, Ended
  <1>8. CASE DeleteWorkflow(r)
    BY <1>8, <1>a DEF DeleteWorkflow, Stands, WorkflowKinds, Ended
  <1>9. CASE GetWorkflow(r)
    BY <1>9, <1>a DEF GetWorkflow, Stands, WorkflowKinds, Ended
  <1>10. CASE ListWorkflows(r)
    BY <1>10, <1>a DEF ListWorkflows, Stands, WorkflowKinds, Ended
  <1> QED BY <1>1, <1>2, <1>3, <1>4, <1>5, <1>6, <1>7, <1>8, <1>9, <1>10

\* A run's own steps are no request's.
LEMMA StillMoves == ASSUME UNCHANGED req, NEW places, NEW kinds PROVE Moves(places, kinds)
  BY DEF Moves

LEMMA RunsMove ==
    ASSUME RequestsFit, RunsNext
    PROVE  Moves(RunPlaces, RunKinds)
  <1>r. ASSUME NEW r \in DOMAIN req,
               \/ StartRun(r) \/ RecordRun(r) \/ BeginStatus(r) \/ PollRun(r) \/ WaitRunsOut(r)
               \/ Polled(r) \/ AgentLeaves(r) \/ ReadStatus(r)
               \/ GetOutput(r) \/ CancelExecution(r) \/ ListExecutions(r)
        PROVE  Moves(RunPlaces, RunKinds)
    <2>a. ASSUME NEW p \in RunPlaces \cup Ended, Go(r, p) \/ \E x : Keep(r, p, x),
                 req[r].pc \in RunPlaces \/ (req[r].pc = "begin" /\ r.kind \in RunKinds)
          PROVE  Moves(RunPlaces, RunKinds)
      BY <2>a, MovesOn
    <2>1. CASE StartRun(r)
      BY <2>1, <2>a DEF StartRun, Stands, RunPlaces, RunKinds, Ended
    <2>2. CASE RecordRun(r)
      BY <2>2, <2>a DEF RecordRun, Stands, RunPlaces, Ended
    <2>3. CASE BeginStatus(r)
      BY <2>3, <2>a DEF BeginStatus, Stands, RunPlaces, RunKinds, Ended
    <2>4. CASE PollRun(r)
      BY <2>4, <2>a DEF PollRun, RunPlaces, Ended
    <2>5. CASE WaitRunsOut(r)
      BY <2>5, <2>a DEF WaitRunsOut, RunPlaces
    <2>6. CASE Polled(r)
      BY <2>6, <2>a DEF Polled, AfterPoll, RunPlaces, Ended
    <2>7. CASE AgentLeaves(r)
      BY <2>7, <2>a DEF AgentLeaves, RunPlaces, Ended
    <2>8. CASE ReadStatus(r)
      BY <2>8, <2>a DEF ReadStatus, RunPlaces, Ended
    <2>9. CASE GetOutput(r)
      BY <2>9, <2>a DEF GetOutput, Stands, RunKinds, Ended
    <2>10. CASE CancelExecution(r)
      BY <2>10, <2>a DEF CancelExecution, Stands, RunKinds, Ended
    <2>11. CASE ListExecutions(r)
      BY <2>11, <2>a DEF ListExecutions, RunPlaces, RunKinds, Ended
    <2> QED BY <1>r, <2>1, <2>2, <2>3, <2>4, <2>5, <2>6, <2>7, <2>8, <2>9, <2>10, <2>11
  <1>g. ASSUME NEW id \in DOMAIN going,
               RunStarts(id) \/ RunReadsProjectKeys(id) \/ RunReadsMachineKeys(id) \/ RunEnds(id)
        PROVE  Moves(RunPlaces, RunKinds)
    BY <1>g, StillMoves DEF RunStarts, RunReadsProjectKeys, RunReadsMachineKeys, RunEnds
  <1> QED BY <1>r, <1>g DEF RunsNext

LEMMA PacksMove ==
    ASSUME RequestsFit, PacksNext
    PROVE  Moves(PackPlaces, PackKinds)
  <1> PICK r \in DOMAIN req :
         EditPack(r) \/ ListFolder(r) \/ OpenPack(r) \/ ReadNodeFile(r) \/ InstallPack(r) \/ ServePacks(r)
    BY DEF PacksNext
  <1>a. ASSUME NEW p \in PackPlaces \cup Ended, Go(r, p) \/ \E x : Keep(r, p, x),
               req[r].pc \in PackPlaces \/ (req[r].pc = "begin" /\ r.kind \in PackKinds)
        PROVE  Moves(PackPlaces, PackKinds)
    BY <1>a, MovesOn
  <1>1. CASE EditPack(r)
    BY <1>1, <1>a DEF EditPack, Stands, PackKinds, Ended
  <1>2. CASE ListFolder(r)
    BY <1>2, <1>a DEF ListFolder, Stands, PackPlaces, PackKinds
  <1>3. CASE OpenPack(r)
    BY <1>3, <1>a DEF OpenPack, NextPack, Stands, PackPlaces
  <1>4. CASE ReadNodeFile(r)
    BY <1>4, <1>a DEF ReadNodeFile, NextPack, Stands, PackPlaces
  <1>5. CASE InstallPack(r)
    BY <1>5, <1>a DEF InstallPack, NextPack, Stands, PackPlaces
  <1>6. CASE ServePacks(r)
    BY <1>6, <1>a DEF ServePacks, Stands, PackPlaces, Ended
  <1> QED BY <1>1, <1>2, <1>3, <1>4, <1>5, <1>6

\* Only the workflow store's requests touch its mutex.
LEMMA OthersLeaveMutex ==
    ASSUME SettingsNext \/ RunsNext \/ PacksNext
    PROVE  UNCHANGED mu
  <1>1. CASE SettingsNext
    BY <1>1 DEF SettingsNext, BeginSet, SetOnMachine, SetInProject, AnswerSet, BeginDelete, DeleteOnMachine,
                DeleteInProject, SetProviderOrder, WritePreferences, OpenPartial, WritePartial, RenamePartial,
                AfterPreferences, BeginEndpoint, LockEndpoint, EndpointOnMachine, EndpointInProject,
                OtherReads, OtherWrites
  <1>2. CASE RunsNext
    BY <1>2 DEF RunsNext, StartRun, RecordRun, BeginStatus, PollRun, WaitRunsOut, Polled, AgentLeaves,
                ReadStatus, GetOutput, CancelExecution, ListExecutions, RunStarts, RunReadsProjectKeys,
                RunReadsMachineKeys, RunEnds
  <1>3. CASE PacksNext
    BY <1>3 DEF PacksNext, EditPack, ListFolder, OpenPack, ReadNodeFile, InstallPack, ServePacks
  <1> QED BY <1>1, <1>2, <1>3

LEMMA OthersAside ==
    ASSUME RequestsFit, SettingsNext \/ RunsNext \/ PacksNext, UNCHANGED shelf
    PROVE  Aside
  <1>1. UNCHANGED mu
    BY OthersLeaveMutex
  <1>2. CASE SettingsNext
    BY <1>1, <1>2, SettingsMove DEF Moves, Aside, SettingPlaces, Held, Ended
  <1>3. CASE RunsNext
    BY <1>1, <1>3, RunsMove DEF Moves, Aside, RunPlaces, Held, Ended
  <1>4. CASE PacksNext
    BY <1>1, <1>4, PacksMove DEF Moves, Aside, PackPlaces, Held, Ended
  <1> QED BY <1>2, <1>3, <1>4

----------------------------------------------------------------------------
(* A restart.                                                              *)

LEMMA RestartHolds == ASSUME ShelfInv, Restart PROVE ShelfInv' /\ UNCHANGED shelf
  <1>1. /\ req' = [r \in DOMAIN req |-> IF InFlight(r) THEN [req[r] EXCEPT !.pc = "gone"] ELSE req[r]]
        /\ UNCHANGED shelf
    BY DEF Restart, DropRequests
  <1>2. ASSUME NEW r \in DOMAIN req
        PROVE  IsPlace(req'[r]) /\ (req'[r] = req[r] \/ req'[r].pc = "gone")
    <2>1. CASE InFlight(r)
      <3>1. req'[r] = [pc |-> "gone", saw |-> req[r].saw]
        BY <1>1, <2>1 DEF ShelfInv, RequestsFit, IsPlace
      <3> QED BY <3>1 DEF IsPlace
    <2>2. CASE ~InFlight(r)
      BY <1>1, <2>2 DEF ShelfInv, RequestsFit
    <2> QED BY <2>1, <2>2
  <1>3. ASSUME NEW r \in DOMAIN req PROVE req'[r].pc \notin Held
    <2>1. CASE InFlight(r)
      <3>1. req'[r] = [pc |-> "gone", saw |-> req[r].saw]
        BY <1>1, <2>1 DEF ShelfInv, RequestsFit, IsPlace
      <3> QED BY <3>1 DEF Held
    <2>2. CASE ~InFlight(r)
      <3>1. req'[r] = req[r]
        BY <1>1, <2>2
      <3>2. r.kind # "elsewhere" => req[r].pc \in {"ok", "refused", "gone", "begin"}
        BY <2>2 DEF InFlight, Ended
      <3>3. req[r].pc \in Held => r.kind \in {"create", "save", "duplicate"}
        BY DEF ShelfInv, HolderSees, Held
      <3> QED BY <3>1, <3>2, <3>3 DEF Held
    <2> QED BY <2>1, <2>2
  <1>4. RequestsFit'
    BY <1>1, <1>2 DEF ShelfInv, RequestsFit
  <1>5. HolderSees'
    BY <1>1, <1>3 DEF HolderSees, Held
  <1>6. IdsAreFree'
    BY <1>1, <1>2 DEF ShelfInv, IdsAreFree, Stands
  <1>7. ShelfFits'
    BY <1>1 DEF ShelfInv, ShelfFits
  <1> QED BY <1>1, <1>4, <1>5, <1>6, <1>7 DEF ShelfInv

----------------------------------------------------------------------------
(* The promise.                                                            *)

LEMMA ShelfInit == Init => ShelfInv /\ Promise!Init
  <1> SUFFICES ASSUME Init PROVE ShelfInv /\ Promise!Init
    OBVIOUS
  <1>1. PICK script \in Scripts : req = [r \in script |-> [pc |-> "begin", saw |-> Nothing]]
    BY DEF Init, RequestsInit
  <1>2. shelf \in Shelves
    BY DEF Init, WorkflowsInit
  <1>3. RequestsFit
    BY <1>1 DEF RequestsFit, IsPlace
  <1>4. HolderSees
    BY <1>1 DEF HolderSees
  <1>5. IdsAreFree
    BY <1>1, <1>2, WorkflowsAssumption DEF IdsAreFree, Stands, Wanted
  <1>6. ShelfFits
    BY <1>2, WorkflowsAssumption DEF ShelfFits
  <1> QED BY <1>2, <1>3, <1>4, <1>5, <1>6 DEF ShelfInv, Promise!Init

LEMMA ShelfStep ==
    ShelfInv /\ [Next]_vars => ShelfInv' /\ [Promise!Next]_shelf
  <1> SUFFICES ASSUME ShelfInv, [Next]_vars
               PROVE  ShelfInv' /\ [Promise!Next]_shelf
    OBVIOUS
  <1>1. CASE Edit
    BY <1>1, WorkflowsStep DEF Edit
  <1>2. CASE Configure
    BY <1>2, OthersAside, AsideHolds DEF Configure, ShelfInv, Aside
  <1>3. CASE Run
    BY <1>3, OthersAside, AsideHolds DEF Run, ShelfInv, Aside
  <1>4. CASE Pack
    BY <1>4, OthersAside, AsideHolds DEF Pack, ShelfInv, Aside
  <1>5. CASE Restart
    BY <1>5, RestartHolds
  <1>6. CASE UNCHANGED vars
    BY <1>6, AsideHolds DEF vars, Aside
  <1> QED BY <1>1, <1>2, <1>3, <1>4, <1>5, <1>6 DEF Next

\* Whatever is asked of the daemon at once, and however its writes fail and it
\* is restarted, its workflow files are a shelf's.
THEOREM ShelfIsImplemented == Spec => ImplementsShelf
  <1>1. Init => ShelfInv /\ Promise!Init
    BY ShelfInit
  <1>2. ShelfInv /\ [Next]_vars => ShelfInv' /\ [Promise!Next]_shelf
    BY ShelfStep
  <1> QED BY <1>1, <1>2, PTL DEF Spec, ImplementsShelf, Promise!Spec

----------------------------------------------------------------------------
(* Waiting for a run.                                                      *)

\* What a wait may rely on: how a run it saw ended has ended for good, and
\* what it saw is kept as it was until the status is read.  A run is recorded
\* once, by the request that starts it.
Waits(r) ==
    /\ r.kind = "status" =>
          /\ req[r].pc \in {"begin", "poll", "polled", "read"} \cup Ended
          /\ req[r].pc \in {"poll", "polled", "read"} =>
                /\ req[r].saw = Waiting(req[r].saw.status, req[r].saw.over, req[r].saw.ended)
                /\ req[r].saw.ended => HasEnded(r.run)
          /\ req[r].pc = "ok" /\ req[r].saw.ended => req[r].saw.status \in Terminal
    /\ r.kind = "run" /\ req[r].pc \in {"begin", "record"} => r.id \notin DOMAIN record

\* A run that goes on has a file that does not say it has ended.
GoingOn ==
    \A id \in DOMAIN going :
       /\ going[id] = [pc |-> going[id].pc, keys |-> going[id].keys, barred |-> going[id].barred]
       /\ going[id].pc # "ended" => id \in DOMAIN record /\ record[id].status \notin Terminal

RecordsFit ==
    \A id \in DOMAIN record :
       record[id] = [workflow |-> record[id].workflow, version |-> record[id].version,
                     status |-> record[id].status]

WaitInv == RequestsFit /\ (\A r \in DOMAIN req : Waits(r)) /\ GoingOn /\ RecordsFit

LEMMA FitsOn ==
    ASSUME RequestsFit, NEW places, NEW kinds, Moves(places, kinds)
    PROVE  RequestsFit'
  BY DEF RequestsFit, Moves

\* A restart takes what was in flight with it.
LEMMA Dropped ==
    ASSUME RequestsFit, DropRequests
    PROVE  /\ RequestsFit'
           /\ DOMAIN req' = DOMAIN req
           /\ \A r \in DOMAIN req :
                 \/ req'[r] = req[r] /\ ~InFlight(r)
                 \/ req'[r] = [pc |-> "gone", saw |-> req[r].saw] /\ InFlight(r)
  <1>1. req' = [r \in DOMAIN req |-> IF InFlight(r) THEN [req[r] EXCEPT !.pc = "gone"] ELSE req[r]]
    BY DEF DropRequests
  <1>2. ASSUME NEW r \in DOMAIN req, InFlight(r)
        PROVE  req'[r] = [pc |-> "gone", saw |-> req[r].saw]
    BY <1>1, <1>2 DEF RequestsFit, IsPlace
  <1>3. ASSUME NEW r \in DOMAIN req, ~InFlight(r) PROVE req'[r] = req[r]
    BY <1>1, <1>3
  <1>4. ASSUME NEW r \in DOMAIN req PROVE IsPlace(req'[r])
    <2>1. CASE InFlight(r)
      <3>1. req'[r] = [pc |-> "gone", saw |-> req[r].saw]
        BY <1>2, <2>1
      <3> QED BY <3>1 DEF IsPlace
    <2>2. CASE ~InFlight(r)
      BY <1>3, <2>2 DEF RequestsFit
    <2> QED BY <2>1, <2>2
  <1>5. RequestsFit'
    BY <1>1, <1>4 DEF RequestsFit
  <1> QED BY <1>1, <1>2, <1>3, <1>5

LEMMA WaitInit == Init => WaitInv
  <1> SUFFICES ASSUME Init PROVE WaitInv
    OBVIOUS
  <1>1. PICK script \in Scripts : req = [r \in script |-> [pc |-> "begin", saw |-> Nothing]]
    BY DEF Init, RequestsInit
  <1>2. DOMAIN record = {} /\ DOMAIN going = {}
    BY DEF Init, RunsInit
  <1>3. RequestsFit
    BY <1>1 DEF RequestsFit, IsPlace
  <1>4. \A r \in DOMAIN req : Waits(r)
    BY <1>1, <1>2 DEF Waits
  <1> QED BY <1>2, <1>3, <1>4 DEF WaitInv, GoingOn, RecordsFit

\* The other requests neither wait nor start a run.
LEMMA OthersDoNotWait ==
    ASSUME WaitInv, UNCHANGED runVars, NEW places, NEW kinds, Moves(places, kinds),
           places \cap (RunPlaces \cup Ended \cup {"begin"}) = {},
           kinds \cap RunKinds = {}
    PROVE  WaitInv'
  <1>1. UNCHANGED <<record, going>>
    BY DEF runVars
  <1>2. ASSUME NEW r \in DOMAIN req PROVE Waits(r)'
    <2>1. Waits(r)
      BY DEF WaitInv
    <2>2. CASE req'[r] = req[r]
      BY <1>1, <2>1, <2>2 DEF Waits, HasEnded
    <2>3. CASE req'[r] # req[r]
      <3>1. /\ req[r].pc \in places \/ (req[r].pc = "begin" /\ r.kind \in kinds)
            /\ req'[r].pc \in places \cup Ended
        BY <2>3 DEF Moves
      <3>2. r.kind # "status"
        BY <2>1, <3>1 DEF Waits, RunPlaces, RunKinds
      <3>3. req'[r].pc \notin {"begin", "record"}
        BY <3>1 DEF RunPlaces, Ended
      <3> QED BY <3>2, <3>3 DEF Waits
    <2> QED BY <2>2, <2>3
  <1>3. RequestsFit' /\ DOMAIN req' = DOMAIN req
    BY FitsOn DEF WaitInv, Moves
  <1> QED BY <1>1, <1>2, <1>3 DEF WaitInv, GoingOn, RecordsFit

LEMMA RestartWaits == ASSUME WaitInv, Restart PROVE WaitInv'
  <1>1. /\ RequestsFit'
        /\ DOMAIN req' = DOMAIN req
        /\ \A r \in DOMAIN req : req'[r] = req[r] \/ req'[r] = [pc |-> "gone", saw |-> req[r].saw]
    BY Dropped DEF WaitInv, Restart
  <1>2. record' = record /\ DOMAIN going' = {}
    BY DEF Restart, RunsDropped
  <1>3. ASSUME NEW r \in DOMAIN req PROVE Waits(r)'
    <2>1. CASE req'[r] = req[r]
      BY <1>2, <2>1 DEF WaitInv, Waits, HasEnded
    <2>2. CASE req'[r] = [pc |-> "gone", saw |-> req[r].saw]
      BY <2>2 DEF Waits, Ended
    <2> QED BY <1>1, <2>1, <2>2
  <1> QED BY <1>1, <1>2, <1>3 DEF WaitInv, GoingOn, RecordsFit

\* A step of one request that leaves the runs as they are.
LEMMA OneWaits ==
    ASSUME WaitInv, UNCHANGED runVars, NEW r \in DOMAIN req, NEW x, req'[r] = x,
           DOMAIN req' = DOMAIN req, \A q \in DOMAIN req \ {r} : req'[q] = req[q],
           IsPlace(x), Waits(r)'
    PROVE  WaitInv'
  <1>1. UNCHANGED <<record, going>>
    BY DEF runVars
  <1>2. ASSUME NEW q \in DOMAIN req PROVE Waits(q)'
    <2>1. CASE q = r
      BY <2>1
    <2>2. CASE q # r
      BY <1>1, <2>2 DEF WaitInv, Waits, HasEnded
    <2> QED BY <2>1, <2>2
  <1>3. RequestsFit'
    BY DEF WaitInv, RequestsFit
  <1> QED BY <1>1, <1>2, <1>3 DEF WaitInv, GoingOn, RecordsFit

LEMMA GoesWaiting ==
    ASSUME WaitInv, UNCHANGED runVars, NEW r \in DOMAIN req, NEW p, Go(r, p),
           (req'[r] = [pc |-> p, saw |-> req[r].saw] => Waits(r)')
    PROVE  WaitInv'
  <1>1. /\ DOMAIN req' = DOMAIN req
        /\ req'[r] = [pc |-> p, saw |-> req[r].saw]
        /\ \A q \in DOMAIN req \ {r} : req'[q] = req[q]
    BY Went DEF WaitInv
  <1>2. IsPlace([pc |-> p, saw |-> req[r].saw])
    BY DEF IsPlace
  <1> QED BY <1>1, <1>2, OneWaits

LEMMA KeepsWaiting ==
    ASSUME WaitInv, UNCHANGED runVars, NEW r \in DOMAIN req, NEW p, NEW x, Keep(r, p, x),
           (req'[r] = [pc |-> p, saw |-> x] => Waits(r)')
    PROVE  WaitInv'
  <1>1. /\ DOMAIN req' = DOMAIN req
        /\ req'[r] = [pc |-> p, saw |-> x]
        /\ \A q \in DOMAIN req \ {r} : req'[q] = req[q]
    BY Kept DEF WaitInv
  <1>2. IsPlace([pc |-> p, saw |-> x])
    BY DEF IsPlace
  <1> QED BY <1>1, <1>2, OneWaits

\* A wait that is over.
LEMMA WaitOver ==
    ASSUME NEW w, w = [status |-> w.status, over |-> w.over, ended |-> w.ended], NEW e
    PROVE  [w EXCEPT !.over = TRUE, !.ended = e] = [status |-> w.status, over |-> TRUE, ended |-> e]
  <1> DEFINE v == [w EXCEPT !.over = TRUE, !.ended = e]
  <1>1. DOMAIN v = {"status", "over", "ended"}
    BY DEF v
  <1>2. v["status"] = w.status /\ v["over"] = TRUE /\ v["ended"] = e
    OBVIOUS
  <1>3. v = [f \in {"status", "over", "ended"} |-> v[f]]
    BY <1>1
  <1> HIDE DEF v
  <1>4. v = [status |-> v.status, over |-> v.over, ended |-> v.ended]
    BY <1>3
  <1> QED BY <1>2, <1>4 DEF v

\* A run that is at its next step.
LEMMA NextStep ==
    ASSUME NEW g, g = [pc |-> g.pc, keys |-> g.keys, barred |-> g.barred], NEW p
    PROVE  [g EXCEPT !.pc = p] = [pc |-> p, keys |-> g.keys, barred |-> g.barred]
  OBVIOUS

\* A run that has read the machine's keys too.
LEMMA KeysRead ==
    ASSUME NEW g, g = [pc |-> g.pc, keys |-> g.keys, barred |-> g.barred], NEW more
    PROVE  [g EXCEPT !.pc = "running", !.keys = @ \cup more]
              = [pc |-> "running", keys |-> g.keys \cup more, barred |-> g.barred]
  <1> DEFINE h == [g EXCEPT !.pc = "running", !.keys = @ \cup more]
  <1>1. DOMAIN h = {"pc", "keys", "barred"}
    OBVIOUS
  <1>2. h["pc"] = "running" /\ h["keys"] = g.keys \cup more /\ h["barred"] = g.barred
    OBVIOUS
  <1>3. h = [f \in {"pc", "keys", "barred"} |-> h[f]]
    BY <1>1
  <1> HIDE DEF h
  <1>4. h = [pc |-> h.pc, keys |-> h.keys, barred |-> h.barred]
    BY <1>3
  <1> QED BY <1>2, <1>4 DEF h

\* A step that changes the run files ends no ended run anew.
LEMMA RunsGoOn ==
    ASSUME WaitInv, UNCHANGED req, GoingOn', RecordsFit', DOMAIN record' = DOMAIN record,
           \A id : HasEnded(id) => HasEnded(id)'
    PROVE  WaitInv'
  <1>1. ASSUME NEW r \in DOMAIN req PROVE Waits(r)'
    <2>1. Waits(r)
      BY DEF WaitInv
    <2> QED BY <2>1 DEF Waits
  <1>2. RequestsFit'
    BY DEF WaitInv, RequestsFit
  <1> QED BY <1>1, <1>2 DEF WaitInv

\* A run that goes on writes its status, or fails to.
LEMMA RecordsOn ==
    ASSUME WaitInv, NEW id \in DOMAIN going, going[id].pc # "ended", NEW status, Record(id, status)
    PROVE  /\ RecordsFit' /\ DOMAIN record' = DOMAIN record
           /\ record'[id].status \in {record[id].status, status}
           /\ \A other \in DOMAIN record \ {id} : record'[other] = record[other]
           /\ \A other : HasEnded(other) => HasEnded(other)'
  <1>1. id \in DOMAIN record /\ record[id].status \notin Terminal
    BY DEF WaitInv, GoingOn
  <1>2. CASE UNCHANGED record
    BY <1>2 DEF WaitInv, RecordsFit, HasEnded
  <1>3. CASE record' = [record EXCEPT ![id].status = status]
    <2>1. record[id] = [workflow |-> record[id].workflow, version |-> record[id].version,
                        status |-> record[id].status]
      BY <1>1 DEF WaitInv, RecordsFit
    <2>2. record'[id] = [workflow |-> record[id].workflow, version |-> record[id].version,
                         status |-> status]
      BY <1>1, <1>3, <2>1
    <2>3. DOMAIN record' = DOMAIN record /\ \A other \in DOMAIN record \ {id} : record'[other] = record[other]
      BY <1>3
    <2>4. RecordsFit'
      BY <2>2, <2>3 DEF WaitInv, RecordsFit
    <2>5. \A other : HasEnded(other) => HasEnded(other)'
      BY <1>1, <2>3 DEF HasEnded
    <2> QED BY <2>2, <2>3, <2>4, <2>5
  <1> QED BY <1>2, <1>3 DEF Record

LEMMA RunGoesOn ==
    ASSUME WaitInv, NEW id \in DOMAIN going,
           RunStarts(id) \/ RunReadsProjectKeys(id) \/ RunReadsMachineKeys(id) \/ RunEnds(id)
    PROVE  WaitInv'
  <1>1. going[id] = [pc |-> going[id].pc, keys |-> going[id].keys, barred |-> going[id].barred]
    BY DEF WaitInv, GoingOn
  <1>2. CASE RunStarts(id)
    <2>1. /\ RecordsFit' /\ DOMAIN record' = DOMAIN record
          /\ record'[id].status \in {record[id].status, "running"}
          /\ \A other \in DOMAIN record \ {id} : record'[other] = record[other]
          /\ \A other : HasEnded(other) => HasEnded(other)'
      BY <1>2, RecordsOn DEF RunStarts
    <2>2. going' = [going EXCEPT ![id] = [pc |-> "project keys", keys |-> going[id].keys,
                                         barred |-> going[id].barred]]
      <3>1. [going[id] EXCEPT !.pc = "project keys"]
               = [pc |-> "project keys", keys |-> going[id].keys, barred |-> going[id].barred]
        BY <1>1, NextStep
      <3> QED BY <1>2, <3>1 DEF RunStarts
    <2>3. id \in DOMAIN record /\ record[id].status \notin Terminal
      BY <1>2 DEF RunStarts, WaitInv, GoingOn
    <2>4. GoingOn'
      BY <2>1, <2>2, <2>3 DEF WaitInv, GoingOn, Terminal
    <2> QED BY <1>2, <2>1, <2>4, RunsGoOn DEF RunStarts
  <1>3. CASE RunReadsProjectKeys(id)
    <2>1. GoingOn'
      BY <1>3 DEF RunReadsProjectKeys, WaitInv, GoingOn
    <2>2. RecordsFit' /\ UNCHANGED <<record, req>>
      BY <1>3 DEF RunReadsProjectKeys, WaitInv, RecordsFit
    <2> QED BY <2>1, <2>2, RunsGoOn DEF HasEnded
  <1>4. CASE RunReadsMachineKeys(id)
    <2> DEFINE keys == going[id].keys \cup DOMAIN MachineData.keys
    <2>1. [going[id] EXCEPT !.pc = "running", !.keys = @ \cup DOMAIN MachineData.keys]
             = [pc |-> "running", keys |-> keys, barred |-> going[id].barred]
      BY <1>1, KeysRead
    <2>2. going' = [going EXCEPT ![id] = [pc |-> "running", keys |-> keys, barred |-> going[id].barred]]
      BY <1>4, <2>1 DEF RunReadsMachineKeys
    <2>3. RecordsFit' /\ UNCHANGED <<record, req>> /\ going[id].pc # "ended"
      BY <1>4 DEF RunReadsMachineKeys, WaitInv, RecordsFit
    <2> HIDE DEF keys
    <2>4. GoingOn'
      BY <2>2, <2>3 DEF WaitInv, GoingOn
    <2> QED BY <2>3, <2>4, RunsGoOn DEF HasEnded
  <1>5. CASE RunEnds(id)
    <2>1. PICK outcome : Record(id, outcome)
      BY <1>5 DEF RunEnds
    <2>2. /\ RecordsFit' /\ DOMAIN record' = DOMAIN record
          /\ \A other \in DOMAIN record \ {id} : record'[other] = record[other]
          /\ \A other : HasEnded(other) => HasEnded(other)'
      BY <1>5, <2>1, RecordsOn DEF RunEnds
    <2>3. going' = [going EXCEPT ![id] = [pc |-> "ended", keys |-> going[id].keys,
                                         barred |-> going[id].barred]]
      <3>1. [going[id] EXCEPT !.pc = "ended"]
               = [pc |-> "ended", keys |-> going[id].keys, barred |-> going[id].barred]
        BY <1>1, NextStep
      <3> QED BY <1>5, <3>1 DEF RunEnds
    <2>4. GoingOn'
      BY <2>2, <2>3 DEF WaitInv, GoingOn
    <2> QED BY <1>5, <2>2, <2>4, RunsGoOn DEF RunEnds
  <1> QED BY <1>2, <1>3, <1>4, <1>5

\* A run is recorded when nobody else has its id.
LEMMA RunIsRecorded == ASSUME WaitInv, NEW r \in DOMAIN req, RecordRun(r) PROVE WaitInv'
  <1>1. r.kind = "run" /\ req[r].pc = "record" /\ r.id \notin DOMAIN record
    BY DEF RecordRun, Stands, WaitInv, Waits
  <1>2. CASE Go(r, "refused") /\ UNCHANGED runVars
    <2>1. req'[r] = [pc |-> "refused", saw |-> req[r].saw] => Waits(r)'
      BY <1>1 DEF Waits
    <2> QED BY <1>2, <2>1, GoesWaiting
  <1>3. CASE /\ record' = Put(record, r.id, [workflow |-> r.workflow, version |-> req[r].saw.version,
                                             status |-> "queued"])
             /\ going' = Put(going, r.id, [pc |-> "start", keys |-> {}, barred |-> {}])
             /\ Keep(r, IF r.wait THEN "poll" ELSE "ok", Waiting("queued", FALSE, FALSE))
    <2> DEFINE p == IF r.wait THEN "poll" ELSE "ok"
    <2>1. /\ DOMAIN record' = DOMAIN record \cup {r.id}
          /\ record'[r.id] = [workflow |-> r.workflow, version |-> req[r].saw.version, status |-> "queued"]
          /\ \A id \in DOMAIN record \ {r.id} : record'[id] = record[id]
      BY <1>3 DEF Put
    <2>2. /\ DOMAIN going' = DOMAIN going \cup {r.id}
          /\ going'[r.id] = [pc |-> "start", keys |-> {}, barred |-> {}]
          /\ \A id \in DOMAIN going \ {r.id} : going'[id] = going[id]
      BY <1>3 DEF Put
    <2>a. Keep(r, p, Waiting("queued", FALSE, FALSE)) /\ p \in {"poll", "ok"}
      BY <1>3
    <2> HIDE DEF p
    <2>3. /\ DOMAIN req' = DOMAIN req
          /\ req'[r] = [pc |-> p, saw |-> Waiting("queued", FALSE, FALSE)]
          /\ \A q \in DOMAIN req \ {r} : req'[q] = req[q]
      BY <2>a, Kept DEF WaitInv
    <2>4. RequestsFit'
      BY <2>3 DEF WaitInv, RequestsFit, IsPlace
    <2>5. \A id : HasEnded(id) => HasEnded(id)'
      BY <1>1, <2>1 DEF HasEnded
    <2>6. ASSUME NEW q \in DOMAIN req PROVE Waits(q)'
      <3>1. CASE q = r
        BY <1>1, <2>a, <2>3, <3>1 DEF Waits
      <3>2. CASE q # r
        <4>1. q.id # r.id
          BY <3>2, IdsAreOne DEF WaitInv
        <4>2. q.id \in DOMAIN record' => q.id \in DOMAIN record
          BY <2>1, <4>1
        <4>3. Waits(q) /\ req'[q] = req[q]
          BY <2>3, <3>2 DEF WaitInv
        <4> QED BY <2>5, <4>2, <4>3 DEF Waits
      <3> QED BY <3>1, <3>2
    <2>7. GoingOn'
      BY <1>1, <2>1, <2>2 DEF WaitInv, GoingOn, Terminal
    <2>8. RecordsFit'
      BY <2>1 DEF WaitInv, RecordsFit
    <2> QED BY <2>3, <2>4, <2>6, <2>7, <2>8 DEF WaitInv
  <1> QED BY <1>2, <1>3 DEF RecordRun

LEMMA RunsWait == ASSUME WaitInv, RunsNext PROVE WaitInv'
  <1>r. ASSUME NEW r \in DOMAIN req,
               \/ StartRun(r) \/ RecordRun(r) \/ BeginStatus(r) \/ PollRun(r) \/ WaitRunsOut(r)
               \/ Polled(r) \/ AgentLeaves(r) \/ ReadStatus(r)
               \/ GetOutput(r) \/ CancelExecution(r) \/ ListExecutions(r)
        PROVE  WaitInv'
    <2>a. Waits(r)
      BY DEF WaitInv
    <2>b. ASSUME NEW p, Go(r, p), UNCHANGED runVars,
                 (req'[r] = [pc |-> p, saw |-> req[r].saw] => Waits(r)')
          PROVE  WaitInv'
      BY <2>b, GoesWaiting
    <2>c. ASSUME NEW p, NEW x, Keep(r, p, x), UNCHANGED runVars,
                 (req'[r] = [pc |-> p, saw |-> x] => Waits(r)')
          PROVE  WaitInv'
      BY <2>c, KeepsWaiting
    <2>d. UNCHANGED runVars => UNCHANGED record /\ \A id : HasEnded(id)' = HasEnded(id)
      BY DEF runVars, HasEnded
    <2>1. CASE StartRun(r)
      <3>1. r.kind = "run" /\ r.id \notin DOMAIN record /\ UNCHANGED runVars
        BY <2>1, <2>a DEF StartRun, Stands, Waits
      <3>2. CASE Go(r, "refused")
        <4>1. req'[r] = [pc |-> "refused", saw |-> req[r].saw] => Waits(r)'
          BY <3>1 DEF Waits
        <4> QED BY <2>b, <3>1, <3>2, <4>1
      <3>3. CASE Keep(r, "record", [version |-> shelf[r.workflow].version])
        <4>1. req'[r] = [pc |-> "record", saw |-> [version |-> shelf[r.workflow].version]] => Waits(r)'
          BY <2>d, <3>1 DEF Waits
        <4> QED BY <2>c, <3>1, <3>3, <4>1
      <3> QED BY <2>1, <3>2, <3>3 DEF StartRun
    <2>2. CASE RecordRun(r)
      BY <2>2, RunIsRecorded
    <2>3. CASE BeginStatus(r)
      <3>1. r.kind = "status" /\ UNCHANGED runVars
        BY <2>3 DEF BeginStatus, Stands
      <3>2. CASE Keep(r, "read", Waiting("unread", TRUE, HasEnded(r.run)))
        <4> DEFINE e == HasEnded(r.run)
        <4>1. HasEnded(r.run)' = e
          BY <2>d, <3>1
        <4> HIDE DEF e
        <4>2. req'[r] = [pc |-> "read", saw |-> Waiting("unread", TRUE, e)] => Waits(r)'
          BY <3>1, <4>1 DEF Waits, Waiting
        <4> QED BY <2>c, <3>1, <3>2, <4>2 DEF e
      <3>3. CASE Keep(r, "poll", Waiting("unread", FALSE, FALSE))
        <4>1. req'[r] = [pc |-> "poll", saw |-> Waiting("unread", FALSE, FALSE)] => Waits(r)'
          BY <3>1 DEF Waits, Waiting
        <4> QED BY <2>c, <3>1, <3>3, <4>1
      <3>4. CASE Go(r, "refused")
        <4>1. req'[r] = [pc |-> "refused", saw |-> req[r].saw] => Waits(r)'
          BY <3>1 DEF Waits, Ended
        <4> QED BY <2>b, <3>1, <3>4, <4>1
      <3> QED BY <2>3, <3>2, <3>3, <3>4 DEF BeginStatus
    <2>4. CASE PollRun(r)
      <3> DEFINE st == record[RunOf(r)].status
      <3>1. req[r].pc = "poll" /\ UNCHANGED runVars
        BY <2>4 DEF PollRun
      <3>2. CASE Keep(r, "polled", [req[r].saw EXCEPT !.status = st])
        <4>1. r.kind = "status" => [req[r].saw EXCEPT !.status = st]
                                     = Waiting(st, req[r].saw.over, req[r].saw.ended)
          BY <2>a, <3>1 DEF Waits, Waiting
        <4> HIDE DEF st
        <4>2. r.kind = "status" /\ req[r].saw.ended => HasEnded(r.run)'
          BY <2>a, <2>d, <3>1 DEF Waits
        <4>3. req'[r] = [pc |-> "polled", saw |-> [req[r].saw EXCEPT !.status = st]] => Waits(r)'
          BY <4>1, <4>2 DEF Waits, Waiting
        <4> QED BY <2>c, <3>1, <3>2, <4>3 DEF st
      <3>3. CASE Go(r, "refused")
        <4>1. req'[r] = [pc |-> "refused", saw |-> req[r].saw] => Waits(r)'
          BY DEF Waits, Ended
        <4> QED BY <2>b, <3>1, <3>3, <4>1
      <3> QED BY <2>4, <3>2, <3>3 DEF PollRun
    <2>5. CASE WaitRunsOut(r)
      <3> DEFINE e == HasEnded(RunOf(r))
                 x == [req[r].saw EXCEPT !.over = TRUE, !.ended = e]
      <3>1. req[r].pc \in {"poll", "polled"} /\ UNCHANGED runVars /\ Keep(r, req[r].pc, x)
        BY <2>5 DEF WaitRunsOut
      <3>2. r.kind = "status" => x = Waiting(req[r].saw.status, TRUE, e) /\ RunOf(r) = r.run
        <4>1. SUFFICES ASSUME r.kind = "status"
                       PROVE  x = Waiting(req[r].saw.status, TRUE, e)
          BY DEF RunOf
        <4>2. req[r].saw = [status |-> req[r].saw.status, over |-> req[r].saw.over, ended |-> req[r].saw.ended]
          BY <2>a, <3>1, <4>1 DEF Waits, Waiting
        <4> HIDE DEF e
        <4>3. x = [status |-> req[r].saw.status, over |-> TRUE, ended |-> e]
          BY <4>2, WaitOver
        <4> QED BY <4>3 DEF Waiting
      <3> HIDE DEF x
      <3>3. r.kind = "status" => HasEnded(r.run)' = e
        BY <2>d, <3>1, <3>2
      <3> HIDE DEF e
      <3>4. req'[r] = [pc |-> req[r].pc, saw |-> x] => Waits(r)'
        BY <3>1, <3>2, <3>3 DEF Waits, Waiting
      <3> QED BY <2>c, <3>1, <3>4
    <2>6. CASE Polled(r)
      <3>1. req[r].pc = "polled" /\ UNCHANGED runVars /\ AfterPoll(r)
        BY <2>6 DEF Polled
      <3>2. CASE r.kind = "status"
        <4>1. Go(r, "read") \/ Go(r, "poll")
          BY <3>1, <3>2 DEF AfterPoll
        <4>2. req[r].saw.ended => HasEnded(r.run)'
          BY <2>a, <2>d, <3>1, <3>2 DEF Waits
        <4>3. ASSUME NEW p \in {"read", "poll"}, req'[r] = [pc |-> p, saw |-> req[r].saw]
              PROVE  Waits(r)'
          BY <2>a, <3>1, <3>2, <4>2, <4>3 DEF Waits
        <4> QED BY <2>b, <3>1, <4>1, <4>3
      <3>3. CASE r.kind # "status"
        <4>1. PICK p \in {"read", "poll", "ok"} : Go(r, p)
          BY <3>1 DEF AfterPoll
        <4>2. req'[r] = [pc |-> p, saw |-> req[r].saw] => Waits(r)'
          BY <3>3 DEF Waits
        <4> QED BY <2>b, <3>1, <4>1, <4>2
      <3> QED BY <3>2, <3>3
    <2>7. CASE AgentLeaves(r)
      <3>1. Go(r, "gone") /\ UNCHANGED runVars /\ req[r].pc = "polled"
        BY <2>7 DEF AgentLeaves
      <3>2. req'[r] = [pc |-> "gone", saw |-> req[r].saw] => Waits(r)'
        BY DEF Waits, Ended
      <3> QED BY <2>b, <3>1, <3>2
    <2>8. CASE ReadStatus(r)
      <3> DEFINE st == record[RunOf(r)].status
      <3>1. req[r].pc = "read" /\ UNCHANGED runVars
        BY <2>8 DEF ReadStatus
      <3>2. CASE Keep(r, "ok", [req[r].saw EXCEPT !.status = st])
        <4>1. r.kind = "status" => /\ [req[r].saw EXCEPT !.status = st]
                                        = Waiting(st, req[r].saw.over, req[r].saw.ended)
                                   /\ req[r].saw.ended => st \in Terminal
          <5>1. SUFFICES ASSUME r.kind = "status"
                         PROVE  /\ [req[r].saw EXCEPT !.status = st]
                                     = Waiting(st, req[r].saw.over, req[r].saw.ended)
                                /\ req[r].saw.ended => st \in Terminal
            OBVIOUS
          <5>2. /\ req[r].saw = Waiting(req[r].saw.status, req[r].saw.over, req[r].saw.ended)
                /\ req[r].saw.ended => HasEnded(r.run)
            BY <2>a, <3>1, <5>1 DEF Waits
          <5>3. req[r].saw.ended => st \in Terminal
            BY <5>1, <5>2 DEF RunOf, HasEnded
          <5> QED BY <5>2, <5>3 DEF Waiting
        <4> HIDE DEF st
        <4>2. req'[r] = [pc |-> "ok", saw |-> [req[r].saw EXCEPT !.status = st]] => Waits(r)'
          BY <3>1, <4>1 DEF Waits, Waiting, Ended
        <4> QED BY <2>c, <3>1, <3>2, <4>2 DEF st
      <3>3. CASE Go(r, "refused")
        <4>1. req'[r] = [pc |-> "refused", saw |-> req[r].saw] => Waits(r)'
          BY DEF Waits, Ended
        <4> QED BY <2>b, <3>1, <3>3, <4>1
      <3> QED BY <2>8, <3>2, <3>3 DEF ReadStatus
    <2>9. CASE GetOutput(r)
      <3>1. r.kind = "output" /\ UNCHANGED runVars /\ \E p : Go(r, p)
        BY <2>9 DEF GetOutput, Stands
      <3> QED BY <2>b, <3>1 DEF Waits
    <2>10. CASE CancelExecution(r)
      <3>1. r.kind = "cancel" /\ UNCHANGED runVars /\ \E p : Go(r, p)
        BY <2>10 DEF CancelExecution, Stands
      <3> QED BY <2>b, <3>1 DEF Waits
    <2>11. CASE ListExecutions(r)
      <3>1. r.kind = "executions" /\ UNCHANGED runVars /\ \E p : Go(r, p) \/ \E x : Keep(r, p, x)
        BY <2>11 DEF ListExecutions
      <3> QED BY <2>b, <2>c, <3>1 DEF Waits
    <2> QED BY <1>r, <2>1, <2>2, <2>3, <2>4, <2>5, <2>6, <2>7, <2>8, <2>9, <2>10, <2>11
  <1> QED BY <1>r, RunGoesOn DEF RunsNext

LEMMA WaitStep == WaitInv /\ [Next]_vars => WaitInv'
  <1> SUFFICES ASSUME WaitInv, [Next]_vars PROVE WaitInv'
    OBVIOUS
  <1>1. CASE Configure
    BY <1>1, SettingsMove, OthersDoNotWait
       DEF Configure, WaitInv, SettingPlaces, SettingKinds, RunPlaces, RunKinds, Ended
  <1>2. CASE Edit
    BY <1>2, WorkflowsMove, OthersDoNotWait
       DEF Edit, WaitInv, WorkflowPlaces, WorkflowKinds, RunPlaces, RunKinds, Ended
  <1>3. CASE Run
    BY <1>3, RunsWait DEF Run
  <1>4. CASE Pack
    BY <1>4, PacksMove, OthersDoNotWait
       DEF Pack, WaitInv, PackPlaces, PackKinds, RunPlaces, RunKinds, Ended
  <1>5. CASE Restart
    BY <1>5, RestartWaits
  <1>6. CASE UNCHANGED vars
    <2>1. UNCHANGED <<req, runVars>>
      BY <1>6 DEF vars
    <2>2. Moves(PackPlaces, PackKinds)
      BY <2>1, StillMoves
    <2> QED BY <2>1, <2>2, OthersDoNotWait DEF PackPlaces, PackKinds, RunPlaces, RunKinds, Ended
  <1> QED BY <1>1, <1>2, <1>3, <1>4, <1>5, <1>6 DEF Next

\* Whatever ends when, and whether the agent's wait or the run is over first:
\* a status that was waited for says the run has ended if it had by then.
THEOREM WaitIsFreshAlways == Spec => []WaitIsFresh
  <1>1. Init => WaitInv
    BY WaitInit
  <1>2. WaitInv /\ [Next]_vars => WaitInv'
    BY WaitStep
  <1>3. WaitInv => WaitIsFresh
    BY DEF WaitInv, Waits, WaitIsFresh
  <1> QED BY <1>1, <1>2, <1>3, PTL DEF Spec

----------------------------------------------------------------------------
(* Keys: set, deleted and used.                                            *)

StoresFit == IsMachine(machine) /\ IsSecrets(secrets)

\* Who is between reading the machine's file and writing it back holds the
\* mutex, and what it read is what is there, unless another window wrote.
Holders ==
    \A r \in DOMAIN req :
       /\ req[r].pc \in {"lock", "machine"} => machine.dir
       /\ req[r].pc = "machine" =>
             /\ r.kind \in {"set", "delete", "endpoint"} /\ mmu = r /\ "keys" \in DOMAIN req[r].saw
             /\ r \notin crossed => /\ req[r].saw.keys = MachineData.keys
                                    /\ req[r].saw.ends = MachineData.ends

\* A key the machine has not got, and that nobody is about to write there.
Nowhere(p) ==
    /\ p \notin DOMAIN MachineData.keys
    /\ Setting(p) = {}
    /\ \A r \in DOMAIN req : req[r].pc = "machine" => p \notin DOMAIN req[r].saw.keys

\* A deletion that nothing disturbed, half way and done.
HalfGone ==
    \A d \in DOMAIN req \ disturbed :
       /\ Stands(d, "delete", "machine") => Setting(d.provider) = {}
       /\ Stands(d, "delete", "project") => Nowhere(d.provider)

GoneIsGone ==
    \A d \in gone :
       /\ d \in DOMAIN req /\ Stands(d, "delete", "ok")
       /\ Nowhere(d.provider) /\ d.provider \notin DOMAIN ProjectKeys

\* What a run read after a deletion does not hold the key.
RunKeys ==
    \A id \in DOMAIN going : \A d \in going[id].barred :
       /\ d \in DOMAIN req /\ Stands(d, "delete", "ok")
       /\ d \in gone => d.provider \notin going[id].keys

LEMMA MachineHasKeys == "keys" \in DOMAIN MachineData
  BY DEF MachineData, NoData

KeysCore == StoresFit /\ Holders /\ HalfGone /\ GoneIsGone

LEMMA KeysInit == Init => KeysCore /\ RunKeys
  <1> SUFFICES ASSUME Init PROVE KeysCore /\ RunKeys
    OBVIOUS
  <1>1. PICK script \in Scripts : req = [r \in script |-> [pc |-> "begin", saw |-> Nothing]]
    BY DEF Init, RequestsInit
  <1>2. DOMAIN going = {} /\ gone = {}
    BY DEF Init, RunsInit, SettingsInit
  <1>3. \A r \in DOMAIN req : req[r].pc = "begin"
    BY <1>1
  <1>4. StoresFit
    BY SettingsAssumption DEF Init, SettingsInit, StoresFit
  <1>5. Holders /\ HalfGone
    BY <1>3 DEF Holders, HalfGone, Stands
  <1> QED BY <1>2, <1>4, <1>5 DEF KeysCore, GoneIsGone, RunKeys

----------------------------------------------------------------------------
(* Requests that leave the keys alone.                                     *)

\* A step that neither reads nor writes the machine's file to change it.
KeysAside ==
    /\ UNCHANGED <<machine, secrets, mmu, historyVars>>
    /\ DOMAIN req' = DOMAIN req
    /\ \A r \in DOMAIN req :
          \/ req'[r] = req[r]
          \/ /\ req[r].pc \notin Ended
             /\ r.kind = "set" /\ req[r].pc = "begin" => req'[r].pc \in Ended
             /\ req'[r].pc \notin {"machine", "project"}
             /\ req'[r].pc = "lock" => machine.dir

LEMMA SettersLeave ==
    ASSUME DOMAIN req' = DOMAIN req, NEW p,
           \A r \in DOMAIN req : r \in Setting(p)' => r \in Setting(p)
    PROVE  Setting(p)' \subseteq Setting(p)
  BY DEF Setting

LEMMA KeysAsideHolds == ASSUME KeysCore, KeysAside PROVE KeysCore'
  <1>1. UNCHANGED <<machine, secrets, mmu, disturbed, crossed, gone>> /\ DOMAIN req' = DOMAIN req
    BY DEF KeysAside, historyVars
  <1>2. MachineData' = MachineData /\ ProjectKeys' = ProjectKeys
    BY <1>1 DEF MachineData, ProjectKeys
  <1>3. ASSUME NEW p PROVE Setting(p)' \subseteq Setting(p)
    BY DEF KeysAside, Setting, InFlight, Ended
  <1>4. ASSUME NEW r \in DOMAIN req, req'[r].pc \in {"machine", "project"} PROVE req'[r] = req[r]
    BY <1>4 DEF KeysAside
  <1>5. ASSUME NEW p, Nowhere(p) PROVE Nowhere(p)'
    BY <1>1, <1>2, <1>3, <1>4, <1>5 DEF Nowhere
  <1>6. StoresFit'
    BY <1>1 DEF KeysCore, StoresFit
  <1>7. Holders'
    BY <1>1, <1>2, <1>4 DEF KeysCore, KeysAside, Holders
  <1>8. HalfGone'
    BY <1>1, <1>3, <1>4, <1>5 DEF KeysCore, HalfGone, Stands
  <1>9. ASSUME NEW d \in DOMAIN req, Stands(d, "delete", "ok") PROVE Stands(d, "delete", "ok")'
    BY <1>9 DEF KeysAside, Stands, Ended
  <1>10. GoneIsGone'
    BY <1>1, <1>2, <1>5, <1>9 DEF KeysCore, GoneIsGone
  <1> QED BY <1>6, <1>7, <1>8, <1>10 DEF KeysCore

LEMMA OthersLeaveKeys ==
    ASSUME RequestsFit, UNCHANGED settingsVars, NEW places, NEW kinds, Moves(places, kinds),
           places \cap (SettingPlaces \cup Ended \cup {"begin"}) = {}, "set" \notin kinds
    PROVE  KeysAside
  <1>1. UNCHANGED <<machine, secrets, mmu, historyVars>>
    BY DEF settingsVars, projectVars
  <1> QED BY <1>1 DEF Moves, KeysAside, SettingPlaces, Ended

\* The runs' keys, where only the requests and the deletions change.
LEMMA RunKeysStay ==
    ASSUME RunKeys, UNCHANGED going,
           \A d \in DOMAIN req : Stands(d, "delete", "ok") =>
              d \in DOMAIN req' /\ Stands(d, "delete", "ok")' /\ (d \in gone' => d \in gone)
    PROVE  RunKeys'
  BY DEF RunKeys

LEMMA KeysAsideRuns == ASSUME RunKeys, KeysAside, UNCHANGED going PROVE RunKeys'
  <1>1. ASSUME NEW d \in DOMAIN req, Stands(d, "delete", "ok")
        PROVE  d \in DOMAIN req' /\ Stands(d, "delete", "ok")' /\ gone' = gone
    BY <1>1 DEF KeysAside, Stands, Ended, historyVars
  <1> QED BY <1>1, RunKeysStay

----------------------------------------------------------------------------
(* Requests that set and delete them.                                      *)

\* What a step of one request does to who is setting what.
LEMMA OneSets ==
    ASSUME NEW r \in DOMAIN req, DOMAIN req' = DOMAIN req,
           \A q \in DOMAIN req \ {r} : req'[q] = req[q],
           NEW p, r.kind # "set" \/ r.provider # p \/ InFlight(r) \/ req'[r].pc \in Ended
    PROVE  Setting(p)' \subseteq Setting(p)
  BY DEF Setting, InFlight

\* A set begins: whatever was deleted of that key is not gone any more, and
\* whoever is deleting it is disturbed.
LEMMA BeginSetKeeps ==
    ASSUME RequestsFit, KeysCore, NEW r \in DOMAIN req, BeginSet(r)
    PROVE  KeysCore' /\ (RunKeys /\ UNCHANGED going => RunKeys')
  <1>1. Stands(r, "set", "begin") /\ UNCHANGED <<machine, secrets, crossed>>
    BY DEF BeginSet, projectVars
  <1>2. CASE SetRefused(r)
    <2>1. Go(r, "refused") /\ UNCHANGED <<mmu, gone, disturbed>>
      BY <1>2 DEF BeginSet
    <2>2. /\ DOMAIN req' = DOMAIN req /\ req'[r].pc = "refused"
          /\ \A q \in DOMAIN req \ {r} : req'[q] = req[q]
      <3>1. req'[r] = [pc |-> "refused", saw |-> req[r].saw]
        BY <2>1, Went
      <3> QED BY <2>1, <3>1, Went
    <2>3. KeysAside
      BY <1>1, <2>1, <2>2 DEF KeysAside, historyVars, Stands, Ended
    <2> QED BY <2>3, KeysAsideHolds, KeysAsideRuns
  <1>3. CASE ~ SetRefused(r)
    <2>1. /\ gone' = {d \in gone : d.provider # r.provider}
          /\ disturbed' = disturbed \cup {d \in Deletions : d.provider = r.provider}
      BY <1>3 DEF BeginSet
    <2>2. /\ DOMAIN req' = DOMAIN req /\ \A q \in DOMAIN req \ {r} : req'[q] = req[q]
          /\ \/ /\ mmu = Free /\ mmu' = r /\ machine.dir
                /\ req'[r] = [pc |-> "machine", saw |-> MachineData]
             \/ mmu' = mmu /\ req'[r].pc = "project"
      <3>1. CASE machine.dir /\ ReadMachine(r, "machine")
        BY <3>1, Kept DEF ReadMachine
      <3>2. CASE Go(r, "project") /\ UNCHANGED mmu
        <4>1. req'[r] = [pc |-> "project", saw |-> req[r].saw]
          BY <3>2, Went
        <4> QED BY <3>2, <4>1, Went
      <3> QED BY <1>3, <3>1, <3>2 DEF BeginSet
    <2>3. MachineData' = MachineData /\ ProjectKeys' = ProjectKeys
      BY <1>1 DEF MachineData, ProjectKeys
    <2>4. \A q \in DOMAIN req : mmu = Free => req[q].pc # "machine"
      BY RequestsAssumption DEF KeysCore, Holders, RequestsFit
    <2>5. Holders'
      BY <1>1, <2>2, <2>3, <2>4, MachineHasKeys DEF KeysCore, Holders, Stands
    <2>6. ASSUME NEW p, Nowhere(p), p # r.provider PROVE Nowhere(p)'
      <3>1. Setting(p)' \subseteq Setting(p)
        BY <2>2, <2>6, OneSets
      <3>2. ASSUME NEW q \in DOMAIN req, req'[q].pc = "machine" PROVE p \notin DOMAIN req'[q].saw.keys
        BY <2>2, <2>6, <3>2 DEF Nowhere
      <3> QED BY <2>2, <2>3, <2>6, <3>1, <3>2 DEF Nowhere
    <2>7. HalfGone'
      <3> SUFFICES ASSUME NEW d \in DOMAIN req, d \notin disturbed'
                   PROVE  /\ Stands(d, "delete", "machine")' => Setting(d.provider)' = {}
                          /\ Stands(d, "delete", "project")' => Nowhere(d.provider)'
        BY <2>2 DEF HalfGone
      <3>1. CASE d = r
        BY <1>1, <3>1 DEF Stands
      <3>2. CASE d # r /\ Stands(d, "delete", "machine")'
        <4>1. Stands(d, "delete", "machine") /\ d \in Deletions /\ d \notin disturbed
          BY <2>1, <2>2, <3>2 DEF Stands, Deletions, InFlight, Ended
        <4>2. d.provider # r.provider /\ Setting(d.provider) = {}
          BY <2>1, <4>1 DEF KeysCore, HalfGone
        <4>3. Setting(d.provider)' \subseteq Setting(d.provider)
          BY <2>2, <4>2, OneSets
        <4> QED BY <3>2, <4>2, <4>3 DEF Stands
      <3>3. CASE d # r /\ Stands(d, "delete", "project")'
        <4>1. Stands(d, "delete", "project") /\ d \in Deletions /\ d \notin disturbed
          BY <2>1, <2>2, <3>3 DEF Stands, Deletions, InFlight, Ended
        <4>2. d.provider # r.provider /\ Nowhere(d.provider)
          BY <2>1, <4>1 DEF KeysCore, HalfGone
        <4> QED BY <2>6, <3>3, <4>2 DEF Stands
      <3> QED BY <3>1, <3>2, <3>3
    <2>8. ASSUME NEW d \in gone' PROVE d \in gone /\ d.provider # r.provider /\ d # r
      BY <1>1, <2>1 DEF KeysCore, GoneIsGone, Stands
    <2>9. GoneIsGone'
      BY <2>2, <2>3, <2>6, <2>8 DEF KeysCore, GoneIsGone, Stands
    <2>10. StoresFit'
      BY <1>1 DEF KeysCore, StoresFit
    <2>11. ASSUME RunKeys, UNCHANGED going PROVE RunKeys'
      <3>1. ASSUME NEW d \in DOMAIN req, Stands(d, "delete", "ok")
            PROVE  d \in DOMAIN req' /\ Stands(d, "delete", "ok")' /\ (d \in gone' => d \in gone)
        BY <1>1, <2>1, <2>2, <3>1 DEF Stands
      <3> QED BY <2>11, <3>1, RunKeysStay
    <2> QED BY <2>5, <2>7, <2>9, <2>10, <2>11 DEF KeysCore
  <1> QED BY <1>2, <1>3

\* A deletion begins, disturbed if the key is being set.
LEMMA BeginDeleteKeeps ==
    ASSUME RequestsFit, KeysCore, NEW r \in DOMAIN req, BeginDelete(r)
    PROVE  KeysCore' /\ (RunKeys /\ UNCHANGED going => RunKeys')
  <1>1. /\ Stands(r, "delete", "begin") /\ UNCHANGED <<machine, secrets, gone, crossed>>
        /\ disturbed' = IF Setting(r.provider) = {} THEN disturbed ELSE disturbed \cup {r}
    BY DEF BeginDelete, projectVars
  <1>2. /\ DOMAIN req' = DOMAIN req /\ \A q \in DOMAIN req \ {r} : req'[q] = req[q]
        /\ \/ /\ mmu = Free /\ mmu' = r /\ r.provider \in DOMAIN MachineData.keys
              /\ req'[r] = [pc |-> "machine", saw |-> MachineData]
           \/ /\ machine.dir => mmu = Free
              /\ mmu' = mmu /\ r.provider \notin DOMAIN MachineData.keys /\ req'[r].pc = "project"
    <2>1. CASE r.provider \in DOMAIN MachineData.keys /\ ReadMachine(r, "machine")
      BY <2>1, Kept DEF ReadMachine
    <2>2. CASE /\ r.provider \notin DOMAIN MachineData.keys /\ (machine.dir => mmu = Free)
               /\ Go(r, "project") /\ UNCHANGED mmu
      <3>1. req'[r] = [pc |-> "project", saw |-> req[r].saw]
        BY <2>2, Went
      <3> QED BY <2>2, <3>1, Went
    <2> QED BY <2>1, <2>2 DEF BeginDelete
  <1>3. MachineData' = MachineData /\ ProjectKeys' = ProjectKeys
    BY <1>1 DEF MachineData, ProjectKeys
  <1>4. \A q \in DOMAIN req : req[q].pc = "machine" => machine.dir /\ mmu # Free
    BY RequestsAssumption DEF KeysCore, Holders, RequestsFit
  <1>5. r.provider \in DOMAIN MachineData.keys => machine.dir
    BY DEF MachineData, NoData, NoKeys
  <1>6. Holders'
    BY <1>1, <1>2, <1>3, <1>4, <1>5, MachineHasKeys DEF KeysCore, Holders, Stands
  <1>7. ASSUME NEW p PROVE Setting(p)' \subseteq Setting(p)
    BY <1>1, <1>2, OneSets DEF Stands
  <1>8. ASSUME NEW p, Nowhere(p) PROVE Nowhere(p)'
    <2>1. ASSUME NEW q \in DOMAIN req, req'[q].pc = "machine" PROVE p \notin DOMAIN req'[q].saw.keys
      BY <1>2, <1>8, <2>1 DEF Nowhere
    <2> QED BY <1>2, <1>3, <1>7, <1>8, <2>1 DEF Nowhere
  <1>9. HalfGone'
    <2> SUFFICES ASSUME NEW d \in DOMAIN req, d \notin disturbed'
                 PROVE  /\ Stands(d, "delete", "machine")' => Setting(d.provider)' = {}
                        /\ Stands(d, "delete", "project")' => Nowhere(d.provider)'
      BY <1>2 DEF HalfGone
    <2>1. CASE d # r
      BY <1>1, <1>2, <1>7, <1>8, <2>1 DEF KeysCore, HalfGone, Stands
    <2>2. CASE d = r
      <3>1. Setting(r.provider) = {}
        BY <1>1, <2>2
      <3>2. Setting(r.provider)' = {}
        BY <1>7, <3>1
      <3>3. ASSUME req'[r].pc = "project" PROVE Nowhere(r.provider)'
        <4>1. r.provider \notin DOMAIN MachineData.keys /\ (machine.dir => mmu = Free)
          BY <1>2, <3>3
        <4>2. \A q \in DOMAIN req' : req'[q].pc # "machine"
          BY <1>2, <1>4, <3>3, <4>1
        <4> QED BY <1>3, <3>2, <4>1, <4>2 DEF Nowhere
      <3> QED BY <2>2, <3>2, <3>3 DEF Stands
    <2> QED BY <2>1, <2>2
  <1>10. GoneIsGone'
    <2>1. \A d \in gone : d # r
      BY <1>1 DEF KeysCore, GoneIsGone, Stands
    <2> QED BY <1>1, <1>2, <1>3, <1>8, <2>1 DEF KeysCore, GoneIsGone, Stands
  <1>11. StoresFit'
    BY <1>1 DEF KeysCore, StoresFit
  <1>12. ASSUME RunKeys, UNCHANGED going PROVE RunKeys'
    <2>1. ASSUME NEW d \in DOMAIN req, Stands(d, "delete", "ok")
          PROVE  d \in DOMAIN req' /\ Stands(d, "delete", "ok")' /\ (d \in gone' => d \in gone)
      BY <1>1, <1>2, <2>1 DEF Stands
    <2> QED BY <1>12, <2>1, RunKeysStay
  <1> QED BY <1>6, <1>9, <1>10, <1>11, <1>12 DEF KeysCore

\* An address that is changed reads the machine's file under its mutex.
LEMMA LockKeeps ==
    ASSUME RequestsFit, KeysCore, NEW r \in DOMAIN req, LockEndpoint(r)
    PROVE  KeysCore' /\ (RunKeys /\ UNCHANGED going => RunKeys')
  <1>1. /\ Stands(r, "endpoint", "lock") /\ UNCHANGED <<machine, secrets, historyVars>>
        /\ mmu = Free /\ mmu' = r
    BY DEF LockEndpoint, projectVars
  <1> DEFINE x == [saved |-> req[r].saw.saved, keys |-> MachineData.keys, ends |-> MachineData.ends]
  <1>2. /\ DOMAIN req' = DOMAIN req /\ \A q \in DOMAIN req \ {r} : req'[q] = req[q]
        /\ req'[r] = [pc |-> "machine", saw |-> x]
    BY Kept DEF LockEndpoint
  <1>3. x.keys = MachineData.keys /\ x.ends = MachineData.ends /\ "keys" \in DOMAIN x
    OBVIOUS
  <1> HIDE DEF x
  <1>4. MachineData' = MachineData /\ ProjectKeys' = ProjectKeys
    BY <1>1 DEF MachineData, ProjectKeys
  <1>5. \A q \in DOMAIN req : req[q].pc # "machine"
    BY <1>1, RequestsAssumption DEF KeysCore, Holders, RequestsFit
  <1>6. Holders'
    BY <1>1, <1>2, <1>3, <1>4, <1>5 DEF KeysCore, Holders, Stands, historyVars
  <1>7. ASSUME NEW p PROVE Setting(p)' \subseteq Setting(p)
    BY <1>1, <1>2, OneSets DEF Stands
  <1>8. ASSUME NEW p, Nowhere(p) PROVE Nowhere(p)'
    BY <1>2, <1>3, <1>4, <1>5, <1>7, <1>8 DEF Nowhere
  <1>9. HalfGone'
    BY <1>1, <1>2, <1>7, <1>8 DEF KeysCore, HalfGone, Stands, historyVars
  <1>10. GoneIsGone'
    BY <1>1, <1>2, <1>4, <1>8 DEF KeysCore, GoneIsGone, Stands, historyVars
  <1>11. StoresFit'
    BY <1>1 DEF KeysCore, StoresFit
  <1>12. ASSUME RunKeys, UNCHANGED going PROVE RunKeys'
    <2>1. ASSUME NEW d \in DOMAIN req, Stands(d, "delete", "ok")
          PROVE  d \in DOMAIN req' /\ Stands(d, "delete", "ok")' /\ (d \in gone' => d \in gone)
      BY <1>1, <1>2, <2>1 DEF Stands, historyVars
    <2> QED BY <1>12, <2>1, RunKeysStay
  <1> QED BY <1>6, <1>9, <1>10, <1>11, <1>12 DEF KeysCore

\* Who writes the machine's file back writes the keys it read, save the one it
\* sets or deletes.
LEMMA MachineWritten ==
    ASSUME RequestsFit, KeysCore, NEW r \in DOMAIN req, req[r].pc = "machine",
           NEW data, NEW landed, NEW failed, WriteMachine(r, data, landed, failed),
           UNCHANGED <<secrets, historyVars>>,
           landed \notin {"machine", "lock"}, failed \notin {"machine", "lock"},
           \A p : p \in DOMAIN data.keys =>
              p \in DOMAIN req[r].saw.keys \/ (r.kind = "set" /\ p = r.provider),
           r.kind = "delete" => r.provider \notin DOMAIN data.keys /\ failed # "project"
    PROVE  KeysCore' /\ (RunKeys /\ UNCHANGED going => RunKeys')
  <1>1. /\ r.kind \in {"set", "delete", "endpoint"} /\ mmu = r /\ machine.dir
        /\ \A q \in DOMAIN req \ {r} : req[q].pc # "machine"
    BY DEF KeysCore, Holders
  <1>2. InFlight(r)
    BY <1>1 DEF InFlight, Ended
  <1>3. /\ DOMAIN req' = DOMAIN req /\ \A q \in DOMAIN req \ {r} : req'[q] = req[q]
        /\ \/ /\ req'[r] = [pc |-> landed, saw |-> req[r].saw]
              /\ machine' = [machine EXCEPT !.readable = TRUE, !.keys = data.keys, !.ends = data.ends]
           \/ /\ req'[r] = [pc |-> failed, saw |-> req[r].saw]
              /\ UNCHANGED machine
    BY Went DEF WriteMachine
  <1>4. req'[r].pc \in {landed, failed} /\ \A q \in DOMAIN req' : req'[q].pc # "machine"
    BY <1>1, <1>3
  <1>5. IsMachine(machine') /\ machine'.dir = machine.dir /\ (machine' = machine \/ machine'.keys = data.keys)
    <2>1. CASE machine' = [machine EXCEPT !.readable = TRUE, !.keys = data.keys, !.ends = data.ends]
      <3>1. machine = [dir |-> machine.dir, readable |-> machine.readable,
                       keys |-> machine.keys, ends |-> machine.ends]
        BY DEF KeysCore, StoresFit, IsMachine
      <3>2. DOMAIN machine' = {"dir", "readable", "keys", "ends"}
        BY <2>1, <3>1
      <3>3. machine' = [f \in {"dir", "readable", "keys", "ends"} |-> machine'[f]]
        BY <2>1, <3>2
      <3>4. IsMachine(machine')
        BY <3>3 DEF IsMachine
      <3>5. machine'.keys = data.keys /\ machine'.dir = machine.dir
        BY <2>1, <3>1
      <3> QED BY <3>4, <3>5
    <2>2. CASE UNCHANGED machine
      BY <2>2 DEF KeysCore, StoresFit
    <2> QED BY <1>3, <2>1, <2>2
  <1>6. \A p : p \in DOMAIN MachineData'.keys =>
           \/ p \in DOMAIN MachineData.keys \/ p \in DOMAIN req[r].saw.keys
           \/ (r.kind = "set" /\ p = r.provider)
    BY <1>5 DEF MachineData, NoData, NoKeys
  <1>7. ProjectKeys' = ProjectKeys /\ gone' = gone /\ disturbed' = disturbed
    BY DEF ProjectKeys, historyVars
  <1>8. ASSUME NEW p PROVE Setting(p)' \subseteq Setting(p)
    BY <1>2, <1>3, OneSets
  <1>9. ASSUME NEW p, Nowhere(p) PROVE Nowhere(p)'
    <2>1. ~ (r.kind = "set" /\ p = r.provider)
      BY <1>2, <1>9 DEF Nowhere, Setting
    <2>2. p \notin DOMAIN MachineData'.keys
      BY <1>6, <1>9, <2>1 DEF Nowhere
    <2> QED BY <1>4, <1>8, <1>9, <2>2 DEF Nowhere
  <1>10. Holders'
    BY <1>3, <1>4, <1>5 DEF KeysCore, Holders
  <1>11. HalfGone'
    <2> SUFFICES ASSUME NEW d \in DOMAIN req, d \notin disturbed, Stands(d, "delete", "project")'
                 PROVE  Nowhere(d.provider)'
      BY <1>3, <1>4, <1>7 DEF HalfGone, Stands
    <2>1. CASE d # r
      BY <1>3, <1>9, <2>1 DEF KeysCore, HalfGone, Stands
    <2>2. CASE d = r
      <3>1. r.kind = "delete" /\ req'[r].pc = "project" /\ failed # "project"
        BY <2>2 DEF Stands
      <3>2. machine' = [machine EXCEPT !.readable = TRUE, !.keys = data.keys, !.ends = data.ends]
        BY <1>3, <3>1
      <3>3. machine'.keys = data.keys
        BY <3>2 DEF KeysCore, StoresFit, IsMachine
      <3>4. r.provider \notin DOMAIN MachineData'.keys
        BY <3>1, <3>3 DEF MachineData, NoData, NoKeys
      <3>5. Setting(r.provider)' = {}
        BY <1>8, <2>2, <3>1 DEF KeysCore, HalfGone, Stands
      <3> QED BY <1>4, <2>2, <3>4, <3>5 DEF Nowhere
    <2> QED BY <2>1, <2>2
  <1>12. GoneIsGone'
    BY <1>3, <1>7, <1>9 DEF KeysCore, GoneIsGone, Stands
  <1>13. StoresFit'
    BY <1>5 DEF KeysCore, StoresFit
  <1>14. ASSUME RunKeys, UNCHANGED going PROVE RunKeys'
    <2>1. ASSUME NEW d \in DOMAIN req, Stands(d, "delete", "ok")
          PROVE  d \in DOMAIN req' /\ Stands(d, "delete", "ok")' /\ (d \in gone' => d \in gone)
      BY <1>3, <1>7, <2>1 DEF Stands
    <2> QED BY <1>14, <2>1, RunKeysStay
  <1> QED BY <1>10, <1>11, <1>12, <1>13, <1>14 DEF KeysCore

\* What the project keeps changes under requests for the key.
LEMMA SetInProjectKeeps ==
    ASSUME RequestsFit, KeysCore, NEW r \in DOMAIN req, SetInProject(r)
    PROVE  KeysCore' /\ (RunKeys /\ UNCHANGED going => RunKeys')
  <1>1. /\ Stands(r, "set", "project") /\ UNCHANGED <<machine, mmu, historyVars>>
        /\ \/ Go(r, "refused") /\ UNCHANGED secrets
           \/ /\ secrets' = [secrets EXCEPT !.keys = Put(secrets.keys, r.provider, r.value)]
              /\ Go(r, "answer")
    BY DEF SetInProject
  <1>2. InFlight(r)
    BY <1>1 DEF Stands, InFlight, Ended
  <1>3. /\ DOMAIN req' = DOMAIN req /\ \A q \in DOMAIN req \ {r} : req'[q] = req[q]
        /\ req'[r].pc \in {"refused", "answer"}
    <2>1. PICK p \in {"refused", "answer"} : Go(r, p)
      BY <1>1
    <2>2. req'[r] = [pc |-> p, saw |-> req[r].saw]
      BY <2>1, Went
    <2> QED BY <2>1, <2>2, Went
  <1>4. MachineData' = MachineData
    BY <1>1 DEF MachineData
  <1>5. /\ IsSecrets(secrets')
        /\ \A p : p \in DOMAIN ProjectKeys' => p \in DOMAIN ProjectKeys \/ p = r.provider
    <2>1. secrets = [readable |-> secrets.readable, keys |-> secrets.keys]
      BY DEF KeysCore, StoresFit, IsSecrets
    <2>2. CASE UNCHANGED secrets
      BY <2>1, <2>2 DEF IsSecrets, ProjectKeys
    <2>3. CASE secrets' = [secrets EXCEPT !.keys = Put(secrets.keys, r.provider, r.value)]
      <3>1. secrets' = [readable |-> secrets.readable, keys |-> Put(secrets.keys, r.provider, r.value)]
        BY <2>1, <2>3
      <3>2. DOMAIN Put(secrets.keys, r.provider, r.value) = DOMAIN secrets.keys \cup {r.provider}
        BY DEF Put
      <3>3. secrets'.readable = secrets.readable /\ secrets'.keys = Put(secrets.keys, r.provider, r.value)
        BY <3>1
      <3>4. IsSecrets(secrets')
        BY <3>1 DEF IsSecrets
      <3> QED BY <3>2, <3>3, <3>4 DEF ProjectKeys
    <2> QED BY <1>1, <2>2, <2>3
  <1>6. ASSUME NEW p PROVE Setting(p)' \subseteq Setting(p)
    BY <1>2, <1>3, OneSets
  <1>7. ASSUME NEW p, Nowhere(p) PROVE Nowhere(p)' /\ p # r.provider
    <2>1. Nowhere(p)'
      BY <1>3, <1>4, <1>6, <1>7 DEF Nowhere
    <2>2. p # r.provider
      BY <1>1, <1>2, <1>7 DEF Nowhere, Setting, Stands
    <2> QED BY <2>1, <2>2
  <1>8. Holders'
    BY <1>1, <1>3, <1>4 DEF KeysCore, Holders, historyVars
  <1>9. HalfGone'
    BY <1>1, <1>3, <1>6, <1>7 DEF KeysCore, HalfGone, Stands, historyVars
  <1>10. GoneIsGone'
    BY <1>1, <1>3, <1>5, <1>7 DEF KeysCore, GoneIsGone, Stands, historyVars
  <1>11. StoresFit'
    BY <1>1, <1>5 DEF KeysCore, StoresFit
  <1>12. ASSUME RunKeys, UNCHANGED going PROVE RunKeys'
    <2>1. ASSUME NEW d \in DOMAIN req, Stands(d, "delete", "ok")
          PROVE  d \in DOMAIN req' /\ Stands(d, "delete", "ok")' /\ (d \in gone' => d \in gone)
      BY <1>1, <1>3, <2>1 DEF Stands, historyVars
    <2> QED BY <1>12, <2>1, RunKeysStay
  <1> QED BY <1>8, <1>9, <1>10, <1>11, <1>12 DEF KeysCore

\* A deletion that nothing disturbed is answered when the key is nowhere.
LEMMA DeleteInProjectKeeps ==
    ASSUME RequestsFit, KeysCore, NEW r \in DOMAIN req, DeleteInProject(r)
    PROVE  KeysCore' /\ (RunKeys /\ UNCHANGED going => RunKeys')
  <1>1. /\ Stands(r, "delete", "project") /\ UNCHANGED <<machine, mmu, disturbed, crossed>>
        /\ \/ Go(r, "refused") /\ UNCHANGED <<secrets, gone>>
           \/ /\ secrets' = [secrets EXCEPT !.keys = Without(secrets.keys, r.provider)]
              /\ Go(r, "ok") /\ gone' = IF r \in disturbed THEN gone ELSE gone \cup {r}
    BY DEF DeleteInProject, AnswerDelete
  <1>2. /\ DOMAIN req' = DOMAIN req /\ \A q \in DOMAIN req \ {r} : req'[q] = req[q]
        /\ req'[r].pc \in {"refused", "ok"} /\ (req'[r].pc = "refused" => UNCHANGED <<secrets, gone>>)
    <2>1. CASE Go(r, "refused") /\ UNCHANGED <<secrets, gone>>
      <3>1. req'[r] = [pc |-> "refused", saw |-> req[r].saw]
        BY <2>1, Went
      <3> QED BY <2>1, <3>1, Went
    <2>2. CASE Go(r, "ok")
      <3>1. req'[r] = [pc |-> "ok", saw |-> req[r].saw]
        BY <2>2, Went
      <3> QED BY <2>2, <3>1, Went
    <2> QED BY <1>1, <2>1, <2>2
  <1>3. MachineData' = MachineData
    BY <1>1 DEF MachineData
  <1>4. /\ IsSecrets(secrets') /\ DOMAIN ProjectKeys' \subseteq DOMAIN ProjectKeys
        /\ req'[r].pc = "ok" => r.provider \notin DOMAIN ProjectKeys'
    <2>1. secrets = [readable |-> secrets.readable, keys |-> secrets.keys]
      BY DEF KeysCore, StoresFit, IsSecrets
    <2>2. CASE Go(r, "refused") /\ UNCHANGED secrets
      <3>1. req'[r] = [pc |-> "refused", saw |-> req[r].saw]
        BY <2>2, Went
      <3> QED BY <2>1, <2>2, <3>1 DEF IsSecrets, ProjectKeys
    <2>3. CASE secrets' = [secrets EXCEPT !.keys = Without(secrets.keys, r.provider)]
      <3>1. secrets' = [readable |-> secrets.readable, keys |-> Without(secrets.keys, r.provider)]
        BY <2>1, <2>3
      <3>2. DOMAIN Without(secrets.keys, r.provider) = DOMAIN secrets.keys \ {r.provider}
        BY DEF Without
      <3>3. secrets'.readable = secrets.readable /\ secrets'.keys = Without(secrets.keys, r.provider)
        BY <3>1
      <3>4. IsSecrets(secrets')
        BY <3>1 DEF IsSecrets
      <3> QED BY <3>2, <3>3, <3>4 DEF ProjectKeys, NoKeys
    <2> QED BY <1>1, <2>2, <2>3
  <1>5. ASSUME NEW p PROVE Setting(p)' \subseteq Setting(p)
    BY <1>1, <1>2, OneSets DEF Stands
  <1>6. ASSUME NEW p, Nowhere(p) PROVE Nowhere(p)'
    BY <1>2, <1>3, <1>5, <1>6 DEF Nowhere
  <1>7. Holders'
    BY <1>1, <1>2, <1>3 DEF KeysCore, Holders
  <1>8. HalfGone'
    BY <1>1, <1>2, <1>5, <1>6 DEF KeysCore, HalfGone, Stands
  <1>9. GoneIsGone'
    <2> SUFFICES ASSUME NEW d \in gone'
                 PROVE  /\ d \in DOMAIN req /\ Stands(d, "delete", "ok")'
                        /\ Nowhere(d.provider)' /\ d.provider \notin DOMAIN ProjectKeys'
      BY <1>2 DEF GoneIsGone
    <2>1. CASE d \in gone
      BY <1>1, <1>2, <1>4, <1>6, <2>1 DEF KeysCore, GoneIsGone, Stands
    <2>2. CASE d \notin gone
      <3>1. d = r /\ r \notin disturbed /\ req'[r].pc = "ok"
        BY <1>1, <1>2, <2>2
      <3> QED BY <1>1, <1>4, <1>6, <3>1 DEF KeysCore, HalfGone, Stands
    <2> QED BY <2>1, <2>2
  <1>10. StoresFit'
    BY <1>1, <1>4 DEF KeysCore, StoresFit
  <1>11. ASSUME RunKeys, UNCHANGED going PROVE RunKeys'
    <2>1. ASSUME NEW d \in DOMAIN req, Stands(d, "delete", "ok")
          PROVE  d \in DOMAIN req' /\ Stands(d, "delete", "ok")' /\ (d \in gone' => d \in gone)
      BY <1>1, <1>2, <2>1 DEF Stands
    <2> QED BY <1>11, <2>1, RunKeysStay
  <1> QED BY <1>7, <1>8, <1>9, <1>10, <1>11 DEF KeysCore

\* Another window's write may bring a key back: it is not gone then, and
\* whoever is deleting it is disturbed.
LEMMA OtherWritesKeeps ==
    ASSUME RequestsFit, KeysCore, NEW r \in DOMAIN req, OtherWrites(r)
    PROVE  KeysCore' /\ (RunKeys /\ UNCHANGED going => RunKeys')
  <1> DEFINE theirs == Put(req[r].saw.keys, r.provider, "theirs")
  <1>1. /\ r.kind = "elsewhere" /\ req[r].pc = "theirs"
        /\ UNCHANGED <<secrets, mmu>> /\ Go(r, "ok")
        /\ machine' = [machine EXCEPT !.readable = TRUE, !.keys = theirs, !.ends = req[r].saw.ends]
        /\ gone' = {d \in gone : d.provider \notin DOMAIN machine'.keys}
        /\ disturbed' = disturbed \cup {d \in Deletions : d.provider \in DOMAIN machine'.keys}
        /\ crossed' = IF mmu = Free THEN crossed ELSE crossed \cup {mmu}
    BY DEF OtherWrites, Stands, projectVars
  <1> HIDE DEF theirs
  <1>2. /\ DOMAIN req' = DOMAIN req /\ \A q \in DOMAIN req \ {r} : req'[q] = req[q]
        /\ req'[r].pc = "ok"
    <2>1. req'[r] = [pc |-> "ok", saw |-> req[r].saw]
      BY <1>1, Went
    <2> QED BY <1>1, <2>1, Went
  <1>3. IsMachine(machine') /\ machine'.dir = machine.dir
    <2>1. machine = [dir |-> machine.dir, readable |-> machine.readable,
                     keys |-> machine.keys, ends |-> machine.ends]
      BY DEF KeysCore, StoresFit, IsMachine
    <2>2. DOMAIN machine' = {"dir", "readable", "keys", "ends"}
      BY <1>1, <2>1
    <2>3. machine' = [f \in {"dir", "readable", "keys", "ends"} |-> machine'[f]]
      BY <1>1, <2>2
    <2>4. IsMachine(machine')
      BY <2>3 DEF IsMachine
    <2> QED BY <1>1, <2>1, <2>4
  <1>4. DOMAIN MachineData'.keys \subseteq DOMAIN machine'.keys /\ ProjectKeys' = ProjectKeys
    BY <1>1 DEF MachineData, NoData, NoKeys, ProjectKeys
  <1>5. ASSUME NEW p PROVE Setting(p)' \subseteq Setting(p)
    BY <1>1, <1>2, OneSets
  <1>6. ASSUME NEW p, Nowhere(p), p \notin DOMAIN machine'.keys PROVE Nowhere(p)'
    BY <1>2, <1>4, <1>5, <1>6 DEF Nowhere
  <1>7. Holders'
    <2>1. \A q \in DOMAIN req : req[q].pc = "machine" => mmu = q /\ q \in crossed'
      BY <1>1, RequestsAssumption DEF KeysCore, Holders, RequestsFit
    <2> QED BY <1>1, <1>2, <1>3, <2>1 DEF KeysCore, Holders
  <1>8. HalfGone'
    <2> SUFFICES ASSUME NEW d \in DOMAIN req, d \notin disturbed'
                 PROVE  /\ Stands(d, "delete", "machine")' => Setting(d.provider)' = {}
                        /\ Stands(d, "delete", "project")' => Nowhere(d.provider)'
      BY <1>2 DEF HalfGone
    <2>1. Stands(d, "delete", "machine")' => Setting(d.provider)' = {}
      BY <1>1, <1>2, <1>5 DEF KeysCore, HalfGone, Stands
    <2>2. ASSUME Stands(d, "delete", "project")' PROVE Nowhere(d.provider)'
      <3>1. Stands(d, "delete", "project") /\ d \notin disturbed
        BY <1>1, <1>2, <2>2 DEF Stands
      <3>2. d.provider \notin DOMAIN machine'.keys
        BY <1>1, <3>1 DEF Deletions, Stands, InFlight, Ended
      <3> QED BY <1>6, <3>1, <3>2 DEF KeysCore, HalfGone
    <2> QED BY <2>1, <2>2
  <1>9. GoneIsGone'
    BY <1>1, <1>2, <1>4, <1>6 DEF KeysCore, GoneIsGone, Stands
  <1>10. StoresFit'
    BY <1>1, <1>3 DEF KeysCore, StoresFit
  <1>11. ASSUME RunKeys, UNCHANGED going PROVE RunKeys'
    <2>1. ASSUME NEW d \in DOMAIN req, Stands(d, "delete", "ok")
          PROVE  d \in DOMAIN req' /\ Stands(d, "delete", "ok")' /\ (d \in gone' => d \in gone)
      BY <1>1, <1>2, <2>1 DEF Stands
    <2> QED BY <1>11, <2>1, RunKeysStay
  <1> QED BY <1>7, <1>8, <1>9, <1>10, <1>11 DEF KeysCore

----------------------------------------------------------------------------
(* All of them.                                                            *)

LEMMA SettingsKeepKeys ==
    ASSUME RequestsFit, KeysCore, SettingsNext
    PROVE  KeysCore' /\ (RunKeys /\ UNCHANGED going => RunKeys')
  <1> PICK r \in DOMAIN req :
         \/ BeginSet(r) \/ SetOnMachine(r) \/ SetInProject(r) \/ AnswerSet(r)
         \/ BeginDelete(r) \/ DeleteOnMachine(r) \/ DeleteInProject(r)
         \/ SetProviderOrder(r) \/ WritePreferences(r)
         \/ BeginEndpoint(r) \/ LockEndpoint(r) \/ EndpointOnMachine(r) \/ EndpointInProject(r)
         \/ OtherReads(r) \/ OtherWrites(r)
    BY DEF SettingsNext
  <1>a. ASSUME UNCHANGED <<machine, secrets, mmu, historyVars>>, NEW p, Go(r, p) \/ \E x : Keep(r, p, x),
               req[r].pc \notin Ended, r.kind # "set" \/ req[r].pc # "begin",
               p \notin {"machine", "project"}, p = "lock" => machine.dir
        PROVE  KeysCore' /\ (RunKeys /\ UNCHANGED going => RunKeys')
    <2>1. /\ DOMAIN req' = DOMAIN req /\ \A q \in DOMAIN req \ {r} : req'[q] = req[q]
          /\ req'[r].pc = p
      <3>1. CASE Go(r, p)
        <4>1. req'[r] = [pc |-> p, saw |-> req[r].saw]
          BY <3>1, Went
        <4> QED BY <3>1, <4>1, Went
      <3>2. CASE \E x : Keep(r, p, x)
        <4>1. PICK x : Keep(r, p, x)
          BY <3>2
        <4>2. req'[r] = [pc |-> p, saw |-> x]
          BY <4>1, Kept
        <4> QED BY <4>1, <4>2, Kept
      <3> QED BY <1>a, <3>1, <3>2
    <2>2. KeysAside
      BY <1>a, <2>1 DEF KeysAside
    <2> QED BY <2>2, KeysAsideHolds, KeysAsideRuns
  <1>1. CASE BeginSet(r)
    BY <1>1, BeginSetKeeps
  <1>2. CASE SetOnMachine(r)
    <2> DEFINE data == [req[r].saw EXCEPT !.keys = Put(req[r].saw.keys, r.provider, r.value)]
    <2>1. /\ r.kind = "set" /\ req[r].pc = "machine" /\ UNCHANGED <<secrets, historyVars>>
          /\ WriteMachine(r, data, "answer", "project")
      BY <1>2 DEF SetOnMachine, Stands, projectVars
    <2>2. ASSUME NEW p \in DOMAIN data.keys PROVE p \in DOMAIN req[r].saw.keys \/ p = r.provider
      <3>1. data.keys \in {Put(req[r].saw.keys, r.provider, r.value), req[r].saw.keys}
        OBVIOUS
      <3> QED BY <3>1 DEF Put
    <2> HIDE DEF data
    <2> QED BY <2>1, <2>2, MachineWritten
  <1>3. CASE SetInProject(r)
    BY <1>3, SetInProjectKeeps
  <1>4. CASE AnswerSet(r)
    BY <1>4, <1>a DEF AnswerSet, Stands, Ended, settingsVars, projectVars
  <1>5. CASE BeginDelete(r)
    BY <1>5, BeginDeleteKeeps
  <1>6. CASE DeleteOnMachine(r)
    <2> DEFINE data == [req[r].saw EXCEPT !.keys = Without(req[r].saw.keys, r.provider)]
    <2>1. /\ r.kind = "delete" /\ req[r].pc = "machine" /\ UNCHANGED <<secrets, historyVars>>
          /\ WriteMachine(r, data, "project", "refused")
      BY <1>6 DEF DeleteOnMachine, Stands, projectVars
    <2>2. ASSUME NEW p \in DOMAIN data.keys
          PROVE  p \in DOMAIN req[r].saw.keys /\ p # r.provider
      <3>1. "keys" \in DOMAIN req[r].saw
        BY <2>1 DEF KeysCore, Holders
      <3>2. data.keys = Without(req[r].saw.keys, r.provider)
        BY <3>1
      <3> QED BY <3>2 DEF Without
    <2> HIDE DEF data
    <2>3. r.provider \notin DOMAIN data.keys
      BY <2>2
    <2>4. "project" \notin {"machine", "lock"} /\ "refused" \notin {"machine", "lock"} /\ "refused" # "project"
      OBVIOUS
    <2> QED BY <2>1, <2>2, <2>3, <2>4, MachineWritten
  <1>7. CASE DeleteInProject(r)
    BY <1>7, DeleteInProjectKeeps
  <1>8. CASE SetProviderOrder(r)
    <2>1. \E x : Keep(r, "open", x)
      BY <1>8 DEF SetProviderOrder
    <2>2. req[r].pc \notin Ended /\ r.kind # "set" /\ UNCHANGED <<machine, secrets, mmu, historyVars>>
      BY <1>8 DEF SetProviderOrder, Stands, Ended, settingsVars, projectVars
    <2> QED BY <2>1, <2>2, <1>a
  <1>9. CASE WritePreferences(r)
    <2>1. CASE OpenPartial(r)
      <3>1. /\ UNCHANGED <<machine, secrets, mmu, historyVars>> /\ req[r].pc = "open"
            /\ \/ Go(r, "failed")
               \/ \E i : req' = [req EXCEPT ![r] = [@ EXCEPT !.pc = "write", !.saw.at = i]]
        BY <2>1 DEF OpenPartial
      <3>2. CASE Go(r, "failed")
        <4>1. req[r].pc \notin Ended /\ req[r].pc # "begin"
          BY <3>1 DEF Ended
        <4>2. UNCHANGED <<machine, secrets, mmu, historyVars>>
          BY <3>1
        <4> QED BY <1>a, <3>2, <4>1, <4>2
      <3>3. CASE \E i : req' = [req EXCEPT ![r] = [@ EXCEPT !.pc = "write", !.saw.at = i]]
        <4>1. \E x : Keep(r, "write", x)
          BY <3>3, Opened
        <4>2. req[r].pc \notin Ended /\ req[r].pc # "begin"
          BY <3>1 DEF Ended
        <4>3. UNCHANGED <<machine, secrets, mmu, historyVars>>
          BY <3>1
        <4> QED BY <1>a, <4>1, <4>2, <4>3
      <3> QED BY <3>1, <3>2, <3>3
    <2>2. CASE WritePartial(r)
      BY <1>a, <2>2 DEF WritePartial, Ended
    <2>3. CASE RenamePartial(r)
      BY <1>a, <2>3 DEF RenamePartial, Ended
    <2>4. CASE AfterPreferences(r)
      BY <1>a, <2>4 DEF AfterPreferences, Ended, settingsVars, projectVars
    <2> QED BY <1>9, <2>1, <2>2, <2>3, <2>4 DEF WritePreferences
  <1>10. CASE BeginEndpoint(r)
    <2>1. req[r].pc \notin Ended /\ r.kind # "set" /\ UNCHANGED <<machine, secrets, mmu, historyVars>>
      BY <1>10 DEF BeginEndpoint, Stands, Ended, settingsVars, projectVars
    <2>2. CASE Go(r, "refused")
      BY <2>1, <2>2, <1>a
    <2>3. CASE \E x : Keep(r, IF machine.dir THEN "lock" ELSE "prefs", x)
      BY <2>1, <2>3, <1>a
    <2> QED BY <1>10, <2>2, <2>3 DEF BeginEndpoint
  <1>11. CASE LockEndpoint(r)
    BY <1>11, LockKeeps
  <1>12. CASE EndpointOnMachine(r)
    <2> DEFINE data == [keys |-> req[r].saw.keys, ends |-> Store(req[r].saw.ends, r.provider, req[r].saw.saved)]
               landed == IF req[r].saw.saved = Off THEN "clear" ELSE "ok"
    <2>1. /\ r.kind = "endpoint" /\ req[r].pc = "machine" /\ UNCHANGED <<secrets, historyVars>>
          /\ WriteMachine(r, data, landed, "prefs")
      BY <1>12 DEF EndpointOnMachine, Stands, projectVars
    <2>2. data.keys = req[r].saw.keys /\ landed \notin {"machine", "lock"}
      OBVIOUS
    <2> HIDE DEF data, landed
    <2> QED BY <2>1, <2>2, MachineWritten
  <1>13. CASE EndpointInProject(r)
    BY <1>13, <1>a DEF EndpointInProject, Ended, settingsVars, projectVars
  <1>14. CASE OtherReads(r)
    BY <1>14, <1>a DEF OtherReads, Stands, Ended, settingsVars, projectVars
  <1>15. CASE OtherWrites(r)
    BY <1>15, OtherWritesKeeps
  <1> QED BY <1>1, <1>2, <1>3, <1>4, <1>5, <1>6, <1>7, <1>8, <1>9, <1>10, <1>11, <1>12, <1>13,
             <1>14, <1>15

\* A restart leaves nobody in the middle of anything, and no run.
LEMMA RestartKeepsKeys ==
    ASSUME RequestsFit, KeysCore, Restart
    PROVE  KeysCore' /\ RunKeys'
  <1>1. /\ DOMAIN req' = DOMAIN req
        /\ \A r \in DOMAIN req :
              \/ req'[r] = req[r] /\ ~InFlight(r)
              \/ req'[r] = [pc |-> "gone", saw |-> req[r].saw] /\ InFlight(r)
    BY Dropped DEF Restart
  <1>2. UNCHANGED <<machine, secrets, disturbed, crossed, gone>> /\ DOMAIN going' = {}
    BY DEF Restart, SettingsDropped, RunsDropped, projectVars, historyVars
  <1>3. \A r \in DOMAIN req : r.kind \in {"set", "delete", "endpoint"} => req'[r].pc \in Ended \cup {"begin"}
    BY <1>1 DEF InFlight, Ended
  <1>4. MachineData' = MachineData /\ ProjectKeys' = ProjectKeys
    BY <1>2 DEF MachineData, ProjectKeys
  <1>5. ASSUME NEW r \in DOMAIN req PROVE req'[r].pc # "machine"
    <2>1. req'[r].pc = "machine" => req'[r] = req[r]
      BY <1>1
    <2> QED BY <1>3, <2>1 DEF KeysCore, Holders, Ended
  <1>6. ASSUME NEW p PROVE Setting(p)' = {}
    BY <1>1, <1>3 DEF Setting, InFlight
  <1>7. ASSUME NEW p, Nowhere(p) PROVE Nowhere(p)'
    BY <1>1, <1>4, <1>5, <1>6, <1>7 DEF Nowhere
  <1>8. Holders'
    BY <1>1, <1>2, <1>5 DEF KeysCore, Holders
  <1>9. HalfGone'
    BY <1>1, <1>3 DEF HalfGone, Stands, Ended
  <1>10. GoneIsGone'
    BY <1>1, <1>2, <1>4, <1>7 DEF KeysCore, GoneIsGone, Stands, InFlight, Ended
  <1>11. StoresFit'
    BY <1>2 DEF KeysCore, StoresFit
  <1>12. RunKeys'
    BY <1>2 DEF RunKeys
  <1> QED BY <1>8, <1>9, <1>10, <1>11, <1>12 DEF KeysCore

\* A run that begins has read nothing; one that reads the keys reads none that
\* is gone.
LEMMA RunsKeepKeys ==
    ASSUME WaitInv, KeysCore, RunKeys, RunsNext, UNCHANGED settingsVars
    PROVE  KeysCore' /\ RunKeys'
  <1>1. RequestsFit
    BY DEF WaitInv
  <1>2. KeysAside
    BY <1>1, RunsMove, OthersLeaveKeys DEF RunPlaces, RunKinds, SettingPlaces, Ended
  <1>3. KeysCore'
    BY <1>2, KeysAsideHolds
  <1>4. gone' = gone
    BY DEF settingsVars, historyVars
  <1>5. ASSUME NEW d \in DOMAIN req, Stands(d, "delete", "ok")
        PROVE  d \in DOMAIN req' /\ Stands(d, "delete", "ok")'
    <2>1. DOMAIN req' = DOMAIN req /\ req[d].pc \in Ended
      BY <1>2, <1>5 DEF KeysAside, Stands, Ended
    <2>2. req'[d] = req[d]
      BY <1>2, <2>1 DEF KeysAside
    <2> QED BY <1>5, <2>1, <2>2 DEF Stands
  <1>6. CASE UNCHANGED going
    BY <1>2, <1>3, <1>6, KeysAsideRuns
  <1>7. ASSUME NEW r \in DOMAIN req, RecordRun(r), going' # going PROVE RunKeys'
    <2>1. going' = Put(going, r.id, [pc |-> "start", keys |-> {}, barred |-> {}])
      BY <1>7 DEF RecordRun, runVars
    <2>2. /\ DOMAIN going' = DOMAIN going \cup {r.id} /\ going'[r.id].barred = {}
          /\ \A id \in DOMAIN going \ {r.id} : going'[id] = going[id]
      BY <2>1 DEF Put
    <2> QED BY <1>4, <1>5, <2>2 DEF RunKeys
  <1>8. ASSUME NEW id \in DOMAIN going,
               RunStarts(id) \/ RunReadsProjectKeys(id) \/ RunReadsMachineKeys(id) \/ RunEnds(id)
        PROVE  RunKeys'
    <2> DEFINE g == going[id]
    <2>1. g = [pc |-> g.pc, keys |-> g.keys, barred |-> g.barred]
      BY DEF WaitInv, GoingOn
    <2>2. ASSUME NEW h, going' = [going EXCEPT ![id] = h],
                 \A d \in h.barred : \/ d \in g.barred /\ (d \in gone => d.provider \notin h.keys)
                                     \/ d \in gone /\ d.provider \notin h.keys
          PROVE  RunKeys'
      <3>1. DOMAIN going' = DOMAIN going /\ going'[id] = h
            /\ \A other \in DOMAIN going \ {id} : going'[other] = going[other]
        BY <2>2
      <3>2. ASSUME NEW d \in h.barred
            PROVE  d \in DOMAIN req /\ Stands(d, "delete", "ok") /\ (d \in gone => d.provider \notin h.keys)
        BY <2>2, <3>2 DEF RunKeys, KeysCore, GoneIsGone
      <3> QED BY <1>4, <1>5, <3>1, <3>2 DEF RunKeys
    <2>3. CASE RunStarts(id)
      <3>1. [g EXCEPT !.pc = "project keys"] = [pc |-> "project keys", keys |-> g.keys, barred |-> g.barred]
        BY <2>1, NextStep
      <3>2. going' = [going EXCEPT ![id] = [pc |-> "project keys", keys |-> g.keys, barred |-> g.barred]]
        BY <2>3, <3>1 DEF RunStarts
      <3>3. \A d \in g.barred : d \in gone => d.provider \notin g.keys
        BY DEF RunKeys
      <3> DEFINE h == [pc |-> "project keys", keys |-> g.keys, barred |-> g.barred]
      <3>4. h.keys = g.keys /\ h.barred = g.barred
        OBVIOUS
      <3> HIDE DEF h, g
      <3> QED BY <2>2, <3>2, <3>3, <3>4 DEF h
    <2>4. CASE RunReadsProjectKeys(id)
      <3>1. going' = [going EXCEPT ![id] =
                         [pc |-> "machine keys", keys |-> DOMAIN ProjectKeys, barred |-> gone]]
        BY <2>4 DEF RunReadsProjectKeys
      <3>2. \A d \in gone : d.provider \notin DOMAIN ProjectKeys
        BY DEF KeysCore, GoneIsGone
      <3> DEFINE h == [pc |-> "machine keys", keys |-> DOMAIN ProjectKeys, barred |-> gone]
      <3>3. h.keys = DOMAIN ProjectKeys /\ h.barred = gone
        OBVIOUS
      <3> HIDE DEF g
      <3>4. going' = [going EXCEPT ![id] = h]
        BY <3>1
      <3> HIDE DEF h
      <3> QED BY <2>2, <3>2, <3>3, <3>4
    <2>5. CASE RunReadsMachineKeys(id)
      <3> DEFINE keys == g.keys \cup DOMAIN MachineData.keys
      <3>1. going' = [going EXCEPT ![id] = [pc |-> "running", keys |-> keys, barred |-> g.barred]]
        BY <2>1, <2>5, KeysRead DEF RunReadsMachineKeys
      <3>2. ASSUME NEW d \in g.barred, d \in gone PROVE d.provider \notin keys
        BY <3>2 DEF RunKeys, KeysCore, GoneIsGone, Nowhere
      <3> DEFINE h == [pc |-> "running", keys |-> keys, barred |-> g.barred]
      <3>3. h.keys = keys /\ h.barred = g.barred
        OBVIOUS
      <3> HIDE DEF keys, g
      <3>4. going' = [going EXCEPT ![id] = h]
        BY <3>1
      <3> HIDE DEF h
      <3> QED BY <2>2, <3>2, <3>3, <3>4
    <2>6. CASE RunEnds(id)
      <3>1. [g EXCEPT !.pc = "ended"] = [pc |-> "ended", keys |-> g.keys, barred |-> g.barred]
        BY <2>1, NextStep
      <3>2. going' = [going EXCEPT ![id] = [pc |-> "ended", keys |-> g.keys, barred |-> g.barred]]
        BY <2>6, <3>1 DEF RunEnds
      <3>3. \A d \in g.barred : d \in gone => d.provider \notin g.keys
        BY DEF RunKeys
      <3> DEFINE h == [pc |-> "ended", keys |-> g.keys, barred |-> g.barred]
      <3>4. h.keys = g.keys /\ h.barred = g.barred
        OBVIOUS
      <3> HIDE DEF h, g
      <3> QED BY <2>2, <3>2, <3>3, <3>4 DEF h
    <2> QED BY <1>8, <2>3, <2>4, <2>5, <2>6
  <1>9. CASE going' # going /\ \E r \in DOMAIN req :
               \/ StartRun(r) \/ RecordRun(r) \/ BeginStatus(r) \/ PollRun(r) \/ WaitRunsOut(r)
               \/ Polled(r) \/ AgentLeaves(r) \/ ReadStatus(r)
               \/ GetOutput(r) \/ CancelExecution(r) \/ ListExecutions(r)
    <2>1. ASSUME NEW r \in DOMAIN req,
                 \/ StartRun(r) \/ BeginStatus(r) \/ PollRun(r) \/ WaitRunsOut(r)
                 \/ Polled(r) \/ AgentLeaves(r) \/ ReadStatus(r)
                 \/ GetOutput(r) \/ CancelExecution(r) \/ ListExecutions(r)
          PROVE  UNCHANGED going
      BY <2>1 DEF StartRun, BeginStatus, PollRun, WaitRunsOut, Polled, AgentLeaves, ReadStatus,
                  GetOutput, CancelExecution, ListExecutions, runVars
    <2>2. PICK r \in DOMAIN req : RecordRun(r)
      BY <1>9, <2>1
    <2>3. going' # going
      BY <1>9
    <2> QED BY <1>3, <1>7, <2>2, <2>3
  <1> QED BY <1>3, <1>6, <1>8, <1>9 DEF RunsNext

LEMMA KeysStep == WaitInv /\ KeysCore /\ RunKeys /\ [Next]_vars => KeysCore' /\ RunKeys'
  <1> SUFFICES ASSUME WaitInv, KeysCore, RunKeys, [Next]_vars
               PROVE  KeysCore' /\ RunKeys'
    OBVIOUS
  <1>0. RequestsFit
    BY DEF WaitInv
  <1>1. CASE Configure
    BY <1>0, <1>1, SettingsKeepKeys DEF Configure, runVars
  <1>2. CASE Edit
    <2>1. KeysAside
      BY <1>0, <1>2, WorkflowsMove, OthersLeaveKeys
         DEF Edit, WorkflowPlaces, WorkflowKinds, SettingPlaces, Ended
    <2> QED BY <1>2, <2>1, KeysAsideHolds, KeysAsideRuns DEF Edit, runVars
  <1>3. CASE Run
    BY <1>3, RunsKeepKeys DEF Run
  <1>4. CASE Pack
    <2>1. KeysAside
      BY <1>0, <1>4, PacksMove, OthersLeaveKeys DEF Pack, PackPlaces, PackKinds, SettingPlaces, Ended
    <2> QED BY <1>4, <2>1, KeysAsideHolds, KeysAsideRuns DEF Pack, runVars
  <1>5. CASE Restart
    BY <1>0, <1>5, RestartKeepsKeys
  <1>6. CASE UNCHANGED vars
    <2>1. KeysAside
      BY <1>6 DEF vars, settingsVars, projectVars, KeysAside
    <2> QED BY <1>6, <2>1, KeysAsideHolds, KeysAsideRuns DEF vars, runVars
  <1> QED BY <1>1, <1>2, <1>3, <1>4, <1>5, <1>6 DEF Next

\* However saves, deletions, other windows, failed writes and restarts come
\* together, a key whose deletion nothing disturbed is nowhere, and no run that
\* read its keys since has it.
THEOREM DeletedIsGoneAlways == Spec => []DeletedIsGone
  <1>1. Init => WaitInv /\ KeysCore /\ RunKeys
    BY WaitInit, KeysInit
  <1>2. WaitInv /\ KeysCore /\ RunKeys /\ [Next]_vars => WaitInv' /\ KeysCore' /\ RunKeys'
    BY WaitStep, KeysStep
  <1>3. KeysCore /\ RunKeys => DeletedIsGone
    <2> SUFFICES ASSUME KeysCore, RunKeys, NEW d \in gone
                 PROVE  /\ d.provider \notin DOMAIN MergedSecrets
                        /\ \A id \in DOMAIN going :
                              d \in going[id].barred => d.provider \notin going[id].keys
      BY DEF DeletedIsGone
    <2>1. d.provider \notin DOMAIN MachineData.keys /\ d.provider \notin DOMAIN ProjectKeys
      BY DEF KeysCore, GoneIsGone, Nowhere
    <2> QED BY <2>1 DEF MergedSecrets, Over, RunKeys
  <1> QED BY <1>1, <1>2, <1>3, PTL DEF Spec

----------------------------------------------------------------------------
(* What a provider is used with, and who changes it.                       *)

Same(f, g, p) == (p \in DOMAIN f <=> p \in DOMAIN g) /\ (p \in DOMAIN f => f[p] = g[p])

LEMMA SamePut == ASSUME NEW f, NEW x, NEW v, NEW p, p # x PROVE Same(Put(f, x, v), f, p)
  BY DEF Same, Put

LEMMA SameWithout == ASSUME NEW f, NEW x, NEW p, p # x PROVE Same(Without(f, x), f, p)
  BY DEF Same, Without

LEMMA SameStored == ASSUME NEW f, NEW x, NEW e, NEW p, p # x PROVE Same(Store(f, x, e), f, p)
  BY SamePut, SameWithout DEF Store

\* What a provider is used with depends on what the three stores say of it.
LEMMA InUseSame ==
    ASSUME NEW p, Same(MachineData.keys', MachineData.keys, p), Same(MachineData.ends', MachineData.ends, p),
           Same(ProjectKeys', ProjectKeys, p)
    PROVE  InUse(p)' = InUse(p)
  <1>1. (p \in DOMAIN MergedSecrets)' = (p \in DOMAIN MergedSecrets)
    BY DEF Same, MergedSecrets, Over
  <1>2. (IF p \in DOMAIN MergedSecrets THEN MergedSecrets[p] ELSE "")'
          = IF p \in DOMAIN MergedSecrets THEN MergedSecrets[p] ELSE ""
    BY DEF Same, MergedSecrets, Over
  <1>3. (IF p \in DOMAIN MachineData.ends THEN MachineData.ends[p] ELSE Off)'
          = IF p \in DOMAIN MachineData.ends THEN MachineData.ends[p] ELSE Off
    BY DEF Same
  <1> QED BY <1>1, <1>2, <1>3 DEF InUse

LEMMA NoStoreChanged == ASSUME NEW p, UNCHANGED <<machine, secrets>> PROVE InUse(p)' = InUse(p)
  BY DEF InUse, MergedSecrets, MachineData, ProjectKeys

\* A write of the machine's file under its mutex: of what was there, but for
\* the provider it is about.
LEMMA OthersOnMachine ==
    ASSUME RequestsFit, KeysCore, NEW r \in DOMAIN req, req[r].pc = "machine", NEW data, NEW landed, NEW failed,
           WriteMachine(r, data, landed, failed), UNCHANGED secrets, NEW p,
           p # r.provider => /\ Same(data.keys, req[r].saw.keys, p)
                             /\ Same(data.ends, req[r].saw.ends, p)
    PROVE  InUse(p)' = InUse(p) \/ Named(p) \/ mmu \in crossed
  <1>1. r.kind \in {"set", "delete", "endpoint"} /\ mmu = r /\ machine.dir
    BY DEF KeysCore, Holders
  <1>2. InFlight(r)
    BY <1>1 DEF InFlight, Ended
  <1>3. CASE p = r.provider
    BY <1>1, <1>2, <1>3 DEF Named
  <1>4. CASE UNCHANGED machine
    BY <1>4, NoStoreChanged
  <1>5. CASE mmu \in crossed
    BY <1>5
  <1>6. CASE /\ p # r.provider /\ mmu \notin crossed
             /\ machine' = [machine EXCEPT !.readable = TRUE, !.keys = data.keys, !.ends = data.ends]
    <2>1. req[r].saw.keys = MachineData.keys /\ req[r].saw.ends = MachineData.ends
      BY <1>1, <1>6 DEF KeysCore, Holders
    <2>2. machine'.dir /\ machine'.readable /\ machine'.keys = data.keys /\ machine'.ends = data.ends
      BY <1>1, <1>6 DEF KeysCore, StoresFit, IsMachine
    <2>3. MachineData.keys' = data.keys /\ MachineData.ends' = data.ends
      BY <2>2 DEF MachineData
    <2>4. Same(MachineData.keys', MachineData.keys, p) /\ Same(MachineData.ends', MachineData.ends, p)
      BY <1>6, <2>1, <2>3
    <2>5. Same(ProjectKeys', ProjectKeys, p)
      BY DEF ProjectKeys, Same
    <2> QED BY <2>4, <2>5, InUseSame
  <1> QED BY <1>3, <1>4, <1>5, <1>6 DEF WriteMachine

\* A write of the project's keys, all but one of which stay as they are.
LEMMA OthersInProject ==
    ASSUME KeysCore, NEW r \in DOMAIN req, req[r].pc = "project", r.kind \in {"set", "delete"}, secrets.readable,
           NEW keys, secrets' = [secrets EXCEPT !.keys = keys], UNCHANGED machine, NEW p,
           p # r.provider => Same(keys, secrets.keys, p)
    PROVE  InUse(p)' = InUse(p) \/ Named(p)
  <1>1. CASE p = r.provider
    BY <1>1 DEF Named, InFlight, Ended
  <1>2. CASE p # r.provider
    <2>1. ProjectKeys' = keys /\ ProjectKeys = secrets.keys
      BY DEF KeysCore, StoresFit, IsSecrets, ProjectKeys
    <2>2. Same(ProjectKeys', ProjectKeys, p)
      BY <1>2, <2>1
    <2>3. Same(MachineData.keys', MachineData.keys, p) /\ Same(MachineData.ends', MachineData.ends, p)
      BY DEF MachineData, Same
    <2> QED BY <2>2, <2>3, InUseSame
  <1> QED BY <1>1, <1>2

LEMMA SettingsKeepOthers ==
    ASSUME RequestsFit, KeysCore, SettingsNext, NEW p
    PROVE  \/ InUse(p)' = InUse(p) \/ Named(p) \/ mmu \in crossed
           \/ \E r \in DOMAIN req : r.kind = "elsewhere" /\ req'[r] # req[r]
  <1> PICK r \in DOMAIN req :
         \/ BeginSet(r) \/ SetOnMachine(r) \/ SetInProject(r) \/ AnswerSet(r)
         \/ BeginDelete(r) \/ DeleteOnMachine(r) \/ DeleteInProject(r)
         \/ SetProviderOrder(r) \/ WritePreferences(r)
         \/ BeginEndpoint(r) \/ LockEndpoint(r) \/ EndpointOnMachine(r) \/ EndpointInProject(r)
         \/ OtherReads(r) \/ OtherWrites(r)
    BY DEF SettingsNext
  <1> DEFINE saw == req[r].saw
  <1>1. CASE SetOnMachine(r)
    <2> DEFINE data == [saw EXCEPT !.keys = Put(saw.keys, r.provider, r.value)]
    <2>1. req[r].pc = "machine" /\ UNCHANGED secrets /\ WriteMachine(r, data, "answer", "project")
      BY <1>1 DEF SetOnMachine, Stands, projectVars
    <2>2. data.keys = Put(saw.keys, r.provider, r.value) /\ data.ends = saw.ends
      <3>1. "keys" \in DOMAIN saw
        BY <2>1 DEF KeysCore, Holders
      <3> QED BY <3>1
    <2> HIDE DEF data
    <2>3. p # r.provider => Same(data.keys, saw.keys, p) /\ Same(data.ends, saw.ends, p)
      BY <2>2, SamePut DEF Same
    <2> QED BY <2>1, <2>3, OthersOnMachine
  <1>2. CASE DeleteOnMachine(r)
    <2> DEFINE data == [saw EXCEPT !.keys = Without(saw.keys, r.provider)]
    <2>1. req[r].pc = "machine" /\ UNCHANGED secrets /\ WriteMachine(r, data, "project", "refused")
      BY <1>2 DEF DeleteOnMachine, Stands, projectVars
    <2>2. data.keys = Without(saw.keys, r.provider) /\ data.ends = saw.ends
      <3>1. "keys" \in DOMAIN saw
        BY <2>1 DEF KeysCore, Holders
      <3> QED BY <3>1
    <2> HIDE DEF data
    <2>3. p # r.provider => Same(data.keys, saw.keys, p) /\ Same(data.ends, saw.ends, p)
      BY <2>2, SameWithout DEF Same
    <2> QED BY <2>1, <2>3, OthersOnMachine
  <1>3. CASE EndpointOnMachine(r)
    <2> DEFINE data == [keys |-> saw.keys, ends |-> Store(saw.ends, r.provider, saw.saved)]
               landed == IF saw.saved = Off THEN "clear" ELSE "ok"
    <2>1. req[r].pc = "machine" /\ UNCHANGED secrets /\ WriteMachine(r, data, landed, "prefs")
      BY <1>3 DEF EndpointOnMachine, Stands, projectVars
    <2>2. data.keys = saw.keys /\ data.ends = Store(saw.ends, r.provider, saw.saved)
      OBVIOUS
    <2> HIDE DEF data, landed
    <2>3. p # r.provider => Same(data.keys, saw.keys, p) /\ Same(data.ends, saw.ends, p)
      BY <2>2, SameStored DEF Same
    <2> QED BY <2>1, <2>3, OthersOnMachine
  <1>4. CASE SetInProject(r)
    <2>1. req[r].pc = "project" /\ r.kind = "set" /\ UNCHANGED machine
      BY <1>4 DEF SetInProject, Stands
    <2>2. CASE UNCHANGED secrets
      BY <2>1, <2>2, NoStoreChanged
    <2>3. CASE secrets.readable /\ secrets' = [secrets EXCEPT !.keys = Put(secrets.keys, r.provider, r.value)]
      BY <2>1, <2>3, SamePut, OthersInProject
    <2> QED BY <1>4, <2>2, <2>3 DEF SetInProject
  <1>5. CASE DeleteInProject(r)
    <2>1. req[r].pc = "project" /\ r.kind = "delete" /\ UNCHANGED machine
      BY <1>5 DEF DeleteInProject, Stands
    <2>2. CASE UNCHANGED secrets
      BY <2>1, <2>2, NoStoreChanged
    <2>3. CASE secrets.readable /\ secrets' = [secrets EXCEPT !.keys = Without(secrets.keys, r.provider)]
      BY <2>1, <2>3, SameWithout, OthersInProject
    <2> QED BY <1>5, <2>2, <2>3 DEF DeleteInProject
  <1>6. CASE OtherWrites(r)
    <2>1. r.kind = "elsewhere" /\ req[r].pc = "theirs" /\ Go(r, "ok")
      BY <1>6 DEF OtherWrites, Stands
    <2>2. req'[r] = [pc |-> "ok", saw |-> req[r].saw]
      BY <2>1, Went
    <2> QED BY <2>1, <2>2
  <1>7. ASSUME UNCHANGED <<machine, secrets>> PROVE InUse(p)' = InUse(p)
    BY <1>7, NoStoreChanged
  <1>8. CASE WritePreferences(r)
    BY <1>7, <1>8 DEF WritePreferences, OpenPartial, WritePartial, RenamePartial, AfterPreferences,
                      settingsVars, projectVars
  <1>9. CASE BeginSet(r) \/ AnswerSet(r) \/ BeginDelete(r) \/ SetProviderOrder(r)
    BY <1>7, <1>9 DEF BeginSet, AnswerSet, BeginDelete, SetProviderOrder, settingsVars, projectVars
  <1>10. CASE BeginEndpoint(r) \/ LockEndpoint(r) \/ EndpointInProject(r) \/ OtherReads(r)
    BY <1>7, <1>10 DEF BeginEndpoint, LockEndpoint, EndpointInProject, OtherReads, settingsVars, projectVars
  <1> QED BY <1>1, <1>2, <1>3, <1>4, <1>5, <1>6, <1>8, <1>9, <1>10

\* Under any requests, failed writes and restarts, nothing that a provider is
\* used with changes under a request for another one, while no other window
\* writes or has written in the middle of one.
THEOREM OthersAlwaysKept == Spec => OthersKept
  <1> DEFINE Kept1 == \A p \in AllProviders :
          InUse(p)' # InUse(p) =>
             \/ Named(p) \/ Named(p)'
             \/ \E r \in DOMAIN req : r.kind = "elsewhere" /\ req'[r] # req[r]
             \/ mmu \in crossed
  <1>1. Init => WaitInv /\ KeysCore /\ RunKeys
    BY WaitInit, KeysInit
  <1>2. WaitInv /\ KeysCore /\ RunKeys /\ [Next]_vars => WaitInv' /\ KeysCore' /\ RunKeys'
    BY WaitStep, KeysStep
  <1>3. WaitInv /\ KeysCore /\ [Next]_vars => [Kept1]_vars
    <2> SUFFICES ASSUME WaitInv, KeysCore, Next PROVE Kept1
      OBVIOUS
    <2>1. RequestsFit
      BY DEF WaitInv
    <2>2. CASE Configure
      BY <2>1, <2>2, SettingsKeepOthers DEF Configure
    <2>3. CASE Edit \/ Run \/ Pack \/ Restart
      <3>1. UNCHANGED <<machine, secrets>>
        BY <2>3 DEF Edit, Run, Pack, Restart, SettingsDropped, settingsVars, projectVars
      <3> QED BY <3>1, NoStoreChanged
    <2> QED BY <2>2, <2>3 DEF Next
  <1> HIDE DEF Kept1
  <1>4. Spec => [][Kept1]_vars
    BY <1>1, <1>2, <1>3, PTL DEF Spec
  <1> QED BY <1>4 DEF OthersKept, Kept1

----------------------------------------------------------------------------
(* The preference file, whose lists have a first place whoever wrote it.   *)

Lists(order) == \A role \in DOMAIN order : Listed(order[role])

PrefsInv ==
    /\ \A i \in DOMAIN inode : Lists(inode[i].order)
    /\ {published, partial} \subseteq DOMAIN inode \cup {NoInode}
    /\ \A r \in DOMAIN req :
          req[r].pc \in {"open", "write"} =>
             {"order", "at"} \subseteq DOMAIN req[r].saw /\ Lists(req[r].saw.order)

LEMMA NothingIsListed == Listed(<<>>)
  <1>1. <<>> \in Seq(STRING)
    BY EmptySeq
  <1>2. Len(<<>>) = 0
    BY EmptySeq
  <1>3. ASSUME NEW none \in Seq(STRING), Len(none) = 0 PROVE Listed(none)
    BY <1>3, LenProperties DEF Listed
  <1> QED BY <1>1, <1>2, <1>3

LEMMA AskedIsListed ==
    ASSUME NEW order, AreLists(order)
    PROVE  Lists(order)
  <1> SUFFICES ASSUME NEW role \in DOMAIN order PROVE Listed(order[role])
    BY DEF Lists
  <1>1. order[role] \in Seq(STRING)
    BY DEF AreLists
  <1> QED BY <1>1 DEF Listed

\* What is left of a list that is cleaned has places as a list has.
LEMMA CleanIsListed ==
    ASSUME NEW role, NEW ids \in Seq(STRING)
    PROVE  Listed(CleanList(role, ids))
  <1> DEFINE ones == {i \in DOMAIN ids : /\ ids[i] \in Elements(ProvidersFor(role))
                                         /\ \A j \in 1..(i - 1) : ids[j] # ids[i]}
             n == Cardinality(ones)
  <1>1. DOMAIN ids = 1..Len(ids) /\ Len(ids) \in Nat
    OBVIOUS
  <1>2. ones \in SUBSET (1..Len(ids))
    BY <1>1
  <1>3. IsFiniteSet(1..Len(ids))
    BY <1>1, FS_Interval
  <1>4. n \in Nat
    <2> HIDE DEF ones
    <2> QED BY <1>2, <1>3, FS_Subset, FS_CardinalityType
  <1>5. DOMAIN CleanList(role, ids) = 1..n
    BY DEF CleanList
  <1> HIDE DEF n
  <1> QED BY <1>4, <1>5 DEF Listed

LEMMA CleanedIsListed ==
    ASSUME NEW order, AreLists(order)
    PROVE  Lists(CleanOrder(order))
  <1> SUFFICES ASSUME NEW role \in DOMAIN CleanOrder(order) PROVE Listed(CleanOrder(order)[role])
    BY DEF Lists
  <1>1. role \in DOMAIN order /\ CleanOrder(order)[role] = CleanList(role, order[role])
    BY DEF CleanOrder
  <1>2. order[role] \in Seq(STRING)
    BY <1>1 DEF AreLists
  <1> QED BY <1>1, <1>2, CleanIsListed

LEMMA TornIsListed == Lists(Torn.order)
  BY DEF Torn, NoOrder, Lists

LEMMA PreferencesAreListed == PrefsInv => Lists(Preferences.order)
  BY TornIsListed DEF PrefsInv, Preferences

LEMMA PrefsInit == Init => PrefsInv
  <1> SUFFICES ASSUME Init PROVE PrefsInv
    OBVIOUS
  <1>1. PICK place \in Places : inode = [i \in {"first"} |-> place.prefs] /\ published = "first"
    BY DEF Init, SettingsInit
  <1>2. Lists(place.prefs.order)
    BY SettingsAssumption, AskedIsListed
  <1>3. PICK script \in Scripts : req = [r \in script |-> [pc |-> "begin", saw |-> Nothing]]
    BY DEF Init, RequestsInit
  <1>4. \A r \in DOMAIN req : req[r].pc = "begin"
    BY <1>3
  <1>5. partial = NoInode
    BY DEF Init, SettingsInit
  <1> QED BY <1>1, <1>2, <1>4, <1>5 DEF PrefsInv

\* A step that leaves the file alone, and brings no request to write it.
PrefsAside ==
    /\ UNCHANGED <<inode, published, partial>> /\ DOMAIN req' = DOMAIN req
    /\ \A r \in DOMAIN req : req'[r] = req[r] \/ req'[r].pc \notin {"open", "write"}

LEMMA PrefsAsideHolds == PrefsInv /\ PrefsAside => PrefsInv'
  BY DEF PrefsInv, PrefsAside

LEMMA OthersLeavePrefs ==
    ASSUME RequestsFit, UNCHANGED settingsVars, NEW places, NEW kinds, Moves(places, kinds),
           places \cap (SettingPlaces \cup Ended \cup {"begin"}) = {}
    PROVE  PrefsAside
  <1>1. UNCHANGED <<inode, published, partial>>
    BY DEF settingsVars, projectVars
  <1> QED BY <1>1 DEF Moves, PrefsAside, SettingPlaces, Ended

\* One request goes on, with the file as it was or with one inode written.
LEMMA OneGoesOn ==
    ASSUME RequestsFit, PrefsInv, NEW r \in DOMAIN req, NEW p, Go(r, p) \/ \E x : Keep(r, p, x),
           p \notin {"open", "write"}
    PROVE  /\ DOMAIN req' = DOMAIN req
           /\ \A q \in DOMAIN req : req'[q] = req[q] \/ req'[q].pc \notin {"open", "write"}
  <1>1. CASE Go(r, p)
    <2>1. req'[r] = [pc |-> p, saw |-> req[r].saw]
      BY <1>1, Went
    <2> QED BY <1>1, <2>1, Went
  <1>2. CASE \E x : Keep(r, p, x)
    <2>1. PICK x : Keep(r, p, x)
      BY <1>2
    <2>2. req'[r] = [pc |-> p, saw |-> x]
      BY <2>1, Kept
    <2> QED BY <2>1, <2>2, Kept
  <1> QED BY <1>1, <1>2

\* One request comes to the file with lists to write.
LEMMA OneComes ==
    ASSUME RequestsFit, PrefsInv, NEW r \in DOMAIN req, UNCHANGED <<inode, published, partial>>, NEW order,
           Lists(order),
           NEW ends, NEW cleared, Keep(r, "open", ToWrite(order, ends, cleared))
    PROVE  PrefsInv'
  <1> DEFINE x == ToWrite(order, ends, cleared)
  <1>1. {"order", "at"} \subseteq DOMAIN x /\ x.order = order
    BY DEF ToWrite
  <1> HIDE DEF x
  <1>2. DOMAIN req' = DOMAIN req /\ \A q \in DOMAIN req \ {r} : req'[q] = req[q]
    BY Kept DEF x
  <1>3. req'[r] = [pc |-> "open", saw |-> x]
    BY Kept DEF x
  <1>4. req'[r].saw = x
    BY <1>3
  <1> QED BY <1>1, <1>2, <1>4 DEF PrefsInv

LEMMA WritersKeepPrefs ==
    ASSUME RequestsFit, PrefsInv, NEW r \in DOMAIN req, WritePreferences(r)
    PROVE  PrefsInv'
  <1>1. CASE OpenPartial(r)
    <2>1. CASE Go(r, "failed") /\ UNCHANGED <<inode, partial>>
      <3>1. UNCHANGED published
        BY <1>1 DEF OpenPartial
      <3> QED BY <2>1, <3>1, OneGoesOn, PrefsAsideHolds DEF PrefsAside
    <2>2. CASE \E i : /\ partial' = i /\ inode' = Put(inode, i, Torn)
                      /\ req' = [req EXCEPT ![r] = [@ EXCEPT !.pc = "write", !.saw.at = i]]
      <3>1. PICK i : /\ partial' = i /\ inode' = Put(inode, i, Torn)
                     /\ req' = [req EXCEPT ![r] = [@ EXCEPT !.pc = "write", !.saw.at = i]]
        BY <2>2
      <3> DEFINE x == [req[r].saw EXCEPT !.at = i]
      <3>2. {"order", "at"} \subseteq DOMAIN req[r].saw /\ Lists(req[r].saw.order)
        BY <1>1 DEF OpenPartial, PrefsInv
      <3>3. {"order", "at"} \subseteq DOMAIN x /\ Lists(x.order)
        BY <3>2
      <3>4. Keep(r, "write", x)
        BY <3>1, Opened
      <3> HIDE DEF x
      <3>5. DOMAIN req' = DOMAIN req /\ req'[r] = [pc |-> "write", saw |-> x]
            /\ \A q \in DOMAIN req \ {r} : req'[q] = req[q]
        BY <3>4, Kept
      <3>6. req'[r].saw = x
        BY <3>5
      <3>7. /\ DOMAIN inode' = DOMAIN inode \cup {i} /\ partial' = i /\ inode'[i] = Torn
            /\ \A j \in DOMAIN inode \ {i} : inode'[j] = inode[j]
        BY <3>1 DEF Put
      <3>8. UNCHANGED published
        BY <1>1 DEF OpenPartial
      <3> QED BY <3>3, <3>5, <3>6, <3>7, <3>8, TornIsListed DEF PrefsInv
    <2> QED BY <1>1, <2>1, <2>2 DEF OpenPartial
  <1>2. CASE WritePartial(r)
    <2> DEFINE at == req[r].saw.at
               body == [whole |-> TRUE, order |-> req[r].saw.order, ends |-> req[r].saw.ends]
    <2>1. body.order = req[r].saw.order
      OBVIOUS
    <2>2. Lists(body.order)
      BY <1>2, <2>1 DEF WritePartial, PrefsInv
    <2>3. PICK content \in {body, Torn} : inode' = Put(inode, at, content)
      BY <1>2 DEF WritePartial
    <2> HIDE DEF at, body
    <2>4. Lists(content.order)
      BY <2>2, <2>3, TornIsListed
    <2>5. /\ DOMAIN inode' = DOMAIN inode \cup {at} /\ inode'[at] = content
          /\ \A j \in DOMAIN inode \ {at} : inode'[j] = inode[j]
      BY <2>3 DEF Put
    <2>6. UNCHANGED <<published, partial>> /\ Go(r, "rename")
      BY <1>2 DEF WritePartial
    <2>7. DOMAIN req' = DOMAIN req
          /\ \A q \in DOMAIN req : req'[q] = req[q] \/ req'[q].pc \notin {"open", "write"}
      BY <2>6, OneGoesOn
    <2> QED BY <2>4, <2>5, <2>6, <2>7 DEF PrefsInv
  <1>3. CASE RenamePartial(r)
    <2>1. /\ UNCHANGED inode
          /\ \/ UNCHANGED <<published, partial>> /\ Go(r, "failed")
             \/ published' = partial /\ partial' = NoInode /\ Go(r, "renamed")
      BY <1>3 DEF RenamePartial
    <2>2. DOMAIN req' = DOMAIN req
          /\ \A q \in DOMAIN req : req'[q] = req[q] \/ req'[q].pc \notin {"open", "write"}
      BY <2>1, OneGoesOn
    <2> QED BY <2>1, <2>2 DEF PrefsInv
  <1>4. CASE AfterPreferences(r)
    <2>1. UNCHANGED <<inode, published, partial>> /\ (Go(r, "ok") \/ Go(r, "refused"))
      BY <1>4 DEF AfterPreferences, settingsVars, projectVars
    <2> QED BY <2>1, OneGoesOn, PrefsAsideHolds DEF PrefsAside
  <1> QED BY <1>1, <1>2, <1>3, <1>4 DEF WritePreferences

LEMMA SettingsKeepPrefs ==
    ASSUME RequestsFit, PrefsInv, SettingsNext
    PROVE  PrefsInv'
  <1> PICK r \in DOMAIN req :
         \/ BeginSet(r) \/ SetOnMachine(r) \/ SetInProject(r) \/ AnswerSet(r)
         \/ BeginDelete(r) \/ DeleteOnMachine(r) \/ DeleteInProject(r)
         \/ SetProviderOrder(r) \/ WritePreferences(r)
         \/ BeginEndpoint(r) \/ LockEndpoint(r) \/ EndpointOnMachine(r) \/ EndpointInProject(r)
         \/ OtherReads(r) \/ OtherWrites(r)
    BY DEF SettingsNext
  <1>a. ASSUME NEW p \in (SettingPlaces \cup Ended) \ {"open", "write"}, Go(r, p) \/ \E x : Keep(r, p, x),
               UNCHANGED projectVars \/ UNCHANGED <<env, inode, published, partial>>
        PROVE  PrefsInv'
    BY <1>a, OneGoesOn, PrefsAsideHolds DEF PrefsAside, projectVars
  <1>1. CASE BeginSet(r)
    BY <1>1, <1>a DEF BeginSet, ReadMachine, SettingPlaces, Ended
  <1>2. CASE SetOnMachine(r)
    BY <1>2, <1>a DEF SetOnMachine, WriteMachine, SettingPlaces, Ended
  <1>3. CASE SetInProject(r)
    BY <1>3, <1>a DEF SetInProject, SettingPlaces, Ended
  <1>4. CASE AnswerSet(r)
    BY <1>4, <1>a DEF AnswerSet, settingsVars, SettingPlaces, Ended
  <1>5. CASE BeginDelete(r)
    BY <1>5, <1>a DEF BeginDelete, ReadMachine, SettingPlaces, Ended
  <1>6. CASE DeleteOnMachine(r)
    BY <1>6, <1>a DEF DeleteOnMachine, WriteMachine, SettingPlaces, Ended
  <1>7. CASE DeleteInProject(r)
    BY <1>7, <1>a DEF DeleteInProject, AnswerDelete, SettingPlaces, Ended
  <1>8. CASE SetProviderOrder(r)
    <2>1. r \in UNION Scripts /\ r.kind = "order"
      BY <1>8 DEF SetProviderOrder, Stands, RequestsFit
    <2>2. Lists(CleanOrder(r.order))
      BY <2>1, SettingsAssumption, CleanedIsListed
    <2> QED BY <1>8, <2>2, OneComes DEF SetProviderOrder
  <1>9. CASE WritePreferences(r)
    BY <1>9, WritersKeepPrefs
  <1>10. CASE BeginEndpoint(r)
    BY <1>10, <1>a DEF BeginEndpoint, settingsVars, SettingPlaces, Ended
  <1>11. CASE LockEndpoint(r)
    BY <1>11, <1>a DEF LockEndpoint, SettingPlaces
  <1>12. CASE EndpointOnMachine(r)
    BY <1>12, <1>a DEF EndpointOnMachine, WriteMachine, SettingPlaces, Ended
  <1>13. CASE EndpointInProject(r)
    <2>1. Lists(Preferences.order)
      BY PreferencesAreListed
    <2> QED BY <1>13, <2>1, OneComes DEF EndpointInProject
  <1>14. CASE OtherReads(r)
    BY <1>14, <1>a DEF OtherReads, settingsVars, SettingPlaces
  <1>15. CASE OtherWrites(r)
    BY <1>15, <1>a DEF OtherWrites, SettingPlaces, Ended
  <1> QED BY <1>1, <1>2, <1>3, <1>4, <1>5, <1>6, <1>7, <1>8, <1>9, <1>10, <1>11, <1>12, <1>13,
             <1>14, <1>15

LEMMA PrefsStep == RequestsFit /\ PrefsInv /\ [Next]_vars => PrefsInv'
  <1> SUFFICES ASSUME RequestsFit, PrefsInv, [Next]_vars PROVE PrefsInv'
    OBVIOUS
  <1>1. CASE Configure
    BY <1>1, SettingsKeepPrefs DEF Configure
  <1>2. CASE Edit
    BY <1>2, WorkflowsMove, OthersLeavePrefs, PrefsAsideHolds
       DEF Edit, WorkflowPlaces, WorkflowKinds, SettingPlaces, Ended
  <1>3. CASE Run
    BY <1>3, RunsMove, OthersLeavePrefs, PrefsAsideHolds DEF Run, RunPlaces, RunKinds, SettingPlaces, Ended
  <1>4. CASE Pack
    BY <1>4, PacksMove, OthersLeavePrefs, PrefsAsideHolds DEF Pack, PackPlaces, PackKinds, SettingPlaces, Ended
  <1>5. CASE Restart
    <2>1. UNCHANGED <<inode, published, partial>>
      BY <1>5 DEF Restart, SettingsDropped, projectVars
    <2>2. /\ DOMAIN req' = DOMAIN req
          /\ \A r \in DOMAIN req : req'[r] = req[r] \/ req'[r] = [pc |-> "gone", saw |-> req[r].saw]
      BY <1>5, Dropped DEF Restart
    <2>3. PrefsAside
      BY <2>1, <2>2 DEF PrefsAside
    <2> QED BY <2>3, PrefsAsideHolds
  <1>6. CASE UNCHANGED vars
    BY <1>6, PrefsAsideHolds DEF vars, settingsVars, projectVars, PrefsAside
  <1> QED BY <1>1, <1>2, <1>3, <1>4, <1>5, <1>6 DEF Next

----------------------------------------------------------------------------
(* What was configured reaches the run.                                    *)

\* A node that names nobody is asked nothing.
LEMMA NobodyIsKnown == ASSUME NEW role \in Roles PROVE ~ Known(role, "")
  <1> SUFFICES ASSUME NEW p \in Elements(ProvidersFor(role)), "" \in Names(role, p) PROVE FALSE
    BY DEF Known
  <1>1. p # ""
    BY TextOnes, ImageOnes, VideoOnes, VisionOnes, CompletionOnes DEF ProvidersFor, Roles, CLIProviders
  <1>2. p \in DOMAIN Synonyms(role) /\ "" \in Synonyms(role)[p]
    BY <1>1 DEF Names
  <1>3. CASE role = "image"
    <2> DEFINE S == [google |-> {"google", "gemini"}, bfl |-> {"bfl", "blackforestlabs", "flux", "klein"}]
    <2>1. Synonyms(role) = S
      BY <1>3 DEF Synonyms
    <2>2. DOMAIN S = {"google", "bfl"} /\ "" \notin S["google"] /\ "" \notin S["bfl"]
      OBVIOUS
    <2> HIDE DEF S
    <2> QED BY <1>2, <2>1, <2>2
  <1>4. CASE role = "video"
    <2> DEFINE S == [google |-> {"google", "gemini", "veo"}, bfl |-> {"bfl", "blackforestlabs", "flux"}]
    <2>1. Synonyms(role) = S
      BY <1>4 DEF Synonyms
    <2>2. DOMAIN S = {"google", "bfl"} /\ "" \notin S["google"] /\ "" \notin S["bfl"]
      OBVIOUS
    <2> HIDE DEF S
    <2> QED BY <1>2, <2>1, <2>2
  <1>5. CASE role = "vision"
    <2> DEFINE S == [google |-> {"google", "gemini"}, openai |-> {"openai", "chatgpt"}]
    <2>1. Synonyms(role) = S
      BY <1>5 DEF Synonyms
    <2>2. DOMAIN S = {"google", "openai"} /\ "" \notin S["google"] /\ "" \notin S["openai"]
      OBVIOUS
    <2> HIDE DEF S
    <2> QED BY <1>2, <2>1, <2>2
  <1>6. CASE role \in {"text", "completion"}
    <2>1. Synonyms(role) = [q \in {} |-> {}]
      BY <1>6 DEF Synonyms
    <2> QED BY <1>2, <2>1
  <1> QED BY <1>3, <1>4, <1>5, <1>6 DEF Roles

LEMMA NobodyAsked ==
    ASSUME NEW cfg, NEW role \in Roles, Deployment(cfg, role) = ""
    PROVE  Resolve(cfg, role, "") = PreferredOrDefault(cfg, role)
  BY NobodyIsKnown DEF Resolve

\* The places of a set of places, in turn: each has a rank of its own, a later
\* one a higher one, and every rank is somebody's.
RankIn(S) == [i \in S |-> Cardinality({j \in S : j <= i})]

LEMMA Ranks ==
    ASSUME NEW m \in Nat, NEW S \in SUBSET (1..m)
    PROVE  /\ Cardinality(S) \in Nat
           /\ \A i \in S : RankIn(S)[i] \in 1..Cardinality(S)
           /\ \A i, j \in S : i < j => RankIn(S)[i] < RankIn(S)[j]
           /\ \A k \in 1..Cardinality(S) : \E i \in S : RankIn(S)[i] = k
  <1> DEFINE n == Cardinality(S)
             Upto(i) == {j \in S : j <= i}
             rank == RankIn(S)
  <1>0. rank = [i \in S |-> Cardinality(Upto(i))]
    BY DEF RankIn
  <1> HIDE DEF rank
  <1>1. IsFiniteSet(S) /\ n \in Nat
    <2>1. IsFiniteSet(1..m)
      BY FS_Interval
    <2> QED BY <2>1, FS_Subset, FS_CardinalityType
  <1>2. ASSUME NEW i \in S
        PROVE  IsFiniteSet(Upto(i)) /\ rank[i] = Cardinality(Upto(i)) /\ rank[i] \in 1..n
    <2>1. Upto(i) \in SUBSET S /\ i \in Upto(i)
      OBVIOUS
    <2>2. rank[i] = Cardinality(Upto(i))
      BY <1>0
    <2> HIDE DEF Upto
    <2>3. IsFiniteSet(Upto(i)) /\ Cardinality(Upto(i)) <= n
      BY <1>1, <2>1, FS_Subset
    <2>4. Cardinality(Upto(i)) \in Nat /\ Cardinality(Upto(i)) # 0
      BY <2>1, <2>3, FS_CardinalityType, FS_EmptySet
    <2> QED BY <1>1, <2>2, <2>3, <2>4
  <1>3. ASSUME NEW i \in S, NEW j \in S, i < j PROVE rank[i] < rank[j]
    <2>a. S \subseteq Nat /\ i \in Nat /\ j \in Nat
      OBVIOUS
    <2>1. Upto(i) \in SUBSET Upto(j) /\ j \in Upto(j) /\ j \notin Upto(i)
      <3>1. \A k \in S : k <= i => k <= j
        BY <1>3, <2>a
      <3>2. j <= j /\ ~ (j <= i)
        BY <1>3, <2>a
      <3> QED BY <3>1, <3>2
    <2>2. IsFiniteSet(Upto(j)) /\ rank[i] = Cardinality(Upto(i)) /\ rank[j] = Cardinality(Upto(j))
      BY <1>2
    <2>3. rank[i] \in 1..n /\ rank[j] \in 1..n
      BY <1>2
    <2> HIDE DEF Upto
    <2>4. Cardinality(Upto(i)) <= Cardinality(Upto(j)) /\ Cardinality(Upto(i)) # Cardinality(Upto(j))
      BY <2>1, <2>2, FS_Subset
    <2> QED BY <1>1, <2>2, <2>3, <2>4
  <1>4. rank \in Injection(S, 1..n)
    <2>1. rank \in [S -> 1..n]
      BY <1>0, <1>2
    <2>2. ASSUME NEW i \in S, NEW j \in S, rank[i] = rank[j] PROVE i = j
      <3>0. rank[i] \in 1..n
        BY <1>2
      <3>1. i \in Nat /\ j \in Nat /\ rank[i] \in Nat
        BY <3>0
      <3> HIDE DEF n, Upto
      <3>2. ~ (i < j) /\ ~ (j < i)
        BY <1>3, <2>2, <3>1
      <3> QED BY <3>1, <3>2
    <2> QED BY <2>1, <2>2 DEF Injection, IsInjective
  <1>5. rank \in Surjection(S, 1..n)
    <2>1. IsFiniteSet(1..n) /\ Cardinality(1..n) = n
      BY <1>1, FS_Interval
    <2> QED BY <1>4, <2>1, FS_Injection
  <1> QED BY <1>1, <1>2, <1>3, <1>5 DEF Surjection, rank

\* What is left of a list that is cleaned is what first occurs in it, in turn.
Firsts(role, ids) ==
    {i \in DOMAIN ids : ids[i] \in Elements(ProvidersFor(role)) /\ \A j \in 1..(i - 1) : ids[j] # ids[i]}

LEMMA CleanKeeps ==
    ASSUME NEW role, NEW ids \in Seq(STRING)
    PROVE  /\ DOMAIN CleanList(role, ids) = 1..Cardinality(Firsts(role, ids))
           /\ \A i \in Firsts(role, ids) : CleanList(role, ids)[RankIn(Firsts(role, ids))[i]] = ids[i]
  <1> DEFINE S == Firsts(role, ids)
             rank == RankIn(S)
             K(i) == ids[i] \in Elements(ProvidersFor(role)) /\ \A j \in 1..(i - 1) : ids[j] # ids[i]
             n == Cardinality(S)
             At(k) == CHOOSE i \in DOMAIN ids : K(i) /\ Cardinality({j \in 1..i : K(j)}) = k
  <1>1. DOMAIN ids = 1..Len(ids) /\ Len(ids) \in Nat
    OBVIOUS
  <1>2. S = {i \in DOMAIN ids : K(i)}
    BY DEF Firsts
  <1>3. CleanList(role, ids) = [k \in 1..n |-> ids[At(k)]]
    BY <1>2 DEF CleanList
  <1> HIDE DEF K, S
  <1>0. rank = [i \in S |-> Cardinality({j \in S : j <= i})]
    BY DEF RankIn
  <1>4. S \in SUBSET (1..Len(ids))
    BY <1>1, <1>2
  <1>5. ASSUME NEW i \in DOMAIN ids PROVE {j \in 1..i : K(j)} = {j \in S : j <= i}
    BY <1>1, <1>2
  <1>r. /\ n \in Nat
        /\ \A i \in S : rank[i] \in 1..n
        /\ \A i, j \in S : i < j => rank[i] < rank[j]
    BY <1>1, <1>4, Ranks
  <1> HIDE DEF rank
  <1>6. ASSUME NEW i \in S PROVE rank[i] \in 1..n /\ At(rank[i]) = i
    <2>i. i \in S
      OBVIOUS
    <2>1. rank[i] \in 1..n /\ i \in Nat
      BY ONLY <1>1, <1>4, <1>r, <2>i
    <2>2. i \in DOMAIN ids /\ K(i) /\ Cardinality({j \in 1..i : K(j)}) = rank[i]
      <3>1. rank[i] = Cardinality({j \in S : j <= i})
        BY <1>0
      <3> QED BY <1>2, <1>5, <3>1
    <2>3. ASSUME NEW x \in DOMAIN ids, K(x), Cardinality({j \in 1..x : K(j)}) = rank[i] PROVE x = i
      <3>1. x \in S /\ x \in Nat
        BY <1>1, <1>2, <2>3
      <3>2. rank[x] = rank[i]
        <4>1. rank[x] = Cardinality({j \in S : j <= x})
          BY <1>0, <3>1
        <4> QED BY <1>5, <2>3, <4>1
      <3>3. x < i => rank[x] < rank[i]
        BY <1>r, <3>1
      <3>4. i < x => rank[i] < rank[x]
        BY <1>r, <3>1
      <3>5. rank[i] \in Nat
        BY <2>1
      <3> QED BY <2>1, <3>1, <3>2, <3>3, <3>4, <3>5
    <2> QED BY <2>1, <2>2, <2>3
  <1>7. ASSUME NEW i \in S PROVE CleanList(role, ids)[rank[i]] = ids[i]
    <2>1. rank[i] \in 1..n /\ At(rank[i]) = i
      BY <1>6
    <2> HIDE DEF At, n
    <2> QED BY <1>3, <2>1
  <1> HIDE DEF At
  <1> QED BY <1>3, <1>7 DEF S, rank

\* Cleaning a list changes nothing to which of its usable providers is first.
LEMMA FirstIsCleaned ==
    ASSUME NEW role, NEW ids \in Seq(STRING), NEW U, U \subseteq Elements(ProvidersFor(role)),
           Hits(ids, U) # {}
    PROVE  /\ Hits(CleanList(role, ids), U) # {}
           /\ First(CleanList(role, ids), U) = First(ids, U)
  <1> DEFINE S == Firsts(role, ids)
             rank == RankIn(S)
             list == CleanList(role, ids)
             n == Cardinality(S)
  <1>1. DOMAIN ids = 1..Len(ids) /\ Len(ids) \in Nat
    OBVIOUS
  <1>2. Hits(ids, U) \subseteq Nat /\ Hits(ids, U) \subseteq DOMAIN ids
    BY <1>1 DEF Hits
  <1>3. PICK i \in Hits(ids, U) : \A j \in Hits(ids, U) : i <= j
    BY <1>2, Least
  <1>4. i \in S
    <2>1. i \in DOMAIN ids /\ ids[i] \in U
      BY <1>3 DEF Hits
    <2>2. ASSUME NEW j \in 1..(i - 1), ids[j] = ids[i] PROVE FALSE
      <3>1. j \in Hits(ids, U)
        BY <1>1, <2>1, <2>2 DEF Hits
      <3> QED BY <1>2, <1>3, <3>1
    <2> QED BY <2>1, <2>2 DEF Firsts
  <1>5. First(ids, U) = ids[i]
    BY <1>2, <1>3 DEF First
  <1>6. S \in SUBSET (1..Len(ids))
    BY <1>1 DEF Firsts
  <1>7. DOMAIN list = 1..n /\ \A x \in S : list[rank[x]] = ids[x]
    BY CleanKeeps
  <1>8. /\ n \in Nat
        /\ \A x \in S : rank[x] \in 1..n
        /\ \A x, y \in S : x < y => rank[x] < rank[y]
        /\ \A k \in 1..n : \E x \in S : rank[x] = k
    <2> HIDE DEF S
    <2> QED BY <1>1, <1>6, Ranks
  <1> HIDE DEF rank, list, n, S
  <1>9. rank[i] \in Hits(list, U) /\ list[rank[i]] = ids[i]
    BY <1>3, <1>4, <1>7, <1>8 DEF Hits
  <1>10. ASSUME NEW k \in Hits(list, U) PROVE k \in Nat /\ rank[i] <= k
    <2>1. k \in 1..n /\ list[k] \in U
      BY <1>7 DEF Hits
    <2>2. PICK x \in S : rank[x] = k
      BY <1>8, <2>1
    <2>3. ids[x] \in U /\ x \in DOMAIN ids
      BY <1>1, <1>6, <1>7, <2>1, <2>2
    <2>4. i <= x /\ i \in Nat /\ x \in Nat
      BY <1>2, <1>3, <2>3 DEF Hits
    <2>5. i = x \/ i < x
      BY <2>4
    <2> QED BY <1>4, <1>8, <2>1, <2>2, <2>5
  <1>11. First(list, U) = list[rank[i]]
    BY <1>9, <1>10 DEF First
  <1> QED BY <1>5, <1>9, <1>11 DEF list

\* What is between the file and who rewrites it.  The file is never the one
\* beside it.  Who shares it with nobody is alone, has before it what it opened
\* and still writes into it.  Whoever rewrites it for the sake of an address
\* carries the order that is kept, as the file does.
Saves(r) ==
    /\ req[r].pc = "write" =>
          partial = req[r].saw.at /\ partial \in DOMAIN inode /\ inode[partial] = Torn
    /\ req[r].pc = "rename" =>
          partial \in DOMAIN inode /\ inode[partial].order = req[r].saw.order

Carries(r) ==
    IF r.kind = "order" THEN req[r].saw.order = CleanOrder(r.order)
    ELSE \A d \in kept : req[r].saw.order = CleanOrder(d.order)

FileHolds(d) == d \in DOMAIN req /\ d.kind = "order" /\ Preferences.order = CleanOrder(d.order)

FollowInv ==
    /\ published # NoInode /\ published # partial
    /\ \A r \in Writing \ shared : Writing = {r} /\ Saves(r)
    /\ kept # {} => Writing \cap shared = {}
    /\ \A r \in Writing : Carries(r)
    /\ \A d \in kept : FileHolds(d)

LEMMA FollowInit == Init => FollowInv
  <1> SUFFICES ASSUME Init PROVE FollowInv
    OBVIOUS
  <1>1. published = "first" /\ partial = NoInode /\ shared = {} /\ kept = {}
    BY DEF Init, SettingsInit
  <1>2. PICK script \in Scripts : req = [r \in script |-> [pc |-> "begin", saw |-> Nothing]]
    BY DEF Init, RequestsInit
  <1>3. \A r \in DOMAIN req : req[r].pc = "begin"
    BY <1>2
  <1>4. Writing = {}
    BY <1>3 DEF Writing
  <1> QED BY <1>1, <1>4 DEF FollowInv, NoInode

\* A step that leaves the file alone, and brings no request to it.
FollowAside ==
    /\ UNCHANGED <<inode, published, partial, shared, kept>> /\ DOMAIN req' = DOMAIN req
    /\ \A r \in DOMAIN req : req'[r] = req[r] \/ req'[r].pc \notin {"open", "write", "rename"}

LEMMA FollowAsideHolds == ASSUME FollowInv, FollowAside PROVE FollowInv'
  <1>1. \A r \in Writing' : r \in Writing /\ req'[r] = req[r]
    BY DEF Writing, FollowAside
  <1>2. UNCHANGED <<inode, published, partial, shared, kept>> /\ DOMAIN req' = DOMAIN req
    BY DEF FollowAside
  <1>3. Preferences' = Preferences
    BY <1>2 DEF Preferences
  <1>4. \A d \in kept' : FileHolds(d)'
    BY <1>2, <1>3 DEF FollowInv, FileHolds
  <1>5. \A r \in Writing' : Carries(r)'
    BY <1>1, <1>2 DEF FollowInv, Carries
  <1>6. ASSUME NEW r \in Writing' \ shared' PROVE Writing' = {r} /\ Saves(r)'
    <2>1. Writing = {r} /\ Saves(r) /\ r \in Writing'
      BY <1>1, <1>2, <1>6 DEF FollowInv
    <2> QED BY <1>1, <1>2, <2>1 DEF Saves
  <1> QED BY <1>1, <1>2, <1>4, <1>5, <1>6 DEF FollowInv

LEMMA OthersLeaveFile ==
    ASSUME RequestsFit, UNCHANGED settingsVars, NEW places, NEW kinds, Moves(places, kinds),
           places \cap (SettingPlaces \cup Ended \cup {"begin"}) = {}
    PROVE  FollowAside
  <1>1. UNCHANGED <<inode, published, partial, shared, kept>>
    BY DEF settingsVars, projectVars
  <1> QED BY <1>1 DEF Moves, FollowAside, SettingPlaces, Ended

\* One request goes on elsewhere.
LEMMA OneGoesElsewhere ==
    ASSUME RequestsFit, FollowInv, NEW r \in DOMAIN req, NEW p, Go(r, p) \/ \E x : Keep(r, p, x),
           p \notin {"open", "write", "rename"}, UNCHANGED <<inode, published, partial, shared, kept>>
    PROVE  FollowInv'
  <1>1. DOMAIN req' = DOMAIN req /\ \A q \in DOMAIN req \ {r} : req'[q] = req[q]
    BY Went, Kept
  <1>2. req'[r].pc = p
    <2>1. CASE Go(r, p)
      <3>1. req'[r] = [pc |-> p, saw |-> req[r].saw]
        BY <2>1, Went
      <3> QED BY <3>1
    <2>2. CASE \E x : Keep(r, p, x)
      <3>1. PICK x : Keep(r, p, x)
        BY <2>2
      <3>2. req'[r] = [pc |-> p, saw |-> x]
        BY <3>1, Kept
      <3> QED BY <3>2
    <2> QED BY <2>1, <2>2
  <1>3. FollowAside
    BY <1>1, <1>2 DEF FollowAside
  <1> QED BY <1>3, FollowAsideHolds

\* One request comes to the file, with the order it asks for or with the order
\* it finds there.
LEMMA OneComesToWrite ==
    ASSUME RequestsFit, FollowInv, NEW r \in DOMAIN req, r \notin Writing, Overlap(r),
           UNCHANGED <<inode, published, partial>>, NEW order, NEW ends, NEW cleared,
           Keep(r, "open", ToWrite(order, ends, cleared)),
           order = IF r.kind = "order" THEN CleanOrder(r.order) ELSE Preferences.order
    PROVE  FollowInv'
  <1> DEFINE x == ToWrite(order, ends, cleared)
  <1>1. x.order = order
    BY DEF ToWrite
  <1> HIDE DEF x
  <1>2. DOMAIN req' = DOMAIN req /\ \A q \in DOMAIN req \ {r} : req'[q] = req[q]
    BY Kept DEF x
  <1>3. req'[r] = [pc |-> "open", saw |-> x]
    BY Kept DEF x
  <1>4. req'[r].pc = "open" /\ req'[r].saw = x
    BY <1>3
  <1>5. Writing' = Writing \cup {r}
    BY <1>2, <1>4 DEF Writing
  <1>6. Preferences' = Preferences /\ kept' \subseteq kept
    BY DEF Preferences, Overlap
  <1>7. \A d \in kept' : FileHolds(d)'
    BY <1>2, <1>6 DEF FollowInv, FileHolds
  <1>8. ASSUME NEW q \in Writing' PROVE Carries(q)'
    <2>1. CASE q = r /\ r.kind = "order"
      BY <1>1, <1>4, <2>1 DEF Carries
    <2>2. CASE q = r /\ r.kind # "order"
      <3>1. \A d \in kept' : req'[r].saw.order = CleanOrder(d.order)
        BY <1>1, <1>4, <1>6, <2>2 DEF FollowInv, FileHolds
      <3> QED BY <2>2, <3>1 DEF Carries
    <2>3. CASE q # r
      <3>1. q \in Writing /\ req'[q] = req[q]
        BY <1>2, <1>5, <2>3 DEF Writing
      <3> QED BY <1>6, <3>1 DEF FollowInv, Carries
    <2> QED BY <2>1, <2>2, <2>3
  <1>9. CASE Writing = {}
    <2>1. Writing' = {r} /\ shared' = {}
      BY <1>5, <1>9 DEF Overlap
    <2>2. Saves(r)'
      BY <1>4 DEF Saves
    <2> QED BY <1>7, <1>8, <2>1, <2>2 DEF FollowInv
  <1>10. CASE Writing # {}
    <2>1. shared' = Writing' /\ kept' = {}
      BY <1>5, <1>10 DEF Overlap
    <2> QED BY <1>7, <1>8, <2>1 DEF FollowInv
  <1> QED BY <1>9, <1>10

\* Who writes shares the file with nobody, or nothing is kept.
LEMMA AloneOrShared ==
    ASSUME FollowInv, NEW r \in Writing
    PROVE  \/ r \notin shared /\ Writing = {r} /\ Saves(r)
           \/ kept = {} /\ Writing \subseteq shared
  BY DEF FollowInv

LEMMA OpenFollows ==
    ASSUME RequestsFit, PrefsInv, FollowInv, NEW r \in DOMAIN req, OpenPartial(r)
    PROVE  FollowInv'
  <1>1. CASE Go(r, "failed") /\ UNCHANGED <<inode, partial>>
    <2>1. UNCHANGED <<inode, published, partial, shared, kept>>
      BY <1>1 DEF OpenPartial
    <2> QED BY <1>1, <2>1, OneGoesElsewhere
  <1>2. CASE \E i \in IF partial = NoInode THEN {r.id} \ DOMAIN inode ELSE {partial} :
                /\ partial' = i /\ inode' = Put(inode, i, Torn)
                /\ req' = [req EXCEPT ![r] = [@ EXCEPT !.pc = "write", !.saw.at = i]]
    <2>1. PICK i \in IF partial = NoInode THEN {r.id} \ DOMAIN inode ELSE {partial} :
                /\ partial' = i /\ inode' = Put(inode, i, Torn)
                /\ req' = [req EXCEPT ![r] = [@ EXCEPT !.pc = "write", !.saw.at = i]]
      BY <1>2
    <2> DEFINE x == [req[r].saw EXCEPT !.at = i]
    <2>2. req[r].pc = "open" /\ UNCHANGED <<published, shared, kept>>
      BY DEF OpenPartial
    <2>3. x.order = req[r].saw.order
      OBVIOUS
    <2>4. Keep(r, "write", x)
      BY <2>1, Opened
    <2>5. "at" \in DOMAIN req[r].saw => x.at = i
      OBVIOUS
    <2>6. "at" \in DOMAIN req[r].saw
      BY <2>2 DEF PrefsInv
    <2> HIDE DEF x
    <2>7. /\ DOMAIN req' = DOMAIN req /\ req'[r] = [pc |-> "write", saw |-> x]
          /\ \A q \in DOMAIN req \ {r} : req'[q] = req[q]
      BY <2>4, Kept
    <2>8. req'[r].pc = "write" /\ req'[r].saw = x
      BY <2>7
    <2>9. Writing' = Writing /\ r \in Writing
      BY <2>2, <2>7, <2>8 DEF Writing
    <2>10. published # i /\ published \in DOMAIN inode
      BY <2>1 DEF PrefsInv, FollowInv
    <2>11. Preferences' = Preferences /\ inode'[i] = Torn /\ i \in DOMAIN inode'
      BY <2>1, <2>2, <2>10 DEF Preferences, Put
    <2>12. \A d \in kept' : FileHolds(d)'
      BY <2>2, <2>7, <2>11 DEF FollowInv, FileHolds
    <2>13. ASSUME NEW q \in Writing' PROVE Carries(q)'
      <3>1. q \in Writing /\ q \in DOMAIN req /\ req'[q].saw.order = req[q].saw.order
        BY <2>3, <2>7, <2>8, <2>9 DEF Writing
      <3> QED BY <2>2, <3>1 DEF FollowInv, Carries
    <2>14. Saves(r)'
      BY <2>1, <2>5, <2>6, <2>8, <2>11 DEF Saves
    <2> QED BY <2>1, <2>2, <2>9, <2>10, <2>12, <2>13, <2>14, AloneOrShared DEF FollowInv
  <1> QED BY <1>1, <1>2 DEF OpenPartial

LEMMA WriteFollows ==
    ASSUME RequestsFit, PrefsInv, FollowInv, NEW r \in DOMAIN req, WritePartial(r)
    PROVE  FollowInv'
  <1> DEFINE at == req[r].saw.at
             body == [whole |-> TRUE, order |-> req[r].saw.order, ends |-> req[r].saw.ends]
  <1>1. req[r].pc = "write" /\ Go(r, "rename") /\ UNCHANGED <<published, partial, shared, kept>>
    BY DEF WritePartial
  <1>2. PICK content \in IF inode[at] \in {Torn, body} THEN {body} ELSE {body, Torn} :
           inode' = Put(inode, at, content)
    BY DEF WritePartial
  <1>3. body.order = req[r].saw.order
    OBVIOUS
  <1>4. req'[r] = [pc |-> "rename", saw |-> req[r].saw]
        /\ DOMAIN req' = DOMAIN req /\ \A q \in DOMAIN req \ {r} : req'[q] = req[q]
    BY <1>1, Went
  <1>5. req'[r].pc = "rename" /\ req'[r].saw = req[r].saw
    BY <1>4
  <1>6. Writing' = Writing /\ r \in Writing
    BY <1>1, <1>4, <1>5 DEF Writing
  <1> HIDE DEF at, body
  <1>7. \A q \in Writing' : Carries(q)'
    <2> SUFFICES ASSUME NEW q \in Writing' PROVE Carries(q)'
      OBVIOUS
    <2>1. q \in Writing /\ req'[q].saw = req[q].saw
      BY <1>4, <1>5, <1>6 DEF Writing
    <2> QED BY <1>1, <2>1 DEF FollowInv, Carries
  <1>8. /\ DOMAIN inode' = DOMAIN inode \cup {at} /\ inode'[at] = content
        /\ \A j \in DOMAIN inode \ {at} : inode'[j] = inode[j]
    BY <1>2 DEF Put
  <1>9. CASE r \notin shared /\ Writing = {r} /\ Saves(r)
    <2>1. partial = at /\ inode[at] = Torn
      BY <1>1, <1>9 DEF Saves, at
    <2>2. content = body
      BY <1>2, <2>1
    <2>3. Saves(r)'
      BY <1>1, <1>3, <1>5, <1>8, <2>1, <2>2 DEF Saves
    <2>4. published # at /\ published \in DOMAIN inode
      BY <2>1 DEF FollowInv, PrefsInv
    <2>5. Preferences' = Preferences
      BY <1>1, <1>8, <2>4 DEF Preferences
    <2>6. \A d \in kept' : FileHolds(d)'
      BY <1>1, <1>4, <2>5 DEF FollowInv, FileHolds
    <2> QED BY <1>1, <1>6, <1>7, <1>9, <2>3, <2>6 DEF FollowInv
  <1>10. CASE kept = {} /\ Writing \subseteq shared
    BY <1>1, <1>6, <1>7, <1>10 DEF FollowInv
  <1> QED BY <1>6, <1>9, <1>10, AloneOrShared

LEMMA RenameFollows ==
    ASSUME RequestsFit, PrefsInv, FollowInv, NEW r \in DOMAIN req, RenamePartial(r)
    PROVE  FollowInv'
  <1>1. CASE partial = NoInode
    BY <1>1, OneGoesElsewhere DEF RenamePartial
  <1>2. CASE partial # NoInode
    <2>1. /\ req[r].pc = "rename" /\ published' = partial /\ partial' = NoInode /\ Go(r, "renamed")
          /\ kept' = (IF r.kind # "order" THEN kept ELSE {r} \ shared) /\ UNCHANGED <<inode, shared>>
      BY <1>2 DEF RenamePartial
    <2>2. req'[r] = [pc |-> "renamed", saw |-> req[r].saw]
          /\ DOMAIN req' = DOMAIN req /\ \A q \in DOMAIN req \ {r} : req'[q] = req[q]
      BY <2>1, Went
    <2>3. req'[r].pc = "renamed"
      BY <2>2
    <2>4. Writing' = Writing \ {r} /\ r \in Writing
      BY <2>1, <2>2, <2>3 DEF Writing
    <2>5. CASE r \notin shared /\ Writing = {r} /\ Saves(r)
      <3>1. Writing' = {}
        BY <2>4, <2>5
      <3>2. Preferences'.order = req[r].saw.order
        BY <1>2, <2>1, <2>5 DEF Preferences, Saves
      <3>3. Carries(r)
        BY <2>4 DEF FollowInv
      <3>4. ASSUME NEW d \in kept' PROVE FileHolds(d)'
        <4>1. CASE r.kind = "order"
          BY <2>1, <2>2, <3>2, <3>3, <3>4, <4>1 DEF FileHolds, Carries
        <4>2. CASE r.kind # "order"
          BY <2>1, <2>2, <3>2, <3>3, <3>4, <4>2 DEF FollowInv, FileHolds, Carries
        <4> QED BY <4>1, <4>2
      <3> QED BY <1>2, <2>1, <3>1, <3>4 DEF FollowInv
    <2>6. CASE kept = {} /\ Writing \subseteq shared
      <3>1. kept' = {} /\ Writing' \subseteq shared'
        BY <2>1, <2>4, <2>6
      <3>2. ASSUME NEW q \in Writing' PROVE Carries(q)'
        <4>1. q \in Writing /\ req'[q] = req[q]
          BY <2>2, <2>4 DEF Writing
        <4> QED BY <3>1, <4>1 DEF FollowInv, Carries
      <3> QED BY <1>2, <2>1, <3>1, <3>2 DEF FollowInv
    <2> QED BY <2>4, <2>5, <2>6, AloneOrShared
  <1> QED BY <1>1, <1>2

LEMMA SettingsFollow ==
    ASSUME RequestsFit, PrefsInv, FollowInv, SettingsNext
    PROVE  FollowInv'
  <1> PICK r \in DOMAIN req :
         \/ BeginSet(r) \/ SetOnMachine(r) \/ SetInProject(r) \/ AnswerSet(r)
         \/ BeginDelete(r) \/ DeleteOnMachine(r) \/ DeleteInProject(r)
         \/ SetProviderOrder(r) \/ WritePreferences(r)
         \/ BeginEndpoint(r) \/ LockEndpoint(r) \/ EndpointOnMachine(r) \/ EndpointInProject(r)
         \/ OtherReads(r) \/ OtherWrites(r)
    BY DEF SettingsNext
  <1>a. ASSUME NEW p \in (SettingPlaces \cup Ended) \ {"open", "write", "rename"}, Go(r, p) \/ \E x : Keep(r, p, x),
               UNCHANGED <<inode, published, partial, shared, kept>>
        PROVE  FollowInv'
    BY <1>a, OneGoesElsewhere
  <1>1. CASE BeginSet(r)
    BY <1>1, <1>a DEF BeginSet, ReadMachine, SettingPlaces, Ended, projectVars
  <1>2. CASE SetOnMachine(r)
    BY <1>2, <1>a DEF SetOnMachine, WriteMachine, SettingPlaces, Ended, projectVars
  <1>3. CASE SetInProject(r)
    BY <1>3, <1>a DEF SetInProject, SettingPlaces, Ended
  <1>4. CASE AnswerSet(r)
    BY <1>4, <1>a DEF AnswerSet, settingsVars, projectVars, SettingPlaces, Ended
  <1>5. CASE BeginDelete(r)
    BY <1>5, <1>a DEF BeginDelete, ReadMachine, SettingPlaces, Ended, projectVars
  <1>6. CASE DeleteOnMachine(r)
    BY <1>6, <1>a DEF DeleteOnMachine, WriteMachine, SettingPlaces, Ended, projectVars
  <1>7. CASE DeleteInProject(r)
    BY <1>7, <1>a DEF DeleteInProject, AnswerDelete, SettingPlaces, Ended
  <1>8. CASE SetProviderOrder(r)
    <2>1. r.kind = "order" /\ r \notin Writing /\ Overlap(r) /\ UNCHANGED <<inode, published, partial>>
      BY <1>8 DEF SetProviderOrder, Stands, Writing
    <2> QED BY <1>8, <2>1, OneComesToWrite DEF SetProviderOrder
  <1>9. CASE WritePreferences(r)
    <2>1. CASE AfterPreferences(r)
      BY <1>a, <2>1 DEF AfterPreferences, settingsVars, projectVars, SettingPlaces, Ended
    <2> QED BY <1>9, <2>1, OpenFollows, WriteFollows, RenameFollows DEF WritePreferences
  <1>10. CASE BeginEndpoint(r)
    BY <1>10, <1>a DEF BeginEndpoint, settingsVars, projectVars, SettingPlaces, Ended
  <1>11. CASE LockEndpoint(r)
    BY <1>11, <1>a DEF LockEndpoint, SettingPlaces, projectVars
  <1>12. CASE EndpointOnMachine(r)
    BY <1>12, <1>a DEF EndpointOnMachine, WriteMachine, SettingPlaces, Ended, projectVars
  <1>13. CASE EndpointInProject(r)
    <2>1. r.kind # "order" /\ r \notin Writing /\ Overlap(r) /\ UNCHANGED <<inode, published, partial>>
      BY <1>13 DEF EndpointInProject, Writing
    <2> QED BY <1>13, <2>1, OneComesToWrite DEF EndpointInProject
  <1>14. CASE OtherReads(r)
    BY <1>14, <1>a DEF OtherReads, settingsVars, projectVars, SettingPlaces
  <1>15. CASE OtherWrites(r)
    BY <1>15, <1>a DEF OtherWrites, SettingPlaces, Ended, projectVars
  <1> QED BY <1>1, <1>2, <1>3, <1>4, <1>5, <1>6, <1>7, <1>8, <1>9, <1>10, <1>11, <1>12, <1>13,
             <1>14, <1>15

LEMMA FollowStep == RequestsFit /\ PrefsInv /\ FollowInv /\ [Next]_vars => FollowInv'
  <1> SUFFICES ASSUME RequestsFit, PrefsInv, FollowInv, [Next]_vars PROVE FollowInv'
    OBVIOUS
  <1>1. CASE Configure
    BY <1>1, SettingsFollow DEF Configure
  <1>2. CASE Edit
    BY <1>2, WorkflowsMove, OthersLeaveFile, FollowAsideHolds
       DEF Edit, WorkflowPlaces, WorkflowKinds, SettingPlaces, Ended
  <1>3. CASE Run
    BY <1>3, RunsMove, OthersLeaveFile, FollowAsideHolds DEF Run, RunPlaces, RunKinds, SettingPlaces, Ended
  <1>4. CASE Pack
    BY <1>4, PacksMove, OthersLeaveFile, FollowAsideHolds DEF Pack, PackPlaces, PackKinds, SettingPlaces, Ended
  <1>5. CASE Restart
    <2>1. UNCHANGED <<inode, published, partial, shared, kept>>
      BY <1>5 DEF Restart, SettingsDropped, projectVars
    <2>2. /\ DOMAIN req' = DOMAIN req
          /\ \A r \in DOMAIN req : req'[r] = req[r] \/ req'[r] = [pc |-> "gone", saw |-> req[r].saw]
      BY <1>5, Dropped DEF Restart
    <2>3. FollowAside
      BY <2>1, <2>2 DEF FollowAside
    <2> QED BY <2>3, FollowAsideHolds
  <1>6. CASE UNCHANGED vars
    BY <1>6, FollowAsideHolds DEF vars, settingsVars, projectVars, FollowAside
  <1> QED BY <1>1, <1>2, <1>3, <1>4, <1>5, <1>6 DEF Next

LEMMA NothingHits == ASSUME NEW S PROVE Hits(<<>>, S) = {}
  <1>1. <<>> \in Seq(STRING) /\ Len(<<>>) = 0
    BY EmptySeq
  <1>2. ASSUME NEW none \in Seq(STRING), Len(none) = 0 PROVE Hits(none, S) = {}
    <2>1. DOMAIN none = 1..0
      BY <1>2, LenProperties
    <2> QED BY <2>1 DEF Hits
  <1> QED BY <1>1, <1>2

\* What the file holds of the order is what the routers are given, and the
\* first of it that can be used is the first of what was asked for.
LEMMA OrderFollowed == RequestsFit /\ FollowInv => OrderIsFollowed
  <1> DEFINE cfg == ConfigNow
  <1> SUFFICES ASSUME RequestsFit, FollowInv,
                      NEW r \in kept, NEW role \in (DOMAIN r.order \cap Roles) \ {"text"},
                      Deployment(cfg, role) = "", Hits(r.order[role], Usable(cfg, role)) # {}
               PROVE  Resolve(cfg, role, "") = First(r.order[role], Usable(cfg, role))
    BY DEF OrderIsFollowed
  <1>1. FileHolds(r)
    BY DEF FollowInv
  <1>2. cfg.order = CleanOrder(r.order)
    BY <1>1 DEF ConfigNow, ProviderConfig, FileHolds
  <1> HIDE DEF cfg
  <1>3. r.order[role] \in Seq(STRING)
    BY <1>1, SettingsAssumption DEF FileHolds, RequestsFit, AreLists
  <1> DEFINE ids == r.order[role]
             list == CleanList(role, ids)
             usable == Usable(cfg, role)
  <1>4. usable \subseteq Elements(ProvidersFor(role))
    BY DEF Usable
  <1> HIDE DEF ids, usable
  <1>5. Hits(list, usable) # {} /\ First(list, usable) = First(ids, usable)
    BY <1>3, <1>4, FirstIsCleaned DEF ids, usable
  <1>6. list # <<>>
    <2>1. Hits(<<>>, usable) = {}
      BY NothingHits
    <2> HIDE DEF list
    <2> QED BY <1>5, <2>1
  <1>7. role \in DOMAIN cfg.order /\ cfg.order[role] = list
    BY <1>2, <1>6 DEF CleanOrder, ids
  <1>8. Order(cfg, role) = list
    BY <1>7 DEF Order
  <1> HIDE DEF list
  <1>9. PreferredOrDefault(cfg, role) = First(list, usable)
    BY <1>5, <1>8 DEF PreferredOrDefault, usable
  <1> QED BY <1>5, <1>9, NobodyAsked DEF ids, usable

\* Through whatever saves of addresses, failed writes and restarts follow it,
\* an order that was saved alone is the one that runs follow, as it was asked
\* for, until another is saved or two requests rewrite the file together.
THEOREM OrderIsFollowedAlways == Spec => []OrderIsFollowed
  <1>1. Init => WaitInv /\ PrefsInv /\ FollowInv
    BY WaitInit, PrefsInit, FollowInit
  <1>2. WaitInv /\ PrefsInv /\ FollowInv /\ [Next]_vars => WaitInv' /\ PrefsInv' /\ FollowInv'
    <2>1. WaitInv => RequestsFit
      BY DEF WaitInv
    <2> QED BY <2>1, WaitStep, PrefsStep, FollowStep
  <1>3. WaitInv /\ FollowInv => OrderIsFollowed
    BY OrderFollowed DEF WaitInv
  <1> QED BY <1>1, <1>2, <1>3, PTL DEF Spec

\* Only for text is there a CLI.
LEMMA NoCLIs == ASSUME NEW role \in Roles \ {"text"} PROVE Elements(ProvidersFor(role)) \cap CLIProviders = {}
  BY ImageOnes, VideoOnes, VisionOnes, CompletionOnes DEF ProvidersFor, Roles, CLIProviders

LEMMA EffectiveIsUsable ==
    ASSUME NEW cfg, NEW role \in Roles \ {"text"}, NEW p \in Elements(ProvidersFor(role)),
           EffectiveCredential(cfg, p)
    PROVE  p \in Usable(cfg, role)
  <1>1. p \notin CLIProviders
    BY NoCLIs
  <1>2. p \in KeyedProviders \/ p \in AddressConfigured
    <2>1. {"ollama-local", "lmstudio", "custom", "custom-image"} \subseteq AddressConfigured
      <3>1. Elements(ImageEndpointProviders) = {"custom-image"}
        BY DEF Elements, ImageEndpointProviders
      <3> QED BY <3>1, LocalOnes DEF AddressConfigured
    <2> QED BY <2>1, ImageOnes, VideoOnes, VisionOnes, CompletionOnes DEF ProvidersFor, Roles, KeyedProviders
  <1>3. Has(cfg, role, p)
    BY <1>1, <1>2 DEF EffectiveCredential, Has
  <1> QED BY <1>3 DEF Usable

LEMMA CoveredServed == PrefsInv => CoveredIsServed
  <1> DEFINE cfg == ConfigNow
  <1> SUFFICES ASSUME PrefsInv, NEW role \in Roles \ {"text"}, Deployment(cfg, role) = "", Covered(cfg, role)
               PROVE  Has(cfg, role, Resolve(cfg, role, ""))
    BY DEF CoveredIsServed
  <1>1. cfg.order = Preferences.order
    BY DEF ConfigNow, ProviderConfig
  <1> HIDE DEF cfg
  <1>2. Listed(Order(cfg, role))
    <2>1. CASE role \in DOMAIN cfg.order
      <3>1. Lists(cfg.order)
        BY <1>1, PreferencesAreListed
      <3>2. Order(cfg, role) = cfg.order[role]
        BY <2>1 DEF Order
      <3> QED BY <2>1, <3>1, <3>2 DEF Lists
    <2>2. CASE role \notin DOMAIN cfg.order
      BY <2>2, NothingIsListed DEF Order
    <2> QED BY <2>1, <2>2
  <1>3. PICK p \in Elements(ProvidersFor(role)) : EffectiveCredential(cfg, p)
    BY DEF Covered
  <1>4. p \in Usable(cfg, role) /\ p \notin CLIProviders
    BY <1>3, EffectiveIsUsable, NoCLIs
  <1>5. PreferredOrDefault(cfg, role) \in Usable(cfg, role)
    BY <1>2, <1>4, PreferenceIsRight
  <1>6. Resolve(cfg, role, "") = PreferredOrDefault(cfg, role)
    BY NobodyAsked
  <1> QED BY <1>5, <1>6 DEF Usable

\* Whatever was saved, by whomever and through whichever failed or torn write,
\* a job the panel says is covered is done by a provider that can do it.
THEOREM CoveredIsAlwaysServed == Spec => []CoveredIsServed
  <1>1. Init => WaitInv /\ PrefsInv
    BY WaitInit, PrefsInit
  <1>2. WaitInv /\ PrefsInv /\ [Next]_vars => WaitInv' /\ PrefsInv'
    <2>1. WaitInv => RequestsFit
      BY DEF WaitInv
    <2> QED BY <2>1, WaitStep, PrefsStep
  <1> QED BY <1>1, <1>2, CoveredServed, PTL DEF Spec

----------------------------------------------------------------------------
(* The registry and the listing of the packs.                              *)

Installed(listed) == {d \in DOMAIN listed : ~listed[d].refused}

\* What RegistryIsOneListing says, of any registry and listing.
Agree(reg, listed) ==
    /\ reg.names = {BuiltinPack} \cup {listed[d].name : d \in Installed(listed)}
    /\ DOMAIN reg.nodes = BuiltinTypes \cup UNION {listed[d].types : d \in Installed(listed)}
    /\ \A d \in Installed(listed) :
          /\ listed[d].types \cap Reserved = {} /\ listed[d].types # {}
          /\ \A t \in listed[d].types : reg.nodes[t] = listed[d].name
          /\ \A e \in Installed(listed) \ {d} :
                listed[d].types \cap listed[e].types = {} /\ listed[d].name # listed[e].name

Sound(l) == l = [registry |-> l.registry, packs |-> l.packs] /\ Agree(l.registry, l.packs)

\* So is what is served, and what a reload has read so far, which it lists
\* under no directory that is still to be read.
PacksInv ==
    /\ DOMAIN folder \subseteq Directories
    /\ Agree(registry, packs)
    /\ \A r \in DOMAIN req :
          /\ req[r].pc \in {"pack", "files"} =>
                /\ {"todo", "loaded"} \subseteq DOMAIN req[r].saw
                /\ req[r].saw.todo \subseteq Directories /\ Sound(req[r].saw.loaded)
                /\ DOMAIN req[r].saw.loaded.packs \cap req[r].saw.todo = {}
          /\ req[r].pc = "files" => req[r].saw.todo # {}

LEMMA NothingSound == Sound(NothingLoaded) /\ DOMAIN NothingLoaded.packs = {}
  <1> DEFINE none == [d \in {} |-> ""]
  <1>1. NothingLoaded.registry = NewRegistry /\ NothingLoaded.packs = none
        /\ NothingLoaded = [registry |-> NothingLoaded.registry, packs |-> NothingLoaded.packs]
    BY DEF NothingLoaded
  <1>2. DOMAIN none = {} /\ Installed(none) = {}
    BY DEF Installed
  <1>3. NewRegistry.names = {BuiltinPack} /\ DOMAIN NewRegistry.nodes = BuiltinTypes
    BY DEF NewRegistry
  <1> HIDE DEF none
  <1>4. {none[d].name : d \in Installed(none)} = {} /\ UNION {none[d].types : d \in Installed(none)} = {}
    BY <1>2
  <1>5. Agree(NewRegistry, none)
    BY <1>2, <1>3, <1>4 DEF Agree
  <1> QED BY <1>1, <1>2, <1>5 DEF Sound

\* One more directory is listed: as refused, and nothing else is different;
LEMMA RefusedAgrees ==
    ASSUME NEW reg, NEW listed, Agree(reg, listed), NEW dir, dir \notin DOMAIN listed, NEW name, NEW types
    PROVE  Agree(reg, Put(listed, dir, Info(name, types, TRUE)))
  <1> DEFINE info == Info(name, types, TRUE)
             after == Put(listed, dir, info)
  <1>1. info.refused
    BY DEF Info
  <1> HIDE DEF info
  <1>2. /\ DOMAIN after = DOMAIN listed \cup {dir} /\ after[dir] = info
        /\ \A d \in DOMAIN listed : after[d] = listed[d]
    BY DEF Put
  <1> HIDE DEF after
  <1>3. Installed(after) = Installed(listed) /\ \A d \in Installed(listed) : after[d] = listed[d]
    BY <1>1, <1>2 DEF Installed
  <1>4. /\ {after[d].name : d \in Installed(after)} = {listed[d].name : d \in Installed(listed)}
        /\ UNION {after[d].types : d \in Installed(after)} = UNION {listed[d].types : d \in Installed(listed)}
    BY <1>3
  <1>5. Agree(reg, after)
    BY <1>3, <1>4 DEF Agree
  <1> QED BY <1>5 DEF after, info

\* or as installed, with what it brought.
LEMMA InstalledAgrees ==
    ASSUME NEW reg, NEW listed, Agree(reg, listed), NEW dir, dir \notin DOMAIN listed, NEW name, NEW types,
           types # {}, Installable(reg, name, types)
    PROVE  Agree(Install(reg, name, types), Put(listed, dir, Info(name, types, FALSE)))
  <1> DEFINE info == Info(name, types, FALSE)
             after == Put(listed, dir, info)
             regThen == Install(reg, name, types)
  <1>1. ~info.refused /\ info.name = name /\ info.types = types
    BY DEF Info
  <1> HIDE DEF info
  <1>2. /\ DOMAIN after = DOMAIN listed \cup {dir} /\ after[dir] = info
        /\ \A d \in DOMAIN listed : after[d] = listed[d]
    BY DEF Put
  <1> HIDE DEF after
  <1>3. /\ Installed(after) = Installed(listed) \cup {dir} /\ dir \notin Installed(listed)
        /\ \A d \in Installed(listed) : after[d] = listed[d]
    BY <1>1, <1>2 DEF Installed
  <1>4. name \notin reg.names /\ types \cap Reserved = {} /\ types \cap DOMAIN reg.nodes = {}
    BY DEF Installable
  <1>5. regThen = [nodes |-> [t \in DOMAIN reg.nodes \cup types |-> IF t \in types THEN name ELSE reg.nodes[t]],
                   names |-> reg.names \cup {name}]
    BY DEF Install
  <1>6. /\ regThen.names = reg.names \cup {name} /\ DOMAIN regThen.nodes = DOMAIN reg.nodes \cup types
        /\ \A t \in types : regThen.nodes[t] = name
        /\ \A t \in DOMAIN reg.nodes : regThen.nodes[t] = reg.nodes[t]
    BY <1>4, <1>5
  <1> HIDE DEF regThen
  <1>7. {after[d].name : d \in Installed(after)} = {listed[d].name : d \in Installed(listed)} \cup {name}
    BY <1>1, <1>2, <1>3
  <1> DEFINE typesThen == UNION {after[d].types : d \in Installed(after)}
             typesBefore == UNION {listed[d].types : d \in Installed(listed)}
  <1>8. typesThen = typesBefore \cup types
    <2>1. \A t : t \in typesThen <=> \E d \in Installed(after) : t \in after[d].types
      OBVIOUS
    <2>2. \A t : t \in typesBefore <=> \E d \in Installed(listed) : t \in listed[d].types
      OBVIOUS
    <2> HIDE DEF typesThen, typesBefore
    <2>3. \A t : t \in typesThen <=> t \in typesBefore \/ t \in types
      BY <1>1, <1>2, <1>3, <2>1, <2>2
    <2> QED BY <2>3
  <1>9. \A d \in Installed(listed) : listed[d].types \subseteq DOMAIN reg.nodes /\ listed[d].name \in reg.names
    BY DEF Agree
  <1>10. ASSUME NEW d \in Installed(after)
         PROVE  /\ after[d].types \cap Reserved = {} /\ after[d].types # {}
                /\ \A t \in after[d].types : regThen.nodes[t] = after[d].name
    <2>1. CASE d = dir
      BY <1>1, <1>2, <1>4, <1>6, <2>1
    <2>2. CASE d \in Installed(listed)
      BY <1>3, <1>6, <1>9, <2>2 DEF Agree
    <2> QED BY <1>3, <2>1, <2>2
  <1>11. ASSUME NEW d \in Installed(after), NEW e \in Installed(after) \ {d}
         PROVE  after[d].types \cap after[e].types = {} /\ after[d].name # after[e].name
    <2>1. CASE d \in Installed(listed) /\ e \in Installed(listed)
      BY <1>3, <2>1 DEF Agree
    <2>2. CASE d = dir \/ e = dir
      <3>1. ASSUME NEW f \in Installed(listed)
            PROVE  types \cap after[f].types = {} /\ name # after[f].name
        BY <1>3, <1>4, <1>9
      <3> QED BY <1>1, <1>2, <1>3, <2>2, <3>1
    <2> QED BY <1>3, <2>1, <2>2
  <1>12. Agree(regThen, after)
    <2>1. regThen.names = {BuiltinPack} \cup {after[d].name : d \in Installed(after)}
      BY <1>6, <1>7 DEF Agree
    <2>2. DOMAIN reg.nodes = BuiltinTypes \cup typesBefore
      BY DEF Agree
    <2> HIDE DEF typesThen, typesBefore
    <2>3. DOMAIN regThen.nodes = BuiltinTypes \cup typesThen
      BY <1>6, <1>8, <2>2
    <2> QED BY <1>10, <1>11, <2>1, <2>3 DEF Agree, typesThen
  <1> QED BY <1>12 DEF after, info, regThen

\* So reading one directory more keeps what was loaded sound, and lists it.
LEMMA RefusedSound ==
    ASSUME NEW loaded, Sound(loaded), NEW dir, dir \notin DOMAIN loaded.packs
    PROVE  Sound(WithRefused(loaded, dir)) /\ DOMAIN WithRefused(loaded, dir).packs = DOMAIN loaded.packs \cup {dir}
  <1> DEFINE after == Put(loaded.packs, dir, Info(dir, {}, TRUE))
  <1>1. WithRefused(loaded, dir) = [registry |-> loaded.registry, packs |-> after]
    <2>1. loaded = [registry |-> loaded.registry, packs |-> loaded.packs]
      BY DEF Sound
    <2>2. WithRefused(loaded, dir) = [loaded EXCEPT !.packs = after]
      BY DEF WithRefused
    <2> HIDE DEF after
    <2> QED BY <2>1, <2>2
  <1>2. Agree(loaded.registry, after)
    BY RefusedAgrees DEF Sound
  <1>3. DOMAIN after = DOMAIN loaded.packs \cup {dir}
    BY DEF Put
  <1> HIDE DEF after
  <1> QED BY <1>1, <1>2, <1>3 DEF Sound

LEMMA PackSound ==
    ASSUME NEW loaded, Sound(loaded), NEW dir, dir \notin DOMAIN loaded.packs, NEW name, NEW types, types # {}
    PROVE  /\ Sound(WithPack(loaded, dir, name, types))
           /\ DOMAIN WithPack(loaded, dir, name, types).packs = DOMAIN loaded.packs \cup {dir}
  <1> DEFINE reg == loaded.registry
             refused == ~Installable(reg, name, types)
             after == Put(loaded.packs, dir, Info(name, types, refused))
  <1>1. WithPack(loaded, dir, name, types) = [registry |-> Install(reg, name, types), packs |-> after]
    BY DEF WithPack
  <1>2. Agree(Install(reg, name, types), after)
    <2>1. CASE Installable(reg, name, types)
      <3>1. refused = FALSE
        BY <2>1
      <3>2. Agree(Install(reg, name, types), Put(loaded.packs, dir, Info(name, types, FALSE)))
        BY <2>1, InstalledAgrees DEF Sound
      <3> QED BY <3>1, <3>2
    <2>2. CASE ~Installable(reg, name, types)
      <3>1. refused = TRUE /\ Install(reg, name, types) = reg
        BY <2>2 DEF Install
      <3>2. Agree(reg, Put(loaded.packs, dir, Info(name, types, TRUE)))
        BY RefusedAgrees DEF Sound
      <3> QED BY <3>1, <3>2
    <2> QED BY <2>1, <2>2
  <1>3. DOMAIN after = DOMAIN loaded.packs \cup {dir}
    BY DEF Put
  <1> HIDE DEF after, refused, reg
  <1> QED BY <1>1, <1>2, <1>3 DEF Sound

----------------------------------------------------------------------------
(* Opening the project: one directory after the other.                     *)

\* f being what is loaded up to each of the first n names.
LoadedUpTo(f, n) ==
    f = [d \in 0..n |-> IF d = 0 THEN NothingLoaded
                        ELSE IF d \in DOMAIN folder THEN WithDirectory(f[d - 1], d) ELSE f[d - 1]]

LEMMA OneMoreName ==
    ASSUME NEW n \in Nat \ {0}, NEW f, LoadedUpTo(f, n - 1)
    PROVE  \E h : LoadedUpTo(h, n)
  <1> DEFINE last == IF n \in DOMAIN folder THEN WithDirectory(f[n - 1], n) ELSE f[n - 1]
             h == [d \in 0..n |-> IF d = n THEN last ELSE f[d]]
  <1>1. ASSUME NEW d \in 0..n
        PROVE  h[d] = IF d = 0 THEN NothingLoaded
                      ELSE IF d \in DOMAIN folder THEN WithDirectory(h[d - 1], d) ELSE h[d - 1]
    <2>1. CASE d = n
      <3>1. h[d] = last /\ h[d - 1] = f[n - 1] /\ d # 0
        BY <2>1
      <3> HIDE DEF h
      <3> QED BY <2>1, <3>1
    <2>2. CASE d # n
      <3>1. d \in 0..(n - 1) /\ h[d] = f[d]
        BY <2>2
      <3>2. f[d] = IF d = 0 THEN NothingLoaded
                   ELSE IF d \in DOMAIN folder THEN WithDirectory(f[d - 1], d) ELSE f[d - 1]
        BY <3>1 DEF LoadedUpTo
      <3>3. d # 0 => h[d - 1] = f[d - 1]
        BY <3>1
      <3> HIDE DEF h
      <3> QED BY <3>1, <3>2, <3>3
    <2> QED BY <2>1, <2>2
  <1> HIDE DEF last
  <1>2. LoadedUpTo(h, n)
    <2>1. h = [d \in 0..n |-> h[d]]
      OBVIOUS
    <2> HIDE DEF h
    <2> QED BY <1>1, <2>1 DEF LoadedUpTo
  <1> QED BY <1>2

\* A set that holds 0, and with a number the next one, up to n.
LEMMA EachInTurn ==
    ASSUME NEW n \in Nat, NEW T, 0 \in T, \A i \in 1..n : i - 1 \in T => i \in T
    PROVE  \A i \in 0..n : i \in T
  <1> SUFFICES ASSUME (0..n) \ T # {} PROVE FALSE
    OBVIOUS
  <1>1. (0..n) \ T \subseteq Nat
    OBVIOUS
  <1>2. PICK m \in (0..n) \ T : \A k \in (0..n) \ T : m <= k
    BY <1>1, Least
  <1>3. m \in 1..n /\ m - 1 \in 0..n
    BY <1>2
  <1>4. m - 1 \notin T
    BY <1>2, <1>3
  <1>5. ~ (m <= m - 1)
    BY <1>3
  <1> QED BY <1>2, <1>3, <1>4, <1>5

\* Loading is what its recursion says.
LEMMA LoadingFacts == LoadedUpTo(Loading, FolderNames)
  <1> DEFINE T == {i \in 0..FolderNames : \E f : LoadedUpTo(f, i)}
  <1>1. FolderNames \in Nat
    BY PacksAssumption
  <1>2. 0 \in T
    <2>1. LoadedUpTo([d \in 0..0 |-> NothingLoaded], 0)
      BY DEF LoadedUpTo
    <2>2. \E f : LoadedUpTo(f, 0)
      BY <2>1
    <2> QED BY <1>1, <2>2
  <1>3. ASSUME NEW i \in 1..FolderNames, i - 1 \in T PROVE i \in T
    <2>1. PICK f : LoadedUpTo(f, i - 1)
      BY <1>3
    <2>2. \E h : LoadedUpTo(h, i)
      BY <1>1, <2>1, OneMoreName
    <2> QED BY <1>1, <2>2
  <1>4. FolderNames \in T
    <2> HIDE DEF T
    <2>1. \A i \in 0..FolderNames : i \in T
      BY <1>1, <1>2, <1>3, EachInTurn
    <2> QED BY <1>1, <2>1
  <1>5. \E f : LoadedUpTo(f, FolderNames)
    BY <1>4
  <1> DEFINE f == CHOOSE f : LoadedUpTo(f, FolderNames)
  <1>6. LoadedUpTo(f, FolderNames)
    BY <1>5
  <1>7. Loading = f
    BY DEF Loading, LoadedUpTo
  <1> HIDE DEF f
  <1> QED BY <1>6, <1>7

\* Whatever the folder holds, what is loaded when the project opens is sound.
LEMMA OpenedSound ==
    ASSUME DOMAIN folder \subseteq Directories
    PROVE  Agree(LoadPacks.registry, LoadPacks.packs)
  <1> DEFINE T == {i \in 0..FolderNames : Sound(Loading[i]) /\ DOMAIN Loading[i].packs \subseteq 1..i}
  <1>1. FolderNames \in Nat
    BY PacksAssumption
  <1>2. ASSUME NEW d \in 0..FolderNames
        PROVE  Loading[d] = IF d = 0 THEN NothingLoaded
                            ELSE IF d \in DOMAIN folder THEN WithDirectory(Loading[d - 1], d)
                            ELSE Loading[d - 1]
    BY LoadingFacts DEF LoadedUpTo
  <1>3. 0 \in T
    <2>1. Loading[0] = NothingLoaded
      BY <1>1, <1>2
    <2> QED BY <1>1, <2>1, NothingSound
  <1>4. ASSUME NEW i \in 1..FolderNames, i - 1 \in T PROVE i \in T
    <2> DEFINE before == Loading[i - 1]
               after == Loading[i]
    <2>1. Sound(before) /\ DOMAIN before.packs \subseteq 1..(i - 1) /\ i \in 0..FolderNames /\ i # 0
      BY <1>1, <1>4
    <2>2. i \notin DOMAIN before.packs /\ 1..(i - 1) \subseteq 1..i /\ i \in 1..i
      BY <1>1, <2>1
    <2>3. after = IF i \in DOMAIN folder THEN WithDirectory(before, i) ELSE before
      BY <1>2, <2>1
    <2> HIDE DEF before, after
    <2>4. CASE i \notin DOMAIN folder
      <3>1. after = before
        BY <2>3, <2>4
      <3>2. Sound(after) /\ DOMAIN after.packs \subseteq 1..i
        BY <2>1, <2>2, <3>1
      <3> QED BY <2>1, <3>2 DEF after
    <2>5. CASE i \in DOMAIN folder /\ Loads(folder[i])
      <3> DEFINE types == TypesIn(folder[i])
                 name == folder[i].manifest.name
      <3>1. types # {}
        BY <2>5 DEF Loads, TypesIn
      <3>2. after = WithPack(before, i, name, types)
        BY <2>3, <2>5 DEF WithDirectory
      <3> HIDE DEF types, name
      <3>3. Sound(after) /\ DOMAIN after.packs = DOMAIN before.packs \cup {i}
        BY <2>1, <2>2, <3>1, <3>2, PackSound
      <3>4. DOMAIN after.packs \subseteq 1..i
        BY <2>1, <2>2, <3>3
      <3> QED BY <2>1, <3>3, <3>4 DEF after
    <2>6. CASE i \in DOMAIN folder /\ ~Loads(folder[i])
      <3>1. after = WithRefused(before, i)
        BY <2>3, <2>6 DEF WithDirectory
      <3>2. Sound(after) /\ DOMAIN after.packs = DOMAIN before.packs \cup {i}
        BY <2>1, <2>2, <3>1, RefusedSound
      <3>3. DOMAIN after.packs \subseteq 1..i
        BY <2>1, <2>2, <3>2
      <3> QED BY <2>1, <3>2, <3>3 DEF after
    <2> QED BY <2>4, <2>5, <2>6
  <1>5. FolderNames \in T
    <2> HIDE DEF T
    <2>1. \A i \in 0..FolderNames : i \in T
      BY <1>1, <1>3, <1>4, EachInTurn
    <2> QED BY <1>1, <2>1
  <1> QED BY <1>5 DEF LoadPacks, Sound

----------------------------------------------------------------------------
(* Reloading.                                                              *)

LEMMA FirstIsOne == ASSUME NEW S, S \subseteq Directories, S # {} PROVE FirstOf(S) \in S
  <1>1. S \subseteq Nat
    BY PacksAssumption DEF Directories
  <1>2. \E x \in S : \A y \in S : x <= y
    BY <1>1, Least
  <1> QED BY <1>2 DEF FirstOf

\* A step that leaves folder, registry and listing alone, and brings no request
\* to read the folder.
PacksAside ==
    /\ UNCHANGED packVars /\ DOMAIN req' = DOMAIN req
    /\ \A r \in DOMAIN req : req'[r] = req[r] \/ req'[r].pc \notin {"pack", "files"}

LEMMA PacksAsideHolds == PacksInv /\ PacksAside => PacksInv'
  <1> SUFFICES ASSUME PacksInv, PacksAside PROVE PacksInv'
    OBVIOUS
  <1>1. UNCHANGED <<folder, registry, packs>>
    BY DEF PacksAside, packVars
  <1>2. Agree(registry, packs)' /\ (DOMAIN folder \subseteq Directories)'
    BY <1>1 DEF PacksInv
  <1>3. ASSUME NEW r \in DOMAIN req', req'[r].pc \in {"pack", "files"} PROVE r \in DOMAIN req /\ req'[r] = req[r]
    BY <1>3 DEF PacksAside
  <1> QED BY <1>2, <1>3 DEF PacksInv

LEMMA OthersLeavePacks ==
    ASSUME RequestsFit, UNCHANGED packVars, NEW places, NEW kinds, Moves(places, kinds),
           places \cap (PackPlaces \cup Ended \cup {"begin"}) = {}
    PROVE  PacksAside
  BY DEF Moves, PacksAside, PackPlaces, Ended

\* A request goes on reading, with what it has read and what is left to.
LEMMA ReadingOn ==
    ASSUME RequestsFit, PacksInv, NEW r \in DOMAIN req, UNCHANGED packVars,
           NEW p, NEW x, Keep(r, p, x), {"todo", "loaded"} \subseteq DOMAIN x,
           x.todo \subseteq Directories, Sound(x.loaded), DOMAIN x.loaded.packs \cap x.todo = {},
           p = "files" => x.todo # {}
    PROVE  PacksInv'
  <1>1. DOMAIN req' = DOMAIN req /\ \A q \in DOMAIN req \ {r} : req'[q] = req[q]
    BY Kept
  <1>2. req'[r] = [pc |-> p, saw |-> x]
    BY Kept
  <1>3. req'[r].pc = p /\ req'[r].saw = x
    BY <1>2
  <1>4. UNCHANGED <<folder, registry, packs>>
    BY DEF packVars
  <1>5. Agree(registry, packs)' /\ (DOMAIN folder \subseteq Directories)'
    BY <1>4 DEF PacksInv
  <1> QED BY <1>1, <1>3, <1>5 DEF PacksInv

\* The next directory: what was made of this one is sound and lists it.
LEMMA NextRead ==
    ASSUME RequestsFit, PacksInv, NEW r \in DOMAIN req, req[r].pc \in {"pack", "files"},
           req[r].saw.todo # {}, UNCHANGED packVars, NEW loaded, Sound(loaded),
           DOMAIN loaded.packs = DOMAIN req[r].saw.loaded.packs \cup {FirstOf(req[r].saw.todo)},
           NextPack(r, loaded)
    PROVE  PacksInv'
  <1> DEFINE todo == req[r].saw.todo
             left == todo \ {FirstOf(todo)}
             x == Reading(left, loaded)
  <1>1. /\ todo \subseteq Directories
        /\ DOMAIN req[r].saw.loaded.packs \cap todo = {}
    BY DEF PacksInv
  <1>2. left \subseteq Directories /\ DOMAIN loaded.packs \cap left = {}
    BY <1>1
  <1>3. Keep(r, "pack", x)
    BY DEF NextPack
  <1> HIDE DEF left
  <1>4. x.todo = left /\ x.loaded = loaded /\ {"todo", "loaded"} \subseteq DOMAIN x
    BY DEF Reading
  <1> HIDE DEF x
  <1> QED BY <1>2, <1>3, <1>4, ReadingOn

LEMMA PacksKeepPacks ==
    ASSUME RequestsFit, PacksInv, PacksNext
    PROVE  PacksInv'
  <1> PICK r \in DOMAIN req :
         \/ EditPack(r) \/ ListFolder(r) \/ OpenPack(r) \/ ReadNodeFile(r) \/ InstallPack(r) \/ ServePacks(r)
    BY DEF PacksNext
  <1> DEFINE saw == req[r].saw
             dir == FirstOf(saw.todo)
  <1>1. ASSUME req[r].pc \in {"pack", "files"}, saw.todo # {}
        PROVE  /\ {"todo", "loaded"} \subseteq DOMAIN saw /\ saw.todo \subseteq Directories /\ Sound(saw.loaded)
               /\ DOMAIN saw.loaded.packs \cap saw.todo = {} /\ dir \notin DOMAIN saw.loaded.packs
    <2>1. /\ {"todo", "loaded"} \subseteq DOMAIN saw /\ saw.todo \subseteq Directories /\ Sound(saw.loaded)
          /\ DOMAIN saw.loaded.packs \cap saw.todo = {}
      BY <1>1 DEF PacksInv
    <2>2. dir \in saw.todo
      BY <1>1, <2>1, FirstIsOne
    <2> QED BY <2>1, <2>2
  <1>2. ASSUME NEW p, Go(r, p), p \notin {"pack", "files"}
        PROVE  DOMAIN req' = DOMAIN req
               /\ \A q \in DOMAIN req : req'[q] = req[q] \/ req'[q].pc \notin {"pack", "files"}
    <2>1. req'[r] = [pc |-> p, saw |-> req[r].saw]
      BY <1>2, Went
    <2> QED BY <1>2, <2>1, Went
  <1>3. CASE EditPack(r)
    <2>1. r \in UNION Scripts /\ r.kind = "edit" /\ Go(r, "ok") /\ UNCHANGED <<registry, packs>>
      BY <1>3 DEF EditPack, Stands, RequestsFit
    <2>2. DOMAIN folder' \subseteq DOMAIN folder \cup {r.dir}
      BY <1>3 DEF EditPack, Put, Without
    <2>3. r.dir \in Directories
      BY <2>1, PacksAssumption
    <2>4. DOMAIN folder' \subseteq Directories
      BY <2>2, <2>3 DEF PacksInv
    <2>5. /\ DOMAIN req' = DOMAIN req
          /\ \A q \in DOMAIN req : req'[q] = req[q] \/ req'[q].pc \notin {"pack", "files"}
      BY <1>2, <2>1
    <2>6. Agree(registry, packs)'
      BY <2>1 DEF PacksInv
    <2>7. ASSUME NEW q \in DOMAIN req', req'[q].pc \in {"pack", "files"} PROVE q \in DOMAIN req /\ req'[q] = req[q]
      BY <2>5, <2>7
    <2> QED BY <2>4, <2>6, <2>7 DEF PacksInv
  <1>4. CASE ListFolder(r)
    <2>1. UNCHANGED packVars
          /\ \/ Keep(r, "pack", Reading(DOMAIN folder, NothingLoaded))
             \/ Keep(r, "pack", Reading({}, NothingLoaded))
      BY <1>4 DEF ListFolder
    <2>2. ASSUME NEW todo, todo \subseteq Directories, Keep(r, "pack", Reading(todo, NothingLoaded)) PROVE PacksInv'
      <3> DEFINE x == Reading(todo, NothingLoaded)
      <3>1. x.todo = todo /\ x.loaded = NothingLoaded /\ {"todo", "loaded"} \subseteq DOMAIN x
        BY DEF Reading
      <3>2. Keep(r, "pack", x)
        BY <2>2
      <3> HIDE DEF x
      <3>3. DOMAIN x.loaded.packs = {} /\ Sound(x.loaded)
        BY <3>1, NothingSound
      <3> QED BY <2>1, <2>2, <3>1, <3>2, <3>3, ReadingOn
    <2> QED BY <2>1, <2>2 DEF PacksInv
  <1>5. CASE OpenPack(r)
    <2>1. req[r].pc = "pack" /\ saw.todo # {} /\ UNCHANGED packVars
      BY <1>5 DEF OpenPack, Stands
    <2>2. CASE NextPack(r, WithRefused(saw.loaded, dir))
      <3> DEFINE loaded == WithRefused(saw.loaded, dir)
      <3>1. Sound(loaded) /\ DOMAIN loaded.packs = DOMAIN saw.loaded.packs \cup {dir}
        BY <1>1, <2>1, RefusedSound
      <3>2. NextPack(r, loaded)
        BY <2>2
      <3> HIDE DEF loaded
      <3> QED BY <2>1, <3>1, <3>2, NextRead
    <2>3. CASE Keep(r, "files", [todo |-> saw.todo, loaded |-> saw.loaded,
                                 name |-> folder[dir].manifest.name,
                                 files |-> NodeFiles(folder[dir]), types |-> {}])
      <3> DEFINE x == [todo |-> saw.todo, loaded |-> saw.loaded, name |-> folder[dir].manifest.name,
                       files |-> NodeFiles(folder[dir]), types |-> {}]
      <3>1. x.todo = saw.todo /\ x.loaded = saw.loaded /\ {"todo", "loaded"} \subseteq DOMAIN x
        OBVIOUS
      <3>2. Keep(r, "files", x)
        BY <2>3
      <3> HIDE DEF x
      <3>3. /\ x.todo \subseteq Directories /\ Sound(x.loaded) /\ DOMAIN x.loaded.packs \cap x.todo = {}
            /\ x.todo # {}
        BY <1>1, <2>1, <3>1
      <3> QED BY <2>1, <3>1, <3>2, <3>3, ReadingOn
    <2> QED BY <1>5, <2>2, <2>3 DEF OpenPack
  <1>6. CASE ReadNodeFile(r)
    <2>1. req[r].pc = "files" /\ saw.todo # {} /\ UNCHANGED packVars
      BY <1>6 DEF ReadNodeFile, Stands, PacksInv
    <2>2. CASE NextPack(r, WithRefused(saw.loaded, dir))
      <3> DEFINE loaded == WithRefused(saw.loaded, dir)
      <3>1. Sound(loaded) /\ DOMAIN loaded.packs = DOMAIN saw.loaded.packs \cup {dir}
        BY <1>1, <2>1, RefusedSound
      <3>2. NextPack(r, loaded)
        BY <2>2
      <3> HIDE DEF loaded
      <3> QED BY <2>1, <3>1, <3>2, NextRead
    <2>3. CASE \E f, t : Keep(r, "files", [saw EXCEPT !.files = @ \ {f}, !.types = @ \cup {t}])
      <3>1. PICK f, t : Keep(r, "files", [saw EXCEPT !.files = @ \ {f}, !.types = @ \cup {t}])
        BY <2>3
      <3> DEFINE x == [saw EXCEPT !.files = @ \ {f}, !.types = @ \cup {t}]
      <3>2. x.todo = saw.todo /\ x.loaded = saw.loaded /\ {"todo", "loaded"} \subseteq DOMAIN x
        BY <1>1, <2>1
      <3>3. Keep(r, "files", x)
        BY <3>1
      <3> HIDE DEF x
      <3>4. /\ x.todo \subseteq Directories /\ Sound(x.loaded) /\ DOMAIN x.loaded.packs \cap x.todo = {}
            /\ x.todo # {}
        BY <1>1, <2>1, <3>2
      <3> QED BY <2>1, <3>2, <3>3, <3>4, ReadingOn
    <2> QED BY <1>6, <2>2, <2>3 DEF ReadNodeFile
  <1>7. CASE InstallPack(r)
    <2>1. req[r].pc = "files" /\ saw.todo # {} /\ UNCHANGED packVars
      BY <1>7 DEF InstallPack, Stands, PacksInv
    <2>2. PICK loaded : /\ NextPack(r, loaded)
                        /\ \/ loaded = WithRefused(saw.loaded, dir)
                           \/ saw.types # {} /\ loaded = WithPack(saw.loaded, dir, saw.name, saw.types)
      BY <1>7 DEF InstallPack
    <2>3. Sound(loaded) /\ DOMAIN loaded.packs = DOMAIN saw.loaded.packs \cup {dir}
      BY <1>1, <2>1, <2>2, RefusedSound, PackSound
    <2> QED BY <2>1, <2>2, <2>3, NextRead
  <1>8. CASE ServePacks(r)
    <2>1. /\ req[r].pc = "pack" /\ Go(r, "ok") /\ UNCHANGED folder
          /\ registry' = saw.loaded.registry /\ packs' = saw.loaded.packs
      BY <1>8 DEF ServePacks, Stands
    <2>2. Agree(registry', packs')
      BY <2>1 DEF PacksInv, Sound
    <2>3. Agree(registry, packs)'
      BY <2>2 DEF Agree, Installed
    <2>4. /\ DOMAIN req' = DOMAIN req
          /\ \A q \in DOMAIN req : req'[q] = req[q] \/ req'[q].pc \notin {"pack", "files"}
      BY <1>2, <2>1
    <2>5. ASSUME NEW q \in DOMAIN req', req'[q].pc \in {"pack", "files"} PROVE q \in DOMAIN req /\ req'[q] = req[q]
      BY <2>4, <2>5
    <2> QED BY <2>1, <2>3, <2>5 DEF PacksInv
  <1> QED BY <1>3, <1>4, <1>5, <1>6, <1>7, <1>8

LEMMA PacksStarts == Init => PacksInv
  <1> SUFFICES ASSUME Init PROVE PacksInv
    OBVIOUS
  <1>1. folder \in Folders /\ registry = LoadPacks.registry /\ packs = LoadPacks.packs
    BY DEF Init, PacksInit, Serves
  <1>2. DOMAIN folder \subseteq Directories
    BY <1>1, PacksAssumption
  <1>3. PICK script \in Scripts : req = [r \in script |-> [pc |-> "begin", saw |-> Nothing]]
    BY DEF Init, RequestsInit
  <1>4. \A r \in DOMAIN req : req[r].pc = "begin"
    BY <1>3
  <1>5. Agree(registry, packs)
    BY <1>1, <1>2, OpenedSound
  <1> QED BY <1>2, <1>4, <1>5 DEF PacksInv

LEMMA PacksStep == RequestsFit /\ PacksInv /\ [Next]_vars => PacksInv'
  <1> SUFFICES ASSUME RequestsFit, PacksInv, [Next]_vars PROVE PacksInv'
    OBVIOUS
  <1>1. CASE Configure
    BY <1>1, SettingsMove, OthersLeavePacks, PacksAsideHolds DEF Configure, PackPlaces, SettingPlaces, Ended
  <1>2. CASE Edit
    BY <1>2, WorkflowsMove, OthersLeavePacks, PacksAsideHolds DEF Edit, PackPlaces, WorkflowPlaces, Ended
  <1>3. CASE Run
    BY <1>3, RunsMove, OthersLeavePacks, PacksAsideHolds DEF Run, PackPlaces, RunPlaces, Ended
  <1>4. CASE Pack
    BY <1>4, PacksKeepPacks DEF Pack
  <1>5. CASE Restart
    <2>1. UNCHANGED folder /\ registry' = LoadPacks.registry /\ packs' = LoadPacks.packs
      BY <1>5 DEF Restart, PacksReopened
    <2>2. Agree(registry', packs')
      BY <2>1, OpenedSound DEF PacksInv
    <2>3. Agree(registry, packs)'
      BY <2>2 DEF Agree, Installed
    <2>4. /\ DOMAIN req' = DOMAIN req
          /\ \A r \in DOMAIN req : \/ req'[r] = req[r] /\ ~InFlight(r)
                                   \/ req'[r] = [pc |-> "gone", saw |-> req[r].saw]
      BY <1>5, Dropped DEF Restart
    <2>5. ASSUME NEW r \in DOMAIN req', req'[r].pc \in {"pack", "files"} PROVE r \in DOMAIN req /\ req'[r] = req[r]
      BY <2>4, <2>5
    <2> QED BY <2>1, <2>3, <2>5 DEF PacksInv
  <1>6. CASE UNCHANGED vars
    <2>1. PacksAside
      BY <1>6 DEF vars, packVars, PacksAside
    <2> QED BY <2>1, PacksAsideHolds
  <1> QED BY <1>1, <1>2, <1>3, <1>4, <1>5, <1>6 DEF Next

\* Whatever is edited while the folder is read, and however many reloads
\* overlap, fail to list it or are cut off, what runs is what is listed.
THEOREM RegistryIsAlwaysOneListing == Spec => []RegistryIsOneListing
  <1>1. Init => WaitInv /\ PacksInv
    BY WaitInit, PacksStarts
  <1>2. WaitInv /\ PacksInv /\ [Next]_vars => WaitInv' /\ PacksInv'
    <2>1. WaitInv => RequestsFit
      BY DEF WaitInv
    <2> QED BY <2>1, WaitStep, PacksStep
  <1>3. PacksInv => RegistryIsOneListing
    BY DEF PacksInv, Agree, Installed, RegistryIsOneListing, PackNames
  <1> QED BY <1>1, <1>2, <1>3, PTL DEF Spec

=============================================================================
