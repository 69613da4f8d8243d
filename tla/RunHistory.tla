----------------------------- MODULE RunHistory -----------------------------
(***************************************************************************)
(* What the run files promise to whoever polls them, whatever wrote them:  *)
(* a run is accepted as queued, its progress only grows, and once it has   *)
(* an outcome nothing about it changes any more.                           *)
(***************************************************************************)
EXTENDS Naturals, Sequences

CONSTANT Nodes

VARIABLE history    \* the runs in the order accepted: status, nodes done

RunStatus == {"queued", "running", "completed", "failed", "cancelled"}
Terminal  == {"completed", "failed", "cancelled"}

TypeOK == history \in Seq([status: RunStatus, done: SUBSET Nodes])

Init == history = <<>>

Accept == history' = Append(history, [status |-> "queued", done |-> {}])

\* The outcome may come with the last of the progress, and a poll may miss
\* every step before it.
Advance(r) ==
    /\ history[r].status \notin Terminal
    /\ Len(history') = Len(history)
    /\ history'[r].status \in RunStatus \ {"queued"}
    /\ history[r].done \subseteq history'[r].done
    /\ \A s \in DOMAIN history \ {r} : history'[s] = history[s]

Next == Accept \/ \E r \in DOMAIN history : Advance(r)

Spec == Init /\ [][Next]_history

=============================================================================
