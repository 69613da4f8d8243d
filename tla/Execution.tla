----------------------------- MODULE Execution -----------------------------
(***************************************************************************)
(* The runs of one workflow: the daemon's execute and runRecorder around   *)
(* the engine's ExecuteWithReporting, with the replay cache in between.    *)
(*                                                                         *)
(* Runs are goroutines and share nothing but the project folder: each      *)
(* keeps its record in memory and rewrites the whole run file on every     *)
(* transition, and reads other runs' files once, for its replay cache.     *)
(* Meanwhile the user edits the workflow and the files it reads.           *)
(*                                                                         *)
(* A value is the account of how it came to be: the node, its              *)
(* configuration, what it read and the values it was fed.  A fingerprint   *)
(* is what FingerprintOf hashes, and equal hashes are equal fingerprints.  *)
(***************************************************************************)
EXTENDS Graph

CONSTANTS
    Workflow,     \* the graph; edits change configurations, not its shape
    Inputs,       \* input nodes: the run's input replaces their value
    Readers,      \* file inputs: their value is what the disk holds
    Writers,      \* file outputs and pack nodes that may touch files
    Templated,    \* nodes whose configuration holds an {{input:...}}
    Brains,       \* agents: their result depends on the tool nodes they call
    Images,       \* nodes whose output embeds more base64 than a record keeps
    Outputs,      \* output and preview nodes
    RunRequests,  \* what a run can be asked: [input, target, useCache, batch]
    NoTarget, None,
    MaxRuns,      \* bound: runs ever made
    MaxLive,      \* bound: runs in flight together
    MaxEdits,     \* bound: edits of the workflow and of the files it reads
    MaxMishaps    \* bound: writes that fail and times the process goes away

ASSUME ExecutionAssumption ==
    /\ WellFormed(Workflow) /\ ~Dangling(Workflow)
    /\ \A C \in SUBSET NodeIds(Workflow) : ~Deadlocked(Workflow, C)
    /\ {MaxRuns, MaxLive, MaxEdits, MaxMishaps} \subseteq Nat

Ids == NodeIds(Workflow)

\* ListRuns(workflow, 5): how far back a replay looks.
HistoryDepth == 5

Terminal == {"completed", "failed", "cancelled"}

VARIABLES
    config,     \* the saved workflow: the version of each node's configuration
    disk,       \* the version of the files the workflow reads
    record,     \* the run files, in the order they were created
    live,       \* what each run's goroutine holds, Idle before and after
    faults,     \* writes that failed so far
    stops       \* times the process went away

vars == <<config, disk, record, live, faults, stops>>

Empty == [n \in {} |-> None]

\* The output of a node that has not come out: the empty string.
NoOutput == Empty

Idle == [pc |-> "idle", mem |-> None, fps |-> Empty, cache |-> Empty, order |-> <<>>,
         k |-> 1, outputs |-> Empty, ctx |-> "ok"]

RunIds == 1..MaxRuns

Init ==
    /\ config = [n \in Ids |-> 0]
    /\ disk = 0
    /\ record = <<>>
    /\ live = [r \in RunIds |-> Idle]
    /\ faults = 0 /\ stops = 0

----------------------------------------------------------------------------
(* Values and fingerprints.                                                *)

ReadsInput(n) == n \in Inputs \cup Templated

\* What executing n in a graph gives: everything its result depends on.
Value(g, n, configs, input, world, ups) ==
    [node |-> n, config |-> configs[n],
     input |-> IF ReadsInput(n) THEN input ELSE None,
     world |-> IF n \in Readers THEN world ELSE None,
     tools |-> [t \in IF n \in Brains THEN ToolNodesOf(g, n) ELSE {} |-> configs[t]],
     ups |-> ups]

\* sanitizeOutput: of an image the record keeps everything but the payload, so
\* that nothing of what it was made from is left.
Sanitized(n, value) == IF n \in Images THEN [value EXCEPT !.input = None, !.ups = None] ELSE value

\* The upstream fingerprints are sorted before they are hashed: a bag.
Sorted(s) == [x \in Elements(s) |-> Cardinality({i \in DOMAIN s : s[i] = x})]

\* Variant: what is upstream does not count.
FingerprintAlone(n, version, input, upstream) ==
    [config |-> version, input |-> IF n \in Inputs THEN input ELSE None, ups |-> Empty]

\* FingerprintOf: configuration as written, the run's input if the node takes
\* one, and the fingerprints upstream.
FingerprintOf(n, version, input, upstream) ==
    [config |-> version, input |-> IF n \in Inputs THEN input ELSE None,
     ups |-> Sorted(upstream)]

\* ComputeFingerprints, along the data edges.
Fingerprints(configs, input) ==
    LET fp[n \in Touched(Workflow)] ==
            LET ups == UpstreamOf(Workflow, n) IN
            FingerprintOf(n, configs[n], input, [i \in DOMAIN ups |-> fp[ups[i]]])
    IN  fp

\* outsideTheFingerprint: never served from the cache.
OutsideTheFingerprint(n) == n \in Readers \cup Writers

----------------------------------------------------------------------------
(* The replay cache.                                                       *)

\* Variant: what was replayed last time is not good enough this time.
UsableFresh(entry) == entry.status = "completed" /\ entry.output # NoOutput

\* LoadCache: a node record good for replay.
Usable(entry) == entry.status \in {"completed", "cached"} /\ entry.output # NoOutput

\* replayCache: the node records of the newest completed run among the last few.
CandidateRuns ==
    {r \in DOMAIN record : r > Len(record) - HistoryDepth /\ record[r].status = "completed"}

ReplaySource == CHOOSE r \in CandidateRuns : \A s \in CandidateRuns : s <= r

ReplayCache ==
    IF CandidateRuns = {} THEN Empty
    ELSE LET entries == {e \in Elements(record[ReplaySource].nodes) : Usable(e)} IN
         [n \in {e.node : e \in entries} |-> CHOOSE e \in entries : e.node = n]

\* cachedOutput: an entry recorded under the very same fingerprint.
Replayable(p, n) ==
    /\ ~OutsideTheFingerprint(n)
    /\ n \in DOMAIN p.cache /\ p.cache[n].fp = p.fps[n]

----------------------------------------------------------------------------
(* Writing a run file.                                                     *)

Mishap == faults + stops < MaxMishaps

\* Variant: the transition is kept in memory only.
PersistLater(r, m) == UNCHANGED <<record, faults>>

\* runRecorder.update: a failed write is only logged.
Persist(r, m) ==
    \/ record' = [record EXCEPT ![r] = m] /\ UNCHANGED faults
    \/ Mishap /\ faults' = faults + 1 /\ UNCHANGED record

\* The goroutine of run r goes on as p, having written its record.
Continue(r, p) ==
    /\ live' = [live EXCEPT ![r] = p]
    /\ Persist(r, p.mem)
    /\ UNCHANGED <<config, disk, stops>>

----------------------------------------------------------------------------
(* The life of a run.                                                      *)

\* prepareRun: the graph and the inputs are taken as they are now.  A record
\* that cannot be written refuses the run.
PrepareRun(q) ==
    LET m == [status |-> "queued", nodes |-> <<>>, result |-> Empty,
              config |-> config, input |-> q.input, target |-> q.target,
              useCache |-> q.useCache, batch |-> q.batch]
        r == Len(record) + 1 IN
    /\ r <= MaxRuns /\ Cardinality({s \in RunIds : live[s].pc # "idle"}) < MaxLive
    /\ \/ /\ record' = Append(record, m)
          /\ live' = [live EXCEPT ![r] = [Idle EXCEPT !.pc = "prepared", !.mem = m]]
          /\ UNCHANGED faults
       \/ Mishap /\ faults' = faults + 1 /\ UNCHANGED <<record, live>>
    /\ UNCHANGED <<config, disk, stops>>

\* execute's first update.
Begin(r) ==
    /\ live[r].pc = "prepared"
    /\ Continue(r, [live[r] EXCEPT !.pc = "begun", !.mem.status = "running"])

\* The graph a run executes: all of it, or its target and what feeds it.
Graphs ==
    [t \in Ids \cup {NoTarget} |-> IF t = NoTarget THEN Workflow ELSE SubgraphForNode(Workflow, t)]

GraphOf(m) == Graphs[m.target]

Orders == [t \in Ids \cup {NoTarget} |-> TopoOrderOf(Graphs[t])]

\* The fingerprints, the replay cache, which never holds the target, and the
\* graph to execute.
Plan(r) ==
    LET m == live[r].mem
        cache == IF m.useCache THEN ReplayCache ELSE Empty IN
    /\ live[r].pc = "begun"
    /\ m.target \in Ids \cup {NoTarget}
    /\ live' = [live EXCEPT ![r] =
                   [@ EXCEPT !.pc = "next",
                             !.order = Orders[m.target],
                             !.fps = Fingerprints(m.config, m.input),
                             !.cache = [n \in DOMAIN cache \ {m.target} |-> cache[n]]]]
    /\ UNCHANGED <<config, disk, record, faults, stops>>

\* SubgraphForNode does not know the target: finishFailed.
RefuseTarget(r) ==
    /\ live[r].pc = "begun"
    /\ live[r].mem.target \notin Ids \cup {NoTarget}
    /\ live' = [live EXCEPT ![r] = Idle]
    /\ Persist(r, [live[r].mem EXCEPT !.status = "failed"])
    /\ UNCHANGED <<config, disk, stops>>

\* NodeStart.
StartNode(r) ==
    LET p == live[r]
        n == p.order[p.k] IN
    /\ p.pc = "next" /\ p.k <= Len(p.order)
    /\ Continue(r, [p EXCEPT
          !.pc = "node",
          !.mem.nodes = Append(@, [node |-> n, status |-> "running", fp |-> p.fps[n],
                                   output |-> NoOutput])])

\* Variant: the status is kept and the output is not.
NodeEndedBare(p, status, output) ==
    [p.mem EXCEPT !.nodes[Len(p.mem.nodes)].status = status]

\* The closure NodeStart returned, called with the node's outcome.
NodeEnded(p, status, output) ==
    [p.mem EXCEPT !.nodes[Len(p.mem.nodes)] = [@ EXCEPT !.status = status, !.output = output]]

\* The DAG loop goes on with the output of node n.
WithOutput(p, n, value) ==
    [p EXCEPT !.pc = "next", !.k = @ + 1,
              !.outputs = [x \in DOMAIN @ \cup {n} |-> IF x = n THEN value ELSE @[x]],
              !.mem = NodeEnded(p, "completed", Sanitized(n, value))]

\* The node is served from the cache.
ReplayNode(r) ==
    LET p == live[r]
        n == p.order[p.k] IN
    /\ p.pc = "node" /\ Replayable(p, n)
    /\ Continue(r, WithOutput(p, n, p.cache[n].output))

\* The node is executed, and works, its context done or not.  A Brain does not
\* work without tools, and a subgraph leaves them out.
ExecuteNode(r) ==
    LET p == live[r]
        n == p.order[p.k]
        ups == UpstreamOf(GraphOf(p.mem), n) IN
    /\ p.pc = "node" /\ ~Replayable(p, n)
    /\ Elements(ups) \subseteq DOMAIN p.outputs
    /\ n \in Brains => ToolNodesOf(GraphOf(p.mem), n) # {}
    /\ Continue(r, WithOutput(p, n, Value(GraphOf(p.mem), n, p.mem.config, p.mem.input, disk,
                                          [i \in DOMAIN ups |-> p.outputs[ups[i]]])))

\* Variant: the error is returned before the node's record is closed.
FailNodeOpen(r) ==
    LET p == live[r] IN
    /\ p.pc = "node" /\ ~Replayable(p, p.order[p.k])
    /\ Continue(r, [p EXCEPT !.pc = "failing"])

\* Variant: the loop goes on after a failure.
FailNodeAndGoOn(r) ==
    LET p == live[r] IN
    /\ p.pc = "node" /\ ~Replayable(p, p.order[p.k])
    /\ Continue(r, [p EXCEPT !.pc = "next", !.k = @ + 1, !.mem = NodeEnded(p, "failed", NoOutput)])

\* The node is executed and fails: a provider's error, a refused file, a
\* missing input, the context.
FailNode(r) ==
    LET p == live[r] IN
    /\ p.pc = "node" /\ ~Replayable(p, p.order[p.k])
    /\ Continue(r, [p EXCEPT !.pc = "failing", !.mem = NodeEnded(p, "failed", NoOutput)])

\* Variant: the run goes on after its failure is written.
FailRunAndGoOn(r) ==
    LET p == live[r]
        status == IF p.ctx = "cancelled" THEN "cancelled" ELSE "failed" IN
    /\ p.pc = "failing"
    /\ Continue(r, [p EXCEPT !.pc = "next", !.k = Len(p.order) + 1, !.mem.status = status])

\* The engine returned an error: the context says whose doing it was.
FailRun(r) ==
    LET p == live[r]
        status == IF p.ctx = "cancelled" THEN "cancelled" ELSE "failed" IN
    /\ p.pc = "failing"
    /\ live' = [live EXCEPT ![r] = Idle]
    /\ Persist(r, [p.mem EXCEPT !.status = status])
    /\ UNCHANGED <<config, disk, stops>>

\* Every node came out: those served from the cache are flagged, which is a
\* write of its own when there are any.
ReplayedIn(p) == {n \in DOMAIN p.outputs : Replayable(p, n)}

Flagged(p) ==
    [p.mem EXCEPT !.nodes = [i \in DOMAIN @ |->
        IF @[i].node \in ReplayedIn(p) /\ @[i].status = "completed"
        THEN [@[i] EXCEPT !.status = "cached"] ELSE @[i]]]

\* Variant: flagging what was replayed starts over.
MarkReplayedAgain(r) ==
    LET p == live[r] IN
    /\ p.pc = "next" /\ p.k > Len(p.order)
    /\ IF ReplayedIn(p) = {}
       THEN /\ live' = [live EXCEPT ![r].pc = "settle"]
            /\ UNCHANGED <<config, disk, record, faults, stops>>
       ELSE Continue(r, [p EXCEPT !.mem = Flagged(p)])

MarkReplayed(r) ==
    LET p == live[r] IN
    /\ p.pc = "next" /\ p.k > Len(p.order)
    /\ IF ReplayedIn(p) = {}
       THEN /\ live' = [live EXCEPT ![r].pc = "settle"]
            /\ UNCHANGED <<config, disk, record, faults, stops>>
       ELSE Continue(r, [p EXCEPT !.pc = "settle", !.mem = Flagged(p)])

\* The workflow's result: what its output nodes hold, or else its last node.
ResultOf(p) ==
    LET shown == {n \in DOMAIN p.outputs : n \in Outputs}
        kept == IF shown = {} THEN {n \in DOMAIN p.outputs : n = p.order[Len(p.order)]}
                ELSE shown
    IN  [n \in kept |-> Sanitized(n, p.outputs[n])]

Complete(r) ==
    LET p == live[r] IN
    /\ p.pc = "settle"
    /\ live' = [live EXCEPT ![r] = Idle]
    /\ Persist(r, [p.mem EXCEPT !.status = "completed", !.result = ResultOf(p)])
    /\ UNCHANGED <<config, disk, stops>>

RunStep(r) ==
    \/ Begin(r) \/ Plan(r) \/ RefuseTarget(r) \/ StartNode(r)
    \/ ReplayNode(r) \/ ExecuteNode(r) \/ FailNode(r) \/ FailRun(r)
    \/ MarkReplayed(r) \/ Complete(r)

----------------------------------------------------------------------------
(* What happens around the runs.                                           *)

\* The run's context ends: its 30 minutes are over, or its batch is stopped.
\* Whichever comes first stays.
EndContext(r, why) ==
    /\ live[r].pc # "idle" /\ live[r].ctx = "ok"
    /\ why = "cancelled" => live[r].mem.batch
    /\ live' = [live EXCEPT ![r].ctx = why]
    /\ UNCHANGED <<config, disk, record, faults, stops>>

Edits == disk + Cardinality({e \in Ids \X (1..MaxEdits) : e[2] <= config[e[1]]})

\* The workflow is saved with another configuration of a node.
EditNode(n) ==
    /\ Edits < MaxEdits
    /\ config' = [config EXCEPT ![n] = @ + 1]
    /\ UNCHANGED <<disk, record, live, faults, stops>>

\* A file the workflow reads is changed.
EditFile ==
    /\ Readers # {} /\ Edits < MaxEdits
    /\ disk' = disk + 1
    /\ UNCHANGED <<config, record, live, faults, stops>>

\* The process goes away; nothing at start-up looks at the runs it left.
Stop ==
    /\ Mishap /\ stops' = stops + 1
    /\ live' = [r \in RunIds |-> Idle]
    /\ UNCHANGED <<config, disk, record, faults>>

Next ==
    \/ \E q \in RunRequests : PrepareRun(q)
    \/ \E r \in RunIds : RunStep(r) \/ \E why \in {"cancelled", "expired"} : EndContext(r, why)
    \/ \E n \in Ids : EditNode(n)
    \/ EditFile
    \/ Stop

Spec == Init /\ [][Next]_vars

\* The goroutines are scheduled, and a node's execution comes to its end, by
\* itself or by its context.
FairSpec == Spec /\ \A r \in RunIds : WF_vars(RunStep(r))

----------------------------------------------------------------------------
(* Properties.                                                             *)

NodeRecord(e) ==
    /\ e.node \in Ids
    /\ e.status \in {"running", "completed", "failed", "cached"}
    /\ e.output # NoOutput <=> e.status \in {"completed", "cached"}

RunRecord(m) ==
    /\ m.status \in Terminal \cup {"queued", "running"}
    /\ \A i \in DOMAIN m.nodes : NodeRecord(m.nodes[i])
    /\ m.config \in [Ids -> 0..MaxEdits]

\* Records and goroutines hold what the code can store in them; a node record
\* has an output exactly when the node came out.
TypeOK ==
    /\ \A r \in DOMAIN record : RunRecord(record[r])
    /\ \A r \in RunIds : live[r] = Idle \/ RunRecord(live[r].mem)
    /\ \A r \in RunIds : DOMAIN live[r].outputs \subseteq Elements(live[r].order)

\* A fingerprint identifies what a node would produce: whatever a run holds
\* for a node, replayed or executed, is what executing it in this very run,
\* on what its sources hold in this run, would have given.
Honest(p, n) ==
    LET ups == UpstreamOf(GraphOf(p.mem), n) IN
    p.outputs[n] = Value(Workflow, n, p.mem.config, p.mem.input, p.outputs[n].world,
                         [i \in DOMAIN ups |-> p.outputs[ups[i]]])

ReplayHonest ==
    \A r \in RunIds : \A n \in DOMAIN live[r].outputs : Honest(live[r], n)

\* Where that is so: nothing n depends on is outside its fingerprint, because no
\* file is read above it, no run input other than an input node's, no image was
\* cut down for the record, and no node has two inputs whose order the sorted
\* fingerprints lose.
Covered(n) ==
    \A a \in Ancestors(Workflow, n) :
        /\ a \notin Readers \cup Images \cup (Templated \ Inputs)
        /\ Cardinality(EdgesInto(Workflow, a)) <= 1

\* A workflow whose replayable nodes are covered, and without an agent, whose
\* tools are outside its fingerprint.  The code does not ask it of a workflow.
FingerprintCovers ==
    /\ Brains \cap Ids = {}
    /\ \A n \in Ids : Covered(n) \/ OutsideTheFingerprint(n)

\* An edit to one node does not re-bill the nodes upstream of it: a run that
\* may use the cache does not execute again a node of the run it replays,
\* unless it is the target, outside the fingerprint, or something that feeds
\* it was edited or got another input.
SameOrigin(m, old, n) ==
    \A a \in Ancestors(Workflow, n) :
        m.config[a] = old.config[a] /\ (a \in Inputs => m.input = old.input)

UnchangedIsReplayed ==
    [][\A r \in RunIds :
         (live[r].pc = "begun" /\ live'[r].pc = "next" /\ live[r].mem.useCache
              /\ CandidateRuns # {})
         => LET m == live[r].mem
                old == record[ReplaySource] IN
            \A i \in DOMAIN old.nodes :
                LET n == old.nodes[i].node IN
                (/\ old.nodes[i].output # NoOutput /\ SameOrigin(m, old, n)
                 /\ n # m.target /\ ~OutsideTheFingerprint(n)) => Replayable(live'[r], n)]_vars

\* A completed run did all of its work: its record lists every node of the
\* data flow of the graph it was to execute, once, each after what feeds it,
\* every one with an output, and shows a result.
CompletedIsWhole ==
    \A r \in DOMAIN record : record[r].status = "completed" =>
        LET m == record[r]
            done == [i \in DOMAIN m.nodes |-> m.nodes[i].node] IN
        /\ Injective(done) /\ Elements(done) = Touched(GraphOf(m))
        /\ RespectsEdges(GraphOf(m), done)
        /\ \A i \in DOMAIN m.nodes : m.nodes[i].status \in {"completed", "cached"}
        /\ done # <<>> => DOMAIN m.result # {}

\* A run with an outcome has no node still claiming to run.
SettledHasNoRunningNode ==
    \A r \in DOMAIN record : record[r].status \in Terminal =>
        \A i \in DOMAIN record[r].nodes : record[r].nodes[i].status # "running"

\* A poll sees exactly what the run knows, as long as writes work.
PollSeesRun ==
    faults = 0 => \A r \in RunIds : live[r].pc # "idle" => record[r] = live[r].mem

\* Every run comes to an end.
RunsEnd == \A r \in RunIds : live[r].pc # "idle" ~> live[r].pc = "idle"

\* The run files keep RunHistory's promise: progress only grows and an
\* outcome is final, whatever runs beside, fails to be written or is cut short.
DoneIn(m) ==
    {m.nodes[i].node : i \in {j \in DOMAIN m.nodes : m.nodes[j].status \in {"completed", "cached"}}}

History == INSTANCE RunHistory WITH
    Nodes <- Ids,
    history <- [r \in DOMAIN record |-> [status |-> record[r].status, done |-> DoneIn(record[r])]]

FilesKeepHistory == History!Spec

\* TargetNodeID runs that node: a single-node run that completed has executed
\* its target.
TargetIsRun ==
    \A r \in DOMAIN record : record[r].status = "completed" /\ record[r].target # NoTarget =>
        \E i \in DOMAIN record[r].nodes : record[r].nodes[i].node = record[r].target

=============================================================================
