-------------------------- MODULE ExecutionProofs --------------------------
(***************************************************************************)
(* Theorems of Execution, for any workflow that can run, any requests and  *)
(* any number of runs, edits and mishaps.  One invariant carries them: a   *)
(* goroutine's place tells what its record holds of the order, and the     *)
(* file is behind the goroutine by no more than the writes that failed.    *)
(***************************************************************************)
EXTENDS Execution, GraphProofs

IsNode(e) == e \in [node: {e.node}, status: {e.status}, fp: {e.fp}, output: {e.output}]

Done == {"completed", "cached"}

\* A node record has an output when the node came out, and none otherwise.
NodeFits(e) ==
    /\ IsNode(e)
    /\ e.status \in {"running", "failed"} \cup Done
    /\ IF e.status \in Done THEN DOMAIN e.output # {} ELSE e.output = NoOutput

Listed(s) == s \in Seq(Elements(s))

IsMem(m) ==
    /\ m \in [status: {m.status}, nodes: {m.nodes}, result: {m.result}, config: {m.config},
              input: {m.input}, target: {m.target}, useCache: {m.useCache}, batch: {m.batch}]
    /\ Listed(m.nodes)

Targets == Ids \cup {NoTarget}

\* What a record says of its nodes: the first of the order, in that order.
NodesFit(m) ==
    /\ m.nodes # <<>> => m.target \in Targets /\ Len(m.nodes) <= Len(Orders[m.target])
    /\ \A i \in DOMAIN m.nodes :
          /\ NodeFits(m.nodes[i])
          /\ m.nodes[i].node = Orders[m.target][i]
          /\ m.nodes[i].fp = Fingerprints(m.config, m.input)[m.nodes[i].node]

\* A record with an outcome, and one that completed.
Closed(m) == \A i \in DOMAIN m.nodes : m.nodes[i].status # "running"

Whole(m) ==
    /\ m.target \in Targets /\ Len(m.nodes) = Len(Orders[m.target])
    /\ \A i \in DOMAIN m.nodes : m.nodes[i].status \in Done
    /\ m.nodes # <<>> => DOMAIN m.result # {}

RecordFits(m) ==
    /\ IsMem(m)
    /\ m.status \in Terminal \cup {"queued", "running"}
    /\ m.config \in [Ids -> 0..MaxEdits]
    /\ NodesFit(m)
    /\ m.status \in Terminal => Closed(m)
    /\ m.status = "completed" => Whole(m)

IsPlace(p) ==
    p \in [pc: {p.pc}, mem: {p.mem}, fps: {p.fps}, cache: {p.cache}, order: {p.order},
           k: {p.k}, outputs: {p.outputs}, ctx: {p.ctx}]

Early == {"prepared", "begun"}
InNode == {"node", "failing"}

\* The k-th node of the order is next, or being executed; those before it came
\* out, and only those.
Underway(p) ==
    /\ p.mem.target \in Targets /\ p.order = Orders[p.mem.target]
    /\ p.fps = Fingerprints(p.mem.config, p.mem.input)
    /\ \A n \in DOMAIN p.cache : DOMAIN p.cache[n].output # {}
    /\ p.k \in 1..Len(p.order) + 1
    /\ Len(p.mem.nodes) = IF p.pc \in InNode THEN p.k ELSE p.k - 1
    /\ p.pc \in InNode => p.k <= Len(p.order)
    /\ p.pc = "settle" => p.k = Len(p.order) + 1
    /\ \A i \in 1..p.k - 1 :
          p.mem.nodes[i].status \in IF p.pc = "settle" THEN Done ELSE {"completed"}
    /\ p.pc = "node" => p.mem.nodes[p.k].status = "running"
    /\ p.pc = "failing" => p.mem.nodes[p.k].status = "failed"
    /\ DOMAIN p.outputs = {p.order[i] : i \in 1..p.k - 1}
    /\ \A n \in DOMAIN p.outputs : DOMAIN p.outputs[n] # {}

RunFits(p) ==
    /\ IsPlace(p) /\ RecordFits(p.mem)
    /\ p.pc \in Early \cup InNode \cup {"next", "settle"}
    /\ p.mem.status = IF p.pc = "prepared" THEN "queued" ELSE "running"
    /\ p.pc \in Early => p.mem.nodes = <<>> /\ p.order = <<>> /\ p.outputs = Empty /\ p.k = 1
    /\ p.pc \notin Early => Underway(p)

\* The run file m of a run still at p.
OnFile(m, p) ==
    /\ m.status \notin Terminal
    /\ DoneIn(m) \subseteq DoneIn(p.mem)
    /\ faults = 0 => m = p.mem

RunInv ==
    /\ config \in [Ids -> 0..MaxEdits] /\ disk \in Nat /\ faults \in Nat /\ stops \in Nat
    /\ Listed(record) /\ Len(record) <= MaxRuns
    /\ \A r \in DOMAIN record : RecordFits(record[r])
    /\ DOMAIN live = RunIds
    /\ \A r \in RunIds : \/ live[r] = Idle
                         \/ RunFits(live[r]) /\ r \in DOMAIN record /\ OnFile(record[r], live[r])

----------------------------------------------------------------------------
(* The orders, and lists of records.                                       *)

LEMMA OrdersFit ==
    ASSUME NEW t \in Targets
    PROVE  /\ Orders[t] \in Seq(Touched(Graphs[t])) /\ Touched(Graphs[t]) \subseteq Ids
           /\ Len(Orders[t]) \in Nat /\ DOMAIN Orders[t] = 1..Len(Orders[t])
           /\ Injective(Orders[t]) /\ Elements(Orders[t]) = Touched(Graphs[t])
           /\ RespectsEdges(Graphs[t], Orders[t])
           /\ WellFormed(Graphs[t]) /\ ~Dangling(Graphs[t])
  <1> DEFINE g == Graphs[t]
  <1>1. Orders[t] = TopoOrderOf(g)
    BY DEF Orders, Targets
  <1>2. /\ WellFormed(g) /\ ~Dangling(g) /\ Touched(g) \subseteq Ids
        /\ \A C \in SUBSET NodeIds(g) : ~Deadlocked(g, C)
    <2>1. Touched(Workflow) \subseteq Ids
      BY ExecutionAssumption, EdgeFacts DEF Ids
    <2>2. CASE t = NoTarget
      <3>1. g = Workflow
        BY <2>2 DEF Graphs
      <3>2. QED
        BY <2>1, <3>1, ExecutionAssumption
    <2>3. CASE t # NoTarget
      <3>1. g = SubgraphForNode(Workflow, t) /\ t \in NodeIds(Workflow)
        BY <2>3 DEF Graphs, Targets, Ids
      <3>2. /\ WellFormed(g) /\ ~Dangling(g) /\ NodeIds(g) \subseteq NodeIds(Workflow)
            /\ Touched(g) \subseteq Touched(Workflow)
            /\ \A C \in SUBSET NodeIds(g) : Deadlocked(g, C) => Deadlocked(Workflow, C)
        BY <3>1, ExecutionAssumption, SubgraphFacts, AncestorsFacts
      <3>3. QED
        BY <2>1, <3>2, ExecutionAssumption
    <2>4. QED
      BY <2>2, <2>3
  <1> HIDE DEF g
  <1>3. /\ TopoOrderOf(g) \in Seq(Touched(g)) /\ Injective(TopoOrderOf(g))
        /\ RespectsEdges(g, TopoOrderOf(g)) /\ Elements(TopoOrderOf(g)) = Touched(g)
    BY <1>2, OrderFacts
  <1>4. Len(TopoOrderOf(g)) \in Nat /\ DOMAIN TopoOrderOf(g) = 1..Len(TopoOrderOf(g))
    BY <1>3, LenProperties
  <1>5. QED
    BY <1>1, <1>2, <1>3, <1>4 DEF g

LEMMA ListedFacts ==
    ASSUME NEW s, Listed(s)
    PROVE  Len(s) \in Nat /\ DOMAIN s = 1..Len(s)
  BY LenProperties DEF Listed

LEMMA ListedIf ==
    ASSUME NEW s, NEW n \in Nat, DOMAIN s = 1..n, s = [i \in 1..n |-> s[i]]
    PROVE  Listed(s) /\ Len(s) = n
  <1>1. s \in [1..n -> Elements(s)]
    BY DEF Elements
  <1>2. s \in Seq(Elements(s))
    BY <1>1, SeqDef
  <1>3. Len(s) \in Nat /\ DOMAIN s = 1..Len(s)
    BY <1>2, LenProperties
  <1>4. Len(s) = n
    <2>1. ~ (Len(s) < n) /\ ~ (n < Len(s))
      <3>1. 1..n = 1..Len(s)
        BY <1>3
      <3>2. n > 0 => n \in 1..Len(s)
        BY <3>1
      <3>3. Len(s) > 0 => Len(s) \in 1..n
        BY <1>3, <3>1
      <3>4. QED
        BY <1>3, <3>2, <3>3
    <2>2. QED
      BY <1>3, <2>1
  <1>5. QED
    BY <1>2, <1>4 DEF Listed

\* A list with one more element.
LEMMA AppendListed ==
    ASSUME NEW s, Listed(s), NEW x
    PROVE  /\ Listed(Append(s, x)) /\ Len(Append(s, x)) = Len(s) + 1
           /\ DOMAIN Append(s, x) = 1..Len(s) + 1
           /\ \A i \in 1..Len(s) : Append(s, x)[i] = s[i]
           /\ Append(s, x)[Len(s) + 1] = x
  <1> DEFINE S == Elements(s) \cup {x}
             t == Append(s, x)
  <1>1. s \in Seq(S) /\ x \in S
    BY SeqMonotonic DEF Listed
  <1>2. /\ t \in Seq(S) /\ Len(t) = Len(s) + 1 /\ Len(s) \in Nat
        /\ \A i \in 1..Len(s) : t[i] = s[i]
        /\ t[Len(s) + 1] = x
    BY <1>1, AppendProperties, ListedFacts
  <1>3. DOMAIN t = 1..Len(s) + 1 /\ t = [i \in 1..Len(s) + 1 |-> t[i]]
    BY <1>2, LenProperties
  <1> HIDE DEF t
  <1>4. Listed(t)
    BY <1>2, <1>3, ListedIf
  <1>5. QED
    BY <1>2, <1>3, <1>4 DEF t

\* A list with one element replaced.
LEMMA ExceptListed ==
    ASSUME NEW s, Listed(s), NEW j \in DOMAIN s, NEW x
    PROVE  /\ Listed([s EXCEPT ![j] = x]) /\ Len([s EXCEPT ![j] = x]) = Len(s)
           /\ DOMAIN [s EXCEPT ![j] = x] = DOMAIN s
           /\ \A i \in DOMAIN s : [s EXCEPT ![j] = x][i] = IF i = j THEN x ELSE s[i]
  <1> DEFINE t == [s EXCEPT ![j] = x]
  <1>1. Len(s) \in Nat /\ DOMAIN s = 1..Len(s)
    BY ListedFacts
  <1>2. /\ DOMAIN t = 1..Len(s) /\ t = [i \in 1..Len(s) |-> t[i]]
        /\ \A i \in DOMAIN s : t[i] = IF i = j THEN x ELSE s[i]
    BY <1>1
  <1> HIDE DEF t
  <1>3. Listed(t) /\ Len(t) = Len(s)
    BY <1>1, <1>2, ListedIf
  <1>4. QED
    BY <1>1, <1>2, <1>3 DEF t

----------------------------------------------------------------------------
(* What a step makes of a record.                                          *)

\* Two records that tell the same of their run.
SameRun(x, m) ==
    /\ x.config = m.config /\ x.input = m.input /\ x.target = m.target
    /\ x.useCache = m.useCache /\ x.batch = m.batch

LEMMA MemStatus ==
    ASSUME NEW m, IsMem(m), NEW status
    PROVE  LET x == [m EXCEPT !.status = status] IN
           /\ IsMem(x) /\ x.status = status /\ x.nodes = m.nodes /\ x.result = m.result
           /\ SameRun(x, m) /\ DoneIn(x) = DoneIn(m)
  <1> DEFINE x == [m EXCEPT !.status = status]
  <1>1. IsMem(x) /\ x.nodes = m.nodes
    BY DEF IsMem
  <1>2. DoneIn(x) = DoneIn(m)
    BY <1>1 DEF DoneIn
  <1>3. QED
    BY <1>1, <1>2 DEF IsMem, SameRun

LEMMA MemNodes ==
    ASSUME NEW m, IsMem(m), NEW nodes, Listed(nodes)
    PROVE  LET x == [m EXCEPT !.nodes = nodes] IN
           /\ IsMem(x) /\ x.status = m.status /\ x.nodes = nodes /\ x.result = m.result
           /\ SameRun(x, m)
  <1> DEFINE x == [m EXCEPT !.nodes = nodes]
  <1>1. QED
    BY DEF IsMem, SameRun

\* A record goes on fitting under another status.
LEMMA FitsStatus ==
    ASSUME NEW m, RecordFits(m), NEW status \in Terminal \cup {"running"},
           status \in Terminal => Closed(m), status # "completed"
    PROVE  RecordFits([m EXCEPT !.status = status])
  <1> DEFINE x == [m EXCEPT !.status = status]
  <1>1. /\ IsMem(x) /\ x.status = status /\ x.nodes = m.nodes /\ x.result = m.result
        /\ x.config = m.config /\ x.input = m.input /\ x.target = m.target
    BY MemStatus DEF RecordFits, SameRun
  <1> HIDE DEF x
  <1>2. NodesFit(x) /\ (status \in Terminal => Closed(x))
    BY <1>1 DEF RecordFits, NodesFit, Closed
  <1>3. RecordFits(x)
    BY <1>1, <1>2 DEF RecordFits, Terminal
  <1>4. QED
    BY <1>3 DEF x

\* What of the nodes a step wrote.
LEMMA FitsNodes ==
    ASSUME NEW m, RecordFits(m), m.status = "running", NEW nodes, Listed(nodes),
           nodes # <<>> => m.target \in Targets /\ Len(nodes) <= Len(Orders[m.target]),
           \A i \in DOMAIN nodes :
              /\ NodeFits(nodes[i])
              /\ nodes[i].node = Orders[m.target][i]
              /\ nodes[i].fp = Fingerprints(m.config, m.input)[nodes[i].node]
    PROVE  RecordFits([m EXCEPT !.nodes = nodes])
  <1> DEFINE x == [m EXCEPT !.nodes = nodes]
  <1>1. /\ IsMem(x) /\ x.status = m.status /\ x.nodes = nodes
        /\ x.config = m.config /\ x.input = m.input /\ x.target = m.target
    BY MemNodes DEF RecordFits, SameRun
  <1> HIDE DEF x
  <1>2. NodesFit(x)
    BY <1>1 DEF NodesFit
  <1>3. RecordFits(x)
    BY <1>1, <1>2 DEF RecordFits, Terminal
  <1>4. QED
    BY <1>3 DEF x

----------------------------------------------------------------------------
(* The steps of a run.                                                     *)

\* Run r goes on as p, or ends, having written m or failed to.
Writes(r, p, m) ==
    /\ live' = [live EXCEPT ![r] = p] /\ Persist(r, m) /\ UNCHANGED <<config, disk, stops>>
    /\ RecordFits(m) /\ m.status # "queued" /\ DoneIn(live[r].mem) \subseteq DoneIn(m)
    /\ p = Idle \/ (RunFits(p) /\ m = p.mem /\ m.status = "running")

\* It goes on as p without a word to the file.
Thinks(r, p) ==
    /\ live' = [live EXCEPT ![r] = p] /\ UNCHANGED <<config, disk, record, faults, stops>>
    /\ RunFits(p) /\ p.mem = live[r].mem

LEMMA RunStands ==
    ASSUME RunInv, NEW r \in RunIds, live[r].pc # "idle"
    PROVE  /\ RunFits(live[r]) /\ r \in DOMAIN record /\ OnFile(record[r], live[r])
           /\ IsMem(live[r].mem) /\ RecordFits(live[r].mem) /\ IsPlace(live[r])
  <1>1. live[r] # Idle
    BY DEF Idle
  <1>2. QED
    BY <1>1 DEF RunInv, RunFits, RecordFits

\* Where a run that has its order stands.
LEMMA PlaceFacts ==
    ASSUME NEW p, RunFits(p), p.pc \notin Early
    PROVE  /\ Underway(p) /\ RecordFits(p.mem) /\ p.mem.status = "running"
           /\ IsMem(p.mem) /\ Listed(p.mem.nodes) /\ IsPlace(p)
           /\ p.mem.target \in Targets /\ p.order = Orders[p.mem.target]
           /\ Len(p.order) \in Nat /\ p.k \in Nat /\ p.k \in 1..Len(p.order) + 1
           /\ p.pc \in InNode => p.k \in 1..Len(p.order) /\ Len(p.mem.nodes) = p.k
           /\ p.pc \notin InNode => Len(p.mem.nodes) = p.k - 1
           /\ DOMAIN p.mem.nodes = 1..Len(p.mem.nodes)
           /\ p.fps = Fingerprints(p.mem.config, p.mem.input)
  <1>1. /\ Underway(p) /\ RecordFits(p.mem) /\ p.mem.status = "running" /\ IsPlace(p)
    BY DEF RunFits, Early
  <1>2. IsMem(p.mem) /\ Listed(p.mem.nodes)
    BY <1>1 DEF RecordFits, IsMem
  <1>3. p.mem.target \in Targets /\ p.order = Orders[p.mem.target]
    BY <1>1 DEF Underway
  <1>4. Len(p.order) \in Nat
    BY <1>3, OrdersFit
  <1>5. p.k \in 1..Len(p.order) + 1 /\ p.fps = Fingerprints(p.mem.config, p.mem.input)
    BY <1>1 DEF Underway
  <1>6. p.pc \in InNode => p.k <= Len(p.order) /\ Len(p.mem.nodes) = p.k
    BY <1>1 DEF Underway
  <1>7. p.pc \notin InNode => Len(p.mem.nodes) = p.k - 1
    BY <1>1 DEF Underway
  <1>8. p.k \in Nat /\ (p.pc \in InNode => p.k \in 1..Len(p.order))
    BY <1>4, <1>5, <1>6
  <1>9. DOMAIN p.mem.nodes = 1..Len(p.mem.nodes)
    BY <1>2, ListedFacts
  <1>10. QED
    BY <1>1, <1>2, <1>3, <1>4, <1>5, <1>6, <1>7, <1>8, <1>9

LEMMA BeginStep ==
    ASSUME RunInv, NEW r \in RunIds, Begin(r)
    PROVE  \E p, m : Writes(r, p, m)
  <1> DEFINE old == live[r]
             m == [old.mem EXCEPT !.status = "running"]
             p == [old EXCEPT !.pc = "begun", !.mem.status = "running"]
  <1>1. old.pc = "prepared" /\ RunFits(old) /\ RecordFits(old.mem) /\ IsMem(old.mem) /\ IsPlace(old)
    BY RunStands DEF Begin
  <1>a. live' = [live EXCEPT ![r] = p] /\ Persist(r, p.mem) /\ UNCHANGED <<config, disk, stops>>
    BY DEF Begin, Continue
  <1> HIDE DEF old
  <1>3. RecordFits(m) /\ m.status = "running" /\ m.nodes = old.mem.nodes /\ DoneIn(m) = DoneIn(old.mem)
    <2>1. "running" \notin Terminal
      BY DEF Terminal
    <2>2. RecordFits(m)
      BY <1>1, <2>1, FitsStatus
    <2>3. QED
      BY <1>1, <2>2, MemStatus
  <1>4. /\ p.mem = m /\ IsPlace(p) /\ p.pc = "begun" /\ p.order = old.order /\ p.outputs = old.outputs
        /\ p.k = old.k
    BY <1>1 DEF IsPlace
  <1> HIDE DEF m, p
  <1>5. RunFits(p)
    BY <1>1, <1>3, <1>4 DEF RunFits, Early
  <1>6. Writes(r, p, m)
    BY <1>a, <1>3, <1>4, <1>5 DEF Writes, old
  <1>7. QED
    BY <1>6

\* What a replay finds: nodes of the newest completed run, with their outputs.
LEMMA ReplayCacheFacts ==
    ASSUME RunInv, NEW n \in DOMAIN ReplayCache
    PROVE  /\ CandidateRuns # {} /\ ReplaySource \in CandidateRuns /\ ReplaySource \in DOMAIN record
           /\ \E i \in DOMAIN record[ReplaySource].nodes :
                 /\ ReplayCache[n] = record[ReplaySource].nodes[i] /\ ReplayCache[n].node = n
                 /\ DOMAIN ReplayCache[n].output # {}
  <1>1. CandidateRuns # {}
    <2>1. CandidateRuns = {} => ReplayCache = Empty
      BY DEF ReplayCache
    <2>2. DOMAIN Empty = {}
      BY DEF Empty
    <2>3. QED
      BY <2>1, <2>2
  <1>2. ReplaySource \in CandidateRuns
    <2>1. Len(record) \in Nat /\ DOMAIN record = 1..Len(record)
      BY ListedFacts DEF RunInv
    <2>2. CandidateRuns \subseteq 0..Len(record)
      BY <2>1 DEF CandidateRuns
    <2>3. \E r \in CandidateRuns : \A s \in CandidateRuns : s <= r
      BY <1>1, <2>1, <2>2, Greatest
    <2>4. QED
      BY <2>3 DEF ReplaySource
  <1>3. ReplaySource \in DOMAIN record
    BY <1>2 DEF CandidateRuns
  <1> DEFINE nodes == record[ReplaySource].nodes
             entries == {e \in Elements(nodes) : Usable(e)}
             c == CHOOSE e \in entries : e.node = n
  <1>4. /\ ReplayCache = [x \in {e.node : e \in entries} |-> CHOOSE e \in entries : e.node = x]
    BY <1>1 DEF ReplayCache
  <1>5. n \in {e.node : e \in entries} /\ ReplayCache[n] = c
    BY <1>4
  <1>6. \E e \in entries : e.node = n
    BY <1>5
  <1>7. c \in entries /\ c.node = n
    BY <1>6
  <1> HIDE DEF c
  <1>8. PICK i \in DOMAIN nodes : c = nodes[i] /\ Usable(c)
    BY <1>7 DEF Elements
  <1>9. NodeFits(nodes[i])
    BY <1>3 DEF RunInv, RecordFits, NodesFit
  <1>10. DOMAIN c.output # {}
    BY <1>8, <1>9 DEF NodeFits, Usable, Done
  <1>11. QED
    BY <1>1, <1>2, <1>3, <1>5, <1>7, <1>8, <1>10

LEMMA PlanStep ==
    ASSUME RunInv, NEW r \in RunIds, Plan(r)
    PROVE  \E p : Thinks(r, p)
  <1> DEFINE old == live[r]
             m == old.mem
             cache == IF m.useCache THEN ReplayCache ELSE Empty
             kept == [n \in DOMAIN cache \ {m.target} |-> cache[n]]
             p == [old EXCEPT !.pc = "next", !.order = Orders[m.target],
                              !.fps = Fingerprints(m.config, m.input), !.cache = kept]
  <1>1. old.pc = "begun" /\ RunFits(old) /\ RecordFits(m) /\ IsPlace(old) /\ m.target \in Targets
    BY RunStands DEF Plan, Targets
  <1>2. live' = [live EXCEPT ![r] = p] /\ UNCHANGED <<config, disk, record, faults, stops>>
    BY DEF Plan
  <1>3. \A n \in DOMAIN kept : DOMAIN kept[n].output # {}
    <2>1. SUFFICES ASSUME NEW n \in DOMAIN cache PROVE DOMAIN cache[n].output # {}
      OBVIOUS
    <2>2. DOMAIN Empty = {}
      BY DEF Empty
    <2>3. m.useCache
      BY <2>1, <2>2
    <2>4. QED
      BY <2>3, ReplayCacheFacts
  <1> HIDE DEF old, kept
  <1>4. /\ IsPlace(p) /\ p.pc = "next" /\ p.mem = m /\ p.order = Orders[m.target]
        /\ p.fps = Fingerprints(m.config, m.input) /\ p.cache = kept /\ p.k = old.k
        /\ p.outputs = old.outputs
    BY <1>1 DEF IsPlace
  <1>5. m.nodes = <<>> /\ old.k = 1 /\ old.outputs = Empty /\ m.status = "running"
    BY <1>1 DEF RunFits, Early
  <1>6. Len(Orders[m.target]) \in Nat
    BY <1>1, OrdersFit
  <1> HIDE DEF p, m
  <1>7. Underway(p)
    <2>1. p.k = 1 /\ 1..p.k - 1 = {} /\ Len(m.nodes) = 0
      BY <1>4, <1>5
    <2>2. DOMAIN p.outputs = {}
      BY <1>4, <1>5 DEF Empty
    <2>3. p.k \in 1..Len(p.order) + 1
      BY <1>4, <1>6, <2>1
    <2>4. QED
      BY <1>1, <1>3, <1>4, <2>1, <2>2, <2>3 DEF Underway, InNode
  <1>8. RunFits(p)
    BY <1>1, <1>4, <1>5, <1>7 DEF RunFits, Early
  <1>9. Thinks(r, p)
    BY <1>2, <1>4, <1>8 DEF Thinks, m, old
  <1>10. QED
    BY <1>9

LEMMA RefuseStep ==
    ASSUME RunInv, NEW r \in RunIds, RefuseTarget(r)
    PROVE  \E p, m : Writes(r, p, m)
  <1> DEFINE m == [live[r].mem EXCEPT !.status = "failed"]
  <1>1. live[r].pc = "begun" /\ RunFits(live[r]) /\ RecordFits(live[r].mem) /\ IsMem(live[r].mem)
    BY RunStands DEF RefuseTarget
  <1>2. live[r].mem.nodes = <<>>
    BY <1>1 DEF RunFits, Early
  <1>3. Closed(live[r].mem)
    BY <1>2 DEF Closed
  <1>4. RecordFits(m)
    BY <1>1, <1>3, FitsStatus DEF Terminal
  <1>5. m.status = "failed" /\ DoneIn(m) = DoneIn(live[r].mem)
    BY <1>1, MemStatus
  <1>6. Writes(r, Idle, m)
    BY <1>4, <1>5 DEF Writes, RefuseTarget
  <1>7. QED
    BY <1>6

LEMMA StartStep ==
    ASSUME RunInv, NEW r \in RunIds, StartNode(r)
    PROVE  \E p, m : Writes(r, p, m)
  <1> DEFINE old == live[r]
             n == old.order[old.k]
             e == [node |-> n, status |-> "running", fp |-> old.fps[n], output |-> NoOutput]
             nodes == Append(old.mem.nodes, e)
             m == [old.mem EXCEPT !.nodes = nodes]
             p == [old EXCEPT !.pc = "node", !.mem.nodes = Append(@, e)]
  <1>1. /\ old.pc = "next" /\ old.k <= Len(old.order) /\ RunFits(old) /\ RecordFits(old.mem)
        /\ IsMem(old.mem) /\ IsPlace(old)
    BY RunStands DEF StartNode
  <1>2. live' = [live EXCEPT ![r] = p] /\ Persist(r, p.mem) /\ UNCHANGED <<config, disk, stops>>
    BY DEF StartNode, Continue
  <1>a. e.node = n /\ e.status = "running" /\ e.fp = old.fps[n] /\ e.output = NoOutput
        /\ NodeFits(e)
    BY DEF NodeFits, IsNode, Done
  <1>b. p.mem = m /\ IsPlace(p) /\ p.pc = "node"
        /\ p.order = old.order /\ p.fps = old.fps /\ p.cache = old.cache /\ p.k = old.k
        /\ p.outputs = old.outputs
    BY <1>1 DEF IsPlace
  <1> HIDE DEF old, e, p
  <1>3. /\ Underway(old) /\ old.mem.status = "running" /\ old.mem.target \in Targets
        /\ old.order = Orders[old.mem.target] /\ old.k \in 1..Len(old.order)
        /\ Len(old.order) \in Nat /\ Len(old.mem.nodes) = old.k - 1
        /\ old.fps = Fingerprints(old.mem.config, old.mem.input)
    <2>1. old.pc \notin Early /\ old.pc \notin InNode
      BY <1>1 DEF Early, InNode
    <2>2. QED
      BY <1>1, <2>1, PlaceFacts
  <1>4. /\ Listed(nodes) /\ Len(nodes) = old.k /\ DOMAIN nodes = 1..old.k
        /\ \A i \in 1..old.k - 1 : nodes[i] = old.mem.nodes[i]
        /\ nodes[old.k] = e /\ DOMAIN old.mem.nodes = 1..old.k - 1
    <2>1. Listed(old.mem.nodes)
      BY <1>1 DEF IsMem
    <2>2. Len(old.mem.nodes) + 1 = old.k
      BY <1>3
    <2>3. QED
      BY <1>3, <2>1, <2>2, AppendListed, ListedFacts
  <1> HIDE DEF nodes
  <1>5. RecordFits(m)
    <2>1. \A i \in 1..old.k - 1 :
             /\ NodeFits(nodes[i]) /\ nodes[i].node = Orders[old.mem.target][i]
             /\ nodes[i].fp = Fingerprints(old.mem.config, old.mem.input)[nodes[i].node]
      BY <1>1, <1>4 DEF RecordFits, NodesFit
    <2>2. /\ NodeFits(nodes[old.k]) /\ nodes[old.k].node = Orders[old.mem.target][old.k]
          /\ nodes[old.k].fp = Fingerprints(old.mem.config, old.mem.input)[nodes[old.k].node]
      BY <1>a, <1>3, <1>4
    <2>3. \A i \in 1..old.k : i = old.k \/ i \in 1..old.k - 1
      BY <1>3
    <2>4. Len(nodes) <= Len(Orders[old.mem.target])
      BY <1>3, <1>4
    <2>5. QED
      BY <1>1, <1>3, <1>4, <2>1, <2>2, <2>3, <2>4, FitsNodes
  <1>6. /\ IsMem(m) /\ m.status = "running" /\ m.nodes = nodes /\ m.target = old.mem.target
        /\ m.config = old.mem.config /\ m.input = old.mem.input
    BY <1>1, <1>3, <1>4, MemNodes DEF SameRun
  <1>7. DoneIn(old.mem) \subseteq DoneIn(m)
    BY <1>3, <1>4, <1>6 DEF DoneIn
  <1> HIDE DEF m
  <1>8. Underway(p)
    <2>1. /\ \A x \in DOMAIN p.cache : DOMAIN p.cache[x].output # {}
          /\ DOMAIN p.outputs = {p.order[i] : i \in 1..p.k - 1}
          /\ \A x \in DOMAIN p.outputs : DOMAIN p.outputs[x] # {}
      <3>1. \A x \in DOMAIN old.cache : DOMAIN old.cache[x].output # {}
        BY <1>3 DEF Underway
      <3>2. DOMAIN old.outputs = {old.order[i] : i \in 1..old.k - 1}
        BY <1>3 DEF Underway
      <3>3. \A x \in DOMAIN old.outputs : DOMAIN old.outputs[x] # {}
        BY <1>3 DEF Underway
      <3>4. QED
        BY <1>b, <3>1, <3>2, <3>3
    <2>2. \A i \in 1..p.k - 1 : m.nodes[i].status \in {"completed"}
      BY <1>1, <1>b, <1>3, <1>4, <1>6 DEF Underway
    <2>3. m.nodes[p.k].status = "running"
      BY <1>a, <1>b, <1>4, <1>6
    <2>4. /\ p.mem.target \in Targets /\ p.order = Orders[p.mem.target]
          /\ p.fps = Fingerprints(p.mem.config, p.mem.input)
          /\ p.k \in 1..Len(p.order) + 1 /\ Len(m.nodes) = p.k /\ p.k <= Len(p.order)
      BY <1>b, <1>3, <1>4, <1>6
    <2>5. QED
      BY <1>b, <2>1, <2>2, <2>3, <2>4 DEF Underway, InNode
  <1>9. RunFits(p)
    BY <1>b, <1>5, <1>6, <1>8 DEF RunFits, Early, InNode
  <1>10. Writes(r, p, m)
    BY <1>2, <1>b, <1>5, <1>6, <1>7, <1>9 DEF Writes, old
  <1>11. QED
    BY <1>10

\* The record of the node being executed is closed.
LEMMA NodeEndedFacts ==
    ASSUME NEW p, RunFits(p), p.pc = "node", NEW status \in {"completed", "failed"}, NEW output,
           IF status = "completed" THEN DOMAIN output # {} ELSE output = NoOutput
    PROVE  LET m == NodeEnded(p, status, output) IN
           /\ RecordFits(m) /\ m.status = "running" /\ m.target = p.mem.target
           /\ m.config = p.mem.config /\ m.input = p.mem.input
           /\ Len(m.nodes) = p.k /\ p.k \in Nat /\ m.nodes[p.k].status = status
           /\ \A i \in 1..p.k - 1 : m.nodes[i] = p.mem.nodes[i]
           /\ DoneIn(p.mem) \subseteq DoneIn(m)
           /\ DOMAIN m.nodes = 1..p.k /\ DOMAIN p.mem.nodes = 1..p.k
           /\ m.nodes[p.k].output = output /\ m.nodes[p.k].node = p.order[p.k]
  <1> DEFINE old == p.mem.nodes
             e == [old[p.k] EXCEPT !.status = status, !.output = output]
             nodes == [old EXCEPT ![p.k] = e]
             m == [p.mem EXCEPT !.nodes = nodes]
  <1>1. /\ Underway(p) /\ RecordFits(p.mem) /\ p.mem.status = "running"
    BY DEF RunFits, Early
  <1>2. /\ IsMem(p.mem) /\ Listed(old) /\ Len(old) = p.k /\ p.k \in 1..Len(p.order)
        /\ p.mem.target \in Targets /\ p.order = Orders[p.mem.target] /\ p.k \in Nat
        /\ Len(p.order) \in Nat /\ old[p.k].status = "running"
    <2>1. IsMem(p.mem) /\ Listed(old)
      BY <1>1 DEF RecordFits, IsMem
    <2>2. p.mem.target \in Targets /\ p.order = Orders[p.mem.target]
      BY <1>1 DEF Underway
    <2>3. Len(p.order) \in Nat
      BY <2>2, OrdersFit
    <2>4. QED
      BY <1>1, <2>1, <2>2, <2>3 DEF Underway, InNode
  <1>3. NodeEnded(p, status, output) = m
    BY <1>2 DEF NodeEnded
  <1>4. DOMAIN old = 1..p.k /\ p.k \in DOMAIN old
    BY <1>2, ListedFacts
  <1>5. \A i \in 1..p.k :
           /\ NodeFits(old[i]) /\ old[i].node = Orders[p.mem.target][i]
           /\ old[i].fp = Fingerprints(p.mem.config, p.mem.input)[old[i].node]
    BY <1>1, <1>4 DEF RecordFits, NodesFit
  <1>6. /\ NodeFits(e) /\ e.node = old[p.k].node /\ e.fp = old[p.k].fp /\ e.status = status
        /\ e.output = output
    <2>1. IsNode(old[p.k])
      BY <1>4, <1>5 DEF NodeFits
    <2>2. /\ IsNode(e) /\ e.node = old[p.k].node /\ e.fp = old[p.k].fp /\ e.status = status
          /\ e.output = output
      BY <2>1 DEF IsNode
    <2> HIDE DEF e
    <2>3. QED
      BY <2>2 DEF NodeFits, Done
  <1> HIDE DEF e
  <1>7. /\ Listed(nodes) /\ Len(nodes) = p.k /\ DOMAIN nodes = 1..p.k
        /\ \A i \in 1..p.k : nodes[i] = IF i = p.k THEN e ELSE old[i]
    BY <1>2, <1>4, ExceptListed
  <1> HIDE DEF nodes
  <1>8. RecordFits(m)
    <2>1. \A i \in DOMAIN nodes :
             /\ NodeFits(nodes[i]) /\ nodes[i].node = Orders[p.mem.target][i]
             /\ nodes[i].fp = Fingerprints(p.mem.config, p.mem.input)[nodes[i].node]
      BY <1>4, <1>5, <1>6, <1>7
    <2>2. Len(nodes) <= Len(Orders[p.mem.target])
      BY <1>2, <1>7
    <2>3. QED
      BY <1>1, <1>2, <1>7, <2>1, <2>2, FitsNodes
  <1>9. /\ m.status = "running" /\ m.nodes = nodes /\ m.target = p.mem.target
        /\ m.config = p.mem.config /\ m.input = p.mem.input
    BY <1>1, <1>2, <1>7, MemNodes DEF SameRun
  <1> HIDE DEF m
  <1>10. DoneIn(p.mem) \subseteq DoneIn(m)
    <2>1. \A i \in 1..p.k : old[i].status \in {"completed", "cached"} => i # p.k
      BY <1>2
    <2>2. QED
      BY <1>4, <1>7, <1>9, <2>1 DEF DoneIn
  <1>11. \A i \in 1..p.k - 1 : m.nodes[i] = old[i]
    <2>1. \A i \in 1..p.k - 1 : i \in 1..p.k /\ i # p.k
      BY <1>2
    <2>2. QED
      BY <1>7, <1>9, <2>1
  <1>12. /\ m.nodes[p.k].status = status /\ m.nodes[p.k].output = output
         /\ m.nodes[p.k].node = p.order[p.k]
    BY <1>2, <1>4, <1>5, <1>6, <1>7, <1>9
  <1>13. QED
    BY <1>2, <1>3, <1>4, <1>7, <1>8, <1>9, <1>10, <1>11, <1>12

LEMMA SanitizedKeeps ==
    ASSUME NEW n, NEW value, DOMAIN value # {}
    PROVE  DOMAIN Sanitized(n, value) # {}
  BY DEF Sanitized

\* The node comes out, whatever its output is.
LEMMA OutputStep ==
    ASSUME RunInv, NEW r \in RunIds, live[r].pc = "node", NEW value, DOMAIN value # {},
           Continue(r, WithOutput(live[r], live[r].order[live[r].k], value))
    PROVE  \E p, m : Writes(r, p, m)
  <1> DEFINE old == live[r]
             n == old.order[old.k]
             output == Sanitized(n, value)
             m == NodeEnded(old, "completed", output)
             outputs == [x \in DOMAIN old.outputs \cup {n} |-> IF x = n THEN value ELSE old.outputs[x]]
             p == WithOutput(old, n, value)
  <1>1. RunFits(old) /\ IsPlace(old) /\ old.pc \notin Early /\ old.pc \in InNode /\ old.pc = "node"
    BY RunStands DEF Early, InNode
  <1>2. /\ live' = [live EXCEPT ![r] = p] /\ Persist(r, p.mem)
        /\ UNCHANGED <<config, disk, stops>>
    BY DEF Continue
  <1>3. DOMAIN output # {}
    BY SanitizedKeeps
  <1> HIDE DEF output
  <1>4. /\ IsPlace(p) /\ p.pc = "next" /\ p.k = old.k + 1 /\ p.mem = m /\ p.order = old.order
        /\ p.fps = old.fps /\ p.cache = old.cache /\ p.outputs = outputs
    BY <1>1 DEF WithOutput, IsPlace, output
  <1> HIDE DEF old, p
  <1>5. /\ Underway(old) /\ old.mem.target \in Targets /\ old.order = Orders[old.mem.target]
        /\ Len(old.order) \in Nat /\ old.k \in 1..Len(old.order) /\ old.k \in Nat
        /\ old.fps = Fingerprints(old.mem.config, old.mem.input)
    BY <1>1, PlaceFacts
  <1>6. /\ RecordFits(m) /\ m.status = "running" /\ m.target = old.mem.target
        /\ m.config = old.mem.config /\ m.input = old.mem.input
        /\ Len(m.nodes) = old.k /\ m.nodes[old.k].status = "completed"
        /\ \A i \in 1..old.k - 1 : m.nodes[i] = old.mem.nodes[i]
        /\ DoneIn(old.mem) \subseteq DoneIn(m)
    BY <1>1, <1>3, NodeEndedFacts
  <1> HIDE DEF m
  <1>7. Underway(p)
    <2>1. \A x \in DOMAIN p.cache : DOMAIN p.cache[x].output # {}
      <3>1. \A x \in DOMAIN old.cache : DOMAIN old.cache[x].output # {}
        BY <1>5 DEF Underway
      <3>2. QED
        BY <1>4, <3>1
    <2>2. \A i \in 1..p.k - 1 : m.nodes[i].status \in {"completed"}
      <3>1. \A i \in 1..old.k - 1 : old.mem.nodes[i].status \in {"completed"}
        BY <1>1, <1>5 DEF Underway
      <3>2. \A i \in 1..p.k - 1 : i = old.k \/ i \in 1..old.k - 1
        BY <1>4, <1>5
      <3>3. QED
        BY <1>6, <3>1, <3>2
    <2>3. DOMAIN p.outputs = {p.order[i] : i \in 1..p.k - 1}
      <3>1. DOMAIN old.outputs = {old.order[i] : i \in 1..old.k - 1}
        BY <1>5 DEF Underway
      <3>2. p.k - 1 = old.k /\ DOMAIN p.outputs = DOMAIN old.outputs \cup {n}
        BY <1>4, <1>5
      <3>3. \A i \in 1..old.k : i = old.k \/ i \in 1..old.k - 1
        BY <1>5
      <3>4. \A i \in 1..old.k - 1 : i \in 1..old.k
        BY <1>5
      <3>5. old.k \in 1..old.k
        BY <1>5
      <3> HIDE DEF n, outputs
      <3>6. DOMAIN p.outputs = {old.order[i] : i \in 1..old.k}
        BY <3>1, <3>2, <3>3, <3>4, <3>5 DEF n
      <3>7. QED
        BY <1>4, <3>2, <3>6
    <2>4. \A x \in DOMAIN p.outputs : DOMAIN p.outputs[x] # {}
      <3>1. \A x \in DOMAIN old.outputs : DOMAIN old.outputs[x] # {}
        BY <1>5 DEF Underway
      <3>2. QED
        BY <1>4, <3>1
    <2>5. /\ p.mem.target \in Targets /\ p.order = Orders[p.mem.target]
          /\ p.fps = Fingerprints(p.mem.config, p.mem.input)
          /\ p.k \in 1..Len(p.order) + 1 /\ Len(m.nodes) = p.k - 1
      BY <1>4, <1>5, <1>6
    <2>6. QED
      BY <1>4, <2>1, <2>2, <2>3, <2>4, <2>5 DEF Underway, InNode
  <1>8. RunFits(p)
    BY <1>4, <1>6, <1>7 DEF RunFits, Early, InNode
  <1>9. Writes(r, p, m)
    BY <1>2, <1>4, <1>6, <1>8 DEF Writes, old
  <1>10. QED
    BY <1>9

LEMMA ReplayStep ==
    ASSUME RunInv, NEW r \in RunIds, ReplayNode(r)
    PROVE  \E p, m : Writes(r, p, m)
  <1> DEFINE old == live[r]
             n == old.order[old.k]
  <1>1. old.pc = "node" /\ n \in DOMAIN old.cache
    BY DEF ReplayNode, Replayable
  <1>2. Underway(old)
    <2>1. old.pc \notin Early
      BY <1>1 DEF Early
    <2>2. QED
      BY <1>1, <2>1, RunStands, PlaceFacts
  <1>3. DOMAIN old.cache[n].output # {}
    BY <1>1, <1>2 DEF Underway
  <1>4. Continue(r, WithOutput(old, n, old.cache[n].output))
    BY DEF ReplayNode
  <1>5. QED
    BY <1>1, <1>3, <1>4, OutputStep

LEMMA ExecuteStep ==
    ASSUME RunInv, NEW r \in RunIds, ExecuteNode(r)
    PROVE  \E p, m : Writes(r, p, m)
  <1> DEFINE old == live[r]
             n == old.order[old.k]
             ups == UpstreamOf(GraphOf(old.mem), n)
             value == Value(GraphOf(old.mem), n, old.mem.config, old.mem.input, disk,
                            [i \in DOMAIN ups |-> old.outputs[ups[i]]])
  <1>1. old.pc = "node" /\ Continue(r, WithOutput(old, n, value))
    BY DEF ExecuteNode
  <1>2. "node" \in DOMAIN value
    BY DEF Value
  <1> HIDE DEF value
  <1>3. QED
    BY <1>1, <1>2, OutputStep

LEMMA FailNodeStep ==
    ASSUME RunInv, NEW r \in RunIds, FailNode(r)
    PROVE  \E p, m : Writes(r, p, m)
  <1> DEFINE old == live[r]
             m == NodeEnded(old, "failed", NoOutput)
             p == [old EXCEPT !.pc = "failing", !.mem = m]
  <1>1. RunFits(old) /\ IsPlace(old) /\ old.pc \notin Early /\ old.pc \in InNode /\ old.pc = "node"
    BY RunStands DEF FailNode, Early, InNode
  <1>2. /\ live' = [live EXCEPT ![r] = p] /\ Persist(r, p.mem)
        /\ UNCHANGED <<config, disk, stops>>
    BY DEF FailNode, Continue
  <1> HIDE DEF old
  <1>4. /\ IsPlace(p) /\ p.pc = "failing" /\ p.k = old.k /\ p.mem = m /\ p.order = old.order
        /\ p.fps = old.fps /\ p.cache = old.cache /\ p.outputs = old.outputs
    <2> HIDE DEF m
    <2>1. QED
      BY <1>1 DEF IsPlace
  <1> HIDE DEF p
  <1>5. /\ Underway(old) /\ old.mem.target \in Targets /\ old.order = Orders[old.mem.target]
        /\ Len(old.order) \in Nat /\ old.k \in 1..Len(old.order) /\ old.k \in Nat
        /\ old.k \in 1..Len(old.order) + 1
        /\ old.fps = Fingerprints(old.mem.config, old.mem.input)
    BY <1>1, PlaceFacts
  <1>6. /\ RecordFits(m) /\ m.status = "running" /\ m.target = old.mem.target
        /\ m.config = old.mem.config /\ m.input = old.mem.input
        /\ Len(m.nodes) = old.k /\ m.nodes[old.k].status = "failed"
        /\ \A i \in 1..old.k - 1 : m.nodes[i] = old.mem.nodes[i]
        /\ DoneIn(old.mem) \subseteq DoneIn(m)
    BY <1>1, NodeEndedFacts
  <1> HIDE DEF m
  <1>7. Underway(p)
    <2>1. /\ \A x \in DOMAIN old.cache : DOMAIN old.cache[x].output # {}
          /\ \A x \in DOMAIN old.outputs : DOMAIN old.outputs[x] # {}
      BY <1>5 DEF Underway
    <2>2. DOMAIN old.outputs = {old.order[i] : i \in 1..old.k - 1}
      BY <1>5 DEF Underway
    <2>3. \A i \in 1..old.k - 1 : old.mem.nodes[i].status \in {"completed"}
      BY <1>1, <1>5 DEF Underway
    <2>4. \A i \in 1..p.k - 1 : m.nodes[i].status \in {"completed"}
      BY <1>4, <1>6, <2>3
    <2>5. /\ \A x \in DOMAIN p.cache : DOMAIN p.cache[x].output # {}
          /\ \A x \in DOMAIN p.outputs : DOMAIN p.outputs[x] # {}
          /\ DOMAIN p.outputs = {p.order[i] : i \in 1..p.k - 1}
      BY <1>4, <2>1, <2>2
    <2>6. /\ p.mem.target \in Targets /\ p.order = Orders[p.mem.target]
          /\ p.fps = Fingerprints(p.mem.config, p.mem.input)
          /\ p.k \in 1..Len(p.order) + 1 /\ Len(m.nodes) = p.k /\ p.k <= Len(p.order)
      BY <1>4, <1>5, <1>6
    <2>7. m.nodes[p.k].status = "failed"
      BY <1>4, <1>6
    <2>8. QED
      BY <1>4, <2>4, <2>5, <2>6, <2>7 DEF Underway, InNode
  <1>8. RunFits(p)
    BY <1>4, <1>6, <1>7 DEF RunFits, Early, InNode
  <1>9. Writes(r, p, m)
    BY <1>2, <1>4, <1>6, <1>8 DEF Writes, old
  <1>10. QED
    BY <1>9

\* Of a run that stopped at a node, no node is still running.
LEMMA FailRunStep ==
    ASSUME RunInv, NEW r \in RunIds, FailRun(r)
    PROVE  \E p, m : Writes(r, p, m)
  <1> DEFINE old == live[r]
             status == IF old.ctx = "cancelled" THEN "cancelled" ELSE "failed"
             m == [old.mem EXCEPT !.status = status]
  <1>1. /\ RunFits(old) /\ old.pc \notin Early /\ old.pc \in InNode /\ old.pc = "failing"
        /\ live' = [live EXCEPT ![r] = Idle] /\ Persist(r, m)
        /\ UNCHANGED <<config, disk, stops>>
    BY RunStands DEF FailRun, Early, InNode
  <1> HIDE DEF old
  <1>2. /\ Underway(old) /\ RecordFits(old.mem) /\ IsMem(old.mem) /\ old.k \in Nat
        /\ DOMAIN old.mem.nodes = 1..old.k
    BY <1>1, PlaceFacts
  <1>3. Closed(old.mem)
    <2>1. \A i \in 1..old.k - 1 : old.mem.nodes[i].status \in {"completed"}
      BY <1>1, <1>2 DEF Underway
    <2>2. old.mem.nodes[old.k].status = "failed"
      BY <1>1, <1>2 DEF Underway
    <2>3. \A i \in 1..old.k : i = old.k \/ i \in 1..old.k - 1
      BY <1>2
    <2>4. QED
      BY <1>2, <2>1, <2>2, <2>3 DEF Closed
  <1>4. status \in Terminal \cup {"running"} /\ status # "completed" /\ status # "queued"
    BY DEF Terminal
  <1> HIDE DEF status
  <1>5. RecordFits(m)
    BY <1>2, <1>3, <1>4, FitsStatus
  <1>6. m.status = status /\ DoneIn(m) = DoneIn(old.mem)
    BY <1>2, MemStatus
  <1>7. Writes(r, Idle, m)
    BY <1>1, <1>4, <1>5, <1>6 DEF Writes, old
  <1>8. QED
    BY <1>7

\* What of a run's place the order depends on: a run that is elsewhere fits
\* when it holds the same.
LEMMA SettlePlace ==
    ASSUME NEW old, RunFits(old), old.pc = "next", old.k > Len(old.order),
           NEW p, IsPlace(p), p.pc = "settle", p.k = old.k, p.order = old.order,
           p.fps = old.fps, p.cache = old.cache, p.outputs = old.outputs,
           RecordFits(p.mem), p.mem.status = "running", p.mem.target = old.mem.target,
           p.mem.config = old.mem.config, p.mem.input = old.mem.input,
           Len(p.mem.nodes) = Len(old.mem.nodes),
           \A i \in DOMAIN old.mem.nodes :
              old.mem.nodes[i].status = "completed" => p.mem.nodes[i].status \in Done
    PROVE  RunFits(p)
  <1>1. old.pc \notin Early /\ old.pc \notin InNode
    BY DEF Early, InNode
  <1>2. /\ Underway(old) /\ old.mem.target \in Targets /\ old.order = Orders[old.mem.target]
        /\ Len(old.order) \in Nat /\ old.k \in Nat /\ old.k \in 1..Len(old.order) + 1
        /\ Len(old.mem.nodes) = old.k - 1 /\ DOMAIN old.mem.nodes = 1..old.k - 1
        /\ old.fps = Fingerprints(old.mem.config, old.mem.input)
    BY <1>1, PlaceFacts
  <1>3. old.k = Len(old.order) + 1
    BY <1>2
  <1>4. /\ \A x \in DOMAIN old.cache : DOMAIN old.cache[x].output # {}
        /\ \A x \in DOMAIN old.outputs : DOMAIN old.outputs[x] # {}
    BY <1>2 DEF Underway
  <1>5. DOMAIN old.outputs = {old.order[i] : i \in 1..old.k - 1}
    BY <1>2 DEF Underway
  <1>6. \A i \in 1..old.k - 1 : old.mem.nodes[i].status \in {"completed"}
    BY <1>2 DEF Underway
  <1>7. \A i \in 1..p.k - 1 : p.mem.nodes[i].status \in Done
    BY <1>2, <1>6
  <1>8. /\ \A x \in DOMAIN p.cache : DOMAIN p.cache[x].output # {}
        /\ \A x \in DOMAIN p.outputs : DOMAIN p.outputs[x] # {}
        /\ DOMAIN p.outputs = {p.order[i] : i \in 1..p.k - 1}
    BY <1>4, <1>5
  <1>9. /\ p.mem.target \in Targets /\ p.order = Orders[p.mem.target]
        /\ p.fps = Fingerprints(p.mem.config, p.mem.input)
        /\ p.k \in 1..Len(p.order) + 1 /\ Len(p.mem.nodes) = p.k - 1 /\ p.k = Len(p.order) + 1
    BY <1>2, <1>3
  <1>10. Underway(p)
    BY <1>7, <1>8, <1>9 DEF Underway, InNode
  <1>11. QED
    BY <1>10 DEF RunFits, Early, InNode

\* What MarkReplayed makes of the record.
LEMMA FlaggedFacts ==
    ASSUME NEW p, IsMem(p.mem), RecordFits(p.mem), p.mem.status = "running",
           p.mem.nodes # <<>> => p.mem.target \in Targets
    PROVE  LET m == Flagged(p) IN
           /\ RecordFits(m) /\ m.status = "running" /\ m.target = p.mem.target
           /\ m.config = p.mem.config /\ m.input = p.mem.input
           /\ Len(m.nodes) = Len(p.mem.nodes) /\ DOMAIN m.nodes = DOMAIN p.mem.nodes
           /\ \A i \in DOMAIN p.mem.nodes :
                 /\ p.mem.nodes[i].status = "completed" => m.nodes[i].status \in Done
                 /\ m.nodes[i].status \in Done => p.mem.nodes[i].status \in Done
                 /\ m.nodes[i].node = p.mem.nodes[i].node
                 /\ m.nodes[i].output = p.mem.nodes[i].output
           /\ DoneIn(p.mem) \subseteq DoneIn(m)
  <1> DEFINE old == p.mem.nodes
             ToFlag(i) == old[i].node \in ReplayedIn(p) /\ old[i].status = "completed"
             nodes == [i \in DOMAIN old |->
                          IF ToFlag(i) THEN [old[i] EXCEPT !.status = "cached"] ELSE old[i]]
             m == [p.mem EXCEPT !.nodes = nodes]
  <1>1. Flagged(p) = m
    BY DEF Flagged
  <1>2. Listed(old) /\ Len(old) \in Nat /\ DOMAIN old = 1..Len(old)
    BY ListedFacts DEF IsMem
  <1>3. \A i \in DOMAIN old :
           /\ NodeFits(old[i]) /\ old[i].node = Orders[p.mem.target][i]
           /\ old[i].fp = Fingerprints(p.mem.config, p.mem.input)[old[i].node]
    BY DEF RecordFits, NodesFit
  <1>4. \A i \in DOMAIN old :
           /\ NodeFits(nodes[i]) /\ nodes[i].node = old[i].node /\ nodes[i].fp = old[i].fp
           /\ nodes[i].status \in Done \/ nodes[i].status = old[i].status
           /\ old[i].status \in Done <=> nodes[i].status \in Done
           /\ nodes[i].output = old[i].output
    <2>1. SUFFICES ASSUME NEW i \in DOMAIN old
                   PROVE  /\ NodeFits(nodes[i]) /\ nodes[i].node = old[i].node
                          /\ nodes[i].fp = old[i].fp
                          /\ nodes[i].status \in Done \/ nodes[i].status = old[i].status
                          /\ old[i].status \in Done <=> nodes[i].status \in Done
                          /\ nodes[i].output = old[i].output
      OBVIOUS
    <2>2. CASE ToFlag(i)
      <3> DEFINE e == [old[i] EXCEPT !.status = "cached"]
      <3>1. nodes[i] = e /\ old[i].status = "completed"
        BY <2>1, <2>2
      <3>2. IsNode(old[i]) /\ DOMAIN old[i].output # {}
        BY <1>3, <2>1, <3>1 DEF NodeFits, Done
      <3>3. /\ IsNode(e) /\ e.status = "cached" /\ e.node = old[i].node /\ e.fp = old[i].fp
            /\ e.output = old[i].output
        BY <3>2 DEF IsNode
      <3> HIDE DEF e, nodes
      <3>4. NodeFits(e)
        BY <3>2, <3>3 DEF NodeFits, Done
      <3>5. QED
        BY <3>1, <3>3, <3>4 DEF Done
    <2>3. CASE ~ToFlag(i)
      <3>1. nodes[i] = old[i]
        BY <2>1, <2>3
      <3> HIDE DEF nodes
      <3>2. QED
        BY <1>3, <2>1, <3>1
    <2>4. QED
      BY <2>2, <2>3
  <1>5. DOMAIN nodes = 1..Len(old) /\ nodes = [i \in 1..Len(old) |-> nodes[i]]
    BY <1>2
  <1> HIDE DEF nodes
  <1>6. Listed(nodes) /\ Len(nodes) = Len(old)
    BY <1>2, <1>5, ListedIf
  <1>7. nodes # <<>> => old # <<>>
    <2>1. Len(old) = 0 => nodes = <<>>
      BY <1>6, EmptySeq DEF Listed
    <2>2. old = <<>> => Len(old) = 0
      OBVIOUS
    <2>3. QED
      BY <2>1, <2>2
  <1>8. nodes # <<>> => p.mem.target \in Targets /\ Len(nodes) <= Len(Orders[p.mem.target])
    BY <1>6, <1>7 DEF RecordFits, NodesFit
  <1>9. RecordFits(m)
    <2>1. \A i \in DOMAIN nodes :
             /\ NodeFits(nodes[i]) /\ nodes[i].node = Orders[p.mem.target][i]
             /\ nodes[i].fp = Fingerprints(p.mem.config, p.mem.input)[nodes[i].node]
      BY <1>2, <1>3, <1>4, <1>5
    <2>2. QED
      BY <1>6, <1>8, <2>1, FitsNodes
  <1>10. /\ m.status = "running" /\ m.nodes = nodes /\ m.target = p.mem.target
         /\ m.config = p.mem.config /\ m.input = p.mem.input
    BY <1>6, MemNodes DEF SameRun
  <1> HIDE DEF m
  <1>11. \A i \in DOMAIN old : old[i].status = "completed" => m.nodes[i].status \in Done
    BY <1>4, <1>10 DEF Done
  <1>12. DoneIn(p.mem) \subseteq DoneIn(m)
    <2>1. SUFFICES ASSUME NEW x \in DoneIn(p.mem) PROVE x \in DoneIn(m)
      OBVIOUS
    <2>2. PICK i \in DOMAIN old : old[i].status \in {"completed", "cached"} /\ x = old[i].node
      BY <2>1 DEF DoneIn
    <2>3. i \in DOMAIN m.nodes /\ m.nodes[i].status \in {"completed", "cached"} /\ x = m.nodes[i].node
      BY <1>2, <1>4, <1>5, <1>10, <2>2 DEF Done
    <2>4. QED
      BY <2>3 DEF DoneIn
  <1>13. QED
    BY <1>1, <1>2, <1>4, <1>5, <1>6, <1>9, <1>10, <1>11, <1>12

LEMMA MarkStep ==
    ASSUME RunInv, NEW r \in RunIds, MarkReplayed(r)
    PROVE  \/ \E p, m : Writes(r, p, m)
           \/ \E p : Thinks(r, p)
  <1> DEFINE old == live[r]
  <1>1. /\ RunFits(old) /\ IsPlace(old) /\ old.pc = "next" /\ old.k > Len(old.order)
        /\ old.pc \notin Early
    BY RunStands DEF MarkReplayed, Early
  <1>2. /\ RecordFits(old.mem) /\ IsMem(old.mem) /\ old.mem.status = "running"
        /\ old.mem.target \in Targets
    BY <1>1, PlaceFacts
  <1>3. CASE ReplayedIn(old) = {}
    <2> DEFINE p == [old EXCEPT !.pc = "settle"]
    <2>1. live' = [live EXCEPT ![r] = p] /\ UNCHANGED <<config, disk, record, faults, stops>>
      BY <1>3 DEF MarkReplayed
    <2> HIDE DEF old
    <2>2. /\ IsPlace(p) /\ p.pc = "settle" /\ p.k = old.k /\ p.order = old.order
          /\ p.fps = old.fps /\ p.cache = old.cache /\ p.outputs = old.outputs /\ p.mem = old.mem
      BY <1>1 DEF IsPlace
    <2> HIDE DEF p
    <2>3. RunFits(p)
      <3>1. \A i \in DOMAIN old.mem.nodes :
               old.mem.nodes[i].status = "completed" => p.mem.nodes[i].status \in Done
        BY <2>2 DEF Done
      <3>2. QED
        BY <1>1, <1>2, <2>2, <3>1, SettlePlace
    <2>4. Thinks(r, p)
      BY <2>1, <2>2, <2>3 DEF Thinks, old
    <2>5. QED
      BY <2>4
  <1>4. CASE ReplayedIn(old) # {}
    <2> DEFINE m == Flagged(old)
               p == [old EXCEPT !.pc = "settle", !.mem = m]
    <2>1. live' = [live EXCEPT ![r] = p] /\ Persist(r, p.mem) /\ UNCHANGED <<config, disk, stops>>
      BY <1>4 DEF MarkReplayed, Continue
    <2> HIDE DEF old, m
    <2>2. /\ IsPlace(p) /\ p.pc = "settle" /\ p.k = old.k /\ p.order = old.order
          /\ p.fps = old.fps /\ p.cache = old.cache /\ p.outputs = old.outputs /\ p.mem = m
      BY <1>1 DEF IsPlace
    <2> HIDE DEF p
    <2>3. /\ RecordFits(m) /\ m.status = "running" /\ m.target = old.mem.target
          /\ m.config = old.mem.config /\ m.input = old.mem.input
          /\ Len(m.nodes) = Len(old.mem.nodes)
          /\ \A i \in DOMAIN old.mem.nodes :
                old.mem.nodes[i].status = "completed" => m.nodes[i].status \in Done
          /\ DoneIn(old.mem) \subseteq DoneIn(m)
      BY <1>2, FlaggedFacts DEF m
    <2>4. RunFits(p)
      BY <1>1, <2>2, <2>3, SettlePlace
    <2>5. Writes(r, p, m)
      BY <2>1, <2>2, <2>3, <2>4 DEF Writes, old
    <2>6. QED
      BY <2>5
  <1>5. QED
    BY <1>3, <1>4

\* Every node of the order came out, and the result shows one of them at least.
LEMMA CompleteStep ==
    ASSUME RunInv, NEW r \in RunIds, Complete(r)
    PROVE  \E p, m : Writes(r, p, m)
  <1> DEFINE old == live[r]
             result == ResultOf(old)
             m == [old.mem EXCEPT !.status = "completed", !.result = result]
  <1>1. /\ RunFits(old) /\ old.pc \notin Early /\ old.pc \notin InNode /\ old.pc = "settle"
        /\ live' = [live EXCEPT ![r] = Idle] /\ Persist(r, m)
        /\ UNCHANGED <<config, disk, stops>>
    BY RunStands DEF Complete, Early, InNode
  <1> HIDE DEF old
  <1>2. /\ Underway(old) /\ RecordFits(old.mem) /\ IsMem(old.mem) /\ old.k \in Nat
        /\ old.mem.target \in Targets /\ old.order = Orders[old.mem.target]
        /\ Len(old.order) \in Nat /\ Len(old.mem.nodes) = old.k - 1
        /\ DOMAIN old.mem.nodes = 1..old.k - 1
    BY <1>1, PlaceFacts
  <1>3. old.k = Len(old.order) + 1
    BY <1>1, <1>2 DEF Underway
  <1>4. \A i \in DOMAIN old.mem.nodes : old.mem.nodes[i].status \in Done
    BY <1>1, <1>2 DEF Underway
  <1>5. old.mem.nodes # <<>> => DOMAIN result # {}
    <2>1. SUFFICES ASSUME old.mem.nodes # <<>> PROVE DOMAIN result # {}
      OBVIOUS
    <2>2. Len(old.order) > 0
      <3>1. Listed(old.mem.nodes)
        BY <1>2 DEF IsMem
      <3>2. Len(old.mem.nodes) # 0
        BY <2>1, <3>1, EmptySeq DEF Listed
      <3>3. QED
        BY <1>2, <1>3, <3>2
    <2>3. DOMAIN old.outputs = {old.order[i] : i \in 1..old.k - 1}
      BY <1>2 DEF Underway
    <2>4. old.order[Len(old.order)] \in DOMAIN old.outputs
      <3>1. Len(old.order) \in 1..old.k - 1
        BY <1>2, <1>3, <2>2
      <3>2. QED
        BY <2>3, <3>1
    <2>5. QED
      BY <2>4 DEF ResultOf
  <1> HIDE DEF result
  <1>6. /\ IsMem(m) /\ m.status = "completed" /\ m.nodes = old.mem.nodes /\ m.result = result
        /\ m.config = old.mem.config /\ m.input = old.mem.input /\ m.target = old.mem.target
        /\ DoneIn(m) = DoneIn(old.mem)
    <2>1. IsMem(old.mem)
      BY <1>2
    <2>2. IsMem(m) /\ m.nodes = old.mem.nodes
      BY <2>1 DEF IsMem
    <2>3. DoneIn(m) = DoneIn(old.mem)
      BY <2>2 DEF DoneIn
    <2>4. QED
      BY <2>1, <2>2, <2>3 DEF IsMem
  <1> HIDE DEF m
  <1>7. RecordFits(m)
    <2>1. NodesFit(m) /\ m.config \in [Ids -> 0..MaxEdits]
      BY <1>2, <1>6 DEF RecordFits, NodesFit
    <2>2. Closed(m)
      BY <1>4, <1>6 DEF Closed, Done
    <2>3. Whole(m)
      BY <1>2, <1>3, <1>4, <1>5, <1>6 DEF Whole
    <2>4. QED
      BY <1>6, <2>1, <2>2, <2>3 DEF RecordFits, Terminal
  <1>8. Writes(r, Idle, m)
    BY <1>1, <1>6, <1>7 DEF Writes, old
  <1>9. QED
    BY <1>8

LEMMA ContextStep ==
    ASSUME RunInv, NEW r \in RunIds, NEW why, EndContext(r, why)
    PROVE  \E p : Thinks(r, p)
  <1> DEFINE old == live[r]
             p == [old EXCEPT !.ctx = why]
  <1>1. /\ RunFits(old) /\ IsPlace(old)
        /\ live' = [live EXCEPT ![r] = p] /\ UNCHANGED <<config, disk, record, faults, stops>>
    BY RunStands DEF EndContext
  <1> HIDE DEF old
  <1>2. /\ IsPlace(p) /\ p.pc = old.pc /\ p.k = old.k /\ p.order = old.order
        /\ p.fps = old.fps /\ p.cache = old.cache /\ p.outputs = old.outputs /\ p.mem = old.mem
    BY <1>1 DEF IsPlace
  <1> HIDE DEF p
  <1>3. Underway(old) => Underway(p)
    <2>1. SUFFICES ASSUME Underway(old) PROVE Underway(p)
      OBVIOUS
    <2>2. /\ \A x \in DOMAIN p.cache : DOMAIN p.cache[x].output # {}
          /\ \A x \in DOMAIN p.outputs : DOMAIN p.outputs[x] # {}
      BY <1>2, <2>1 DEF Underway
    <2>3. DOMAIN p.outputs = {p.order[i] : i \in 1..p.k - 1}
      <3>1. DOMAIN old.outputs = {old.order[i] : i \in 1..old.k - 1}
        BY <2>1 DEF Underway
      <3>2. QED
        BY <1>2, <3>1
    <2>4. \A i \in 1..p.k - 1 :
             p.mem.nodes[i].status \in IF p.pc = "settle" THEN Done ELSE {"completed"}
      BY <1>2, <2>1 DEF Underway
    <2>5. /\ p.mem.target \in Targets /\ p.order = Orders[p.mem.target]
          /\ p.fps = Fingerprints(p.mem.config, p.mem.input)
          /\ p.k \in 1..Len(p.order) + 1
      BY <1>2, <2>1 DEF Underway
    <2>6. /\ Len(p.mem.nodes) = IF p.pc \in InNode THEN p.k ELSE p.k - 1
          /\ p.pc \in InNode => p.k <= Len(p.order)
          /\ p.pc = "settle" => p.k = Len(p.order) + 1
          /\ p.pc = "node" => p.mem.nodes[p.k].status = "running"
          /\ p.pc = "failing" => p.mem.nodes[p.k].status = "failed"
      BY <1>2, <2>1 DEF Underway
    <2>7. QED
      BY <2>2, <2>3, <2>4, <2>5, <2>6 DEF Underway
  <1>4. RunFits(p)
    BY <1>1, <1>2, <1>3 DEF RunFits
  <1>5. Thinks(r, p)
    BY <1>1, <1>2, <1>4 DEF Thinks, old
  <1>6. QED
    BY <1>5

LEMMA StepOfRun ==
    ASSUME RunInv, NEW r \in RunIds, RunStep(r)
    PROVE  /\ live[r].pc # "idle"
           /\ \/ \E p, m : Writes(r, p, m)
              \/ \E p : Thinks(r, p)
  <1>1. CASE Begin(r)
    BY <1>1, BeginStep DEF Begin
  <1>2. CASE Plan(r)
    BY <1>2, PlanStep DEF Plan
  <1>3. CASE RefuseTarget(r)
    BY <1>3, RefuseStep DEF RefuseTarget
  <1>4. CASE StartNode(r)
    BY <1>4, StartStep DEF StartNode
  <1>5. CASE ReplayNode(r)
    BY <1>5, ReplayStep DEF ReplayNode
  <1>6. CASE ExecuteNode(r)
    BY <1>6, ExecuteStep DEF ExecuteNode
  <1>7. CASE FailNode(r)
    BY <1>7, FailNodeStep DEF FailNode
  <1>8. CASE FailRun(r)
    BY <1>8, FailRunStep DEF FailRun
  <1>9. CASE MarkReplayed(r)
    BY <1>9, MarkStep DEF MarkReplayed
  <1>10. CASE Complete(r)
    BY <1>10, CompleteStep DEF Complete
  <1>11. QED
    BY <1>1, <1>2, <1>3, <1>4, <1>5, <1>6, <1>7, <1>8, <1>9, <1>10 DEF RunStep

----------------------------------------------------------------------------
(* The invariant.                                                          *)

LEMMA RunInvInit == Init => RunInv
  <1> SUFFICES ASSUME Init PROVE RunInv
    OBVIOUS
  <1>1. MaxEdits \in Nat /\ MaxRuns \in Nat
    BY ExecutionAssumption
  <1>2. config \in [Ids -> 0..MaxEdits] /\ disk \in Nat /\ faults \in Nat /\ stops \in Nat
    BY <1>1 DEF Init
  <1>3. record = <<>> /\ Listed(record) /\ Len(record) = 0 /\ DOMAIN record = {}
    BY DEF Init, Listed
  <1>4. DOMAIN live = RunIds /\ \A r \in RunIds : live[r] = Idle
    BY DEF Init
  <1>5. QED
    BY <1>1, <1>2, <1>3, <1>4 DEF RunInv

LEMMA WritesKeep ==
    ASSUME RunInv, NEW r \in RunIds, live[r].pc # "idle", NEW p, NEW m, Writes(r, p, m)
    PROVE  RunInv'
  <1>1. /\ RunFits(live[r]) /\ r \in DOMAIN record /\ OnFile(record[r], live[r])
    BY RunStands
  <1>2. config' \in [Ids -> 0..MaxEdits] /\ disk' \in Nat /\ stops' \in Nat
    BY DEF RunInv, Writes
  <1>3. DOMAIN live' = RunIds /\ \A s \in RunIds : live'[s] = IF s = r THEN p ELSE live[s]
    BY DEF RunInv, Writes
  <1>4. CASE record' = [record EXCEPT ![r] = m] /\ UNCHANGED faults
    <2>1. /\ Listed(record') /\ Len(record') = Len(record) /\ DOMAIN record' = DOMAIN record
          /\ \A s \in DOMAIN record : record'[s] = IF s = r THEN m ELSE record[s]
      BY <1>1, <1>4, ExceptListed DEF RunInv
    <2>2. \A s \in DOMAIN record' : RecordFits(record'[s])
      BY <2>1 DEF RunInv, Writes
    <2>3. ASSUME NEW s \in RunIds
          PROVE  \/ live'[s] = Idle
                 \/ RunFits(live'[s]) /\ s \in DOMAIN record' /\ OnFile(record[s], live[s])'
      <3>1. CASE s = r
        <4>1. p = Idle \/ OnFile(m, p)'
          BY <1>4 DEF Writes, OnFile, Terminal
        <4>2. record'[s] = m /\ live'[s] = p /\ s \in DOMAIN record'
          BY <1>1, <1>3, <2>1, <3>1
        <4>3. p = Idle \/ RunFits(p)
          BY DEF Writes
        <4>4. QED
          BY <4>1, <4>2, <4>3 DEF OnFile
      <3>2. CASE s # r
        <4>1. live'[s] = live[s]
          BY <1>3, <3>2
        <4>2. CASE live[s] = Idle
          BY <4>1, <4>2
        <4>3. CASE live[s] # Idle
          <5>1. RunFits(live[s]) /\ s \in DOMAIN record /\ OnFile(record[s], live[s])
            BY <4>3 DEF RunInv
          <5>2. record'[s] = record[s] /\ s \in DOMAIN record'
            BY <2>1, <3>2, <5>1
          <5>3. QED
            BY <1>4, <4>1, <5>1, <5>2 DEF OnFile
        <4>4. QED
          BY <4>2, <4>3
      <3>3. QED
        BY <3>1, <3>2
    <2>4. QED
      BY <1>2, <1>3, <1>4, <2>1, <2>2, <2>3 DEF RunInv
  <1>5. CASE faults' = faults + 1 /\ UNCHANGED record
    <2>1. faults' \in Nat /\ faults' # 0
      BY <1>5 DEF RunInv
    <2>2. ASSUME NEW s \in RunIds
          PROVE  \/ live'[s] = Idle
                 \/ RunFits(live'[s]) /\ s \in DOMAIN record' /\ OnFile(record[s], live[s])'
      <3>1. CASE s = r
        <4>1. p = Idle \/ OnFile(record[s], p)'
          BY <1>1, <1>5, <2>1, <3>1 DEF Writes, OnFile
        <4>2. record'[s] = record[r] /\ live'[s] = p /\ s \in DOMAIN record'
          BY <1>1, <1>3, <1>5, <3>1
        <4>3. p = Idle \/ RunFits(p)
          BY DEF Writes
        <4>4. QED
          BY <4>1, <4>2, <4>3 DEF OnFile
      <3>2. CASE s # r
        <4>1. live'[s] = live[s]
          BY <1>3, <3>2
        <4>2. CASE live[s] = Idle
          BY <4>1, <4>2
        <4>3. CASE live[s] # Idle
          <5>1. RunFits(live[s]) /\ s \in DOMAIN record /\ OnFile(record[s], live[s])
            BY <4>3 DEF RunInv
          <5>2. QED
            BY <1>5, <2>1, <4>1, <5>1 DEF OnFile
        <4>4. QED
          BY <4>2, <4>3
      <3>3. QED
        BY <3>1, <3>2
    <2>3. QED
      BY <1>2, <1>3, <1>5, <2>1, <2>2 DEF RunInv
  <1>6. QED
    BY <1>4, <1>5 DEF Writes, Persist

LEMMA ThinksKeep ==
    ASSUME RunInv, NEW r \in RunIds, live[r].pc # "idle", NEW p, Thinks(r, p)
    PROVE  RunInv'
  <1>1. /\ RunFits(live[r]) /\ r \in DOMAIN record /\ OnFile(record[r], live[r])
    BY RunStands
  <1>2. DOMAIN live' = RunIds /\ \A s \in RunIds : live'[s] = IF s = r THEN p ELSE live[s]
    BY DEF RunInv, Thinks
  <1>3. /\ config' = config /\ disk' = disk /\ record' = record /\ faults' = faults /\ stops' = stops
    BY DEF Thinks
  <1>4. ASSUME NEW s \in RunIds
        PROVE  \/ live'[s] = Idle
               \/ RunFits(live'[s]) /\ s \in DOMAIN record' /\ OnFile(record[s], live[s])'
    <2>1. CASE s = r
      BY <1>1, <1>2, <1>3, <2>1 DEF Thinks, OnFile
    <2>2. CASE s # r
      <3>1. live'[s] = live[s]
        BY <1>2, <2>2
      <3>2. live[s] = Idle \/ (RunFits(live[s]) /\ s \in DOMAIN record /\ OnFile(record[s], live[s]))
        BY DEF RunInv
      <3>3. QED
        BY <1>3, <3>1, <3>2 DEF OnFile
    <2>3. QED
      BY <2>1, <2>2
  <1>5. QED
    BY <1>2, <1>3, <1>4 DEF RunInv

LEMMA PrepareKeeps ==
    ASSUME RunInv, NEW q, PrepareRun(q)
    PROVE  RunInv'
  <1> DEFINE m == [status |-> "queued", nodes |-> <<>>, result |-> Empty,
                   config |-> config, input |-> q.input, target |-> q.target,
                   useCache |-> q.useCache, batch |-> q.batch]
             r == Len(record) + 1
             p == [Idle EXCEPT !.pc = "prepared", !.mem = m]
  <1>1. config' = config /\ disk' = disk /\ stops' = stops /\ r <= MaxRuns
    BY DEF PrepareRun
  <1>2. Len(record) \in Nat /\ DOMAIN record = 1..Len(record) /\ MaxRuns \in Nat /\ r \in RunIds
    BY <1>1, ListedFacts, ExecutionAssumption DEF RunInv, RunIds
  <1>3. CASE record' = Append(record, m) /\ live' = [live EXCEPT ![r] = p] /\ UNCHANGED faults
    <2>1. /\ IsMem(m) /\ m.status = "queued" /\ m.nodes = <<>> /\ m.config = config
      <3>1. Listed(<<>>)
        BY DEF Listed
      <3>2. QED
        BY <3>1 DEF IsMem
    <2> HIDE DEF m
    <2>2. /\ IsPlace(p) /\ p.pc = "prepared" /\ p.mem = m /\ p.order = <<>> /\ p.outputs = Empty
          /\ p.k = 1
      BY DEF IsPlace, Idle
    <2> HIDE DEF p
    <2>3. RecordFits(m)
      <3>1. NodesFit(m)
        BY <2>1 DEF NodesFit
      <3>2. m.config \in [Ids -> 0..MaxEdits]
        BY <2>1 DEF RunInv
      <3>3. QED
        BY <2>1, <3>1, <3>2 DEF RecordFits, Terminal
    <2>4. RunFits(p)
      BY <2>1, <2>2, <2>3 DEF RunFits, Early
    <2>5. /\ Listed(record') /\ Len(record') = r /\ DOMAIN record' = 1..r
          /\ \A i \in 1..Len(record) : record'[i] = record[i]
          /\ record'[r] = m
      BY <1>3, AppendListed DEF RunInv
    <2>6. \A i \in DOMAIN record' : RecordFits(record'[i])
      <3>1. \A i \in 1..r : i = r \/ i \in DOMAIN record
        BY <1>2
      <3>2. QED
        BY <1>2, <2>3, <2>5, <3>1 DEF RunInv
    <2>7. DOMAIN live' = RunIds /\ \A s \in RunIds : live'[s] = IF s = r THEN p ELSE live[s]
      BY <1>3 DEF RunInv
    <2>8. ASSUME NEW s \in RunIds
          PROVE  \/ live'[s] = Idle
                 \/ RunFits(live'[s]) /\ s \in DOMAIN record' /\ OnFile(record[s], live[s])'
      <3>1. CASE s = r
        <4>1. record'[s] = m /\ live'[s] = p /\ s \in DOMAIN record'
          BY <1>2, <2>5, <2>7, <3>1
        <4>2. QED
          BY <2>1, <2>2, <2>4, <4>1 DEF OnFile, Terminal
      <3>2. CASE s # r
        <4>1. live'[s] = live[s]
          BY <2>7, <3>2
        <4>2. CASE live[s] = Idle
          BY <4>1, <4>2
        <4>3. CASE live[s] # Idle
          <5>1. RunFits(live[s]) /\ s \in DOMAIN record /\ OnFile(record[s], live[s])
            BY <4>3 DEF RunInv
          <5>2. record'[s] = record[s] /\ s \in DOMAIN record'
            BY <1>2, <2>5, <5>1
          <5>3. QED
            BY <1>3, <4>1, <5>1, <5>2 DEF OnFile
        <4>4. QED
          BY <4>2, <4>3
      <3>3. QED
        BY <3>1, <3>2
    <2>9. QED
      BY <1>1, <1>2, <1>3, <2>5, <2>6, <2>7, <2>8 DEF RunInv
  <1>4. CASE faults' = faults + 1 /\ UNCHANGED <<record, live>>
    <2>1. faults' \in Nat /\ faults' # 0
      BY <1>4 DEF RunInv
    <2>2. \A s \in RunIds :
             \/ live'[s] = Idle
             \/ RunFits(live'[s]) /\ s \in DOMAIN record' /\ OnFile(record[s], live[s])'
      BY <1>4, <2>1 DEF RunInv, OnFile
    <2>3. QED
      BY <1>1, <1>4, <2>1, <2>2 DEF RunInv
  <1>5. QED
    BY <1>3, <1>4 DEF PrepareRun

\* As long as an edit is left, a node has had fewer than all of them.
LEMMA EditsLeft ==
    ASSUME RunInv, NEW n \in Ids, Edits < MaxEdits
    PROVE  config[n] \in Nat /\ config[n] < MaxEdits
  <1> DEFINE K == 1..MaxEdits
             versions == {e \in Ids \X K : e[2] <= config[e[1]]}
             c == config[n]
             f == [i \in 1..c |-> <<n, i>>]
  <1>1. MaxEdits \in Nat /\ c \in 0..MaxEdits /\ c \in Nat /\ disk \in Nat
    BY ExecutionAssumption DEF RunInv
  <1>2. IsFiniteSet(versions)
    <2>1. IsFiniteSet(Ids)
      <3>1. Workflow.nodes \in Seq(Elements(Workflow.nodes))
        BY ExecutionAssumption DEF WellFormed
      <3>2. IsFiniteSet(DOMAIN Workflow.nodes)
        BY <3>1, PlacesFacts
      <3> DEFINE s == Workflow.nodes
                 at == [i \in DOMAIN s |-> s[i]]
      <3>3. at \in Surjection(DOMAIN s, Ids)
        BY DEF Surjection, Ids, NodeIds, Elements
      <3>4. QED
        BY <3>2, <3>3, FS_Surjection
    <2>2. IsFiniteSet(K)
      BY <1>1, CountTo
    <2>3. IsFiniteSet(Ids \X K)
      BY <2>1, <2>2, FS_Product
    <2>4. QED
      BY <2>3, FS_Subset
  <1>3. f \in Injection(1..c, versions)
    <2>1. \A i \in 1..c : i \in K /\ <<n, i>> \in versions
      BY <1>1
    <2>2. f \in [1..c -> versions]
      BY <2>1
    <2>3. QED
      BY <2>2 DEF Injection, IsInjective
  <1>4. Cardinality(1..c) <= Cardinality(versions) /\ Cardinality(versions) \in Nat
    BY <1>2, <1>3, FS_Injection, FS_CardinalityType
  <1>5. Cardinality(1..c) = c
    BY <1>1, CountTo
  <1>6. disk + Cardinality(versions) < MaxEdits
    BY DEF Edits
  <1> HIDE DEF versions
  <1>7. QED
    BY <1>1, <1>4, <1>5, <1>6

LEMMA AroundKeeps ==
    ASSUME RunInv, (\E n \in Ids : EditNode(n)) \/ EditFile \/ Stop \/ UNCHANGED vars
    PROVE  RunInv'
  <1>1. ASSUME NEW n \in Ids, EditNode(n) PROVE RunInv'
    <2>1. config[n] \in Nat /\ config[n] < MaxEdits
      BY <1>1, EditsLeft DEF EditNode
    <2>2. config' = [config EXCEPT ![n] = config[n] + 1]
      BY <1>1 DEF EditNode
    <2>3. config[n] + 1 \in 0..MaxEdits /\ config \in [Ids -> 0..MaxEdits]
      BY <2>1, ExecutionAssumption DEF RunInv
    <2>4. config' \in [Ids -> 0..MaxEdits]
      BY <2>2, <2>3
    <2>5. UNCHANGED <<disk, record, live, faults, stops>>
      BY <1>1 DEF EditNode
    <2>6. QED
      BY <2>4, <2>5 DEF RunInv, OnFile
  <1>2. CASE EditFile
    <2>1. disk' \in Nat /\ UNCHANGED <<config, record, live, faults, stops>>
      BY <1>2 DEF EditFile, RunInv
    <2>2. QED
      BY <2>1 DEF RunInv, OnFile
  <1>3. CASE Stop
    <2>1. stops' \in Nat /\ UNCHANGED <<config, disk, record, faults>>
      BY <1>3 DEF Stop, RunInv
    <2>2. DOMAIN live' = RunIds /\ \A r \in RunIds : live'[r] = Idle
      BY <1>3 DEF Stop
    <2>3. QED
      BY <2>1, <2>2 DEF RunInv
  <1>4. CASE UNCHANGED vars
    BY <1>4 DEF vars, RunInv, OnFile
  <1>5. QED
    BY <1>1, <1>2, <1>3, <1>4

LEMMA RunInvNext == RunInv /\ [Next]_vars => RunInv'
  <1> SUFFICES ASSUME RunInv, [Next]_vars PROVE RunInv'
    OBVIOUS
  <1>1. ASSUME NEW r \in RunIds, RunStep(r) PROVE RunInv'
    BY <1>1, StepOfRun, WritesKeep, ThinksKeep
  <1>2. ASSUME NEW r \in RunIds, NEW why, EndContext(r, why) PROVE RunInv'
    BY <1>2, ContextStep, ThinksKeep DEF EndContext
  <1>3. ASSUME NEW q, PrepareRun(q) PROVE RunInv'
    BY <1>3, PrepareKeeps
  <1>4. QED
    BY <1>1, <1>2, <1>3, AroundKeeps DEF Next

\* Whatever the workflow, the requests, the edits and the mishaps, a goroutine
\* knows exactly which nodes of its order came out, and the run file is no
\* further than the goroutine.
THEOREM RunsFit == Spec => []RunInv
  BY RunInvInit, RunInvNext, PTL DEF Spec

----------------------------------------------------------------------------
(* What follows from it.                                                   *)

LEMMA RecordTypes ==
    ASSUME NEW m, RecordFits(m)
    PROVE  RunRecord(m)
  <1>1. ASSUME NEW i \in DOMAIN m.nodes PROVE NodeRecord(m.nodes[i])
    <2> DEFINE e == m.nodes[i]
    <2>1. Listed(m.nodes) /\ DOMAIN m.nodes = 1..Len(m.nodes) /\ Len(m.nodes) \in Nat
      BY ListedFacts DEF RecordFits, IsMem
    <2>2. m.nodes # <<>>
      BY <1>1
    <2>3. /\ m.target \in Targets /\ Len(m.nodes) <= Len(Orders[m.target]) /\ NodeFits(e)
          /\ e.node = Orders[m.target][i]
      BY <1>1, <2>2 DEF RecordFits, NodesFit
    <2> DEFINE o == Orders[m.target]
    <2>4. o \in Seq(Touched(Graphs[m.target])) /\ Touched(Graphs[m.target]) \subseteq Ids
          /\ DOMAIN o = 1..Len(o) /\ Len(o) \in Nat
      BY <2>3, OrdersFit
    <2>5. i \in DOMAIN o
      BY <1>1, <2>1, <2>3, <2>4
    <2>6. e.node \in Ids
      BY <2>3, <2>4, <2>5
    <2> HIDE DEF e
    <2>7. /\ e.status \in {"running", "completed", "failed", "cached"}
          /\ e.output # NoOutput <=> e.status \in {"completed", "cached"}
      BY <2>3 DEF NodeFits, Done, NoOutput, Empty
    <2>8. QED
      BY <2>6, <2>7 DEF NodeRecord, e
  <1>2. QED
    BY <1>1 DEF RunRecord, RecordFits

\* Records and goroutines hold what the code can store in them, and a node
\* record has an output exactly when the node came out.
THEOREM TypeCorrect == Spec => []TypeOK
  <1>1. RunInv => TypeOK
    <2> SUFFICES ASSUME RunInv PROVE TypeOK
      OBVIOUS
    <2>1. \A r \in DOMAIN record : RunRecord(record[r])
      BY RecordTypes DEF RunInv
    <2>2. ASSUME NEW r \in RunIds, live[r] # Idle
          PROVE  /\ RunRecord(live[r].mem)
                 /\ DOMAIN live[r].outputs \subseteq Elements(live[r].order)
      <3> DEFINE p == live[r]
      <3>1. RunFits(p)
        BY <2>2 DEF RunInv
      <3> HIDE DEF p
      <3>2. RunRecord(p.mem)
        BY <3>1, RecordTypes DEF RunFits
      <3>3. DOMAIN p.outputs \subseteq Elements(p.order)
        <4>1. CASE p.pc \in Early
          BY <3>1, <4>1 DEF RunFits, Empty
        <4>2. CASE p.pc \notin Early
          <5>1. /\ Underway(p) /\ p.order = Orders[p.mem.target] /\ p.mem.target \in Targets
                /\ p.k \in 1..Len(p.order) + 1 /\ p.k \in Nat
            BY <3>1, <4>2, PlaceFacts
          <5>2. DOMAIN p.order = 1..Len(p.order) /\ Len(p.order) \in Nat
            BY <5>1, OrdersFit
          <5>3. DOMAIN p.outputs = {p.order[i] : i \in 1..p.k - 1}
            BY <5>1 DEF Underway
          <5>4. 1..p.k - 1 \subseteq DOMAIN p.order
            BY <5>1, <5>2
          <5>5. QED
            BY <5>3, <5>4 DEF Elements
        <4>3. QED
          BY <4>1, <4>2
      <3>4. QED
        BY <3>2, <3>3 DEF p
    <2>3. \A r \in RunIds : live[r] = Idle => DOMAIN live[r].outputs = {}
      BY DEF Idle, Empty
    <2>4. QED
      BY <2>1, <2>2, <2>3 DEF TypeOK
  <1>2. QED
    BY <1>1, RunsFit, PTL

\* The nodes a completed record lists are its order.
LEMMA WholeIsTheOrder ==
    ASSUME NEW m, RecordFits(m), m.status = "completed"
    PROVE  [i \in DOMAIN m.nodes |-> m.nodes[i].node] = Orders[m.target]
  <1> DEFINE done == [i \in DOMAIN m.nodes |-> m.nodes[i].node]
             o == Orders[m.target]
  <1>1. m.target \in Targets /\ Len(m.nodes) = Len(o)
    BY DEF RecordFits, Whole
  <1>2. /\ o \in Seq(Touched(Graphs[m.target]))
        /\ DOMAIN o = 1..Len(o) /\ Len(o) \in Nat
    BY <1>1, OrdersFit
  <1>3. DOMAIN m.nodes = 1..Len(m.nodes)
    BY ListedFacts DEF RecordFits, IsMem
  <1>4. \A i \in DOMAIN m.nodes : m.nodes[i].node = o[i]
    BY DEF RecordFits, NodesFit
  <1> HIDE DEF o
  <1>5. o = [i \in 1..Len(o) |-> o[i]]
    BY <1>2
  <1>6. QED
    BY <1>1, <1>3, <1>4, <1>5 DEF o

\* A completed run executed or replayed every node of its graph's data flow,
\* once, each after what feeds it, and shows a result: even if writes failed.
THEOREM CompletedIsWholeAlways == Spec => []CompletedIsWhole
  <1>1. RunInv => CompletedIsWhole
    <2> SUFFICES ASSUME RunInv, NEW r \in DOMAIN record, record[r].status = "completed"
                 PROVE  LET m == record[r]
                            done == [i \in DOMAIN m.nodes |-> m.nodes[i].node] IN
                        /\ Injective(done) /\ Elements(done) = Touched(GraphOf(m))
                        /\ RespectsEdges(GraphOf(m), done)
                        /\ \A i \in DOMAIN m.nodes : m.nodes[i].status \in {"completed", "cached"}
                        /\ done # <<>> => DOMAIN m.result # {}
      BY DEF CompletedIsWhole
    <2> DEFINE m == record[r]
               done == [i \in DOMAIN m.nodes |-> m.nodes[i].node]
    <2>1. RecordFits(m) /\ m.status = "completed"
      BY DEF RunInv
    <2>2. done = Orders[m.target]
      BY <2>1, WholeIsTheOrder
    <2>3. m.target \in Targets /\ GraphOf(m) = Graphs[m.target]
      BY <2>1 DEF RecordFits, Whole, GraphOf
    <2>4. m.nodes = <<>> => done = <<>>
      OBVIOUS
    <2>5. /\ \A i \in DOMAIN m.nodes : m.nodes[i].status \in {"completed", "cached"}
          /\ done # <<>> => DOMAIN m.result # {}
      BY <2>1, <2>4 DEF RecordFits, Whole, Done
    <2> HIDE DEF m, done
    <2>6. Injective(done) /\ Elements(done) = Touched(GraphOf(m)) /\ RespectsEdges(GraphOf(m), done)
      BY <2>2, <2>3, OrdersFit
    <2>7. QED
      BY <2>5, <2>6 DEF m, done
  <1>2. QED
    BY <1>1, RunsFit, PTL

\* A run file with an outcome has no node still claiming to run, whichever
\* writes before it failed.
THEOREM SettledHasNoRunningNodeAlways == Spec => []SettledHasNoRunningNode
  <1>1. RunInv => SettledHasNoRunningNode
    BY DEF RunInv, RecordFits, Closed, SettledHasNoRunningNode
  <1>2. QED
    BY <1>1, RunsFit, PTL

\* While every write worked, a poll of a run in flight sees what it knows.
THEOREM PollSeesRunAlways == Spec => []PollSeesRun
  <1>1. RunInv => PollSeesRun
    BY DEF RunInv, OnFile, PollSeesRun, Idle
  <1>2. QED
    BY <1>1, RunsFit, PTL

----------------------------------------------------------------------------
(* The run files keep RunHistory's promise.                                *)

Told(m) == [status |-> m.status, done |-> DoneIn(m)]

Files == [r \in DOMAIN record |-> Told(record[r])]

LEMMA FilesListed ==
    ASSUME RunInv
    PROVE  Listed(Files) /\ Len(Files) = Len(record) /\ DOMAIN Files = DOMAIN record
  <1>1. Len(record) \in Nat /\ DOMAIN record = 1..Len(record)
    BY ListedFacts DEF RunInv
  <1>2. DOMAIN Files = 1..Len(record) /\ Files = [i \in 1..Len(record) |-> Files[i]]
    BY <1>1 DEF Files
  <1>3. QED
    BY <1>1, <1>2, ListedIf

\* A write of a run in flight moves its file on, or leaves it as it is.
LEMMA WritesAdvance ==
    ASSUME RunInv, RunInv', NEW r \in RunIds, live[r].pc # "idle", NEW p, NEW m, Writes(r, p, m)
    PROVE  Files' = Files \/ \E s \in DOMAIN Files : History!Advance(s)
  <1>1. /\ r \in DOMAIN record /\ OnFile(record[r], live[r])
    BY RunStands
  <1>2. CASE record' = [record EXCEPT ![r] = m]
    <2>1. DOMAIN record' = DOMAIN record /\ \A s \in DOMAIN record : record'[s] = IF s = r THEN m ELSE record[s]
      BY <1>2
    <2>2. Files[r] = Told(record[r]) /\ Files'[r] = Told(m)
      BY <1>1, <2>1 DEF Files
    <2>3. \A s \in DOMAIN Files \ {r} : Files'[s] = Files[s]
      BY <2>1 DEF Files
    <2>4. Len(Files') = Len(Files) /\ r \in DOMAIN Files
      <3>1. Len(Files) = Len(record) /\ DOMAIN Files = DOMAIN record
        BY FilesListed
      <3>2. (Len(Files) = Len(record))'
        BY FilesListed, PTL
      <3>3. Len(record') = Len(record)
        BY <1>1, <1>2, ExceptListed DEF RunInv
      <3>4. QED
        BY <1>1, <3>1, <3>2, <3>3
    <2>5. Files[r].status \notin History!Terminal
      BY <1>1, <2>2 DEF OnFile, Told, Terminal, History!Terminal
    <2>6. Files'[r].status \in History!RunStatus \ {"queued"}
      BY <2>2 DEF Writes, Told, RecordFits, Terminal, History!RunStatus
    <2>7. Files[r].done \subseteq Files'[r].done
      BY <1>1, <2>2 DEF Writes, OnFile, Told
    <2>8. History!Advance(r)
      BY <2>3, <2>4, <2>5, <2>6, <2>7 DEF History!Advance, Files, Told
    <2>9. QED
      BY <2>4, <2>8
  <1>3. CASE record' = record
    BY <1>3 DEF Files
  <1>4. QED
    BY <1>2, <1>3 DEF Writes, Persist

\* A run that is accepted is a new file, queued, with nothing done.
LEMMA PrepareAccepts ==
    ASSUME RunInv, RunInv', NEW q, PrepareRun(q)
    PROVE  Files' = Files \/ History!Accept
  <1> DEFINE m == [status |-> "queued", nodes |-> <<>>, result |-> Empty,
                   config |-> config, input |-> q.input, target |-> q.target,
                   useCache |-> q.useCache, batch |-> q.batch]
  <1>1. CASE record' = Append(record, m)
    <2> DEFINE told == [status |-> "queued", done |-> {}]
    <2>1. Told(m) = told
      BY DEF Told, DoneIn
    <2> HIDE DEF m
    <2>2. /\ DOMAIN record' = 1..Len(record) + 1 /\ record'[Len(record) + 1] = m
          /\ \A i \in 1..Len(record) : record'[i] = record[i]
          /\ DOMAIN record = 1..Len(record) /\ Len(record) \in Nat
      BY <1>1, AppendListed, ListedFacts DEF RunInv
    <2> DEFINE n == Len(record)
    <2>3. Listed(Files) /\ Len(Files) = n /\ DOMAIN Files = 1..n
      BY <2>2, FilesListed
    <2>4. /\ Listed(Append(Files, told)) /\ DOMAIN Append(Files, told) = 1..n + 1
          /\ \A i \in 1..n : Append(Files, told)[i] = Files[i]
          /\ Append(Files, told)[n + 1] = told
      BY <2>3, AppendListed
    <2>5. Append(Files, told) = [i \in 1..n + 1 |-> Append(Files, told)[i]]
      <3>1. Append(Files, told) \in Seq(Elements(Append(Files, told)))
        BY <2>4 DEF Listed
      <3> DEFINE t == Append(Files, told)
      <3> HIDE DEF t
      <3>2. t \in Seq(Elements(t)) /\ DOMAIN t = 1..n + 1
        BY <2>4, <3>1 DEF t
      <3>3. t = [i \in 1..n + 1 |-> t[i]]
        BY <3>2
      <3>4. QED
        BY <3>3 DEF t
    <2>6. \A i \in 1..n + 1 : Append(Files, told)[i] = Told(record'[i])
      <3>1. \A i \in 1..n + 1 : i = n + 1 \/ i \in 1..n
        BY <2>2
      <3>2. \A i \in 1..n : Files[i] = Told(record[i])
        BY <2>2 DEF Files
      <3>3. \A i \in 1..n : Append(Files, told)[i] = Told(record'[i])
        BY <2>2, <2>4, <3>2
      <3>4. Append(Files, told)[n + 1] = Told(record'[n + 1])
        BY <2>1, <2>2, <2>4
      <3>5. QED
        BY <3>1, <3>3, <3>4
    <2>7. Files' = [i \in 1..n + 1 |-> Told(record'[i])]
      BY <2>2 DEF Files, Told, DoneIn
    <2>8. Files' = Append(Files, told)
      <3> DEFINE t == Append(Files, told)
      <3> HIDE DEF t, n
      <3>1. t = [i \in 1..n + 1 |-> t[i]] /\ \A i \in 1..n + 1 : t[i] = Told(record'[i])
        BY <2>5, <2>6 DEF t, n
      <3>2. QED
        BY <2>7, <3>1 DEF t, n
    <2>9. QED
      BY <2>8 DEF History!Accept, Files, Told
  <1>2. CASE record' = record
    BY <1>2 DEF Files
  <1>3. QED
    BY <1>1, <1>2 DEF PrepareRun

LEMMA FilesStep ==
    ASSUME RunInv, RunInv', [Next]_vars
    PROVE  Files' = Files \/ History!Accept \/ \E s \in DOMAIN Files : History!Advance(s)
  <1>1. ASSUME NEW r \in RunIds, RunStep(r)
        PROVE  Files' = Files \/ \E s \in DOMAIN Files : History!Advance(s)
    <2>1. CASE \E p, m : Writes(r, p, m)
      BY <1>1, <2>1, StepOfRun, WritesAdvance
    <2>2. CASE \E p : Thinks(r, p)
      BY <2>2 DEF Thinks, Files
    <2>3. QED
      BY <1>1, <2>1, <2>2, StepOfRun
  <1>2. ASSUME NEW r \in RunIds, NEW why, EndContext(r, why) PROVE Files' = Files
    BY <1>2 DEF EndContext, Files
  <1>3. ASSUME NEW q, PrepareRun(q) PROVE Files' = Files \/ History!Accept
    BY <1>3, PrepareAccepts
  <1>4. CASE (\E n \in Ids : EditNode(n)) \/ EditFile \/ Stop \/ UNCHANGED vars
    <2>1. record' = record
      BY <1>4 DEF EditNode, EditFile, Stop, vars
    <2>2. QED
      BY <2>1 DEF Files
  <1>5. QED
    BY <1>1, <1>2, <1>3, <1>4 DEF Next

\* The run files implement RunHistory: runs are accepted one by one as queued,
\* progress only grows, and an outcome is final, whatever runs beside, fails to
\* be written or is cut short.
THEOREM FilesKeepHistoryAlways == Spec => FilesKeepHistory
  <1>1. Init => History!Init
    BY DEF Init, History!Init
  <1>2. RunInv /\ RunInv' /\ [Next]_vars => [History!Next]_Files
    <2> SUFFICES ASSUME RunInv, RunInv', [Next]_vars PROVE [History!Next]_Files
      OBVIOUS
    <2>1. Files' = Files \/ History!Accept \/ \E s \in DOMAIN Files : History!Advance(s)
      BY FilesStep
    <2>2. QED
      BY <2>1 DEF History!Next, Files, Told
  <1>3. Files = [r \in DOMAIN record |-> [status |-> record[r].status, done |-> DoneIn(record[r])]]
    BY DEF Files, Told
  <1>4. [History!Next]_Files => [History!Next]_[r \in DOMAIN record |-> [status |-> record[r].status, done |-> DoneIn(record[r])]]
    BY DEF Files, Told
  <1>5. QED
    BY <1>1, <1>2, <1>4, RunsFit, PTL DEF Spec, FilesKeepHistory, History!Spec

----------------------------------------------------------------------------
(* Fingerprints.                                                           *)

\* The order of the whole workflow.
WorkflowOrder == Orders[NoTarget]

LEMMA WorkflowOrderFacts ==
    /\ WorkflowOrder \in Seq(Touched(Workflow)) /\ Touched(Workflow) \subseteq Ids
    /\ Len(WorkflowOrder) \in Nat /\ DOMAIN WorkflowOrder = 1..Len(WorkflowOrder)
    /\ Injective(WorkflowOrder) /\ Elements(WorkflowOrder) = Touched(Workflow)
    /\ \A j \in DOMAIN WorkflowOrder : \A x \in Elements(UpstreamOf(Workflow, WorkflowOrder[j])) :
          \E i \in DOMAIN WorkflowOrder : i < j /\ WorkflowOrder[i] = x
  <1>1. NoTarget \in Targets /\ Graphs[NoTarget] = Workflow
    BY DEF Targets, Graphs
  <1>2. /\ WorkflowOrder \in Seq(Touched(Workflow)) /\ Touched(Workflow) \subseteq Ids
        /\ Len(WorkflowOrder) \in Nat /\ DOMAIN WorkflowOrder = 1..Len(WorkflowOrder)
        /\ Injective(WorkflowOrder) /\ Elements(WorkflowOrder) = Touched(Workflow)
        /\ RespectsEdges(Workflow, WorkflowOrder)
    BY <1>1, OrdersFit DEF WorkflowOrder
  <1>3. ASSUME NEW j \in DOMAIN WorkflowOrder, NEW x \in Elements(UpstreamOf(Workflow, WorkflowOrder[j]))
        PROVE  \E i \in DOMAIN WorkflowOrder : i < j /\ WorkflowOrder[i] = x
    <2>1. PICK k \in EdgesInto(Workflow, WorkflowOrder[j]) : x = Source(Workflow, k)
      BY ExecutionAssumption, UpstreamFacts DEF Elements
    <2>2. k \in DataEdges(Workflow) /\ Target(Workflow, k) = WorkflowOrder[j]
      BY DEF EdgesInto
    <2>3. QED
      BY <1>2, <2>1, <2>2 DEF RespectsEdges
  <1>4. QED
    BY <1>2, <1>3

\* What a node's fingerprint and its value are, given those upstream, when
\* nothing it depends on is outside the workflow.
OneFingerprint(configs, input, n, f) ==
    FingerprintOf(n, configs[n], input,
                  [i \in DOMAIN UpstreamOf(Workflow, n) |-> f[UpstreamOf(Workflow, n)[i]]])

OneValue(configs, input, n, f) ==
    Value(Workflow, n, configs, input, None,
          [i \in DOMAIN UpstreamOf(Workflow, n) |-> f[UpstreamOf(Workflow, n)[i]]])

Both(configs, input, n, f) ==
    LET ups == UpstreamOf(Workflow, n) IN
    [fp |-> FingerprintOf(n, configs[n], input, [i \in DOMAIN ups |-> f[ups[i]].fp]),
     value |-> Value(Workflow, n, configs, input, None, [i \in DOMAIN ups |-> f[ups[i]].value])]

AreBoth(configs, input, f) == f = [n \in Touched(Workflow) |-> Both(configs, input, n, f)]

\* f being both for the first j nodes of the order.
BothUpTo(configs, input, f, j) ==
    f = [n \in {WorkflowOrder[i] : i \in 1..j} |-> Both(configs, input, n, f)]

\* The values of a run that executes everything.
Values(configs, input) ==
    CHOOSE f : f = [n \in Touched(Workflow) |-> OneValue(configs, input, n, f)]

LEMMA OneMoreNode ==
    ASSUME NEW configs, NEW input, NEW j \in 1..Len(WorkflowOrder), NEW f,
           BothUpTo(configs, input, f, j - 1)
    PROVE  \E h : BothUpTo(configs, input, h, j)
  <1> DEFINE new == WorkflowOrder[j]
             old == {WorkflowOrder[i] : i \in 1..j - 1}
             D == {WorkflowOrder[i] : i \in 1..j}
             h == [n \in D |-> IF n = new THEN Both(configs, input, n, f) ELSE f[n]]
  <1>1. /\ Len(WorkflowOrder) \in Nat /\ j \in Nat /\ DOMAIN WorkflowOrder = 1..Len(WorkflowOrder)
        /\ j \in DOMAIN WorkflowOrder
    BY WorkflowOrderFacts
  <1>2. D = old \cup {new} /\ new \notin old
    <2>1. \A i \in 1..j : i = j \/ i \in 1..j - 1
      BY <1>1
    <2>2. \A i \in 1..j - 1 : i \in 1..j /\ i # j /\ i \in DOMAIN WorkflowOrder
      BY <1>1
    <2>3. j \in 1..j
      BY <1>1
    <2>4. new \notin old
      BY <1>1, <2>2, WorkflowOrderFacts DEF Injective
    <2>5. QED
      BY <2>1, <2>2, <2>3, <2>4
  <1>3. ASSUME NEW n \in D, NEW x \in Elements(UpstreamOf(Workflow, n))
        PROVE  x \in old
    <2>1. PICK i \in 1..j : n = WorkflowOrder[i]
      OBVIOUS
    <2>2. i \in DOMAIN WorkflowOrder
      BY <1>1
    <2>3. PICK k \in DOMAIN WorkflowOrder : k < i /\ WorkflowOrder[k] = x
      BY <1>3, <2>1, <2>2, WorkflowOrderFacts
    <2>4. k \in 1..j - 1
      BY <1>1, <2>3
    <2>5. QED
      BY <2>3, <2>4
  <1>4. ASSUME NEW x \in old PROVE h[x] = f[x]
    BY <1>2, <1>4
  <1>5. ASSUME NEW n \in D
        PROVE  Both(configs, input, n, h) = Both(configs, input, n, f)
    <2> DEFINE ups == UpstreamOf(Workflow, n)
    <2>1. \A i \in DOMAIN ups : h[ups[i]] = f[ups[i]]
      <3>1. \A i \in DOMAIN ups : ups[i] \in Elements(ups)
        BY DEF Elements
      <3> HIDE DEF ups, h, old
      <3>2. \A i \in DOMAIN ups : ups[i] \in old
        BY <1>3, <3>1 DEF ups
      <3>3. QED
        BY <1>4, <3>2
    <2> HIDE DEF ups, h, D
    <2>2. /\ [i \in DOMAIN ups |-> h[ups[i]].fp] = [i \in DOMAIN ups |-> f[ups[i]].fp]
          /\ [i \in DOMAIN ups |-> h[ups[i]].value] = [i \in DOMAIN ups |-> f[ups[i]].value]
      BY <2>1
    <2>3. QED
      BY <2>2 DEF Both, ups
  <1>6. ASSUME NEW n \in D PROVE h[n] = Both(configs, input, n, h)
    <2>1. CASE n = new
      BY <1>5, <2>1
    <2>2. CASE n # new
      <3>1. n \in old /\ h[n] = f[n]
        BY <1>2, <2>2
      <3>2. f[n] = Both(configs, input, n, f)
        BY <3>1 DEF BothUpTo
      <3> HIDE DEF h, D, old
      <3>3. QED
        BY <1>5, <1>6, <3>1, <3>2
    <2>3. QED
      BY <2>1, <2>2
  <1>7. h = [n \in D |-> h[n]]
    OBVIOUS
  <1> HIDE DEF h
  <1>8. BothUpTo(configs, input, h, j)
    BY <1>6, <1>7 DEF BothUpTo
  <1>9. QED
    BY <1>8

LEMMA BothExist ==
    ASSUME NEW configs, NEW input
    PROVE  \E f : AreBoth(configs, input, f)
  <1> DEFINE m == Len(WorkflowOrder)
             T == {j \in 0..m : \E f : BothUpTo(configs, input, f, j)}
  <1>1. m \in Nat /\ DOMAIN WorkflowOrder = 1..m /\ Elements(WorkflowOrder) = Touched(Workflow)
    BY WorkflowOrderFacts
  <1>2. 0 \in T
    <2>1. {WorkflowOrder[i] : i \in 1..0} = {}
      OBVIOUS
    <2>2. BothUpTo(configs, input, Empty, 0)
      BY <2>1 DEF BothUpTo, Empty
    <2>3. QED
      BY <1>1, <2>2
  <1>3. ASSUME NEW j \in 1..m, j - 1 \in T PROVE j \in T
    <2>1. PICK f : BothUpTo(configs, input, f, j - 1)
      BY <1>3
    <2>2. \E h : BothUpTo(configs, input, h, j)
      BY <2>1, OneMoreNode
    <2>3. QED
      BY <1>1, <2>2
  <1>4. m \in T
    <2> HIDE DEF T
    <2>1. 0..m \subseteq T
      BY <1>1, <1>2, <1>3, UpTo
    <2>2. QED
      BY <1>1, <2>1
  <1>5. PICK f : BothUpTo(configs, input, f, m)
    BY <1>4
  <1>6. {WorkflowOrder[i] : i \in 1..m} = Touched(Workflow)
    BY <1>1 DEF Elements
  <1>7. QED
    BY <1>5, <1>6 DEF BothUpTo, AreBoth

\* What is upstream of a node of the data flow is of the data flow.
LEMMA UpstreamTouched ==
    ASSUME NEW n, NEW i \in DOMAIN UpstreamOf(Workflow, n)
    PROVE  UpstreamOf(Workflow, n)[i] \in Touched(Workflow)
  <1>1. PICK k \in EdgesInto(Workflow, n) : UpstreamOf(Workflow, n)[i] = Source(Workflow, k)
    BY ExecutionAssumption, UpstreamFacts
  <1>2. k \in DataEdges(Workflow)
    BY DEF EdgesInto
  <1>3. QED
    BY <1>1, <1>2, ExecutionAssumption, EdgeFacts

\* Fingerprints is the one there is, and so is Values.
LEMMA FingerprintsFacts ==
    ASSUME NEW configs, NEW input
    PROVE  /\ DOMAIN Fingerprints(configs, input) = Touched(Workflow)
           /\ \A n \in Touched(Workflow) :
                 Fingerprints(configs, input)[n]
                     = OneFingerprint(configs, input, n, Fingerprints(configs, input))
  <1>a. PICK f : AreBoth(configs, input, f)
    BY BothExist
  <1>1. f = [n \in Touched(Workflow) |-> Both(configs, input, n, f)]
    BY <1>a DEF AreBoth
  <1> DEFINE Is(g) == g = [n \in Touched(Workflow) |-> OneFingerprint(configs, input, n, g)]
  <1> DEFINE g == [n \in Touched(Workflow) |-> f[n].fp]
  <1>2. ASSUME NEW n \in Touched(Workflow) PROVE g[n] = OneFingerprint(configs, input, n, g)
    <2> DEFINE ups == UpstreamOf(Workflow, n)
    <2>1. \A i \in DOMAIN ups : g[ups[i]] = f[ups[i]].fp
      BY UpstreamTouched
    <2>2. g[n] = FingerprintOf(n, configs[n], input, [i \in DOMAIN ups |-> f[ups[i]].fp])
      <3>1. f[n] = Both(configs, input, n, f) /\ g[n] = f[n].fp
        BY <1>1
      <3> HIDE DEF g
      <3>2. QED
        BY <3>1 DEF Both
    <2> HIDE DEF g, ups
    <2>3. [i \in DOMAIN ups |-> f[ups[i]].fp] = [i \in DOMAIN ups |-> g[ups[i]]]
      BY <2>1
    <2>4. QED
      BY <2>2, <2>3 DEF OneFingerprint, ups
  <1>3. g = [n \in Touched(Workflow) |-> g[n]]
    OBVIOUS
  <1> HIDE DEF g
  <1>4. Is(g)
    BY <1>2, <1>3
  <1>5. Fingerprints(configs, input) = CHOOSE h : Is(h)
    BY DEF Fingerprints, OneFingerprint
  <1>6. Is(Fingerprints(configs, input))
    <2> HIDE DEF Is
    <2>1. QED
      BY <1>4, <1>5
  <1>7. QED
    BY <1>6

LEMMA ValuesFacts ==
    ASSUME NEW configs, NEW input
    PROVE  /\ DOMAIN Values(configs, input) = Touched(Workflow)
           /\ \A n \in Touched(Workflow) :
                 Values(configs, input)[n] = OneValue(configs, input, n, Values(configs, input))
  <1>a. PICK f : AreBoth(configs, input, f)
    BY BothExist
  <1>1. f = [n \in Touched(Workflow) |-> Both(configs, input, n, f)]
    BY <1>a DEF AreBoth
  <1> DEFINE Is(g) == g = [n \in Touched(Workflow) |-> OneValue(configs, input, n, g)]
  <1> DEFINE g == [n \in Touched(Workflow) |-> f[n].value]
  <1>2. ASSUME NEW n \in Touched(Workflow) PROVE g[n] = OneValue(configs, input, n, g)
    <2> DEFINE ups == UpstreamOf(Workflow, n)
    <2>1. \A i \in DOMAIN ups : g[ups[i]] = f[ups[i]].value
      BY UpstreamTouched
    <2>2. g[n] = Value(Workflow, n, configs, input, None, [i \in DOMAIN ups |-> f[ups[i]].value])
      <3>1. f[n] = Both(configs, input, n, f) /\ g[n] = f[n].value
        BY <1>1
      <3> HIDE DEF g
      <3>2. QED
        BY <3>1 DEF Both
    <2> HIDE DEF g, ups
    <2>3. [i \in DOMAIN ups |-> f[ups[i]].value] = [i \in DOMAIN ups |-> g[ups[i]]]
      BY <2>1
    <2>4. QED
      BY <2>2, <2>3 DEF OneValue, ups
  <1>3. g = [n \in Touched(Workflow) |-> g[n]]
    OBVIOUS
  <1> HIDE DEF g
  <1>4. Is(g)
    BY <1>2, <1>3
  <1>5. Values(configs, input) = CHOOSE h : Is(h)
    BY DEF Values
  <1>6. Is(Values(configs, input))
    <2> HIDE DEF Is
    <2>1. QED
      BY <1>4, <1>5
  <1>7. QED
    BY <1>6

\* With a node come the ancestors of its ancestors.
LEMMA AncestorsOfAncestors ==
    ASSUME NEW g, NEW n, NEW u \in Ancestors(g, n)
    PROVE  Ancestors(g, u) \subseteq Ancestors(g, n)
  BY DEF Ancestors

\* Nodes whose origin is the same have the same fingerprint.
LEMMA SameOriginSameFingerprint ==
    ASSUME NEW m, NEW old, NEW n \in Touched(Workflow), SameOrigin(m, old, n)
    PROVE  Fingerprints(m.config, m.input)[n] = Fingerprints(old.config, old.input)[n]
  <1> DEFINE f == Fingerprints(m.config, m.input)
             h == Fingerprints(old.config, old.input)
             Bad == {j \in DOMAIN WorkflowOrder : SameOrigin(m, old, WorkflowOrder[j]) /\ f[WorkflowOrder[j]] # h[WorkflowOrder[j]]}
  <1>1. SUFFICES ASSUME Bad # {} PROVE FALSE
    <2>1. PICK j \in DOMAIN WorkflowOrder : n = WorkflowOrder[j]
      BY WorkflowOrderFacts DEF Elements
    <2>2. f[n] # h[n] => j \in Bad
      BY <2>1
    <2>3. QED
      BY <1>1, <2>2
  <1>2. Bad \subseteq Nat
    BY WorkflowOrderFacts
  <1>3. PICK j \in Bad : \A i \in Bad : j <= i
    <2> HIDE DEF Bad
    <2>1. QED
      BY <1>1, <1>2, Least
  <1> DEFINE x == WorkflowOrder[j]
             ups == UpstreamOf(Workflow, x)
  <1>4. j \in DOMAIN WorkflowOrder /\ SameOrigin(m, old, x) /\ f[x] # h[x] /\ j \in Nat
    BY <1>2, <1>3
  <1>5. x \in Touched(Workflow) /\ x \in NodeIds(Workflow)
    BY <1>4, WorkflowOrderFacts DEF Elements, Ids
  <1>6. /\ x \in Ancestors(Workflow, x) /\ Fed(Workflow, Ancestors(Workflow, x))
    BY <1>5, ExecutionAssumption, AncestorsFacts
  <1>7. m.config[x] = old.config[x] /\ (x \in Inputs => m.input = old.input)
    BY <1>4, <1>6 DEF SameOrigin
  <1>8. ASSUME NEW i \in DOMAIN ups PROVE f[ups[i]] = h[ups[i]]
    <2>1. PICK k \in EdgesInto(Workflow, x) : ups[i] = Source(Workflow, k)
      BY <1>8, ExecutionAssumption, UpstreamFacts
    <2>2. ups[i] \in Ancestors(Workflow, x)
      BY <1>6, <2>1 DEF Fed, EdgesInto
    <2>3. SameOrigin(m, old, ups[i])
      BY <1>4, <2>2, AncestorsOfAncestors DEF SameOrigin
    <2>4. PICK l \in DOMAIN WorkflowOrder : l < j /\ WorkflowOrder[l] = ups[i]
      BY <1>4, <1>8, WorkflowOrderFacts DEF Elements
    <2>5. l \notin Bad
      BY <1>2, <1>3, <1>4, <2>4
    <2>6. QED
      BY <2>3, <2>4, <2>5
  <1> HIDE DEF x, ups, f, h, Bad
  <1>9. [i \in DOMAIN ups |-> f[ups[i]]] = [i \in DOMAIN ups |-> h[ups[i]]]
    BY <1>8
  <1>10. /\ f[x] = OneFingerprint(m.config, m.input, x, f)
         /\ h[x] = OneFingerprint(old.config, old.input, x, h)
    BY <1>5, FingerprintsFacts DEF f, h
  <1>11. OneFingerprint(m.config, m.input, x, f) = OneFingerprint(old.config, old.input, x, h)
    BY <1>7, <1>9 DEF OneFingerprint, FingerprintOf, ups
  <1>12. QED
    BY <1>4, <1>10, <1>11

\* The replay cache serves what it has of a node whose origin is the same.
LEMMA CacheServes ==
    ASSUME RunInv, CandidateRuns # {}, NEW i \in DOMAIN record[ReplaySource].nodes,
           record[ReplaySource].nodes[i].output # NoOutput,
           NEW m, NEW n, n = record[ReplaySource].nodes[i].node,
           SameOrigin(m, record[ReplaySource], n)
    PROVE  n \in DOMAIN ReplayCache /\ ReplayCache[n].fp = Fingerprints(m.config, m.input)[n]
  <1> DEFINE old == record[ReplaySource]
             entries == {e \in Elements(old.nodes) : Usable(e)}
  <1>1. ReplayCache = [x \in {e.node : e \in entries} |-> CHOOSE e \in entries : e.node = x]
    BY DEF ReplayCache
  <1>2. RecordFits(old)
    <2>1. Len(record) \in Nat /\ DOMAIN record = 1..Len(record)
      BY ListedFacts DEF RunInv
    <2>2. CandidateRuns \subseteq 0..Len(record)
      BY <2>1 DEF CandidateRuns
    <2>3. \E r \in CandidateRuns : \A s \in CandidateRuns : s <= r
      BY <2>1, <2>2, Greatest
    <2>4. ReplaySource \in CandidateRuns
      BY <2>3 DEF ReplaySource
    <2>5. QED
      BY <2>4 DEF CandidateRuns, RunInv
  <1>3. \A j \in DOMAIN old.nodes :
           NodeFits(old.nodes[j]) /\ old.nodes[j].fp = Fingerprints(old.config, old.input)[old.nodes[j].node]
    BY <1>2 DEF RecordFits, NodesFit
  <1>4. old.nodes[i] \in entries
    BY <1>3 DEF NodeFits, Usable, Done, Elements, NoOutput
  <1>5. n \in DOMAIN ReplayCache
    BY <1>1, <1>4
  <1>6. PICK j \in DOMAIN old.nodes :
           ReplayCache[n] = old.nodes[j] /\ ReplayCache[n].node = n
    BY <1>5, ReplayCacheFacts
  <1>7. ReplayCache[n].fp = Fingerprints(old.config, old.input)[n]
    BY <1>3, <1>6
  <1>8. n \in Touched(Workflow)
    <2>1. RunRecord(old) /\ old.nodes # <<>> /\ Listed(old.nodes)
      BY <1>2, RecordTypes DEF RecordFits, IsMem
    <2>2. old.target \in Targets /\ Len(old.nodes) <= Len(Orders[old.target])
      BY <1>2, <2>1 DEF RecordFits, NodesFit
    <2>3. n = Orders[old.target][i]
      BY <1>2 DEF RecordFits, NodesFit
    <2>4. i \in DOMAIN Orders[old.target]
      BY <2>1, <2>2, ListedFacts, OrdersFit
    <2>5. n \in Touched(Graphs[old.target])
      BY <2>2, <2>3, <2>4, OrdersFit
    <2>6. Touched(Graphs[old.target]) \subseteq Touched(Workflow)
      <3>1. CASE old.target = NoTarget
        BY <2>2, <3>1 DEF Graphs, Targets
      <3>2. CASE old.target # NoTarget
        <4>1. old.target \in NodeIds(Workflow)
          BY <2>2, <3>2 DEF Targets, Ids
        <4>2. Graphs[old.target] = SubgraphForNode(Workflow, old.target)
          BY <2>2, <3>2 DEF Graphs, Targets
        <4>3. QED
          BY <4>1, <4>2, ExecutionAssumption, SubgraphFacts, AncestorsFacts
      <3>3. QED
        BY <3>1, <3>2
    <2>7. QED
      BY <2>5, <2>6
  <1>9. QED
    BY <1>5, <1>7, <1>8, SameOriginSameFingerprint

\* The only step from "begun" to "next" is Plan.
LEMMA PlannedBy ==
    ASSUME RunInv, Next, NEW r \in RunIds, live[r].pc = "begun", live'[r].pc = "next"
    PROVE  Plan(r)
  <1>1. DOMAIN live = RunIds
    BY DEF RunInv
  <1>2. ASSUME NEW s \in RunIds, RunStep(s) PROVE Plan(r)
    <2>1. CASE s # r
      <3>1. \E p : live' = [live EXCEPT ![s] = p]
        BY <1>2, StepOfRun DEF Writes, Thinks
      <3>2. live'[r] = live[r]
        BY <2>1, <3>1
      <3>3. QED
        BY <3>2
    <2>2. CASE s = r
      <3>1. Plan(r) \/ RefuseTarget(r)
        BY <1>2, <2>2 DEF RunStep, Begin, StartNode, ReplayNode, ExecuteNode, FailNode, FailRun,
             MarkReplayed, Complete
      <3>2. RefuseTarget(r) => live'[r] = Idle
        BY <1>1 DEF RefuseTarget
      <3>3. QED
        BY <3>1, <3>2 DEF Idle
    <2>3. QED
      BY <2>1, <2>2
  <1>3. ASSUME NEW s \in RunIds, NEW why, EndContext(s, why) PROVE FALSE
    <2>1. live' = [live EXCEPT ![s].ctx = why] /\ live[s].pc # "idle"
      BY <1>3 DEF EndContext
    <2>2. CASE s = r
      <3>1. IsPlace(live[r])
        BY RunStands
      <3>2. live'[r] = [live[r] EXCEPT !.ctx = why]
        BY <1>1, <2>1, <2>2
      <3>3. live'[r].pc = live[r].pc
        BY <3>1, <3>2 DEF IsPlace
      <3>4. QED
        BY <3>3
    <2>3. CASE s # r
      BY <1>1, <2>1, <2>3
    <2>4. QED
      BY <2>2, <2>3
  <1>4. ASSUME NEW q, PrepareRun(q) PROVE FALSE
    <2> DEFINE k == Len(record) + 1
    <2>1. live' = live \/ \E m : live' = [live EXCEPT ![k] = [Idle EXCEPT !.pc = "prepared", !.mem = m]]
      BY <1>4 DEF PrepareRun
    <2>2. \A m : [Idle EXCEPT !.pc = "prepared", !.mem = m].pc = "prepared"
      BY DEF Idle
    <2>3. QED
      BY <1>1, <2>1, <2>2
  <1>5. CASE (\E n \in Ids : EditNode(n)) \/ EditFile
    BY <1>5 DEF EditNode, EditFile
  <1>6. CASE Stop
    BY <1>6 DEF Stop, Idle
  <1>7. QED
    BY <1>2, <1>3, <1>4, <1>5, <1>6 DEF Next

\* What was not edited is not executed again: a run that may use the cache
\* replays every node of the run before it whose ancestors are as they were.
THEOREM UnchangedIsReplayedAlways == Spec => UnchangedIsReplayed
  <1> DEFINE Served(r) ==
        (live[r].pc = "begun" /\ live'[r].pc = "next" /\ live[r].mem.useCache
             /\ CandidateRuns # {})
        => LET m == live[r].mem
               old == record[ReplaySource] IN
           \A i \in DOMAIN old.nodes :
               LET n == old.nodes[i].node IN
               (/\ old.nodes[i].output # NoOutput /\ SameOrigin(m, old, n)
                /\ n # m.target /\ ~OutsideTheFingerprint(n)) => Replayable(live'[r], n)
  <1>1. RunInv /\ [Next]_vars => [\A r \in RunIds : Served(r)]_vars
    <2> SUFFICES ASSUME RunInv, Next, NEW r \in RunIds PROVE Served(r)
      OBVIOUS
    <2> DEFINE m == live[r].mem
               old == record[ReplaySource]
    <2>1. SUFFICES ASSUME live[r].pc = "begun", live'[r].pc = "next", m.useCache, CandidateRuns # {},
                          NEW i \in DOMAIN old.nodes, NEW n, n = old.nodes[i].node,
                          old.nodes[i].output # NoOutput, SameOrigin(m, old, n),
                          n # m.target, ~OutsideTheFingerprint(n)
                   PROVE  Replayable(live'[r], n)
      OBVIOUS
    <2>2. Plan(r)
      BY <2>1, PlannedBy
    <2> DEFINE kept == [x \in DOMAIN ReplayCache \ {m.target} |-> ReplayCache[x]]
    <2>3. live'[r] = [live[r] EXCEPT !.pc = "next", !.order = Orders[m.target],
                                     !.fps = Fingerprints(m.config, m.input), !.cache = kept]
      <3>1. r \in DOMAIN live
        BY DEF RunInv
      <3>2. QED
        BY <2>1, <2>2, <3>1 DEF Plan
    <2>4. IsPlace(live[r])
      BY <2>1, RunStands
    <2>5. n \in DOMAIN ReplayCache /\ ReplayCache[n].fp = Fingerprints(m.config, m.input)[n]
      BY <2>1, CacheServes
    <2>6. kept[n] = ReplayCache[n] /\ n \in DOMAIN kept
      BY <2>1, <2>5
    <2> HIDE DEF kept
    <2>7. live'[r].cache = kept /\ live'[r].fps = Fingerprints(m.config, m.input)
      BY <2>3, <2>4 DEF IsPlace
    <2>8. QED
      BY <2>1, <2>5, <2>6, <2>7 DEF Replayable
  <1>2. QED
    BY <1>1, RunsFit, PTL DEF Spec, UnchangedIsReplayed

----------------------------------------------------------------------------
(* What the fingerprint covers.                                            *)

\* The upstream of a covered node is covered.
LEMMA CoveredUpstream ==
    ASSUME NEW n \in Ids, Covered(n), NEW i \in DOMAIN UpstreamOf(Workflow, n)
    PROVE  Covered(UpstreamOf(Workflow, n)[i]) /\ UpstreamOf(Workflow, n)[i] \in Touched(Workflow)
  <1>1. PICK k \in EdgesInto(Workflow, n) : UpstreamOf(Workflow, n)[i] = Source(Workflow, k)
    BY ExecutionAssumption, UpstreamFacts
  <1>2. n \in Ancestors(Workflow, n) /\ Fed(Workflow, Ancestors(Workflow, n))
    BY ExecutionAssumption, AncestorsFacts DEF Ids
  <1>3. Source(Workflow, k) \in Ancestors(Workflow, n)
    BY <1>1, <1>2 DEF Fed, EdgesInto
  <1>4. Ancestors(Workflow, Source(Workflow, k)) \subseteq Ancestors(Workflow, n)
    BY <1>3, AncestorsOfAncestors
  <1>5. QED
    BY <1>1, <1>4, UpstreamTouched DEF Covered

\* Sorting a list of one element at most loses nothing.
LEMMA SortedShort ==
    ASSUME NEW m \in Nat, m <= 1, NEW s, NEW t, DOMAIN s = 1..m, DOMAIN t = 1..m,
           Sorted(s) = Sorted(t)
    PROVE  \A i \in 1..m : s[i] = t[i]
  <1>1. SUFFICES ASSUME NEW i \in 1..m PROVE s[i] = t[i]
    OBVIOUS
  <1>2. i = 1 /\ m = 1
    OBVIOUS
  <1>3. DOMAIN Sorted(s) = Elements(s) /\ DOMAIN Sorted(t) = Elements(t)
    BY DEF Sorted
  <1>4. Elements(s) = {s[1]} /\ Elements(t) = {t[1]}
    BY <1>2 DEF Elements
  <1>5. QED
    BY <1>2, <1>3, <1>4

\* Under one fingerprint there is one value.
LEMMA SameFingerprintSameValue ==
    ASSUME NEW configs, NEW input, NEW configs2, NEW input2, NEW n \in Touched(Workflow),
           Covered(n), Brains \cap Ids = {},
           Fingerprints(configs, input)[n] = Fingerprints(configs2, input2)[n]
    PROVE  Values(configs, input)[n] = Values(configs2, input2)[n]
  <1> DEFINE f == Fingerprints(configs, input)
             h == Fingerprints(configs2, input2)
             v == Values(configs, input)
             w == Values(configs2, input2)
             Odd(x) == Covered(x) /\ f[x] = h[x] /\ v[x] # w[x]
             Bad == {j \in DOMAIN WorkflowOrder : Odd(WorkflowOrder[j])}
  <1>1. SUFFICES ASSUME Bad # {} PROVE FALSE
    <2>1. PICK j \in DOMAIN WorkflowOrder : n = WorkflowOrder[j]
      BY WorkflowOrderFacts DEF Elements
    <2>2. v[n] # w[n] => j \in Bad
      BY <2>1
    <2>3. QED
      BY <1>1, <2>2
  <1>2. Bad \subseteq Nat
    BY WorkflowOrderFacts
  <1>3. PICK j \in Bad : \A i \in Bad : j <= i
    <2> HIDE DEF Bad
    <2>1. QED
      BY <1>1, <1>2, Least
  <1> DEFINE x == WorkflowOrder[j]
             ups == UpstreamOf(Workflow, x)
             m == Cardinality(EdgesInto(Workflow, x))
  <1>4. j \in DOMAIN WorkflowOrder /\ Odd(x) /\ j \in Nat
    BY <1>2, <1>3
  <1>5. x \in Touched(Workflow) /\ x \in Ids
    BY <1>4, WorkflowOrderFacts DEF Elements
  <1>6. /\ f[x] = OneFingerprint(configs, input, x, f)
        /\ h[x] = OneFingerprint(configs2, input2, x, h)
        /\ v[x] = OneValue(configs, input, x, v)
        /\ w[x] = OneValue(configs2, input2, x, w)
    BY <1>5, FingerprintsFacts, ValuesFacts
  <1>7. /\ x \notin Readers /\ (x \in Templated => x \in Inputs) /\ x \notin Brains
        /\ m <= 1 /\ m \in Nat /\ DOMAIN ups = 1..m
    <2>1. x \in Ancestors(Workflow, x)
      BY <1>5, ExecutionAssumption, AncestorsFacts DEF Ids
    <2>2. x \notin Readers \cup Images \cup (Templated \ Inputs) /\ m <= 1
      BY <1>4, <2>1 DEF Covered
    <2>3. m \in Nat /\ DOMAIN ups = 1..m
      BY ExecutionAssumption, UpstreamFacts
    <2>4. x \notin Brains
      BY <1>5
    <2>5. QED
      BY <2>2, <2>3, <2>4
  <1>8. \A i \in DOMAIN ups : Covered(ups[i])
    BY <1>4, <1>5, CoveredUpstream
  <1>9. \A i \in DOMAIN ups : \E l \in DOMAIN WorkflowOrder : l < j /\ WorkflowOrder[l] = ups[i]
    BY <1>4, WorkflowOrderFacts DEF Elements
  <1>10. \A i \in DOMAIN ups : f[ups[i]] = h[ups[i]] => v[ups[i]] = w[ups[i]]
    <2>1. SUFFICES ASSUME NEW i \in DOMAIN ups, f[ups[i]] = h[ups[i]] PROVE v[ups[i]] = w[ups[i]]
      OBVIOUS
    <2>2. PICK l \in DOMAIN WorkflowOrder : l < j /\ WorkflowOrder[l] = ups[i]
      BY <1>9
    <2>3. l \notin Bad
      BY <1>2, <1>3, <1>4, <2>2
    <2>4. QED
      BY <1>8, <2>1, <2>2, <2>3
  <1>11. f[x] = h[x] /\ v[x] # w[x]
    BY <1>4
  <1> HIDE DEF x, ups, f, h, v, w, Bad, m
  <1> DEFINE s == [i \in DOMAIN ups |-> f[ups[i]]]
             t == [i \in DOMAIN ups |-> h[ups[i]]]
  <1>12. /\ f[x] = [config |-> configs[x], input |-> IF x \in Inputs THEN input ELSE None, ups |-> Sorted(s)]
         /\ h[x] = [config |-> configs2[x], input |-> IF x \in Inputs THEN input2 ELSE None, ups |-> Sorted(t)]
    BY <1>6 DEF OneFingerprint, FingerprintOf, ups
  <1>13. /\ configs[x] = configs2[x] /\ (x \in Inputs => input = input2) /\ Sorted(s) = Sorted(t)
    <2> HIDE DEF s, t
    <2>1. /\ f[x].config = configs[x] /\ h[x].config = configs2[x]
          /\ f[x].ups = Sorted(s) /\ h[x].ups = Sorted(t)
      BY <1>12
    <2>2. x \in Inputs => f[x].input = input /\ h[x].input = input2
      BY <1>12
    <2>3. QED
      BY <1>11, <2>1, <2>2
  <1>14. \A i \in DOMAIN ups : f[ups[i]] = h[ups[i]]
    <2>1. DOMAIN s = 1..m /\ DOMAIN t = 1..m
      BY <1>7
    <2>2. \A i \in 1..m : s[i] = t[i]
      <3> HIDE DEF s, t
      <3>1. QED
        BY <1>7, <1>13, <2>1, SortedShort
    <2>3. QED
      BY <1>7, <2>2
  <1>15. [i \in DOMAIN ups |-> v[ups[i]]] = [i \in DOMAIN ups |-> w[ups[i]]]
    BY <1>10, <1>14
  <1>16. OneValue(configs, input, x, v) = OneValue(configs2, input2, x, w)
    BY <1>7, <1>13, <1>15 DEF OneValue, Value, ReadsInput, ups
  <1>17. QED
    BY <1>6, <1>11, <1>16

\* An edge into a node kept in a subgraph is kept with it.
LEMMA SubgraphEdges ==
    ASSUME NEW t \in Ids, NEW n \in NodeIds(SubgraphForNode(Workflow, t)),
           Cardinality(EdgesInto(Workflow, n)) <= 1
    PROVE  UpstreamOf(SubgraphForNode(Workflow, t), n) = UpstreamOf(Workflow, n)
  <1> DEFINE g == Workflow
             sub == SubgraphForNode(g, t)
             kept == Ancestors(g, t)
             K == {k \in DOMAIN g.edges : Source(g, k) \in kept /\ Target(g, k) \in kept}
             ks == InOrder(K)
             A == EdgesInto(sub, n)
             B == EdgesInto(g, n)
  <1>1. /\ WellFormed(g) /\ ~Dangling(g) /\ t \in NodeIds(g) /\ WellFormed(sub) /\ NodeIds(sub) = kept
        /\ Fed(g, kept) /\ n \in kept
    BY ExecutionAssumption, SubgraphFacts, AncestorsFacts DEF Ids
  <1>2. sub.edges = Selected(g.edges, K)
    BY DEF SubgraphForNode
  <1>3. K \subseteq DOMAIN g.edges /\ K \subseteq Nat /\ IsFiniteSet(K)
    BY <1>1, PlacesFacts DEF WellFormed
  <1>4. /\ Cardinality(K) \in Nat /\ ks \in [1..Cardinality(K) -> K]
        /\ \A i, j \in 1..Cardinality(K) : i < j => ks[i] < ks[j]
        /\ \A k \in K : \E i \in 1..Cardinality(K) : ks[i] = k
    BY <1>3, InOrderFacts
  <1>5. DOMAIN sub.edges = 1..Cardinality(K) /\ \A i \in 1..Cardinality(K) : sub.edges[i] = g.edges[ks[i]]
    BY <1>2, <1>4 DEF Selected
  <1>6. B \subseteq K /\ IsFiniteSet(B) /\ B \subseteq Nat
    <2>1. B \subseteq K
      BY <1>1 DEF EdgesInto, DataEdges, Fed
    <2>2. QED
      BY <1>3, <2>1, FS_Subset
  <1>7. A = {i \in 1..Cardinality(K) : ks[i] \in B}
    <2>1. A = {i \in 1..Cardinality(K) : sub.edges[i].kind # "tool" /\ sub.edges[i].target = n}
      BY <1>5 DEF EdgesInto, DataEdges, Target
    <2>2. B = {k \in DOMAIN g.edges : g.edges[k].kind # "tool" /\ g.edges[k].target = n}
      BY DEF EdgesInto, DataEdges, Target
    <2>3. \A i \in 1..Cardinality(K) : ks[i] \in DOMAIN g.edges
      BY <1>3, <1>4
    <2> HIDE DEF A, B, sub, ks, K, g
    <2>4. QED
      BY <1>5, <2>1, <2>2, <2>3
  <1> HIDE DEF sub, ks, K, A, B
  <1>8. \A i \in A : ks[i] \in B /\ Source(sub, i) = Source(g, ks[i])
    BY <1>5, <1>7 DEF Source
  <1>9. \A k \in B : \E i \in A : ks[i] = k
    BY <1>4, <1>6, <1>7
  <1>10. Cardinality(A) = Cardinality(B)
    <2> DEFINE at == [i \in A |-> ks[i]]
    <2>1. at \in Bijection(A, B)
      <3>1. \A i, j \in A : ks[i] = ks[j] => i = j
        <4>1. \A i, j \in A : i \in Nat /\ j \in Nat /\ i \in 1..Cardinality(K) /\ j \in 1..Cardinality(K)
          BY <1>4, <1>7
        <4>2. \A i \in A : ks[i] \in Nat
          BY <1>6, <1>8
        <4>3. SUFFICES ASSUME NEW i \in A, NEW j \in A, i # j PROVE ks[i] # ks[j]
          OBVIOUS
        <4>4. i < j \/ j < i
          <5>1. i \in Nat /\ j \in Nat
            BY <4>1
          <5>2. QED
            BY <4>3, <5>1
        <4>5. ks[i] < ks[j] \/ ks[j] < ks[i]
          BY <1>4, <4>1, <4>4
        <4>6. QED
          BY <4>2, <4>5
      <3>2. at \in [A -> B]
        BY <1>8
      <3>3. at \in Injection(A, B)
        BY <3>1, <3>2 DEF Injection, IsInjective
      <3>4. at \in Surjection(A, B)
        BY <1>9, <3>2 DEF Surjection
      <3>5. QED
        BY <3>3, <3>4 DEF Bijection
    <2>2. IsFiniteSet(A)
      <3>1. A \subseteq 1..Cardinality(K)
        BY <1>7
      <3>2. QED
        BY <1>4, <3>1, CountTo, FS_Subset
    <2>3. ExistsBijection(A, B)
      BY <2>1 DEF ExistsBijection
    <2>4. QED
      BY <1>6, <2>2, <2>3, FS_Bijection
  <1> DEFINE us == UpstreamOf(sub, n)
             ug == UpstreamOf(g, n)
  <1>11. /\ DOMAIN us = 1..Cardinality(A) /\ \A i \in DOMAIN us : \E k \in A : us[i] = Source(sub, k)
    BY <1>1, UpstreamFacts DEF A
  <1>12. /\ DOMAIN ug = 1..Cardinality(B) /\ \A i \in DOMAIN ug : \E k \in B : ug[i] = Source(g, k)
         /\ Cardinality(B) \in Nat
    BY <1>1, UpstreamFacts DEF B
  <1>13. \A k, l \in B : k = l
    <2>1. Cardinality(B) = 0 \/ Cardinality(B) = 1
      BY <1>12 DEF B
    <2>2. Cardinality(B) = 0 => B = {}
      BY <1>6, FS_EmptySet
    <2>3. Cardinality(B) = 1 => \E x : B = {x}
      BY <1>6, FS_Singleton
    <2>4. QED
      BY <2>1, <2>2, <2>3
  <1>14. us = [i \in DOMAIN us |-> us[i]] /\ ug = [i \in DOMAIN ug |-> ug[i]]
    BY DEF UpstreamOf
  <1> HIDE DEF us, ug
  <1>15. DOMAIN us = DOMAIN ug /\ \A i \in DOMAIN us : us[i] = ug[i]
    BY <1>8, <1>10, <1>11, <1>12, <1>13
  <1>16. us = ug
    BY <1>14, <1>15
  <1>17. QED
    BY <1>16 DEF us, ug, sub

----------------------------------------------------------------------------
(* Replay is honest where the fingerprint covers.                          *)

ValueOf(m, n) == Values(m.config, m.input)[n]

\* What came out of a covered node is on record as the value it has in the run.
HonestRecord(m) ==
    \A i \in DOMAIN m.nodes :
        m.nodes[i].status \in Done /\ Covered(m.nodes[i].node)
            => m.nodes[i].output = ValueOf(m, m.nodes[i].node)

\* Of a covered node the cache holds a value with its own fingerprint.
HonestEntry(e, n) ==
    \E configs, input :
        e.fp = Fingerprints(configs, input)[n] /\ e.output = Values(configs, input)[n]

HonestOutput(p, n) ==
    /\ Elements(UpstreamOf(GraphOf(p.mem), n)) \subseteq DOMAIN p.outputs
    /\ Honest(p, n)
    /\ Covered(n) => p.outputs[n] = ValueOf(p.mem, n)

HonestRun(p) ==
    /\ HonestRecord(p.mem)
    /\ \A n \in DOMAIN p.cache : Covered(n) => HonestEntry(p.cache[n], n)
    /\ \A n \in DOMAIN p.outputs : HonestOutput(p, n)

HonestInv ==
    /\ \A r \in DOMAIN record : HonestRecord(record[r])
    /\ \A r \in RunIds : live[r] # Idle => HonestRun(live[r])

\* Run r goes on as p, or ends, and m is what its file is given, if anything.
Tells(r, p, m) ==
    /\ live' = [live EXCEPT ![r] = p]
    /\ record' = record \/ record' = [record EXCEPT ![r] = m]
    /\ HonestRecord(m) /\ (p # Idle => HonestRun(p))

LEMMA TellsKeeps ==
    ASSUME RunInv, HonestInv, NEW r \in RunIds, NEW p, NEW m, Tells(r, p, m)
    PROVE  HonestInv'
  <1>1. \A s \in RunIds : live'[s] = IF s = r THEN p ELSE live[s]
    BY DEF RunInv, Tells
  <1>2. /\ DOMAIN record' = DOMAIN record
        /\ \A s \in DOMAIN record : record'[s] = record[s] \/ record'[s] = m
    BY DEF Tells
  <1>3. \A s \in DOMAIN record' : HonestRecord(record'[s])
    BY <1>2 DEF HonestInv, Tells
  <1>4. \A s \in RunIds : live'[s] # Idle => HonestRun(live'[s])
    BY <1>1 DEF HonestInv, Tells
  <1>5. QED
    BY <1>3, <1>4 DEF HonestInv

\* A record that says the same of its nodes, or whose nodes are new, is honest.
LEMMA SameRecord ==
    ASSUME NEW m, HonestRecord(m), NEW x, x.nodes = m.nodes, x.config = m.config,
           x.input = m.input
    PROVE  HonestRecord(x)
  BY DEF HonestRecord, ValueOf

\* A run that holds the same outputs and the same cache is honest.
LEMMA SameOutputs ==
    ASSUME NEW old, HonestRun(old), NEW p, p.outputs = old.outputs, p.cache = old.cache,
           p.mem.config = old.mem.config, p.mem.input = old.mem.input,
           p.mem.target = old.mem.target, HonestRecord(p.mem)
    PROVE  HonestRun(p)
  <1>1. GraphOf(p.mem) = GraphOf(old.mem)
    BY DEF GraphOf
  <1>2. ASSUME NEW n \in DOMAIN old.outputs PROVE HonestOutput(p, n)
    <2>1. HonestOutput(old, n)
      BY DEF HonestRun
    <2>2. Honest(old, n) => Honest(p, n)
      BY <1>1 DEF Honest
    <2>3. QED
      BY <1>1, <2>1, <2>2 DEF HonestOutput, ValueOf
  <1>3. QED
    BY <1>2 DEF HonestRun

LEMMA LiveStands ==
    ASSUME RunInv, HonestInv, NEW r \in RunIds, live[r].pc # "idle"
    PROVE  /\ HonestRun(live[r]) /\ HonestRecord(live[r].mem)
           /\ RunFits(live[r]) /\ IsPlace(live[r]) /\ IsMem(live[r].mem)
           /\ RecordFits(live[r].mem) /\ live[r] # Idle
  <1>1. live[r] # Idle
    BY DEF Idle
  <1>2. QED
    BY <1>1, RunStands DEF HonestInv, HonestRun

LEMMA PersistFacts ==
    ASSUME NEW r, NEW m, Persist(r, m)
    PROVE  record' = record \/ record' = [record EXCEPT ![r] = m]
  BY DEF Persist

LEMMA HonestBegin ==
    ASSUME RunInv, HonestInv, NEW r \in RunIds, Begin(r)
    PROVE  \E p, m : Tells(r, p, m)
  <1> DEFINE old == live[r]
             p == [old EXCEPT !.pc = "begun", !.mem.status = "running"]
  <1>1. HonestRun(old) /\ HonestRecord(old.mem) /\ IsPlace(old) /\ IsMem(old.mem)
    BY LiveStands DEF Begin
  <1>2. live' = [live EXCEPT ![r] = p] /\ (record' = record \/ record' = [record EXCEPT ![r] = p.mem])
    BY PersistFacts DEF Begin, Continue
  <1> HIDE DEF old
  <1>3. /\ p.outputs = old.outputs /\ p.cache = old.cache /\ p.mem = [old.mem EXCEPT !.status = "running"]
    BY <1>1 DEF IsPlace
  <1>4. /\ p.mem.config = old.mem.config /\ p.mem.input = old.mem.input
        /\ p.mem.target = old.mem.target /\ p.mem.nodes = old.mem.nodes
    BY <1>1, <1>3 DEF IsMem
  <1> HIDE DEF p
  <1>5. HonestRecord(p.mem)
    BY <1>1, <1>4, SameRecord
  <1>6. HonestRun(p)
    BY <1>1, <1>3, <1>4, <1>5, SameOutputs
  <1>7. Tells(r, p, p.mem)
    BY <1>2, <1>5, <1>6 DEF Tells, old
  <1>8. QED
    BY <1>7

\* The entries of the replay cache come from an honest record.
LEMMA HonestCache ==
    ASSUME RunInv, HonestInv, NEW n \in DOMAIN ReplayCache, Covered(n)
    PROVE  HonestEntry(ReplayCache[n], n)
  <1> DEFINE m == record[ReplaySource]
  <1>1. /\ ReplaySource \in CandidateRuns /\ ReplaySource \in DOMAIN record
        /\ \E i \in DOMAIN m.nodes : ReplayCache[n] = m.nodes[i] /\ ReplayCache[n].node = n
    BY ReplayCacheFacts
  <1>2. PICK i \in DOMAIN m.nodes : ReplayCache[n] = m.nodes[i] /\ m.nodes[i].node = n
    BY <1>1
  <1>3. RecordFits(m) /\ HonestRecord(m) /\ m.status = "completed"
    BY <1>1 DEF RunInv, HonestInv, CandidateRuns
  <1> HIDE DEF m
  <1>4. m.nodes[i].status \in Done /\ m.nodes[i].fp = Fingerprints(m.config, m.input)[n]
    BY <1>2, <1>3 DEF RecordFits, Whole, NodesFit
  <1>5. m.nodes[i].output = Values(m.config, m.input)[n]
    BY <1>2, <1>3, <1>4 DEF HonestRecord, ValueOf
  <1>6. QED
    BY <1>2, <1>4, <1>5 DEF HonestEntry

LEMMA HonestPlan ==
    ASSUME RunInv, HonestInv, NEW r \in RunIds, Plan(r)
    PROVE  \E p, m : Tells(r, p, m)
  <1> DEFINE old == live[r]
             m == old.mem
             cache == IF m.useCache THEN ReplayCache ELSE Empty
             kept == [n \in DOMAIN cache \ {m.target} |-> cache[n]]
             p == [old EXCEPT !.pc = "next", !.order = Orders[m.target],
                              !.fps = Fingerprints(m.config, m.input), !.cache = kept]
  <1>1. HonestRun(old) /\ HonestRecord(m) /\ IsPlace(old) /\ RunFits(old) /\ old.pc = "begun"
    BY LiveStands DEF Plan
  <1>2. live' = [live EXCEPT ![r] = p] /\ record' = record
    BY DEF Plan
  <1>3. \A n \in DOMAIN kept : Covered(n) => HonestEntry(kept[n], n)
    <2>1. SUFFICES ASSUME NEW n \in DOMAIN cache, Covered(n) PROVE HonestEntry(cache[n], n)
      OBVIOUS
    <2>2. DOMAIN Empty = {}
      BY DEF Empty
    <2>3. m.useCache
      BY <2>1, <2>2
    <2>4. QED
      BY <2>1, <2>3, HonestCache
  <1> HIDE DEF old, kept
  <1>4. p.cache = kept /\ p.outputs = old.outputs /\ p.mem = m
    BY <1>1 DEF IsPlace
  <1> HIDE DEF p
  <1>5. DOMAIN old.outputs = {}
    BY <1>1 DEF RunFits, Early, Empty
  <1>6. HonestRun(p)
    BY <1>1, <1>3, <1>4, <1>5 DEF HonestRun
  <1>7. Tells(r, p, m)
    BY <1>1, <1>2, <1>6 DEF Tells, old
  <1>8. QED
    BY <1>7

LEMMA HonestStart ==
    ASSUME RunInv, HonestInv, NEW r \in RunIds, StartNode(r)
    PROVE  \E p, m : Tells(r, p, m)
  <1> DEFINE old == live[r]
             e == [node |-> old.order[old.k], status |-> "running", fp |-> old.fps[old.order[old.k]],
                   output |-> NoOutput]
             p == [old EXCEPT !.pc = "node", !.mem.nodes = Append(@, e)]
  <1>1. HonestRun(old) /\ HonestRecord(old.mem) /\ IsPlace(old) /\ IsMem(old.mem)
    BY LiveStands DEF StartNode
  <1>2. live' = [live EXCEPT ![r] = p] /\ (record' = record \/ record' = [record EXCEPT ![r] = p.mem])
    BY PersistFacts DEF StartNode, Continue
  <1>a. e.status \notin Done
    BY DEF Done
  <1> HIDE DEF old, e
  <1>3. /\ p.outputs = old.outputs /\ p.cache = old.cache
        /\ p.mem = [old.mem EXCEPT !.nodes = Append(old.mem.nodes, e)]
    BY <1>1 DEF IsPlace
  <1>4. /\ p.mem.config = old.mem.config /\ p.mem.input = old.mem.input
        /\ p.mem.target = old.mem.target /\ p.mem.nodes = Append(old.mem.nodes, e)
    BY <1>1, <1>3 DEF IsMem
  <1> HIDE DEF p
  <1> DEFINE n == Len(old.mem.nodes)
  <1>b. /\ DOMAIN p.mem.nodes = 1..n + 1 /\ n \in Nat /\ DOMAIN old.mem.nodes = 1..n
        /\ \A i \in 1..n : p.mem.nodes[i] = old.mem.nodes[i]
        /\ p.mem.nodes[n + 1] = e
    <2>1. Listed(old.mem.nodes)
      BY <1>1 DEF IsMem
    <2>2. QED
      BY <1>4, <2>1, AppendListed, ListedFacts
  <1> HIDE DEF n
  <1>c. \A i \in 1..n + 1 : i = n + 1 \/ i \in 1..n
    BY <1>b
  <1>5. HonestRecord(p.mem)
    BY <1>1, <1>4, <1>a, <1>b, <1>c DEF HonestRecord, ValueOf
  <1>6. HonestRun(p)
    BY <1>1, <1>3, <1>4, <1>5, SameOutputs
  <1>7. Tells(r, p, p.mem)
    BY <1>2, <1>5, <1>6 DEF Tells, old
  <1>8. QED
    BY <1>7

LEMMA HonestFailNode ==
    ASSUME RunInv, HonestInv, NEW r \in RunIds, FailNode(r)
    PROVE  \E p, m : Tells(r, p, m)
  <1> DEFINE old == live[r]
             m == NodeEnded(old, "failed", NoOutput)
             p == [old EXCEPT !.pc = "failing", !.mem = m]
  <1>1. HonestRun(old) /\ HonestRecord(old.mem) /\ IsPlace(old) /\ RunFits(old) /\ old.pc = "node"
    BY LiveStands DEF FailNode
  <1>2. live' = [live EXCEPT ![r] = p] /\ (record' = record \/ record' = [record EXCEPT ![r] = p.mem])
    BY PersistFacts DEF FailNode, Continue
  <1> HIDE DEF old
  <1>3. /\ m.target = old.mem.target /\ m.config = old.mem.config /\ m.input = old.mem.input
        /\ old.k \in Nat /\ m.nodes[old.k].status = "failed"
        /\ \A i \in 1..old.k - 1 : m.nodes[i] = old.mem.nodes[i]
        /\ DOMAIN m.nodes = 1..old.k /\ DOMAIN old.mem.nodes = 1..old.k
    BY <1>1, NodeEndedFacts
  <1> HIDE DEF m
  <1>4. p.mem = m /\ p.outputs = old.outputs /\ p.cache = old.cache
    BY <1>1 DEF IsPlace
  <1> HIDE DEF p
  <1>5. HonestRecord(m)
    <2>1. \A i \in 1..old.k : i = old.k \/ i \in 1..old.k - 1
      BY <1>3
    <2>2. QED
      BY <1>1, <1>3, <2>1 DEF HonestRecord, ValueOf, Done
  <1>6. HonestRun(p)
    BY <1>1, <1>3, <1>4, <1>5, SameOutputs
  <1>7. Tells(r, p, m)
    BY <1>2, <1>4, <1>5, <1>6 DEF Tells, old
  <1>8. QED
    BY <1>7

\* What feeds the node being executed came out, and the node did not yet.
LEMMA UpstreamCameOut ==
    ASSUME NEW p, RunFits(p), p.pc = "node"
    PROVE  LET n == p.order[p.k] IN
           /\ n \notin DOMAIN p.outputs /\ n \in Ids /\ n \in Touched(GraphOf(p.mem))
           /\ Elements(UpstreamOf(GraphOf(p.mem), n)) \subseteq DOMAIN p.outputs
           /\ p.fps[n] = Fingerprints(p.mem.config, p.mem.input)[n]
  <1> DEFINE n == p.order[p.k]
             g == GraphOf(p.mem)
  <1>1. p.pc \notin Early /\ p.pc \in InNode
    BY DEF Early, InNode
  <1>2. /\ Underway(p) /\ p.mem.target \in Targets /\ p.order = Orders[p.mem.target]
        /\ p.k \in 1..Len(p.order) /\ Len(p.order) \in Nat /\ p.k \in Nat
        /\ p.fps = Fingerprints(p.mem.config, p.mem.input)
    BY <1>1, PlaceFacts
  <1>3. g = Graphs[p.mem.target]
    BY DEF GraphOf
  <1> HIDE DEF g
  <1>4. /\ WellFormed(g) /\ DOMAIN p.order = 1..Len(p.order) /\ Injective(p.order)
        /\ RespectsEdges(g, p.order) /\ Elements(p.order) = Touched(g) /\ Touched(g) \subseteq Ids
    BY <1>2, <1>3, OrdersFit
  <1>5. DOMAIN p.outputs = {p.order[i] : i \in 1..p.k - 1}
    BY <1>2 DEF Underway
  <1>6. n \notin DOMAIN p.outputs
    <2>1. SUFFICES ASSUME NEW i \in 1..p.k - 1, p.order[i] = n PROVE FALSE
      BY <1>5
    <2>2. i \in DOMAIN p.order /\ p.k \in DOMAIN p.order /\ i # p.k
      BY <1>2, <1>4
    <2>3. QED
      BY <1>4, <2>1, <2>2 DEF Injective
  <1>7. n \in Touched(g)
    BY <1>2, <1>4 DEF Elements
  <1>8. ASSUME NEW i \in DOMAIN UpstreamOf(g, n) PROVE UpstreamOf(g, n)[i] \in DOMAIN p.outputs
    <2>1. PICK k \in EdgesInto(g, n) : UpstreamOf(g, n)[i] = Source(g, k)
      BY <1>4, UpstreamFacts
    <2>2. k \in DataEdges(g) /\ Target(g, k) = n
      BY DEF EdgesInto
    <2>3. PICK j \in DOMAIN p.order : j < p.k /\ p.order[j] = Source(g, k)
      BY <1>2, <1>4, <2>2 DEF RespectsEdges
    <2>4. j \in 1..p.k - 1
      BY <1>2, <1>4, <2>3
    <2>5. QED
      BY <1>5, <2>1, <2>3, <2>4
  <1>9. Elements(UpstreamOf(g, n)) \subseteq DOMAIN p.outputs
    BY <1>8 DEF Elements
  <1>10. QED
    BY <1>2, <1>4, <1>6, <1>7, <1>9 DEF g

\* A graph that is run has the workflow's nodes, and its upstream where covered.
LEMMA RunsWorkflow ==
    ASSUME NEW t \in Targets, NEW n \in Touched(Graphs[t])
    PROVE  /\ n \in Touched(Workflow) /\ n \in Ids
           /\ Covered(n) => UpstreamOf(Graphs[t], n) = UpstreamOf(Workflow, n)
  <1>1. CASE t = NoTarget
    <2>1. Graphs[t] = Workflow
      BY <1>1 DEF Graphs
    <2>2. Touched(Workflow) \subseteq Ids
      BY WorkflowOrderFacts
    <2>3. QED
      BY <2>1, <2>2
  <1>2. CASE t # NoTarget
    <2>1. Graphs[t] = SubgraphForNode(Workflow, t) /\ t \in Ids /\ t \in NodeIds(Workflow)
      BY <1>2 DEF Graphs, Targets, Ids
    <2>2. Touched(SubgraphForNode(Workflow, t)) \subseteq Touched(Workflow)
      BY <2>1, ExecutionAssumption, SubgraphFacts
    <2>3. Touched(Graphs[t]) \subseteq NodeIds(Graphs[t])
      BY OrdersFit, EdgeFacts
    <2>4. n \in Touched(Workflow) /\ n \in Ids /\ n \in NodeIds(SubgraphForNode(Workflow, t))
      BY <2>1, <2>2, <2>3, WorkflowOrderFacts
    <2>5. Covered(n) => Cardinality(EdgesInto(Workflow, n)) <= 1
      <3>1. n \in Ancestors(Workflow, n)
        BY <2>4, ExecutionAssumption, AncestorsFacts DEF Ids
      <3>2. QED
        BY <3>1 DEF Covered
    <2>6. QED
      BY <2>1, <2>4, <2>5, SubgraphEdges
  <1>3. QED
    BY <1>1, <1>2

\* On honest outputs, executing a covered node gives its value in the run.
LEMMA CoveredValue ==
    ASSUME NEW p, RunFits(p), HonestRun(p), p.pc = "node", Covered(p.order[p.k]), NEW world
    PROVE  LET n == p.order[p.k]
               ups == UpstreamOf(GraphOf(p.mem), n) IN
           Value(Workflow, n, p.mem.config, p.mem.input, world, [i \in DOMAIN ups |-> p.outputs[ups[i]]])
               = ValueOf(p.mem, n)
  <1> DEFINE n == p.order[p.k]
             g == GraphOf(p.mem)
             ups == UpstreamOf(g, n)
             v == Values(p.mem.config, p.mem.input)
  <1>1. /\ n \in Ids /\ n \in Touched(g) /\ Elements(ups) \subseteq DOMAIN p.outputs
    BY UpstreamCameOut
  <1>2. p.mem.target \in Targets /\ g = Graphs[p.mem.target]
    <2>1. p.pc \notin Early
      BY DEF Early
    <2>2. QED
      BY <2>1, PlaceFacts DEF GraphOf
  <1>3. n \in Touched(Workflow) /\ ups = UpstreamOf(Workflow, n)
    BY <1>1, <1>2, RunsWorkflow
  <1>4. \A i \in DOMAIN ups : Covered(ups[i]) /\ ups[i] \in DOMAIN p.outputs
    <2>1. \A i \in DOMAIN ups : Covered(ups[i])
      BY <1>1, <1>3, CoveredUpstream
    <2>2. QED
      BY <1>1, <2>1 DEF Elements
  <1>5. \A i \in DOMAIN ups : p.outputs[ups[i]] = v[ups[i]]
    BY <1>4 DEF HonestRun, HonestOutput, ValueOf
  <1>6. v[n] = Value(Workflow, n, p.mem.config, p.mem.input, None, [i \in DOMAIN ups |-> v[ups[i]]])
    BY <1>3, ValuesFacts DEF OneValue
  <1>7. n \notin Readers
    <2>1. n \in Ancestors(Workflow, n)
      BY <1>1, ExecutionAssumption, AncestorsFacts DEF Ids
    <2>2. QED
      BY <2>1 DEF Covered
  <1> HIDE DEF n, ups, v, g
  <1>8. [i \in DOMAIN ups |-> p.outputs[ups[i]]] = [i \in DOMAIN ups |-> v[ups[i]]]
    BY <1>5
  <1>9. Value(Workflow, n, p.mem.config, p.mem.input, world, [i \in DOMAIN ups |-> p.outputs[ups[i]]]) = v[n]
    BY <1>6, <1>7, <1>8 DEF Value
  <1>10. QED
    BY <1>9 DEF ValueOf, n, ups, v, g

\* The record of a node that came out is honest when the output is.
LEMMA HonestEnded ==
    ASSUME NEW p, RunFits(p), p.pc = "node", HonestRecord(p.mem), NEW output, DOMAIN output # {},
           NEW n, n = p.order[p.k], Covered(n) => output = ValueOf(p.mem, n)
    PROVE  LET m == NodeEnded(p, "completed", output) IN
           /\ m.target = p.mem.target /\ m.config = p.mem.config /\ m.input = p.mem.input
           /\ HonestRecord(m)
  <1> DEFINE m == NodeEnded(p, "completed", output)
             old == p.mem.nodes
  <1>1. /\ m.target = p.mem.target /\ m.config = p.mem.config /\ m.input = p.mem.input
        /\ p.k \in Nat /\ m.nodes[p.k].output = output /\ m.nodes[p.k].node = n
        /\ \A i \in 1..p.k - 1 : m.nodes[i] = old[i]
        /\ DOMAIN m.nodes = 1..p.k /\ DOMAIN old = 1..p.k
    BY NodeEndedFacts
  <1> HIDE DEF m
  <1>2. \A i \in 1..p.k : i = p.k \/ i \in 1..p.k - 1
    BY <1>1
  <1>3. Covered(n) => output = ValueOf(m, n)
    BY <1>1 DEF ValueOf
  <1>4. ASSUME NEW i \in 1..p.k - 1, m.nodes[i].status \in Done, Covered(m.nodes[i].node)
        PROVE  m.nodes[i].output = ValueOf(m, m.nodes[i].node)
    <2>1. m.nodes[i] = old[i] /\ i \in DOMAIN old
      BY <1>1
    <2>2. QED
      BY <1>1, <1>4, <2>1 DEF HonestRecord, ValueOf
  <1>5. HonestRecord(m)
    BY <1>1, <1>2, <1>3, <1>4 DEF HonestRecord
  <1>6. QED
    BY <1>1, <1>5 DEF m

LEMMA ValueShown ==
    ASSUME NEW g, NEW n, NEW configs, NEW input, NEW world, NEW ups
    PROVE  "node" \in DOMAIN Value(g, n, configs, input, world, ups)
  BY DEF Value

LEMMA NewlyOut ==
    ASSUME RunInv, NEW r \in RunIds, live[r].pc = "node", NEW n, n = live[r].order[live[r].k],
           NEW ups, ups = UpstreamOf(GraphOf(live[r].mem), n)
    PROVE  /\ n \notin DOMAIN live[r].outputs /\ n \in Ids
           /\ Elements(ups) \subseteq DOMAIN live[r].outputs
  <1>1. RunFits(live[r])
    BY RunStands
  <1>2. QED
    BY <1>1, UpstreamCameOut

\* A node comes out with what executing it in this run gives.
LEMMA HonestNode ==
    ASSUME RunInv, HonestInv, NEW r \in RunIds, live[r].pc = "node", NEW n, n = live[r].order[live[r].k],
           NEW value, Continue(r, WithOutput(live[r], n, value)),
           NEW ups, ups = UpstreamOf(GraphOf(live[r].mem), n),
           value = Value(Workflow, n, live[r].mem.config, live[r].mem.input, value.world,
                         [i \in DOMAIN ups |-> live[r].outputs[ups[i]]]),
           Covered(n) => value = ValueOf(live[r].mem, n)
    PROVE  \E p, m : Tells(r, p, m)
  <1> DEFINE old == live[r]
             m == NodeEnded(old, "completed", Sanitized(n, value))
             outputs == [x \in DOMAIN old.outputs \cup {n} |-> IF x = n THEN value ELSE old.outputs[x]]
             p == WithOutput(old, n, value)
  <1>1. HonestRun(old) /\ HonestRecord(old.mem) /\ IsPlace(old) /\ RunFits(old)
    BY LiveStands
  <1>2. live' = [live EXCEPT ![r] = p] /\ (record' = record \/ record' = [record EXCEPT ![r] = p.mem])
    BY PersistFacts DEF Continue
  <1>3. /\ n \notin DOMAIN old.outputs /\ n \in Ids /\ Elements(ups) \subseteq DOMAIN old.outputs
    BY NewlyOut
  <1>4. DOMAIN Sanitized(n, value) # {} /\ (Covered(n) => Sanitized(n, value) = ValueOf(old.mem, n))
    <2>1. "node" \in DOMAIN value
      BY ValueShown
    <2>2. Covered(n) => n \notin Images
      <3>1. n \in Ancestors(Workflow, n)
        BY <1>3, ExecutionAssumption, AncestorsFacts DEF Ids
      <3>2. QED
        BY <3>1 DEF Covered
    <2>3. Covered(n) => Sanitized(n, value) = value
      BY <2>2 DEF Sanitized
    <2>4. QED
      BY <2>1, <2>3, SanitizedKeeps
  <1>5. /\ m.target = old.mem.target /\ m.config = old.mem.config /\ m.input = old.mem.input
        /\ HonestRecord(m)
    BY <1>1, <1>4, HonestEnded
  <1>6. p.mem = m /\ p.outputs = outputs /\ p.cache = old.cache
    BY <1>1 DEF WithOutput, IsPlace
  <1>7. /\ value = Value(Workflow, n, old.mem.config, old.mem.input, value.world,
                         [i \in DOMAIN ups |-> old.outputs[ups[i]]])
        /\ ups = UpstreamOf(GraphOf(old.mem), n)
        /\ Covered(n) => value = ValueOf(old.mem, n)
    OBVIOUS
  <1> HIDE DEF old, m, p
  <1>9. GraphOf(m) = GraphOf(old.mem)
    BY <1>5 DEF GraphOf
  <1>10. \A x \in DOMAIN old.outputs : outputs[x] = old.outputs[x]
    BY <1>3
  <1>11. outputs[n] = value /\ DOMAIN outputs = DOMAIN old.outputs \cup {n}
    OBVIOUS
  <1> HIDE DEF outputs
  <1>12. ASSUME NEW x \in DOMAIN old.outputs PROVE HonestOutput(p, x)
    <2> DEFINE us == UpstreamOf(GraphOf(m), x)
    <2>1. /\ Elements(us) \subseteq DOMAIN old.outputs /\ Honest(old, x)
          /\ Covered(x) => old.outputs[x] = ValueOf(old.mem, x)
      BY <1>1, <1>9 DEF HonestRun, HonestOutput
    <2>2. \A i \in DOMAIN us : outputs[us[i]] = old.outputs[us[i]]
      BY <1>10, <2>1 DEF Elements
    <2>3. [i \in DOMAIN us |-> outputs[us[i]]] = [i \in DOMAIN us |-> old.outputs[us[i]]]
      BY <2>2
    <2>4. old.outputs[x] = Value(Workflow, x, old.mem.config, old.mem.input, old.outputs[x].world,
                                 [i \in DOMAIN us |-> old.outputs[us[i]]])
      BY <1>9, <2>1 DEF Honest
    <2> HIDE DEF us
    <2>5. outputs[x] = Value(Workflow, x, m.config, m.input, outputs[x].world, [i \in DOMAIN us |-> outputs[us[i]]])
      BY <1>5, <1>10, <2>3, <2>4
    <2>6. Honest(p, x)
      BY <1>6, <2>5 DEF Honest, us
    <2>7. Elements(UpstreamOf(GraphOf(p.mem), x)) \subseteq DOMAIN p.outputs
      BY <1>6, <1>11, <2>1 DEF us
    <2>8. Covered(x) => p.outputs[x] = ValueOf(p.mem, x)
      BY <1>5, <1>6, <1>10, <2>1 DEF ValueOf
    <2>9. QED
      BY <2>6, <2>7, <2>8 DEF HonestOutput
  <1>13. HonestOutput(p, n)
    <2>1. \A i \in DOMAIN ups : outputs[ups[i]] = old.outputs[ups[i]]
      BY <1>3, <1>10 DEF Elements
    <2>2. [i \in DOMAIN ups |-> outputs[ups[i]]] = [i \in DOMAIN ups |-> old.outputs[ups[i]]]
      BY <2>1
    <2>3. outputs[n] = Value(Workflow, n, m.config, m.input, outputs[n].world, [i \in DOMAIN ups |-> outputs[ups[i]]])
      BY <1>5, <1>7, <1>11, <2>2
    <2>4. Honest(p, n)
      BY <1>6, <1>7, <1>9, <2>3 DEF Honest
    <2>5. Elements(UpstreamOf(GraphOf(p.mem), n)) \subseteq DOMAIN p.outputs
      BY <1>3, <1>6, <1>7, <1>9, <1>11
    <2>6. Covered(n) => p.outputs[n] = ValueOf(p.mem, n)
      BY <1>5, <1>6, <1>7, <1>11 DEF ValueOf
    <2>7. QED
      BY <2>4, <2>5, <2>6 DEF HonestOutput
  <1>14. HonestRun(p)
    <2>1. \A x \in DOMAIN p.cache : Covered(x) => HonestEntry(p.cache[x], x)
      BY <1>1, <1>6 DEF HonestRun
    <2>2. QED
      BY <1>6, <1>5, <1>11, <1>12, <1>13, <2>1 DEF HonestRun
  <1>15. Tells(r, p, m)
    BY <1>2, <1>6, <1>5, <1>14 DEF Tells, old
  <1>16. QED
    BY <1>15

LEMMA HonestReplay ==
    ASSUME FingerprintCovers, RunInv, HonestInv, NEW r \in RunIds, ReplayNode(r)
    PROVE  \E p, m : Tells(r, p, m)
  <1> DEFINE p == live[r]
             n == p.order[p.k]
             ups == UpstreamOf(GraphOf(p.mem), n)
             value == p.cache[n].output
  <1>1. /\ p.pc = "node" /\ ~OutsideTheFingerprint(n) /\ n \in DOMAIN p.cache
        /\ p.cache[n].fp = p.fps[n] /\ Continue(r, WithOutput(p, n, value))
    BY DEF ReplayNode, Replayable
  <1>2. HonestRun(p) /\ RunFits(p)
    BY <1>1, LiveStands
  <1>3. /\ n \in Ids /\ n \in Touched(GraphOf(p.mem))
        /\ p.fps[n] = Fingerprints(p.mem.config, p.mem.input)[n]
    BY <1>1, <1>2, UpstreamCameOut
  <1>4. Covered(n)
    BY <1>1, <1>3 DEF FingerprintCovers
  <1>5. n \in Touched(Workflow)
    <2>1. p.pc \notin Early
      BY <1>1 DEF Early
    <2>2. p.mem.target \in Targets
      BY <1>2, <2>1, PlaceFacts
    <2>3. QED
      BY <1>3, <2>2, RunsWorkflow DEF GraphOf
  <1>6. PICK configs, input :
           p.cache[n].fp = Fingerprints(configs, input)[n] /\ value = Values(configs, input)[n]
    BY <1>1, <1>2, <1>4 DEF HonestRun, HonestEntry
  <1>7. value = ValueOf(p.mem, n)
    <2>1. Fingerprints(configs, input)[n] = Fingerprints(p.mem.config, p.mem.input)[n]
      BY <1>1, <1>3, <1>6
    <2>2. Brains \cap Ids = {}
      BY DEF FingerprintCovers
    <2>3. Values(configs, input)[n] = Values(p.mem.config, p.mem.input)[n]
      BY <1>4, <1>5, <2>1, <2>2, SameFingerprintSameValue
    <2>4. QED
      BY <1>6, <2>3 DEF ValueOf
  <1>8. value = Value(Workflow, n, p.mem.config, p.mem.input, value.world,
                      [i \in DOMAIN ups |-> p.outputs[ups[i]]])
    BY <1>1, <1>2, <1>4, <1>7, CoveredValue
  <1> HIDE DEF n, ups, value
  <1>9. QED
    BY <1>1, <1>7, <1>8, HonestNode DEF n, ups

LEMMA HonestExecute ==
    ASSUME FingerprintCovers, RunInv, HonestInv, NEW r \in RunIds, ExecuteNode(r)
    PROVE  \E p, m : Tells(r, p, m)
  <1> DEFINE p == live[r]
             n == p.order[p.k]
             ups == UpstreamOf(GraphOf(p.mem), n)
             fed == [i \in DOMAIN ups |-> p.outputs[ups[i]]]
             value == Value(GraphOf(p.mem), n, p.mem.config, p.mem.input, disk, fed)
  <1>1. p.pc = "node" /\ Continue(r, WithOutput(p, n, value))
    BY DEF ExecuteNode
  <1>2. HonestRun(p) /\ RunFits(p)
    BY <1>1, LiveStands
  <1>3. n \in Ids /\ n \notin Brains
    BY <1>1, <1>2, UpstreamCameOut DEF FingerprintCovers
  <1>4. value = Value(Workflow, n, p.mem.config, p.mem.input, disk, fed)
    <2> HIDE DEF n, fed
    <2>1. QED
      BY <1>3 DEF Value
  <1>5. value = Value(Workflow, n, p.mem.config, p.mem.input, value.world, fed)
    <2> HIDE DEF n, fed
    <2>1. value.world = IF n \in Readers THEN disk ELSE None
      BY DEF Value
    <2>2. Value(Workflow, n, p.mem.config, p.mem.input, value.world, fed)
              = Value(Workflow, n, p.mem.config, p.mem.input, disk, fed)
      <3> HIDE DEF value
      <3>1. QED
        BY <2>1 DEF Value
    <2>3. QED
      BY <1>4, <2>2
  <1>6. Covered(n) => value = ValueOf(p.mem, n)
    BY <1>1, <1>2, <1>4, CoveredValue
  <1> HIDE DEF n, ups, value
  <1>7. QED
    BY <1>1, <1>5, <1>6, HonestNode DEF n, ups

LEMMA HonestMark ==
    ASSUME RunInv, HonestInv, NEW r \in RunIds, MarkReplayed(r)
    PROVE  \E p, m : Tells(r, p, m)
  <1> DEFINE old == live[r]
             m == IF ReplayedIn(old) = {} THEN old.mem ELSE Flagged(old)
             p == IF ReplayedIn(old) = {} THEN [old EXCEPT !.pc = "settle"]
                  ELSE [old EXCEPT !.pc = "settle", !.mem = Flagged(old)]
  <1>1. HonestRun(old) /\ HonestRecord(old.mem) /\ IsPlace(old) /\ RunFits(old) /\ old.pc \notin Early
    BY LiveStands DEF MarkReplayed, Early
  <1>2. /\ RecordFits(old.mem) /\ IsMem(old.mem) /\ old.mem.status = "running"
        /\ old.mem.target \in Targets
    BY <1>1, PlaceFacts
  <1>3. live' = [live EXCEPT ![r] = p] /\ (record' = record \/ record' = [record EXCEPT ![r] = m])
    <2>1. CASE ReplayedIn(old) = {}
      BY <2>1 DEF MarkReplayed
    <2>2. CASE ReplayedIn(old) # {}
      <3>1. Continue(r, p)
        BY <2>2 DEF MarkReplayed
      <3>2. p.mem = m
        BY <1>1, <2>2 DEF IsPlace
      <3> HIDE DEF old, p, m
      <3>3. QED
        BY <3>1, <3>2, PersistFacts DEF Continue
    <2>3. QED
      BY <2>1, <2>2
  <1>4. p.outputs = old.outputs /\ p.cache = old.cache /\ p.mem = m
    <2> DEFINE x == Flagged(old)
    <2> HIDE DEF old, x
    <2>1. QED
      BY <1>1 DEF IsPlace, x
  <1>5. /\ m.target = old.mem.target /\ m.config = old.mem.config /\ m.input = old.mem.input
        /\ HonestRecord(m)
    <2> HIDE DEF old
    <2>1. CASE ReplayedIn(old) = {}
      BY <1>1, <2>1
    <2>2. CASE ReplayedIn(old) # {}
      <3> DEFINE x == Flagged(old)
      <3>1. /\ x.target = old.mem.target /\ x.config = old.mem.config /\ x.input = old.mem.input
            /\ DOMAIN x.nodes = DOMAIN old.mem.nodes
            /\ \A i \in DOMAIN old.mem.nodes :
                  /\ x.nodes[i].status \in Done => old.mem.nodes[i].status \in Done
                  /\ x.nodes[i].node = old.mem.nodes[i].node
                  /\ x.nodes[i].output = old.mem.nodes[i].output
        BY <1>2, FlaggedFacts
      <3> HIDE DEF x
      <3>2. HonestRecord(x)
        BY <1>1, <3>1 DEF HonestRecord, ValueOf
      <3>3. m = x
        BY <2>2 DEF x
      <3> HIDE DEF m
      <3>4. QED
        BY <3>1, <3>2, <3>3
    <2>3. QED
      BY <2>1, <2>2
  <1> HIDE DEF old, m, p
  <1>6. HonestRun(p)
    BY <1>1, <1>4, <1>5, SameOutputs
  <1>7. Tells(r, p, m)
    BY <1>3, <1>5, <1>6 DEF Tells, old
  <1>8. QED
    BY <1>7

\* The last write of a run: its outcome, over the nodes it already told.
LEMMA HonestEnd ==
    ASSUME RunInv, HonestInv, NEW r \in RunIds, RefuseTarget(r) \/ FailRun(r) \/ Complete(r)
    PROVE  \E p, m : Tells(r, p, m)
  <1> DEFINE mem == live[r].mem
  <1>1. HonestRecord(mem) /\ IsMem(mem)
    BY LiveStands DEF RefuseTarget, FailRun, Complete
  <1>2. PICK status, result :
           LET m == [mem EXCEPT !.status = status, !.result = result] IN
           live' = [live EXCEPT ![r] = Idle] /\ Persist(r, m)
    <2>1. CASE RefuseTarget(r)
      <3>1. [mem EXCEPT !.status = "failed"] = [mem EXCEPT !.status = "failed", !.result = mem.result]
        BY <1>1 DEF IsMem
      <3>2. QED
        BY <2>1, <3>1 DEF RefuseTarget
    <2>2. CASE FailRun(r)
      <3> DEFINE status == IF live[r].ctx = "cancelled" THEN "cancelled" ELSE "failed"
      <3>1. [mem EXCEPT !.status = status] = [mem EXCEPT !.status = status, !.result = mem.result]
        BY <1>1 DEF IsMem
      <3>2. live' = [live EXCEPT ![r] = Idle] /\ Persist(r, [mem EXCEPT !.status = status])
        BY <2>2 DEF FailRun
      <3> HIDE DEF status
      <3>3. QED
        BY <3>1, <3>2
    <2>3. CASE Complete(r)
      BY <2>3 DEF Complete
    <2>4. QED
      BY <2>1, <2>2, <2>3
  <1> DEFINE m == [mem EXCEPT !.status = status, !.result = result]
  <1>3. m.nodes = mem.nodes /\ m.config = mem.config /\ m.input = mem.input
    BY <1>1 DEF IsMem
  <1>4. live' = [live EXCEPT ![r] = Idle] /\ (record' = record \/ record' = [record EXCEPT ![r] = m])
    BY <1>2, PersistFacts
  <1> HIDE DEF m, mem
  <1>5. HonestRecord(m)
    BY <1>1, <1>3, SameRecord
  <1>6. Tells(r, Idle, m)
    BY <1>4, <1>5 DEF Tells
  <1>7. QED
    BY <1>6

LEMMA HonestContext ==
    ASSUME RunInv, HonestInv, NEW r \in RunIds, NEW why, EndContext(r, why)
    PROVE  \E p, m : Tells(r, p, m)
  <1> DEFINE old == live[r]
             p == [old EXCEPT !.ctx = why]
  <1>1. HonestRun(old) /\ HonestRecord(old.mem) /\ IsPlace(old)
    BY LiveStands DEF EndContext
  <1>2. live' = [live EXCEPT ![r] = p] /\ record' = record
    BY DEF EndContext
  <1> HIDE DEF old
  <1>3. p.outputs = old.outputs /\ p.cache = old.cache /\ p.mem = old.mem
    BY <1>1 DEF IsPlace
  <1> HIDE DEF p
  <1>4. HonestRun(p)
    BY <1>1, <1>3, SameOutputs
  <1>5. Tells(r, p, old.mem)
    BY <1>1, <1>2, <1>4 DEF Tells, old
  <1>6. QED
    BY <1>5

\* A run begins with nothing to tell.
LEMMA HonestPrepare ==
    ASSUME RunInv, HonestInv, NEW q, PrepareRun(q)
    PROVE  HonestInv'
  <1> DEFINE m == [status |-> "queued", nodes |-> <<>>, result |-> Empty,
                   config |-> config, input |-> q.input, target |-> q.target,
                   useCache |-> q.useCache, batch |-> q.batch]
             r == Len(record) + 1
             p == [Idle EXCEPT !.pc = "prepared", !.mem = m]
  <1>1. CASE record' = Append(record, m) /\ live' = [live EXCEPT ![r] = p]
    <2>1. HonestRecord(m)
      BY DEF HonestRecord
    <2>2. p.mem = m /\ DOMAIN p.cache = {} /\ DOMAIN p.outputs = {}
      BY DEF Idle, Empty
    <2> HIDE DEF m
    <2>3. HonestRun(p)
      BY <2>1, <2>2 DEF HonestRun
    <2>4. /\ DOMAIN record' = 1..Len(record) + 1 /\ record'[Len(record) + 1] = m
          /\ \A i \in 1..Len(record) : record'[i] = record[i]
          /\ DOMAIN record = 1..Len(record) /\ Len(record) \in Nat
      BY <1>1, AppendListed, ListedFacts DEF RunInv
    <2> HIDE DEF p
    <2>5. \A s \in RunIds : live'[s] = p \/ live'[s] = live[s]
      BY <1>1 DEF RunInv
    <2>6. \A s \in RunIds : live'[s] # Idle => HonestRun(live'[s])
      BY <2>3, <2>5 DEF HonestInv
    <2>7. \A i \in 1..Len(record) + 1 : i = Len(record) + 1 \/ i \in 1..Len(record)
      BY <2>4
    <2>8. \A s \in DOMAIN record' : HonestRecord(record'[s])
      BY <2>1, <2>4, <2>7 DEF HonestInv
    <2>9. QED
      BY <2>6, <2>8 DEF HonestInv
  <1>2. CASE UNCHANGED <<record, live>>
    BY <1>2 DEF HonestInv
  <1>3. QED
    BY <1>1, <1>2 DEF PrepareRun

LEMMA HonestNext ==
    ASSUME FingerprintCovers, RunInv, HonestInv, [Next]_vars
    PROVE  HonestInv'
  <1>1. ASSUME NEW r \in RunIds, RunStep(r) PROVE \E p, m : Tells(r, p, m)
    BY <1>1, HonestBegin, HonestPlan, HonestStart, HonestReplay, HonestExecute, HonestFailNode,
       HonestMark, HonestEnd DEF RunStep
  <1>2. ASSUME NEW r \in RunIds, NEW why, EndContext(r, why) PROVE \E p, m : Tells(r, p, m)
    BY <1>2, HonestContext
  <1>3. CASE (\E n \in Ids : EditNode(n)) \/ EditFile \/ UNCHANGED vars
    <2>1. UNCHANGED <<record, live>>
      BY <1>3 DEF EditNode, EditFile, vars
    <2>2. QED
      BY <2>1 DEF HonestInv
  <1>4. CASE Stop
    BY <1>4 DEF Stop, HonestInv
  <1>5. QED
    BY <1>1, <1>2, <1>3, <1>4, TellsKeeps, HonestPrepare DEF Next

\* Where the fingerprint covers what a node depends on, replay is honest: what
\* a run holds for a node is what executing it in this very run would give,
\* whatever was edited, which runs came before, and what was cut short.
THEOREM ReplayHonestWhereCovered == FingerprintCovers => (Spec => []ReplayHonest)
  <1> SUFFICES ASSUME FingerprintCovers PROVE Spec => []ReplayHonest
    OBVIOUS
  <1>1. Init => HonestInv
    BY DEF Init, HonestInv
  <1>2. RunInv /\ HonestInv /\ [Next]_vars => HonestInv'
    BY HonestNext
  <1>3. HonestInv => ReplayHonest
    <2> SUFFICES ASSUME HonestInv, NEW r \in RunIds, NEW n \in DOMAIN live[r].outputs
                 PROVE  Honest(live[r], n)
      BY DEF ReplayHonest
    <2>1. live[r] # Idle
      BY DEF Idle, Empty
    <2>2. QED
      BY <2>1 DEF HonestInv, HonestRun, HonestOutput
  <1>4. QED
    BY <1>1, <1>2, <1>3, RunsFit, PTL DEF Spec

=============================================================================
