-------------------------- MODULE TopoOrderProofs --------------------------
(***************************************************************************)
(* Theorems of TopoOrder, for every well-formed graph whatever its size.   *)
(* The invariant ties the three things the code keeps apart: an edge is    *)
(* waited for exactly until its source is in the order and the release     *)
(* loop has passed it, and a node of the data flow is in the queue or the  *)
(* order exactly when it waits for no edge.  A second invariant compares   *)
(* the loop with the recursion TopoOrderOf is, turn by turn.               *)
(***************************************************************************)
EXTENDS TopoOrder, GraphProofs

\* The release loop has passed edge k.
Gone(k) == Source(graph, k) \in Elements(order) /\ (Source(graph, k) \in current => k < at)

\* degree[n] counts the edges into n that are not gone.
WaitingIsExact ==
    pc \notin {"validate", "missing"} =>
        /\ ~Dangling(graph)
        /\ \A n \in NodeIds(graph) : waiting[n] = {k \in EdgesInto(graph, n) : ~Gone(k)}

\* Before the loop the order is empty and the queue holds the nodes seen so
\* far that wait for nothing.
SeedExact ==
    /\ pc \in {"validate", "missing", "seed"} => order = <<>> /\ current = {}
    /\ pc = "validate" => queue = <<>> /\ at = 1
    /\ pc = "seed" => /\ Elements(queue) = {graph.nodes[i] : i \in {j \in DOMAIN graph.nodes :
                                             j < at /\ waiting[graph.nodes[j]] = {}}}
                      /\ at \in 1..Len(graph.nodes) + 1

\* Afterwards a node of the data flow is in the queue or the order exactly
\* when it waits for nothing.
ReadyExact ==
    pc \in {"loop", "release", "ok", "cycle"} =>
        \A n \in Touched(graph) :
            waiting[n] = {} <=> n \in Elements(queue) \cup Elements(order)

Once == Injective(queue) /\ Injective(order) /\ Elements(queue) \cap Elements(order) = {}

Flow ==
    /\ Elements(order) \subseteq Touched(graph)
    /\ current \subseteq Elements(order)
    /\ pc # "release" => current = {}

Ended ==
    /\ pc = "ok" => Touched(graph) \subseteq Elements(order)
    /\ pc = "cycle" => queue = <<>> /\ ~(Touched(graph) \subseteq Elements(order))

\* Nodes that wait for one another never come out.
NoCoreOut ==
    \A C \in SUBSET NodeIds(graph) : Deadlocked(graph, C) => C \cap Elements(order) = {}

IInv ==
    /\ TypeOK /\ WaitingIsExact /\ SeedExact /\ ReadyExact /\ Once /\ Flow /\ Ended
    /\ SourcesComeFirst /\ NoCoreOut

----------------------------------------------------------------------------
(* The invariant.                                                          *)

LEMMA InvInit == Init => IInv
  <1> SUFFICES ASSUME Init PROVE IInv
    OBVIOUS
  <1>1. WellFormed(graph)
    BY TopoOrderAssumption DEF Init
  <1>2. TypeOK
    BY <1>1 DEF Init, TypeOK
  <1>3. WaitingIsExact /\ SeedExact /\ ReadyExact /\ Flow /\ Ended
    BY DEF Init, WaitingIsExact, SeedExact, ReadyExact, Flow, Ended, Elements, Verdicts
  <1>4. Once /\ SourcesComeFirst /\ NoCoreOut
    BY DEF Init, Once, Injective, Elements, SourcesComeFirst, RespectsEdges, NoCoreOut
  <1>5. QED
    BY <1>2, <1>3, <1>4 DEF IInv

LEMMA InvValidate == IInv /\ Validate => IInv'
  <1> SUFFICES ASSUME IInv, Validate PROVE IInv'
    OBVIOUS
  <1> USE DEF IInv
  <1>a. graph' = graph /\ at' = at /\ queue' = queue /\ order' = order /\ current' = current
    BY DEF Validate
  <1>b. queue = <<>> /\ order = <<>> /\ current = {} /\ at = 1
    BY DEF Validate, SeedExact
  <1>1. TypeOK'
    BY <1>a DEF TypeOK, Validate, EdgesInto, Verdicts
  <1>2. CASE Dangling(graph)
    <2>1. pc' = "missing"
      BY <1>2 DEF Validate
    <2>2. QED
      BY <1>1, <1>a, <1>b, <2>1 DEF WaitingIsExact, SeedExact, ReadyExact, Once, Flow, Ended,
         Injective, Elements, SourcesComeFirst, RespectsEdges, NoCoreOut
  <1>3. CASE ~Dangling(graph)
    <2>1. pc' = "seed" /\ waiting' = [n \in NodeIds(graph) |-> EdgesInto(graph, n)]
      BY <1>3 DEF Validate
    <2>2. WaitingIsExact'
      BY <1>3, <1>a, <1>b, <2>1 DEF WaitingIsExact, Gone, Elements
    <2>3. SeedExact'
      BY <1>a, <1>b, <2>1 DEF SeedExact, Elements, TypeOK, WellFormed
    <2>4. QED
      BY <1>1, <1>a, <1>b, <2>1, <2>2, <2>3 DEF ReadyExact, Once, Flow, Ended,
         SourcesComeFirst, NoCoreOut
  <1>4. QED
    BY <1>2, <1>3

LEMMA InvSeed == IInv /\ Seed => IInv'
  <1> SUFFICES ASSUME IInv, Seed PROVE IInv'
    OBVIOUS
  <1> USE DEF IInv
  <1> DEFINE n == graph.nodes[at]
             seen == {graph.nodes[i] : i \in {j \in DOMAIN graph.nodes :
                                             j < at /\ waiting[graph.nodes[j]] = {}}}
  <1>a. /\ graph' = graph /\ pc' = pc /\ waiting' = waiting /\ order' = order
        /\ current' = current /\ at' = at + 1 /\ pc = "seed" /\ at <= Len(graph.nodes)
    BY DEF Seed
  <1>b. /\ Len(graph.nodes) \in Nat /\ DOMAIN graph.nodes = 1..Len(graph.nodes)
        /\ at \in DOMAIN graph.nodes /\ n \in NodeIds(graph)
    BY <1>a DEF TypeOK, WellFormed, NodeIds, Elements
  <1>c. order = <<>> /\ current = {} /\ Elements(queue) = seen
    BY <1>a DEF SeedExact
  <1>d. n \notin seen
    <2>1. \A j \in DOMAIN graph.nodes : graph.nodes[j] = n => j = at
      BY <1>b DEF TypeOK, WellFormed, Injective
    <2>2. ~(at < at)
      BY <1>b
    <2>3. QED
      BY <2>1, <2>2
  <1>e. queue' = IF waiting[n] = {} THEN Append(queue, n) ELSE queue
    BY DEF Seed
  <1> HIDE DEF n
  <1>1. /\ queue' \in Seq(NodeIds(graph)) /\ Injective(queue')
        /\ Elements(queue') = IF waiting[n] = {} THEN seen \cup {n} ELSE seen
    <2>1. queue \in Seq(NodeIds(graph)) /\ Injective(queue)
      BY DEF TypeOK, Once
    <2> HIDE DEF seen
    <2>2. CASE waiting[n] = {}
      BY <2>1, <2>2, <1>b, <1>c, <1>d, <1>e, AppendFacts
    <2>3. CASE waiting[n] # {}
      BY <2>1, <2>3, <1>c, <1>e
    <2>4. QED
      BY <2>2, <2>3
  <1>2. TypeOK'
    BY <1>1, <1>a DEF TypeOK
  <1>3. SeedExact'
    <2>1. Elements(queue)' = {graph.nodes[i] : i \in {j \in DOMAIN graph.nodes :
                                             j < at + 1 /\ waiting[graph.nodes[j]] = {}}}
      <3>1. \A j \in DOMAIN graph.nodes : j < at + 1 <=> j < at \/ j = at
        BY <1>b
      <3>2. CASE waiting[n] = {}
        BY <1>1, <1>b, <3>1, <3>2 DEF n
      <3>3. CASE waiting[n] # {}
        BY <1>1, <1>b, <3>1, <3>3 DEF n
      <3>4. QED
        BY <3>2, <3>3
    <2>2. QED
      BY <2>1, <1>a, <1>b, <1>c DEF SeedExact
  <1>4. WaitingIsExact'
    BY <1>a, <1>c DEF WaitingIsExact, Gone, Elements
  <1>5. Once'
    BY <1>1, <1>a, <1>c DEF Once, Elements
  <1>6. QED
    BY <1>2, <1>3, <1>4, <1>5, <1>a, <1>c DEF ReadyExact, Flow, Ended, SourcesComeFirst, NoCoreOut

LEMMA InvSeeded == IInv /\ Seeded => IInv'
  <1> SUFFICES ASSUME IInv, Seeded PROVE IInv'
    OBVIOUS
  <1> USE DEF IInv
  <1>a. /\ graph' = graph /\ waiting' = waiting /\ order' = order /\ queue' = queue
        /\ current' = current /\ at' = at /\ pc' = "loop" /\ pc = "seed"
        /\ at > Len(graph.nodes)
    BY DEF Seeded
  <1>b. Touched(graph) \subseteq NodeIds(graph)
    BY <1>a, EdgeFacts DEF WaitingIsExact
  <1>c. /\ Len(graph.nodes) \in Nat /\ DOMAIN graph.nodes = 1..Len(graph.nodes)
        /\ \A j \in DOMAIN graph.nodes : j < at
    BY <1>a DEF TypeOK, WellFormed, SeedExact
  <1>1. ReadyExact'
    <2>1. order = <<>>
      BY <1>a DEF SeedExact
    <2>2. Elements(order) = {}
      BY <2>1 DEF Elements
    <2>3. \A n \in NodeIds(graph) : n \in Elements(queue) <=> waiting[n] = {}
      <3>1. Elements(queue) = {graph.nodes[i] : i \in {j \in DOMAIN graph.nodes :
                                                      waiting[graph.nodes[j]] = {}}}
        BY <1>a, <1>c DEF SeedExact
      <3>2. QED
        BY <3>1 DEF NodeIds, Elements
    <2>4. QED
      BY <2>2, <2>3, <1>a, <1>b DEF ReadyExact
  <1>2. QED
    BY <1>1, <1>a DEF TypeOK, WaitingIsExact, Gone, SeedExact, Once, Flow, Ended,
       SourcesComeFirst, NoCoreOut

LEMMA InvTake == IInv /\ Take => IInv'
  <1> SUFFICES ASSUME IInv, Take PROVE IInv'
    OBVIOUS
  <1> USE DEF IInv
  <1> DEFINE id == Head(queue)
  <1>a. /\ graph' = graph /\ waiting' = waiting /\ queue' = Tail(queue)
        /\ pc = "loop" /\ queue # <<>> /\ current = {}
    BY DEF Take, Flow
  <1>b. /\ id \in NodeIds(graph) /\ queue' \in Seq(NodeIds(graph)) /\ Injective(queue')
        /\ Elements(queue) = Elements(queue') \cup {id} /\ id \notin Elements(queue')
    BY <1>a, HeadTailFacts DEF TypeOK, Once
  <1>c. /\ ~Dangling(graph)
        /\ \A n \in NodeIds(graph) : waiting[n] = {k \in EdgesInto(graph, n) : ~Gone(k)}
    BY <1>a DEF WaitingIsExact
  <1>d. Touched(graph) \subseteq NodeIds(graph)
    BY <1>c, EdgeFacts
  <1>1. CASE id \notin Touched(graph)
    <2>1. order' = order /\ pc' = pc /\ at' = at /\ current' = current
      BY <1>1 DEF Take
    <2>2. TypeOK' /\ Once'
      BY <2>1, <1>a, <1>b DEF TypeOK, Once
    <2>3. WaitingIsExact'
      BY <2>1, <1>a DEF WaitingIsExact, Gone
    <2>4. ReadyExact'
      BY <2>1, <1>1, <1>a, <1>b DEF ReadyExact
    <2>5. QED
      BY <2>1, <2>2, <2>3, <2>4, <1>a DEF SeedExact, Flow, Ended, SourcesComeFirst, NoCoreOut
  <1>2. CASE id \in Touched(graph)
    <2>1. order' = Append(order, id) /\ pc' = "release" /\ at' = 1 /\ current' = {id}
      BY <1>2 DEF Take
    <2>2. waiting[id] = {}
      BY <1>2, <1>a, <1>b DEF ReadyExact
    <2>3. \A k \in EdgesInto(graph, id) : Source(graph, k) \in Elements(order)
      BY <2>2, <1>b, <1>c DEF Gone
    <2>4. id \notin Elements(order)
      BY <1>b DEF Once
    <2>5. /\ order' \in Seq(NodeIds(graph)) /\ Injective(order')
          /\ Elements(order') = Elements(order) \cup {id}
      BY <2>1, <2>4, <1>b, AppendFacts DEF TypeOK, Once
    <2>6. TypeOK'
      BY <2>1, <2>5, <1>a, <1>b DEF TypeOK
    <2>7. Once'
      BY <2>5, <1>b DEF Once
    <2>8. WaitingIsExact'
      <3>1. \A k \in DataEdges(graph) : Gone(k)' <=> Gone(k)
        <4>1. SUFFICES ASSUME NEW k \in DataEdges(graph) PROVE Gone(k)' <=> Gone(k)
          OBVIOUS
        <4>2. k >= 1
          BY DEF TypeOK, WellFormed, DataEdges
        <4>3. ~(k < 1)
          BY <4>2 DEF TypeOK, WellFormed, DataEdges
        <4>4. Source(graph, k)' = Source(graph, k)
          BY <1>a DEF Source
        <4>5. QED
          BY <4>3, <4>4, <2>1, <2>4, <2>5, <1>a DEF Gone
      <3>2. \A n \in NodeIds(graph) : EdgesInto(graph, n) \subseteq DataEdges(graph)
        BY DEF EdgesInto
      <3>3. QED
        BY <3>1, <3>2, <2>1, <1>a, <1>c DEF WaitingIsExact
    <2>9. ReadyExact'
      BY <2>1, <2>5, <1>a, <1>b DEF ReadyExact
    <2>10. Flow'
      BY <2>1, <2>5, <1>2, <1>a DEF Flow
    <2>11. SourcesComeFirst'
      BY <2>1, <2>3, <1>a, <1>b, RespectsAppend DEF SourcesComeFirst, TypeOK
    <2>12. NoCoreOut'
      <3>1. SUFFICES ASSUME NEW C \in SUBSET NodeIds(graph), Deadlocked(graph, C)
                     PROVE  C \cap Elements(order') = {}
        BY <1>a DEF NoCoreOut
      <3>2. C \cap Elements(order) = {}
        BY <3>1 DEF NoCoreOut
      <3>3. id \notin C
        BY <3>1, <3>2, <2>3 DEF Deadlocked
      <3>4. QED
        BY <3>2, <3>3, <2>5
    <2>13. SeedExact' /\ Ended'
      BY <2>1 DEF SeedExact, Ended
    <2>14. QED
      BY <2>6, <2>7, <2>8, <2>9, <2>10, <2>11, <2>12, <2>13
  <1>3. QED
    BY <1>1, <1>2

LEMMA InvRelease == IInv /\ Release => IInv'
  <1> SUFFICES ASSUME IInv, Release PROVE IInv'
    OBVIOUS
  <1> USE DEF IInv
  <1>a. /\ graph' = graph /\ order' = order /\ pc' = "release" /\ current' = current
        /\ at' = at + 1 /\ pc = "release" /\ at <= Len(graph.edges) /\ at \in Nat \ {0}
    BY DEF Release, TypeOK
  <1>b. /\ ~Dangling(graph)
        /\ \A n \in NodeIds(graph) : waiting[n] = {k \in EdgesInto(graph, n) : ~Gone(k)}
    BY <1>a DEF WaitingIsExact
  <1>c. /\ Touched(graph) \subseteq NodeIds(graph)
        /\ \A k \in DataEdges(graph) : /\ Source(graph, k) \in Touched(graph)
                                        /\ Target(graph, k) \in Touched(graph)
    BY <1>b, EdgeFacts
  <1>d. DataEdges(graph) \subseteq Nat
    BY DEF DataEdges, TypeOK, WellFormed
  <1>e. \A k \in DataEdges(graph) :
           Gone(k)' <=> Gone(k) \/ (k = at /\ Source(graph, at) \in current)
    <2>1. SUFFICES ASSUME NEW k \in DataEdges(graph)
                   PROVE  Gone(k)' <=> Gone(k) \/ (k = at /\ Source(graph, at) \in current)
      OBVIOUS
    <2>2. k < at + 1 <=> k < at \/ k = at
      BY <1>a, <1>d
    <2>3. Source(graph, k)' = Source(graph, k) /\ current \subseteq Elements(order)
      BY <1>a DEF Source, Flow
    <2>4. Gone(k)' <=> /\ Source(graph, k) \in Elements(order)
                       /\ Source(graph, k) \in current => k < at + 1
      BY <2>3, <1>a DEF Gone
    <2>5. QED
      BY <2>2, <2>3, <2>4 DEF Gone
  <1>f. \A n \in NodeIds(graph) : EdgesInto(graph, n) \subseteq DataEdges(graph)
    BY DEF EdgesInto
  <1>g. SeedExact' /\ Flow' /\ Ended' /\ SourcesComeFirst' /\ NoCoreOut'
    BY <1>a DEF SeedExact, Flow, Ended, SourcesComeFirst, NoCoreOut
  <1>1. CASE at \in DataEdges(graph) /\ Source(graph, at) \in current
    <2> DEFINE t == Target(graph, at)
    <2>1. /\ waiting' = [waiting EXCEPT ![t] = @ \ {at}]
          /\ queue' = IF waiting[t] \ {at} = {} THEN Append(queue, t) ELSE queue
      BY <1>1 DEF Release
    <2>2. t \in Touched(graph) /\ t \in NodeIds(graph) /\ at \in EdgesInto(graph, t)
      BY <1>1, <1>c DEF EdgesInto
    <2>3. ~Gone(at)
      BY <1>1, <1>a DEF Gone
    <2>4. at \in waiting[t]
      BY <2>2, <2>3, <1>b
    <2>5. t \notin Elements(queue) \cup Elements(order)
      BY <2>2, <2>4, <1>a DEF ReadyExact
    <2>t. \A n \in NodeIds(graph) : n # t => at \notin EdgesInto(graph, n)
      BY DEF EdgesInto
    <2>f. /\ waiting \in [NodeIds(graph) -> SUBSET DataEdges(graph)]
          /\ queue \in Seq(NodeIds(graph)) /\ Injective(queue)
      BY DEF TypeOK, Once
    <2> HIDE DEF t
    <2>6. /\ queue' \in Seq(NodeIds(graph)) /\ Injective(queue')
          /\ Elements(queue') = IF waiting[t] \ {at} = {} THEN Elements(queue) \cup {t}
                                ELSE Elements(queue)
      <3>1. CASE waiting[t] \ {at} = {}
        BY <3>1, <2>1, <2>2, <2>5, <2>f, AppendFacts
      <3>2. CASE waiting[t] \ {at} # {}
        BY <3>2, <2>1, <2>f
      <3>3. QED
        BY <3>1, <3>2
    <2>7. /\ waiting' \in [NodeIds(graph) -> SUBSET DataEdges(graph)]
          /\ waiting'[t] = waiting[t] \ {at}
          /\ \A n \in NodeIds(graph) : n # t => waiting'[n] = waiting[n]
      BY <2>1, <2>2, <2>f
    <2>8. TypeOK'
      BY <2>6, <2>7, <1>a DEF TypeOK
    <2>9. WaitingIsExact'
      <3>1. \A n \in NodeIds(graph) : waiting'[n] = {k \in EdgesInto(graph, n) : ~Gone(k)'}
        <4>1. SUFFICES ASSUME NEW n \in NodeIds(graph)
                       PROVE  waiting'[n] = {k \in EdgesInto(graph, n) : ~Gone(k)'}
          OBVIOUS
        <4>2. CASE n = t
          BY <4>2, <2>7, <1>1, <1>b, <1>e, <1>f
        <4>3. CASE n # t
          BY <4>3, <2>7, <2>t, <1>b, <1>e, <1>f
        <4>4. QED
          BY <4>2, <4>3
      <3>2. QED
        BY <3>1, <1>a, <1>b DEF WaitingIsExact
    <2>10. ReadyExact'
      <3>1. SUFFICES ASSUME NEW n \in Touched(graph)
                     PROVE  waiting'[n] = {} <=> n \in Elements(queue') \cup Elements(order)
        BY <1>a DEF ReadyExact
      <3>2. waiting[n] = {} <=> n \in Elements(queue) \cup Elements(order)
        BY <1>a DEF ReadyExact
      <3>3. CASE n = t
        BY <3>3, <2>5, <2>6, <2>7
      <3>4. CASE n # t
        BY <3>2, <3>4, <2>6, <2>7, <1>c
      <3>5. QED
        BY <3>3, <3>4
    <2>11. Once'
      BY <2>5, <2>6, <1>a DEF Once
    <2>12. QED
      BY <2>8, <2>9, <2>10, <2>11, <1>g
  <1>2. CASE ~(at \in DataEdges(graph) /\ Source(graph, at) \in current)
    <2>1. waiting' = waiting /\ queue' = queue
      BY <1>2 DEF Release
    <2>2. \A k \in DataEdges(graph) : Gone(k)' <=> Gone(k)
      BY <1>2, <1>e
    <2>3. WaitingIsExact'
      BY <2>1, <2>2, <1>a, <1>b, <1>f DEF WaitingIsExact
    <2>4. QED
      BY <2>1, <2>3, <1>a, <1>g DEF TypeOK, ReadyExact, Once
  <1>3. QED
    BY <1>1, <1>2

LEMMA InvReleased == IInv /\ Released => IInv'
  <1> SUFFICES ASSUME IInv, Released PROVE IInv'
    OBVIOUS
  <1> USE DEF IInv
  <1>a. /\ graph' = graph /\ order' = order /\ pc' = "loop" /\ current' = {} /\ at' = at
        /\ waiting' = waiting /\ queue' = queue /\ pc = "release" /\ at > Len(graph.edges)
    BY DEF Released
  <1>1. \A k \in DataEdges(graph) : k < at
    BY <1>a DEF DataEdges, TypeOK, WellFormed
  <1>2. \A k \in DataEdges(graph) : Gone(k)' <=> Gone(k)
    BY <1>1, <1>a DEF Gone, Source
  <1>3. \A n \in NodeIds(graph) : EdgesInto(graph, n) \subseteq DataEdges(graph)
    BY DEF EdgesInto
  <1>4. WaitingIsExact'
    BY <1>2, <1>3, <1>a DEF WaitingIsExact
  <1>5. QED
    BY <1>4, <1>a DEF TypeOK, SeedExact, ReadyExact, Once, Flow, Ended, SourcesComeFirst, NoCoreOut

LEMMA InvConclude == IInv /\ Conclude => IInv'
  <1> SUFFICES ASSUME IInv, Conclude PROVE IInv'
    OBVIOUS
  <1> USE DEF IInv
  <1>a. /\ UNCHANGED <<graph, at, waiting, queue, order, current>> /\ pc = "loop" /\ queue = <<>>
        /\ pc' = IF Touched(graph) \subseteq Elements(order) THEN "ok" ELSE "cycle"
    BY DEF Conclude
  <1>1. TypeOK' /\ Ended'
    BY <1>a DEF TypeOK, Ended, Verdicts
  <1>2. WaitingIsExact'
    BY <1>a DEF WaitingIsExact, Gone
  <1>3. QED
    BY <1>1, <1>2, <1>a DEF SeedExact, ReadyExact, Once, Flow, SourcesComeFirst, NoCoreOut

LEMMA InvStutter == IInv /\ UNCHANGED vars => IInv'
  <1> SUFFICES ASSUME IInv, UNCHANGED vars PROVE IInv'
    OBVIOUS
  <1>a. /\ graph' = graph /\ pc' = pc /\ at' = at /\ waiting' = waiting /\ queue' = queue
        /\ order' = order /\ current' = current
    BY DEF vars
  <1>1. WaitingIsExact'
    BY <1>a DEF IInv, WaitingIsExact, Gone
  <1>2. QED
    BY <1>1, <1>a DEF IInv, TypeOK, SeedExact, ReadyExact, Once, Flow, Ended, SourcesComeFirst,
       NoCoreOut

THEOREM Invariance == Spec => []IInv
  <1>1. IInv /\ [Next]_vars => IInv'
    BY InvValidate, InvSeed, InvSeeded, InvTake, InvRelease, InvReleased, InvConclude,
       InvStutter DEF Next
  <1>2. QED
    BY InvInit, <1>1, PTL DEF Spec

----------------------------------------------------------------------------
(* The theorems.                                                           *)

\* Every variable holds what the code can store in it, whatever the graph.
THEOREM TypeCorrect == Spec => []TypeOK
  <1>1. IInv => TypeOK
    BY DEF IInv
  <1>2. QED
    BY <1>1, Invariance, PTL

\* TopoOrder never emits a node before what feeds it, nor a node twice.
THEOREM OrderIsRight == Spec => [](SourcesComeFirst /\ EachNodeOnce)
  <1>1. IInv => SourcesComeFirst /\ EachNodeOnce
    BY DEF IInv, Once, EachNodeOnce
  <1>2. QED
    BY <1>1, Invariance, PTL

\* An accepted graph comes out whole, and none of it waits for itself.
THEOREM AcceptedIsRight == Spec => [](AcceptedIsWhole /\ AcceptedIsAcyclic)
  <1>1. IInv => AcceptedIsWhole
    BY DEF IInv, Flow, Ended, AcceptedIsWhole
  <1>2. ASSUME IInv PROVE AcceptedIsAcyclic
    <2>1. SUFFICES ASSUME pc = "ok", NEW C \in SUBSET Touched(graph), Deadlocked(graph, C)
                   PROVE  FALSE
      BY DEF AcceptedIsAcyclic
    <2>2. C \subseteq NodeIds(graph) /\ C # {}
      BY <2>1 DEF Deadlocked
    <2>3. C \cap Elements(order) = {} /\ Touched(graph) \subseteq Elements(order)
      BY <1>2, <2>1, <2>2 DEF IInv, NoCoreOut, Ended
    <2>4. QED
      BY <2>2, <2>3
  <1>3. QED
    BY <1>1, <1>2, Invariance, PTL

\* A graph refused as cyclic has nodes that wait for one another.
THEOREM RefusedIsRight == Spec => []RefusedIsCyclic
  <1>1. ASSUME IInv PROVE RefusedIsCyclic
    <2> DEFINE C == Touched(graph) \ Elements(order)
    <2>1. SUFFICES ASSUME pc = "cycle" PROVE Deadlocked(graph, C)
      BY DEF RefusedIsCyclic
    <2>2. C # {} /\ Elements(queue) = {} /\ current = {}
      BY <1>1, <2>1 DEF IInv, Ended, Elements, Flow
    <2>3. /\ ~Dangling(graph)
          /\ \A n \in NodeIds(graph) : waiting[n] = {k \in EdgesInto(graph, n) : ~Gone(k)}
      BY <1>1, <2>1 DEF IInv, WaitingIsExact
    <2>4. /\ Touched(graph) \subseteq NodeIds(graph)
          /\ \A k \in DataEdges(graph) : Source(graph, k) \in Touched(graph)
      BY <2>3, EdgeFacts
    <2>5. ASSUME NEW n \in C PROVE \E k \in EdgesInto(graph, n) : Source(graph, k) \in C
      <3>1. waiting[n] # {}
        BY <1>1, <2>1, <2>2 DEF IInv, ReadyExact
      <3>2. PICK k \in EdgesInto(graph, n) : ~Gone(k)
        BY <3>1, <2>3, <2>4
      <3>3. Source(graph, k) \in C
        BY <3>2, <2>2, <2>4 DEF Gone, EdgesInto
      <3>4. QED
        BY <3>3
    <2>6. QED
      BY <2>2, <2>4, <2>5 DEF Deadlocked
  <1>2. QED
    BY <1>1, Invariance, PTL

----------------------------------------------------------------------------
(* Lists in order: what InOrder and Selected make of a set that grows at   *)
(* its end or loses its first place.                                       *)

\* An increasing enumeration of K is the one InOrder gives.
LEMMA InOrderUnique ==
    ASSUME NEW K, K \subseteq Nat, NEW n \in Nat, NEW f \in [1..n -> K],
           \A k \in K : \E i \in 1..n : f[i] = k,
           \A i, j \in 1..n : i < j => f[i] < f[j]
    PROVE  IsFiniteSet(K) /\ Cardinality(K) = n /\ InOrder(K) = f
  <1>0. \A i, j \in 1..n : f[i] = f[j] => i = j
    <2>1. SUFFICES ASSUME NEW i \in 1..n, NEW j \in 1..n, f[i] = f[j] PROVE i = j
      OBVIOUS
    <2>2. f[i] \in Nat /\ f[j] \in Nat
      OBVIOUS
    <2>3. ~ (f[i] < f[j]) /\ ~ (f[j] < f[i])
      BY <2>1, <2>2
    <2>4. ~ (i < j) /\ ~ (j < i)
      BY <2>3
    <2>5. QED
      BY <2>4
  <1>1. f \in Bijection(1..n, K)
    BY <1>0, Fun_IsBij
  <1>2. IsFiniteSet(1..n) /\ Cardinality(1..n) = n
    BY CountTo
  <1>3. IsFiniteSet(K) /\ Cardinality(K) = n
    BY <1>1, <1>2, FS_Bijection DEF ExistsBijection
  <1>4. \A i \in 1..n : Cardinality({l \in K : l <= f[i]}) = i
    <2>1. SUFFICES ASSUME NEW i \in 1..n PROVE Cardinality({l \in K : l <= f[i]}) = i
      OBVIOUS
    <2> DEFINE g == [j \in 1..i |-> f[j]]
               B == {l \in K : l <= f[i]}
    <2>2. \A j \in 1..n : f[j] \in Nat /\ (f[j] <= f[i] <=> j <= i)
      <3>1. SUFFICES ASSUME NEW j \in 1..n PROVE f[j] \in Nat /\ (f[j] <= f[i] <=> j <= i)
        OBVIOUS
      <3>2. f[j] \in Nat /\ f[i] \in Nat
        OBVIOUS
      <3>3. CASE j < i
        BY <3>2, <3>3
      <3>4. CASE j = i
        BY <3>2, <3>4
      <3>5. CASE i < j
        <4>1. f[i] < f[j]
          BY <3>5
        <4>2. QED
          BY <3>2, <3>5, <4>1
      <3>6. QED
        BY <3>3, <3>4, <3>5
    <2>3. \A j \in 1..i : j \in 1..n /\ j <= i
      OBVIOUS
    <2>4. g \in [1..i -> B]
      BY <2>2, <2>3
    <2>5. \A l \in B : \E j \in 1..i : g[j] = l
      <3>1. SUFFICES ASSUME NEW l \in B PROVE \E j \in 1..i : g[j] = l
        OBVIOUS
      <3>2. PICK j \in 1..n : f[j] = l
        OBVIOUS
      <3>3. j \in 1..i
        BY <2>2, <3>2
      <3>4. QED
        BY <3>2, <3>3
    <2>6. \A j, m \in 1..i : g[j] = g[m] => j = m
      BY <1>0, <2>3
    <2> HIDE DEF g, B
    <2>7. g \in Bijection(1..i, B)
      BY <2>4, <2>5, <2>6, Fun_IsBij
    <2>8. IsFiniteSet(1..i) /\ Cardinality(1..i) = i
      BY CountTo
    <2>9. Cardinality(B) = i
      BY <2>7, <2>8, FS_Bijection DEF ExistsBijection
    <2>10. QED
      BY <2>9 DEF B
  <1>5. \A i \in 1..n : (CHOOSE k \in K : Cardinality({l \in K : l <= k}) = i) = f[i]
    <2>1. SUFFICES ASSUME NEW i \in 1..n
                   PROVE  (CHOOSE k \in K : Cardinality({l \in K : l <= k}) = i) = f[i]
      OBVIOUS
    <2> DEFINE c == CHOOSE k \in K : Cardinality({l \in K : l <= k}) = i
    <2>2. c \in K /\ Cardinality({l \in K : l <= c}) = i
      <3>1. f[i] \in K /\ Cardinality({l \in K : l <= f[i]}) = i
        BY <1>4
      <3>2. \E k \in K : Cardinality({l \in K : l <= k}) = i
        BY <3>1
      <3>3. QED
        BY <3>2
    <2> HIDE DEF c
    <2>3. PICK j \in 1..n : f[j] = c
      BY <2>2
    <2>4. j = i
      BY <1>4, <2>2, <2>3
    <2>5. QED
      BY <2>3, <2>4 DEF c
  <1>6. InOrder(K) = [i \in 1..n |-> f[i]]
    BY <1>3, <1>5 DEF InOrder
  <1>7. QED
    BY <1>3, <1>6

\* A place past all of K comes last.
LEMMA InOrderAppend ==
    ASSUME NEW K, K \subseteq Nat, IsFiniteSet(K), NEW m \in Nat, \A k \in K : k < m
    PROVE  /\ Cardinality(K) \in Nat /\ Cardinality(K \cup {m}) = Cardinality(K) + 1
           /\ \A i \in 1..Cardinality(K) : InOrder(K \cup {m})[i] = InOrder(K)[i]
           /\ InOrder(K \cup {m})[Cardinality(K) + 1] = m
  <1> DEFINE n == Cardinality(K)
             o == InOrder(K)
             f == [i \in 1..n+1 |-> IF i = n + 1 THEN m ELSE o[i]]
             L == K \cup {m}
  <1>1. /\ n \in Nat /\ o \in [1..n -> K]
        /\ \A k \in K : \E i \in 1..n : o[i] = k
        /\ \A i, j \in 1..n : i < j => o[i] < o[j]
    BY InOrderFacts
  <1> HIDE DEF n, o
  <1>2. \A i \in 1..n : i \in 1..n+1 /\ f[i] = o[i]
    BY <1>1
  <1>3. n + 1 \in 1..n+1 /\ f[n+1] = m
    BY <1>1
  <1>4. f \in [1..n+1 -> L]
    BY <1>1
  <1>5. \A k \in L : \E i \in 1..n+1 : f[i] = k
    BY <1>1, <1>2, <1>3
  <1>6. \A i, j \in 1..n+1 : i < j => f[i] < f[j]
    <2>1. SUFFICES ASSUME NEW i \in 1..n+1, NEW j \in 1..n+1, i < j PROVE f[i] < f[j]
      OBVIOUS
    <2>2. i \in 1..n
      BY <1>1, <2>1
    <2>3. CASE j = n + 1
      BY <1>1, <1>2, <1>3, <2>2, <2>3
    <2>4. CASE j # n + 1
      <3>1. j \in 1..n
        BY <1>1, <2>4
      <3>2. QED
        BY <1>1, <1>2, <2>1, <2>2, <3>1
    <2>5. QED
      BY <2>3, <2>4
  <1>7. L \subseteq Nat /\ n + 1 \in Nat
    BY <1>1
  <1> HIDE DEF f, L
  <1>8. Cardinality(L) = n + 1 /\ InOrder(L) = f
    BY <1>4, <1>5, <1>6, <1>7, InOrderUnique
  <1>9. QED
    BY <1>1, <1>2, <1>3, <1>8 DEF L, n, o

\* The places of K when the first element is taken away.
MovedUp(K) == {k \in Nat \ {0} : k + 1 \in K}

\* Without its first place, every other one moved up.
LEMMA InOrderTail ==
    ASSUME NEW K, K \subseteq Nat \ {0}, IsFiniteSet(K)
    PROVE  /\ Cardinality(K) \in Nat /\ IsFiniteSet(MovedUp(K)) 
           /\ 1 \in K => /\ Cardinality(K) = Cardinality(MovedUp(K)) + 1 /\ InOrder(K)[1] = 1
                         /\ \A i \in 1..Cardinality(MovedUp(K)) :
                               InOrder(K)[i+1] = InOrder(MovedUp(K))[i] + 1
           /\ 1 \notin K => /\ Cardinality(K) = Cardinality(MovedUp(K))
                            /\ \A i \in 1..Cardinality(MovedUp(K)) :
                                  InOrder(K)[i] = InOrder(MovedUp(K))[i] + 1
  <1> DEFINE n == Cardinality(K)
             o == InOrder(K)
  <1>1. /\ n \in Nat /\ o \in [1..n -> K]
        /\ \A k \in K : \E i \in 1..n : o[i] = k
        /\ \A i, j \in 1..n : i < j => o[i] < o[j]
    BY InOrderFacts
  <1> HIDE DEF n, o
  <1>a. MovedUp(K) \subseteq Nat
    BY DEF MovedUp
  <1>2. ASSUME 1 \in K
        PROVE  /\ IsFiniteSet(MovedUp(K)) /\ n = Cardinality(MovedUp(K)) + 1 /\ o[1] = 1
               /\ \A i \in 1..Cardinality(MovedUp(K)) : o[i+1] = InOrder(MovedUp(K))[i] + 1
    <2>1. PICK p \in 1..n : o[p] = 1
      BY <1>1, <1>2
    <2>2. p = 1
      <3>0. 1 \in 1..n
        BY <1>1
      <3>1. 1 \in 1..n /\ o[1] \in K
        BY <1>1, <3>0
      <3>a. \A k \in K : ~ (k < 1)
        OBVIOUS
      <3>2. ~ (o[1] < 1)
        BY <3>1, <3>a
      <3>3. ~ (1 < p)
        BY <1>1, <2>1, <3>1, <3>2
      <3>4. QED
        BY <3>3
    <2>3. n - 1 \in Nat /\ n \in Nat \ {0}
      BY <1>1, <2>1
    <2> DEFINE f == [i \in 1..n-1 |-> o[i+1] - 1]
    <2>4. \A i \in 1..n-1 : /\ i + 1 \in 1..n /\ 1 \in 1..n /\ 1 < i + 1 /\ o[i+1] \in K
                            /\ o[i+1] \in Nat /\ o[i+1] > 1
      <3>1. SUFFICES ASSUME NEW i \in 1..n-1
                     PROVE  /\ i + 1 \in 1..n /\ 1 \in 1..n /\ 1 < i + 1 /\ o[i+1] \in K
                            /\ o[i+1] \in Nat /\ o[i+1] > 1
        OBVIOUS
      <3>2. i + 1 \in 1..n /\ 1 \in 1..n /\ 1 < i + 1
        BY <2>3
      <3>3. o[i+1] \in K
        BY <1>1, <3>2
      <3>4. o[1] < o[i+1]
        BY <1>1, <3>2
      <3>5. QED
        BY <2>1, <2>2, <3>2, <3>3, <3>4
    <2>5. f \in [1..n-1 -> MovedUp(K)]
      <3>1. ASSUME NEW i \in 1..n-1 PROVE o[i+1] - 1 \in MovedUp(K)
        <4>1. o[i+1] \in K /\ o[i+1] \in Nat /\ o[i+1] > 1
          BY <2>4
        <4>2. o[i+1] - 1 \in Nat \ {0} /\ (o[i+1] - 1) + 1 = o[i+1]
          BY <4>1
        <4>3. QED
          BY <4>1, <4>2 DEF MovedUp
      <3>2. QED
        BY <3>1
    <2>6. \A k \in MovedUp(K) : \E i \in 1..n-1 : f[i] = k
      <3>1. SUFFICES ASSUME NEW k \in MovedUp(K) PROVE \E i \in 1..n-1 : f[i] = k
        OBVIOUS
      <3>2. k \in Nat \ {0} /\ k + 1 \in K
        BY DEF MovedUp
      <3>3. PICK i \in 1..n : o[i] = k + 1
        BY <1>1, <3>2
      <3>4. i # 1
        BY <2>1, <2>2, <3>2, <3>3
      <3>5. i - 1 \in 1..n-1 /\ (i - 1) + 1 = i
        BY <2>3, <3>4
      <3>6. f[i-1] = k
        BY <3>2, <3>3, <3>5
      <3>7. QED
        BY <3>5, <3>6
    <2>7. \A i, j \in 1..n-1 : i < j => f[i] < f[j]
      <3>1. SUFFICES ASSUME NEW i \in 1..n-1, NEW j \in 1..n-1, i < j PROVE f[i] < f[j]
        OBVIOUS
      <3>2. /\ i + 1 \in 1..n /\ j + 1 \in 1..n /\ i + 1 < j + 1
            /\ o[i+1] \in Nat /\ o[j+1] \in Nat
        BY <2>4, <3>1
      <3>3. o[i+1] < o[j+1]
        BY <1>1, <3>2
      <3>4. QED
        BY <3>2, <3>3
    <2>9. \A i \in 1..n-1 : f[i] + 1 = o[i+1]
      BY <2>4
    <2> HIDE DEF f
    <2>8. IsFiniteSet(MovedUp(K)) /\ Cardinality(MovedUp(K)) = n - 1 /\ InOrder(MovedUp(K)) = f
      BY <1>a, <2>3, <2>5, <2>6, <2>7, InOrderUnique, SMTT(30)
    <2>10. QED
      BY <1>1, <2>1, <2>2, <2>8, <2>9
  <1>3. ASSUME 1 \notin K
        PROVE  /\ IsFiniteSet(MovedUp(K)) /\ n = Cardinality(MovedUp(K))
               /\ \A i \in 1..Cardinality(MovedUp(K)) : o[i] = InOrder(MovedUp(K))[i] + 1
    <2> DEFINE f == [i \in 1..n |-> o[i] - 1]
    <2>1. \A i \in 1..n : o[i] \in K /\ o[i] \in Nat /\ o[i] > 1
      <3>1. \A k \in K : k \in Nat /\ k > 1
        BY <1>3
      <3>2. QED
        BY <1>1, <3>1
    <2>2. f \in [1..n -> MovedUp(K)]
      <3>1. ASSUME NEW i \in 1..n PROVE o[i] - 1 \in MovedUp(K)
        <4>1. o[i] - 1 \in Nat \ {0} /\ (o[i] - 1) + 1 = o[i] /\ o[i] \in K
          BY <2>1
        <4>2. QED
          BY <4>1 DEF MovedUp
      <3>2. QED
        BY <3>1
    <2>3. \A k \in MovedUp(K) : \E i \in 1..n : f[i] = k
      <3>1. SUFFICES ASSUME NEW k \in MovedUp(K) PROVE \E i \in 1..n : f[i] = k
        OBVIOUS
      <3>0. k \in Nat \ {0} /\ k + 1 \in K
        BY DEF MovedUp
      <3>2. PICK i \in 1..n : o[i] = k + 1
        BY <1>1, <3>0
      <3>3. f[i] = k
        BY <3>0, <3>2
      <3>4. QED
        BY <3>3
    <2>4. \A i, j \in 1..n : i < j => f[i] < f[j]
      <3>1. SUFFICES ASSUME NEW i \in 1..n, NEW j \in 1..n, i < j PROVE f[i] < f[j]
        OBVIOUS
      <3>2. o[i] < o[j] /\ o[i] \in Nat /\ o[j] \in Nat
        BY <1>1, <2>1, <3>1
      <3>3. QED
        BY <3>2
    <2>5. \A i \in 1..n : f[i] + 1 = o[i]
      BY <2>1
    <2> HIDE DEF f
    <2>6. IsFiniteSet(MovedUp(K)) /\ Cardinality(MovedUp(K)) = n /\ InOrder(MovedUp(K)) = f
      BY <1>1, <1>a, <2>2, <2>3, <2>4, InOrderUnique, SMTT(30)
    <2>7. QED
      BY <2>5, <2>6
  <1>4. QED
    BY <1>1, <1>2, <1>3 DEF n, o

\* A selection has the length of the places selected.
LEMMA SelectedPlaces ==
    ASSUME NEW S, NEW s \in Seq(S), NEW K, K \subseteq DOMAIN s
    PROVE  /\ K \subseteq Nat \ {0} /\ IsFiniteSet(K) /\ Cardinality(K) \in Nat
           /\ Selected(s, K) \in Seq(S) /\ Len(Selected(s, K)) = Cardinality(K)
           /\ InOrder(K) \in [1..Cardinality(K) -> K]
           /\ \A i \in 1..Cardinality(K) : Selected(s, K)[i] = s[InOrder(K)[i]]
  <1>1. K \subseteq Nat /\ IsFiniteSet(K) /\ DOMAIN s = 1..Len(s) /\ Len(s) \in Nat
    BY PlacesFacts
  <1>2. InOrder(K) \in [1..Cardinality(K) -> K] /\ Cardinality(K) \in Nat
    BY <1>1, InOrderFacts
  <1>3. Selected(s, K) \in Seq(S)
    BY SelectedFacts
  <1>4. Selected(s, K) = [i \in 1..Cardinality(K) |-> s[InOrder(K)[i]]]
    BY <1>2 DEF Selected
  <1>5. Len(Selected(s, K)) = Cardinality(K)
    BY <1>2, <1>3, <1>4
  <1>6. K \subseteq Nat \ {0}
    BY <1>1
  <1>7. QED
    BY <1>1, <1>2, <1>3, <1>4, <1>5, <1>6

\* A later place adds what it holds at the end.
LEMMA SelectedAppend ==
    ASSUME NEW S, NEW s \in Seq(S), NEW K, K \subseteq DOMAIN s,
           NEW m \in DOMAIN s, \A k \in K : k < m
    PROVE  Selected(s, K \cup {m}) = Append(Selected(s, K), s[m])
  <1> DEFINE n == Cardinality(K)
             L == K \cup {m}
             t == Selected(s, K)
             u == Selected(s, L)
             v == Append(t, s[m])
  <1>1. L \subseteq DOMAIN s /\ m \in Nat /\ s[m] \in S
    OBVIOUS
  <1>2. /\ K \subseteq Nat /\ IsFiniteSet(K) /\ n \in Nat /\ t \in Seq(S) /\ Len(t) = n
        /\ \A i \in 1..n : t[i] = s[InOrder(K)[i]]
    BY SelectedPlaces
  <1> HIDE DEF L
  <1>3. /\ u \in Seq(S) /\ Len(u) = Cardinality(L)
        /\ \A i \in 1..Cardinality(L) : u[i] = s[InOrder(L)[i]]
    BY <1>1, SelectedPlaces
  <1>4. /\ Cardinality(L) = n + 1 /\ \A i \in 1..n : InOrder(L)[i] = InOrder(K)[i]
        /\ InOrder(L)[n + 1] = m
    BY <1>1, <1>2, InOrderAppend DEF L
  <1> HIDE DEF n, t, u
  <1>5. /\ v \in Seq(S) /\ Len(v) = n + 1 /\ v[n + 1] = s[m]
        /\ \A i \in 1..n : v[i] = t[i]
    BY <1>1, <1>2, AppendProperties
  <1> HIDE DEF v
  <1>6. \A i \in 1..Len(u) : u[i] = v[i]
    <2>1. SUFFICES ASSUME NEW i \in 1..n+1 PROVE u[i] = v[i]
      BY <1>3, <1>4
    <2>2. i \in 1..n \/ i = n + 1
      BY <1>2
    <2>3. u[i] = s[InOrder(L)[i]]
      BY <1>3, <1>4
    <2>4. QED
      BY <2>2, <2>3, <1>2, <1>4, <1>5
  <1>7. u = v
    BY <1>3, <1>4, <1>5, <1>6, SeqEqual
  <1>8. QED
    BY <1>7 DEF u, v, t, L

\* What a list holds of T, in its own order.
Kept(T, s) == Selected(s, {i \in DOMAIN s : s[i] \in T})

LEMMA KeptEmpty ==
    ASSUME NEW T
    PROVE  Kept(T, <<>>) = <<>>
  <1> DEFINE K == {i \in DOMAIN <<>> : (<<>>)[i] \in T}
  <1>1. K = {}
    OBVIOUS
  <1>2. <<>> \in Seq({}) /\ K \subseteq DOMAIN <<>>
    BY EmptySeq
  <1>3. Kept(T, <<>>) = Selected(<<>>, K)
    BY DEF Kept
  <1> HIDE DEF K
  <1>4. Selected(<<>>, K) \in Seq({}) /\ Len(Selected(<<>>, K)) = Cardinality(K)
    BY <1>2, SelectedPlaces
  <1>5. Cardinality(K) = 0
    BY <1>1, FS_EmptySet
  <1>6. QED
    BY <1>3, <1>4, <1>5, EmptySeq

LEMMA KeptAppend ==
    ASSUME NEW T, NEW S, NEW s \in Seq(S), NEW x \in S
    PROVE  Kept(T, Append(s, x)) = IF x \in T THEN Append(Kept(T, s), x) ELSE Kept(T, s)
  <1> DEFINE a == Append(s, x)
             n == Len(s)
             K == {i \in DOMAIN s : s[i] \in T}
             L == {i \in DOMAIN a : a[i] \in T}
  <1>1. /\ a \in Seq(S) /\ n \in Nat /\ DOMAIN s = 1..n /\ DOMAIN a = 1..n+1
        /\ \A i \in 1..n : a[i] = s[i]
        /\ a[n+1] = x
    BY AppendProperties
  <1>k. Kept(T, s) = Selected(s, K) /\ Kept(T, a) = Selected(a, L)
    BY DEF Kept
  <1>s. K \subseteq DOMAIN s
    OBVIOUS
  <1>n. /\ n \in Nat /\ DOMAIN s = 1..n /\ n + 1 \in 1..n+1
        /\ \A i \in 1..n : i \in 1..n+1 /\ i < n + 1
    BY <1>1
  <1>l. L = IF x \in T THEN K \cup {n+1} ELSE K
    <2> HIDE DEF a, n
    <2>1. \A i \in 1..n+1 : i \in 1..n \/ i = n + 1
      BY <1>1
    <2>2. QED
      BY <2>1, <1>1, <1>n
  <1>2. Selected(a, K) = Selected(s, K)
    <2>1. K \subseteq DOMAIN a
      BY <1>s, <1>1, <1>n
    <2> HIDE DEF K, a, n
    <2>2. /\ Selected(s, K) \in Seq(S) /\ Len(Selected(s, K)) = Cardinality(K)
          /\ InOrder(K) \in [1..Cardinality(K) -> K]
          /\ \A i \in 1..Cardinality(K) : Selected(s, K)[i] = s[InOrder(K)[i]]
      BY <1>s, SelectedPlaces
    <2>3. /\ Selected(a, K) \in Seq(S) /\ Len(Selected(a, K)) = Cardinality(K)
          /\ \A i \in 1..Cardinality(K) : Selected(a, K)[i] = a[InOrder(K)[i]]
      BY <1>1, <2>1, SelectedPlaces
    <2>4. \A i \in 1..Cardinality(K) : a[InOrder(K)[i]] = s[InOrder(K)[i]]
      <3>1. \A k \in K : a[k] = s[k]
        BY <1>s, <1>1
      <3>2. QED
        BY <2>2, <3>1
    <2>5. \A i \in 1..Len(Selected(a, K)) : Selected(a, K)[i] = Selected(s, K)[i]
      BY <2>2, <2>3, <2>4
    <2>6. QED
      BY <2>2, <2>3, <2>5, SeqEqual
  <1> HIDE DEF K, L, a
  <1>3. CASE x \in T
    <2>1. /\ K \subseteq DOMAIN a /\ n + 1 \in DOMAIN a /\ a[n+1] = x
          /\ \A k \in K : k < n + 1
      BY <1>1, <1>s, <1>n
    <2>2. Selected(a, K \cup {n+1}) = Append(Selected(a, K), a[n+1])
      BY <1>1, <2>1, SelectedAppend
    <2>3. QED
      BY <1>1, <1>3, <2>2, <1>2, <1>k, <1>l DEF a
  <1>4. CASE x \notin T
    BY <1>4, <1>2, <1>k, <1>l DEF a
  <1>5. QED
    BY <1>3, <1>4

LEMMA KeptTail ==
    ASSUME NEW T, NEW S, NEW s \in Seq(S), s # <<>>
    PROVE  /\ Kept(T, s) \in Seq(S) /\ Kept(T, Tail(s)) \in Seq(S)
           /\ Head(s) \notin T => Kept(T, Tail(s)) = Kept(T, s)
           /\ Head(s) \in T => /\ Kept(T, s) # <<>> /\ Head(Kept(T, s)) = Head(s)
                               /\ Tail(Kept(T, s)) = Kept(T, Tail(s))
  <1> DEFINE t == Tail(s)
             n == Len(s)
             K == {i \in DOMAIN s : s[i] \in T}
             J == {i \in DOMAIN t : t[i] \in T}
             p == Selected(s, K)
             q == Selected(t, J)
  <1>1. /\ t \in Seq(S) /\ n \in Nat \ {0} /\ DOMAIN s = 1..n /\ DOMAIN t = 1..n-1
        /\ \A i \in 1..n-1 : t[i] = s[i+1]
        /\ Head(s) = s[1]
    OBVIOUS
  <1>k. Kept(T, s) = p /\ Kept(T, t) = q
    BY DEF Kept
  <1> HIDE DEF t, n
  <1>j. J = MovedUp(K) /\ K \subseteq DOMAIN s /\ J \subseteq DOMAIN t /\ (1 \in K <=> Head(s) \in T)
    <2>1. \A i \in Nat \ {0} : i \in 1..n-1 <=> i + 1 \in 1..n
      BY <1>1
    <2>2. \A i : i \in 1..n-1 => i \in Nat \ {0}
      BY <1>1
    <2>3. 1 \in 1..n
      BY <1>1
    <2>4. J = MovedUp(K)
      BY <1>1, <2>1, <2>2 DEF MovedUp
    <2>5. QED
      BY <1>1, <2>3, <2>4
  <1> HIDE DEF K, J
  <1>2. /\ K \subseteq Nat \ {0} /\ IsFiniteSet(K) /\ Cardinality(K) \in Nat
        /\ p \in Seq(S) /\ Len(p) = Cardinality(K)
        /\ \A i \in 1..Cardinality(K) : p[i] = s[InOrder(K)[i]]
    BY <1>j, SelectedPlaces
  <1>3. /\ Cardinality(J) \in Nat /\ q \in Seq(S) /\ Len(q) = Cardinality(J)
        /\ InOrder(J) \in [1..Cardinality(J) -> J]
        /\ \A i \in 1..Cardinality(J) : q[i] = t[InOrder(J)[i]]
    BY <1>j, <1>1, SelectedPlaces
  <1>4. \A i \in 1..Cardinality(J) : q[i] = s[InOrder(J)[i] + 1]
    <2>1. \A j \in J : t[j] = s[j+1]
      BY <1>j, <1>1
    <2>2. QED
      BY <1>3, <2>1
  <1> HIDE DEF p, q
  <1>5. ASSUME Head(s) \notin T PROVE p = q
    <2>1. /\ Cardinality(K) = Cardinality(J)
          /\ \A i \in 1..Cardinality(J) : InOrder(K)[i] = InOrder(J)[i] + 1
      BY <1>2, <1>5, <1>j, InOrderTail
    <2>2. \A i \in 1..Len(p) : p[i] = q[i]
      BY <1>2, <1>4, <2>1
    <2>3. QED
      BY <1>2, <1>3, <2>1, <2>2, SeqEqual
  <1>6. ASSUME Head(s) \in T PROVE p # <<>> /\ Head(p) = Head(s) /\ Tail(p) = q
    <2>1. /\ Cardinality(K) = Cardinality(J) + 1 /\ InOrder(K)[1] = 1
          /\ \A i \in 1..Cardinality(J) : InOrder(K)[i+1] = InOrder(J)[i] + 1
      BY <1>2, <1>6, <1>j, InOrderTail
    <2>2. p # <<>>
      BY <1>2, <1>3, <2>1, EmptySeq
    <2>3. Head(p) = p[1] /\ p[1] = s[1]
      <3>1. 1 \in 1..Cardinality(K)
        BY <1>3, <2>1
      <3>2. p[1] = s[1]
        BY <3>1, <1>2, <2>1
      <3>3. QED
        BY <3>2, <1>2, <2>2
    <2>4. /\ Tail(p) \in Seq(S) /\ Len(Tail(p)) = Len(p) - 1
          /\ \A i \in 1..Len(Tail(p)) : Tail(p)[i] = p[i+1]
      BY <1>2, <2>2, HeadTailProperties
    <2>5. Len(Tail(p)) = Cardinality(J)
      BY <1>2, <1>3, <2>1, <2>4
    <2>6. ASSUME NEW i \in 1..Len(Tail(p)) PROVE Tail(p)[i] = q[i]
      <3>1. i \in 1..Cardinality(J) /\ i + 1 \in 1..Cardinality(K)
        BY <1>3, <2>1, <2>5
      <3>2. Tail(p)[i] = s[InOrder(K)[i+1]]
        BY <3>1, <1>2, <2>4
      <3>3. QED
        BY <3>1, <3>2, <2>1, <1>4
    <2>7. Tail(p) = q
      BY <1>3, <2>4, <2>5, <2>6, SeqEqual
    <2>8. QED
      BY <1>1, <2>2, <2>3, <2>7
  <1>7. QED
    BY <1>1, <1>2, <1>3, <1>5, <1>6, <1>k DEF t

----------------------------------------------------------------------------
(* The code's loop, turn by turn.                                          *)

\* What the release loop has freed before it comes to edge a.
FreedBefore(g, id, out, a) ==
    LET ks == InOrder({k \in FreedBy(g, id, out) : k < a})
    IN  [i \in DOMAIN ks |-> Target(g, ks[i])]

LEMMA FreedBeforeFacts ==
    ASSUME NEW g, WellFormed(g), NEW id, NEW out, NEW a \in Nat
    PROVE  /\ FreedBefore(g, id, out, a) \in Seq(Touched(g))
           /\ a = 1 => FreedBefore(g, id, out, a) = <<>>
           /\ a > Len(g.edges) => FreedBefore(g, id, out, a) = Freed(g, id, out)
           /\ FreedBefore(g, id, out, a + 1) =
                 IF a \in FreedBy(g, id, out)
                 THEN Append(FreedBefore(g, id, out, a), Target(g, a))
                 ELSE FreedBefore(g, id, out, a)
  <1> DEFINE F == FreedBy(g, id, out)
             K == {k \in F : k < a}
             L == {k \in F : k < a + 1}
             t == FreedBefore(g, id, out, a)
             u == FreedBefore(g, id, out, a + 1)
  <1>1. F \subseteq DataEdges(g)
    BY DEF FreedBy
  <1>2. /\ F \subseteq DOMAIN g.edges /\ F \subseteq Nat /\ F \subseteq 0..Len(g.edges)
        /\ Len(g.edges) \in Nat
    BY <1>1, EdgePlaces
  <1>3. K \subseteq DataEdges(g) /\ L \subseteq DataEdges(g)
    BY <1>1
  <1>4. /\ K \subseteq Nat /\ IsFiniteSet(K) /\ L \subseteq Nat /\ IsFiniteSet(L)
        /\ F \subseteq Nat /\ IsFiniteSet(F)
    BY <1>1, <1>3, EdgePlaces
  <1>t. \A k \in DataEdges(g) : Target(g, k) \in Touched(g)
    BY DEF Touched
  <1>d. /\ t = [i \in DOMAIN InOrder(K) |-> Target(g, InOrder(K)[i])]
        /\ u = [i \in DOMAIN InOrder(L) |-> Target(g, InOrder(L)[i])]
        /\ Freed(g, id, out) = [i \in DOMAIN InOrder(F) |-> Target(g, InOrder(F)[i])]
    BY DEF FreedBefore, Freed
  <1>a. a > Len(g.edges) => K = F
    BY <1>2
  <1>b. a = 1 => K = {}
    <2>1. \A k \in DOMAIN g.edges : k \in Nat \ {0}
      BY DEF WellFormed
    <2>2. a = 1 => \A k \in F : ~ (k < a)
      BY <2>1, <1>2
    <2>3. QED
      BY <2>2
  <1>l. L = IF a \in F THEN K \cup {a} ELSE K
    <2>1. \A k \in F : k < a + 1 <=> k < a \/ k = a
      BY <1>2
    <2>2. QED
      BY <2>1
  <1>m. \A k \in K : k < a
    OBVIOUS
  <1> HIDE DEF F, K, L, t, u
  <1>5. InOrder(K) \in [1..Cardinality(K) -> K] /\ Cardinality(K) \in Nat
    BY <1>4, InOrderFacts
  <1>6. t = [i \in 1..Cardinality(K) |-> Target(g, InOrder(K)[i])]
    BY <1>5, <1>d
  <1>7. t \in Seq(Touched(g)) /\ Len(t) = Cardinality(K)
    <2>1. \A i \in 1..Cardinality(K) : Target(g, InOrder(K)[i]) \in Touched(g)
      BY <1>3, <1>5, <1>t
    <2>2. t \in [1..Cardinality(K) -> Touched(g)]
      BY <1>6, <2>1
    <2>3. QED
      BY <1>5, <2>2, SeqDef
  <1>8. a = 1 => t = <<>>
    <2>1. K = {} => Cardinality(K) = 0
      BY FS_EmptySet
    <2>2. QED
      BY <1>7, <1>b, <2>1, EmptySeq
  <1>9. a > Len(g.edges) => t = Freed(g, id, out)
    BY <1>a, <1>d
  <1>10. ASSUME a \in F PROVE u = Append(t, Target(g, a))
    <2> DEFINE n == Cardinality(K)
               v == Append(t, Target(g, a))
    <2>1. /\ Cardinality(L) = n + 1 /\ \A i \in 1..n : InOrder(L)[i] = InOrder(K)[i]
          /\ InOrder(L)[n + 1] = a
      BY <1>4, <1>10, <1>l, <1>m, InOrderAppend
    <2>2. InOrder(L) \in [1..n+1 -> L]
      BY <1>4, <2>1, InOrderFacts
    <2>3. u = [i \in 1..n+1 |-> Target(g, InOrder(L)[i])]
      BY <2>2, <1>d
    <2>4. Target(g, a) \in Touched(g)
      BY <1>1, <1>10, <1>t
    <2>5. /\ v \in Seq(Touched(g)) /\ Len(v) = n + 1 /\ v[n + 1] = Target(g, a)
          /\ \A i \in 1..n : v[i] = t[i]
      BY <1>7, <2>4, AppendProperties
    <2> HIDE DEF v
    <2>6. v \in [1..n+1 -> Touched(g)]
      BY <2>5
    <2>7. \A i \in 1..n+1 : v[i] = u[i]
      <3>1. SUFFICES ASSUME NEW i \in 1..n+1 PROVE v[i] = u[i]
        OBVIOUS
      <3>2. i \in 1..n \/ i = n + 1
        BY <1>5
      <3>3. u[i] = Target(g, InOrder(L)[i])
        BY <2>3
      <3>4. i \in 1..n => t[i] = Target(g, InOrder(K)[i])
        BY <1>6
      <3>5. QED
        BY <3>2, <3>3, <3>4, <2>1, <2>5
    <2>8. u = v
      BY <2>3, <2>6, <2>7
    <2>9. QED
      BY <2>8 DEF v
  <1>11. a \notin F => u = t
    BY <1>d, <1>l
  <1>12. QED
    BY <1>7, <1>8, <1>9, <1>10, <1>11 DEF F, t, u

\* Once its queue is empty the loop takes no more turns.
LEMMA TurnsStand ==
    ASSUME NEW g, WellFormed(g), NEW i \in 0..Len(g.nodes), Turns(g)[i].queue = <<>>
    PROVE  Turns(g)[Len(g.nodes)] = Turns(g)[i]
  <1> DEFINE n == Len(g.nodes)
             T == {j \in 0..n : j >= i => Turns(g)[j] = Turns(g)[i]}
  <1>1. n \in Nat /\ \A j \in 1..n : Turns(g)[j] = Turn(g, Turns(g)[j-1])
    BY TurnsFacts
  <1> HIDE DEF n
  <1>a. i \in 0..n
    BY DEF n
  <1>2. 0 \in T
    BY <1>1, <1>a
  <1>3. ASSUME NEW j \in 1..n, j - 1 \in T PROVE j \in T
    <2>1. CASE j >= i + 1
      <3>1. j - 1 >= i /\ j - 1 \in 0..n
        BY <1>1, <1>a, <2>1
      <3>2. Turns(g)[j-1] = Turns(g)[i]
        BY <1>3, <3>1
      <3>3. Turns(g)[j] = Turn(g, Turns(g)[i])
        BY <1>1, <3>2
      <3>4. Turn(g, Turns(g)[i]) = Turns(g)[i]
        BY DEF Turn
      <3>5. QED
        BY <1>1, <3>3, <3>4
    <2>2. CASE ~(j >= i + 1)
      <3>1. j >= i => j = i
        BY <1>1, <1>a, <2>2
      <3>2. QED
        BY <1>1, <3>1
    <2>3. QED
      BY <2>1, <2>2
  <1>4. n \in T
    <2> HIDE DEF T
    <2>1. 0..n \subseteq T
      BY <1>1, <1>2, <1>3, UpTo
    <2>2. QED
      BY <1>1, <2>1
  <1>5. QED
    BY <1>1, <1>a, <1>4 DEF n

\* The nodes of the first queue among the first of the list.
SourcesBefore(g, a) ==
    {i \in DOMAIN g.nodes : /\ i < a
                            /\ g.nodes[i] \in Touched(g) /\ EdgesInto(g, g.nodes[i]) = {}}

\* Between two turns of the loop the data flow's part of the queue and the
\* order are those of the recursion's turn; within one, the queue is that of
\* the turn so far.
TurnExact ==
    /\ pc = "seed" => Kept(Touched(graph), queue) = Selected(graph.nodes, SourcesBefore(graph, at))
    /\ pc = "loop" => /\ Len(order) \in 0..Len(graph.nodes)
                      /\ Turns(graph)[Len(order)] =
                            [queue |-> Kept(Touched(graph), queue), order |-> order]
    /\ pc = "release" =>
          /\ Len(order) \in 1..Len(graph.nodes)
          /\ LET p == Turns(graph)[Len(order) - 1] IN
             /\ p.queue # <<>> /\ current = {Head(p.queue)}
             /\ order = Append(p.order, Head(p.queue)) /\ p.queue \in Seq(Touched(graph))
             /\ Kept(Touched(graph), queue) =
                   Tail(p.queue) \o FreedBefore(graph, Head(p.queue), p.order, at)
    /\ pc = "ok" => order = TopoOrderOf(graph)

LEMMA ExactValidate == IInv /\ Validate => TurnExact'
  <1> SUFFICES ASSUME IInv, Validate PROVE TurnExact'
    OBVIOUS
  <1>1. /\ graph' = graph /\ at' = 1 /\ queue' = <<>> /\ pc' \in {"seed", "missing"}
        /\ graph.nodes \in Seq(NodeIds(graph))
    BY DEF Validate, IInv, SeedExact, TypeOK, WellFormed, NodeIds
  <1>2. SourcesBefore(graph, 1) = {}
    BY <1>1 DEF SourcesBefore
  <1>3. /\ Selected(graph.nodes, {}) \in Seq(NodeIds(graph))
        /\ Len(Selected(graph.nodes, {})) = Cardinality({})
    BY <1>1, SelectedPlaces
  <1>4. Selected(graph.nodes, {}) = <<>>
    BY <1>3, FS_EmptySet, EmptySeq
  <1>5. QED
    BY <1>1, <1>2, <1>4, KeptEmpty DEF TurnExact

LEMMA ExactSeed == IInv /\ TurnExact /\ Seed => TurnExact'
  <1> SUFFICES ASSUME IInv, TurnExact, Seed PROVE TurnExact'
    OBVIOUS
  <1> DEFINE n == graph.nodes[at]
             T == Touched(graph)
             K == SourcesBefore(graph, at)
             L == SourcesBefore(graph, at + 1)
  <1>1. /\ graph' = graph /\ pc = "seed" /\ pc' = "seed" /\ at' = at + 1 /\ at <= Len(graph.nodes)
        /\ queue' = IF waiting[n] = {} THEN Append(queue, n) ELSE queue
        /\ queue \in Seq(NodeIds(graph)) /\ order = <<>>
        /\ Kept(T, queue) = Selected(graph.nodes, K)
    BY DEF Seed, IInv, SeedExact, TypeOK, TurnExact
  <1>2. /\ graph.nodes \in Seq(NodeIds(graph)) /\ at \in DOMAIN graph.nodes /\ at \in Nat
        /\ n \in NodeIds(graph) /\ DOMAIN graph.nodes \subseteq Nat
    BY <1>1 DEF IInv, TypeOK, WellFormed, NodeIds, Elements
  <1>3. waiting[n] = EdgesInto(graph, n)
    <2>1. waiting[n] = {k \in EdgesInto(graph, n) : ~Gone(k)}
      BY <1>1, <1>2 DEF IInv, WaitingIsExact
    <2>2. \A k : ~Gone(k)
      BY <1>1 DEF Gone, Elements
    <2>3. QED
      BY <2>1, <2>2
  <1>4. /\ K \subseteq DOMAIN graph.nodes /\ \A k \in K : k < at
        /\ L = IF n \in T /\ EdgesInto(graph, n) = {} THEN K \cup {at} ELSE K
    <2>1. \A k \in DOMAIN graph.nodes : k < at + 1 <=> k < at \/ k = at
      BY <1>2
    <2>2. QED
      BY <2>1, <1>2 DEF SourcesBefore
  <1> HIDE DEF K, L, T
  <1>5. Kept(T, queue') = Selected(graph.nodes, L)
    <2>1. CASE waiting[n] = {} /\ n \in T
      <3>1. Kept(T, queue') = Append(Kept(T, queue), n)
        BY <1>1, <1>2, <2>1, KeptAppend
      <3>2. Selected(graph.nodes, K \cup {at}) = Append(Selected(graph.nodes, K), n)
        BY <1>2, <1>4, SelectedAppend
      <3>3. QED
        BY <1>1, <1>3, <1>4, <2>1, <3>1, <3>2
    <2>2. CASE waiting[n] = {} /\ n \notin T
      <3>1. Kept(T, queue') = Kept(T, queue)
        BY <1>1, <1>2, <2>2, KeptAppend
      <3>2. QED
        BY <1>1, <1>4, <2>2, <3>1
    <2>3. CASE waiting[n] # {}
      BY <1>1, <1>3, <1>4, <2>3
    <2>4. QED
      BY <2>1, <2>2, <2>3
  <1>6. QED
    BY <1>1, <1>5 DEF TurnExact, T, L

LEMMA ExactSeeded == IInv /\ TurnExact /\ Seeded => TurnExact'
  <1> SUFFICES ASSUME IInv, TurnExact, Seeded PROVE TurnExact'
    OBVIOUS
  <1>1. /\ graph' = graph /\ pc = "seed" /\ pc' = "loop" /\ queue' = queue /\ order' = order
        /\ at > Len(graph.nodes) /\ order = <<>> /\ WellFormed(graph) /\ at \in Nat
        /\ Kept(Touched(graph), queue) = Selected(graph.nodes, SourcesBefore(graph, at))
    BY DEF Seeded, IInv, SeedExact, TypeOK, TurnExact
  <1>2. SourcesBefore(graph, at) =
            {i \in DOMAIN graph.nodes : /\ graph.nodes[i] \in Touched(graph)
                                        /\ EdgesInto(graph, graph.nodes[i]) = {}}
    <2>1. \A i \in DOMAIN graph.nodes : i < at
      BY <1>1 DEF WellFormed
    <2>2. QED
      BY <2>1 DEF SourcesBefore
  <1>3. Kept(Touched(graph), queue) = Sources(graph)
    BY <1>1, <1>2 DEF Sources
  <1>4. Turns(graph)[0] = Start(graph) /\ Len(graph.nodes) \in Nat
    BY <1>1, TurnsFacts
  <1>5. Len(order) = 0
    BY <1>1
  <1>6. QED
    BY <1>1, <1>3, <1>4, <1>5 DEF TurnExact, Start

LEMMA ExactTake == IInv /\ TurnExact /\ Take => TurnExact'
  <1> SUFFICES ASSUME IInv, TurnExact, Take PROVE TurnExact'
    OBVIOUS
  <1> DEFINE id == Head(queue)
             T == Touched(graph)
             m == Len(order)
             p == Turns(graph)[m]
  <1>1. /\ graph' = graph /\ pc = "loop" /\ queue' = Tail(queue) /\ queue # <<>>
        /\ queue \in Seq(NodeIds(graph)) /\ order \in Seq(NodeIds(graph)) /\ WellFormed(graph)
        /\ m \in 0..Len(graph.nodes)
        /\ p = [queue |-> Kept(T, queue), order |-> order]
    BY DEF Take, IInv, TypeOK, TurnExact
  <1>2. /\ Head(queue) \notin T => Kept(T, Tail(queue)) = Kept(T, queue)
        /\ Head(queue) \in T => /\ Kept(T, queue) # <<>> /\ Head(Kept(T, queue)) = Head(queue)
                                /\ Tail(Kept(T, queue)) = Kept(T, Tail(queue))
    BY <1>1, KeptTail
  <1>3. CASE id \notin T
    <2>1. order' = order /\ pc' = pc
      BY <1>3 DEF Take
    <2>2. QED
      BY <1>1, <1>2, <1>3, <2>1 DEF TurnExact
  <1>4. CASE id \in T
    <2>1. order' = Append(order, id) /\ pc' = "release" /\ at' = 1 /\ current' = {id}
      BY <1>4 DEF Take
    <2>2. ~Dangling(graph)
      BY <1>1 DEF IInv, WaitingIsExact
    <2>3. p.queue = Kept(T, queue) /\ p.order = order
      BY <1>1
    <2> HIDE DEF p
    <2>4. p.queue # <<>> /\ Head(p.queue) = id /\ Tail(p.queue) = Kept(T, queue')
      BY <1>1, <1>2, <1>4, <2>3
    <2>5. p.queue \in Seq(T) /\ id \in NodeIds(graph)
      <3>1. TurnInv(graph, p)
        BY <1>1, <2>2, TurnByTurn DEF p
      <3>2. p.queue \in Seq(T)
        BY <3>1 DEF TurnInv
      <3>3. QED
        BY <1>1, <3>2, HeadTailFacts
    <2>6. Len(order') = m + 1 /\ order' \in Seq(NodeIds(graph))
      BY <1>1, <2>1, <2>5, AppendProperties
    <2>7. Len(order') <= Len(graph.nodes)
      <3>1. IInv'
        BY InvTake
      <3>2. Injective(order') /\ order' \in Seq(NodeIds(graph))
        BY <3>1, <1>1 DEF IInv, Once, TypeOK
      <3>3. QED
        BY <1>1, <3>2, NoMoreThanNodes
    <2>8. Len(order') \in 1..Len(graph.nodes) /\ Len(order') - 1 = m
      BY <1>1, <2>6, <2>7
    <2>9. FreedBefore(graph, id, order, 1) = <<>>
      BY <1>1, FreedBeforeFacts
    <2>10. Tail(p.queue) \o <<>> = Tail(p.queue)
      BY <2>4, <2>5, HeadTailProperties, ConcatEmptySeq
    <2>11. Kept(T, queue') = Tail(p.queue) \o FreedBefore(graph, Head(p.queue), p.order, at')
      BY <2>1, <2>3, <2>4, <2>9, <2>10
    <2>12. QED
      BY <1>1, <2>1, <2>3, <2>4, <2>5, <2>8, <2>11 DEF TurnExact, p
  <1>5. QED
    BY <1>3, <1>4

LEMMA ExactRelease == IInv /\ TurnExact /\ Release => TurnExact'
  <1> SUFFICES ASSUME IInv, TurnExact, Release PROVE TurnExact'
    OBVIOUS
  <1> DEFINE T == Touched(graph)
             p == Turns(graph)[Len(order) - 1]
             id == Head(p.queue)
             fed == Target(graph, at)
             F == FreedBy(graph, id, p.order)
  <1>1. /\ graph' = graph /\ pc = "release" /\ pc' = "release" /\ order' = order
        /\ current' = current /\ at' = at + 1 /\ at \in Nat /\ at <= Len(graph.edges)
        /\ queue \in Seq(NodeIds(graph)) /\ order \in Seq(NodeIds(graph)) /\ WellFormed(graph)
        /\ Len(order) \in 1..Len(graph.nodes)
        /\ p.queue # <<>> /\ current = {id} /\ order = Append(p.order, id) /\ p.queue \in Seq(T)
        /\ Kept(T, queue) = Tail(p.queue) \o FreedBefore(graph, id, p.order, at)
    BY DEF Release, IInv, TypeOK, TurnExact
  <1>2. /\ ~Dangling(graph)
        /\ \A n \in NodeIds(graph) : waiting[n] = {k \in EdgesInto(graph, n) : ~Gone(k)}
    BY <1>1 DEF IInv, WaitingIsExact
  <1>3. p.order \in Seq(T) /\ id \in T
    <2>1. Len(order) - 1 \in 0..Len(graph.nodes)
      BY <1>1 DEF WellFormed
    <2>2. TurnInv(graph, p)
      BY <1>1, <1>2, <2>1, TurnByTurn
    <2>3. p.queue # <<>> /\ p.queue \in Seq(T)
      BY <1>1
    <2>4. p.order \in Seq(T)
      BY <2>2 DEF TurnInv
    <2> HIDE DEF p, T
    <2>5. QED
      BY <2>3, <2>4, HeadTailFacts
  <1>4. Elements(order) = Elements(p.order) \cup {id}
    <2>1. Elements(Append(p.order, id)) = Elements(p.order) \cup {id}
      <3> HIDE DEF id, p
      <3>1. QED
        BY <1>3, AppendFacts
    <2>2. order = Append(p.order, id)
      BY <1>1
    <2>3. QED
      BY <2>1, <2>2
  <1>5. T \subseteq NodeIds(graph) /\ \A k \in DataEdges(graph) : Target(graph, k) \in T
    BY <1>2, EdgeFacts
  <1>f. /\ FreedBefore(graph, id, p.order, at) \in Seq(T)
        /\ FreedBefore(graph, id, p.order, at + 1) =
              IF at \in F THEN Append(FreedBefore(graph, id, p.order, at), fed)
              ELSE FreedBefore(graph, id, p.order, at)
    BY <1>1, FreedBeforeFacts
  <1>d. DataEdges(graph) \subseteq Nat
    BY <1>1 DEF DataEdges, WellFormed
  <1> HIDE DEF p
  <1>6. ASSUME at \in DataEdges(graph), Source(graph, at) = id
        PROVE  at \in F <=> waiting[fed] \ {at} = {}
    <2>1. \A l \in EdgesInto(graph, fed) :
             Gone(l) \/ l = at <=> /\ Source(graph, l) \in Elements(p.order) \cup {id}
                                   /\ (Source(graph, l) = id => l <= at)
      <3>1. SUFFICES ASSUME NEW l \in EdgesInto(graph, fed)
                     PROVE  Gone(l) \/ l = at <=>
                               /\ Source(graph, l) \in Elements(p.order) \cup {id}
                               /\ (Source(graph, l) = id => l <= at)
        OBVIOUS
      <3>2. l \in Nat /\ (l <= at <=> l < at \/ l = at)
        BY <1>1, <1>d DEF EdgesInto
      <3>3. Gone(l) <=> /\ Source(graph, l) \in Elements(p.order) \cup {id}
                        /\ (Source(graph, l) = id => l < at)
        BY <1>1, <1>4 DEF Gone
      <3>4. QED
        BY <3>2, <3>3, <1>6
    <2>2. at \in F <=> \A l \in EdgesInto(graph, fed) :
                          /\ Source(graph, l) \in Elements(p.order) \cup {id}
                          /\ (Source(graph, l) = id => l <= at)
      BY <1>6 DEF FreedBy
    <2>3. waiting[fed] = {k \in EdgesInto(graph, fed) : ~Gone(k)}
      BY <1>2, <1>5, <1>6
    <2>4. waiting[fed] \ {at} = {} <=> \A l \in EdgesInto(graph, fed) : Gone(l) \/ l = at
      BY <2>3
    <2>5. QED
      BY <2>1, <2>2, <2>4
  <1>7. at \in F => at \in DataEdges(graph) /\ Source(graph, at) = id
    BY DEF FreedBy
  <1>q. queue' = IF at \in F THEN Append(queue, fed) ELSE queue
    <2>1. CASE at \in DataEdges(graph) /\ Source(graph, at) = id
      <3>1. queue' = IF waiting[fed] \ {at} = {} THEN Append(queue, fed) ELSE queue
        BY <1>1, <2>1 DEF Release
      <3>2. QED
        BY <3>1, <1>6, <2>1
    <2>2. CASE ~(at \in DataEdges(graph) /\ Source(graph, at) = id)
      <3>1. queue' = queue
        BY <1>1, <2>2 DEF Release
      <3>2. QED
        BY <3>1, <1>7, <2>2
    <2>3. QED
      BY <2>1, <2>2
  <1>8. Kept(T, queue') = Tail(p.queue) \o FreedBefore(graph, id, p.order, at + 1)
    <2> DEFINE so == FreedBefore(graph, id, p.order, at)
    <2>1. CASE at \in F
      <3>1. fed \in T /\ fed \in NodeIds(graph)
        BY <1>5, <1>7, <2>1
      <3>2. Kept(T, queue') = Append(Kept(T, queue), fed)
        <4>1. queue \in Seq(NodeIds(graph)) /\ queue' = Append(queue, fed)
          BY <1>1, <1>q, <2>1
        <4> HIDE DEF T, fed
        <4>2. QED
          BY <4>1, <3>1, KeptAppend, SMTT(30)
      <3>3. Tail(p.queue) \in Seq(T) /\ so \in Seq(T)
        BY <1>1, <1>f, HeadTailProperties
      <3>4. Append(Tail(p.queue) \o so, fed) = Tail(p.queue) \o Append(so, fed)
        <4> DEFINE q == Tail(p.queue)
        <4>1. q \in Seq(T) /\ so \in Seq(T) /\ fed \in T
          BY <3>1, <3>3
        <4> HIDE DEF so, fed, T, q
        <4>2. Append(q \o so, fed) = q \o Append(so, fed)
          BY <4>1, SMTT(30)
        <4>3. QED
          BY <4>2 DEF q
      <3>5. QED
        BY <1>1, <1>f, <2>1, <3>2, <3>4
    <2>2. CASE at \notin F
      BY <1>1, <1>f, <1>q, <2>2
    <2>3. QED
      BY <2>1, <2>2
  <1>9. QED
    BY <1>1, <1>8 DEF TurnExact, p

LEMMA ExactReleased == IInv /\ TurnExact /\ Released => TurnExact'
  <1> SUFFICES ASSUME IInv, TurnExact, Released PROVE TurnExact'
    OBVIOUS
  <1> DEFINE m == Len(order)
             p == Turns(graph)[m - 1]
             id == Head(p.queue)
  <1>1. /\ graph' = graph /\ pc = "release" /\ pc' = "loop" /\ order' = order /\ queue' = queue
        /\ at > Len(graph.edges) /\ at \in Nat /\ WellFormed(graph)
        /\ m \in 1..Len(graph.nodes)
        /\ p.queue # <<>> /\ order = Append(p.order, id)
        /\ Kept(Touched(graph), queue) = Tail(p.queue) \o FreedBefore(graph, id, p.order, at)
    BY DEF Released, IInv, TypeOK, TurnExact
  <1>2. FreedBefore(graph, id, p.order, at) = Freed(graph, id, p.order)
    BY <1>1, FreedBeforeFacts
  <1>3. Turns(graph)[m] = Turn(graph, p) /\ Len(graph.nodes) \in Nat
    BY <1>1, TurnsFacts
  <1> HIDE DEF p
  <1>4. Turn(graph, p) = [queue |-> Tail(p.queue) \o Freed(graph, id, p.order),
                          order |-> Append(p.order, id)]
    BY <1>1 DEF Turn
  <1>5. Turns(graph)[m] = [queue |-> Kept(Touched(graph), queue), order |-> order]
    BY <1>1, <1>2, <1>3, <1>4
  <1>6. m \in 0..Len(graph.nodes)
    BY <1>1, <1>3
  <1>7. QED
    BY <1>1, <1>5, <1>6 DEF TurnExact

LEMMA ExactConclude == IInv /\ TurnExact /\ Conclude => TurnExact'
  <1> SUFFICES ASSUME IInv, TurnExact, Conclude PROVE TurnExact'
    OBVIOUS
  <1> DEFINE m == Len(order)
  <1>1. /\ graph' = graph /\ pc = "loop" /\ pc' \in {"ok", "cycle"} /\ order' = order /\ queue = <<>>
        /\ WellFormed(graph) /\ m \in 0..Len(graph.nodes)
        /\ Turns(graph)[m] = [queue |-> Kept(Touched(graph), queue), order |-> order]
    BY DEF Conclude, IInv, TypeOK, TurnExact
  <1>2. Kept(Touched(graph), queue) = <<>>
    BY <1>1, KeptEmpty
  <1>3. Turns(graph)[Len(graph.nodes)] = Turns(graph)[m]
    BY <1>1, <1>2, TurnsStand
  <1>4. TopoOrderOf(graph) = order
    BY <1>1, <1>3 DEF TopoOrderOf
  <1>5. QED
    BY <1>1, <1>4 DEF TurnExact

\* The order is the recursion's: the same at every call for one graph.
THEOREM AcceptedOrderIsFixed == Spec => []AcceptedIsTheOrder
  <1>1. Init => TurnExact
    BY DEF Init, TurnExact
  <1>2. ASSUME IInv, TurnExact, [Next]_vars PROVE TurnExact'
    <2>1. CASE UNCHANGED vars
      BY <1>2, <2>1 DEF vars, TurnExact
    <2>2. QED
      BY <1>2, <2>1, ExactValidate, ExactSeed, ExactSeeded, ExactTake, ExactRelease, ExactReleased,
         ExactConclude DEF Next
  <1>3. TurnExact => AcceptedIsTheOrder
    BY DEF TurnExact, AcceptedIsTheOrder
  <1>4. QED
    BY <1>1, <1>2, <1>3, Invariance, PTL DEF Spec

=============================================================================
