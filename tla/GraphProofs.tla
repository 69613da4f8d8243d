---------------------------- MODULE GraphProofs ----------------------------
(***************************************************************************)
(* What the operators of Graph compute, for every well-formed graph: above *)
(* all that TopoOrderOf is an order of the data flow whenever there is one.*)
(***************************************************************************)
EXTENDS Graph, SequenceTheorems, FiniteSetTheorems, FunctionTheorems, TLAPS

----------------------------------------------------------------------------
(* Numbers.                                                                *)

LEMMA Least ==
    ASSUME NEW T, T \subseteq Nat, T # {}
    PROVE  \E x \in T : \A y \in T : x <= y
  <1>1. PICK x \in T : \A y \in T : ~ (<<y, x>> \in OpToRel(<, Nat))
    BY NatLessThanWellFounded, WFMin
  <1>2. \A y \in T : ~ (y < x)
    BY <1>1 DEF OpToRel
  <1>3. ASSUME NEW y \in T PROVE x <= y
    BY <1>2
  <1> QED BY <1>3

LEMMA Greatest ==
    ASSUME NEW n \in Nat, NEW T, T \subseteq 0..n, T # {}
    PROVE  \E x \in T : \A y \in T : y <= x
  <1> DEFINE U == {n - x : x \in T}
  <1>a. \A x \in T : x \in Nat /\ n - x \in Nat
    <2>1. \A x \in T : x \in 0..n
      OBVIOUS
    <2>2. QED
      BY <2>1
  <1>1. U \subseteq Nat /\ U # {}
    BY <1>a
  <1>2. PICK u \in U : \A v \in U : u <= v
    BY <1>1, Least
  <1>3. PICK x \in T : u = n - x
    OBVIOUS
  <1>4. ASSUME NEW y \in T PROVE y <= x
    <2>1. n - y \in U
      OBVIOUS
    <2>2. n - x <= n - y
      BY <1>2, <1>3, <2>1
    <2>3. x \in Nat /\ y \in Nat
      BY <1>a
    <2>4. QED
      BY <2>2, <2>3
  <1> QED BY <1>4

\* Induction, on a set.
LEMMA UpTo ==
    ASSUME NEW n \in Nat, NEW T, 0 \in T, \A i \in 1..n : i - 1 \in T => i \in T
    PROVE  0..n \subseteq T
  <1> SUFFICES ASSUME (0..n) \ T # {} PROVE FALSE
    OBVIOUS
  <1>a. (0..n) \ T \subseteq Nat
    OBVIOUS
  <1>1. PICK m \in (0..n) \ T : \A k \in (0..n) \ T : m <= k
    BY <1>a, Least
  <1>2. m - 1 \in 0..n /\ ~ (m <= m - 1)
    OBVIOUS
  <1>3. m - 1 \in T
    BY <1>1, <1>2
  <1> QED BY <1>3

----------------------------------------------------------------------------
(* Lists.                                                                  *)

\* The positions of a list of n.
LEMMA CountTo ==
    ASSUME NEW n \in Nat
    PROVE  IsFiniteSet(1..n) /\ Cardinality(1..n) = n
  <1>1. 1 \in Int /\ n \in Int
    OBVIOUS
  <1>2. IsFiniteSet(1..n) /\ Cardinality(1..n) = IF 1 > n THEN 0 ELSE n - 1 + 1
    BY <1>1, FS_Interval
  <1>3. (IF 1 > n THEN 0 ELSE n - 1 + 1) = n
    OBVIOUS
  <1>4. QED
    BY <1>2, <1>3

\* A set of positions as a list has each of them once, in their order.
LEMMA InOrderFacts ==
    ASSUME NEW K, K \subseteq Nat, IsFiniteSet(K)
    PROVE  /\ Cardinality(K) \in Nat
           /\ InOrder(K) \in [1..Cardinality(K) -> K]
           /\ \A k \in K : \E i \in 1..Cardinality(K) : InOrder(K)[i] = k
           /\ \A i, j \in 1..Cardinality(K) : i < j => InOrder(K)[i] < InOrder(K)[j]
  <1> DEFINE n == Cardinality(K)
             upTo(k) == {l \in K : l <= k}
             rank == [k \in K |-> Cardinality(upTo(k))]
  <1>1. n \in Nat
    BY FS_CardinalityType
  <1>2. \A k \in K : IsFiniteSet(upTo(k)) /\ Cardinality(upTo(k)) \in 1..n
    <2>1. SUFFICES ASSUME NEW k \in K
                   PROVE  IsFiniteSet(upTo(k)) /\ Cardinality(upTo(k)) \in 1..n
      OBVIOUS
    <2>2. upTo(k) \in SUBSET K /\ k \in upTo(k)
      OBVIOUS
    <2> HIDE DEF upTo
    <2>3. IsFiniteSet(upTo(k)) /\ Cardinality(upTo(k)) <= n
      BY <2>2, FS_Subset
    <2>4. Cardinality(upTo(k)) \in Nat /\ Cardinality(upTo(k)) # 0
      BY <2>2, <2>3, FS_CardinalityType, FS_EmptySet
    <2>5. QED
      BY <1>1, <2>3, <2>4
  <1>3. \A k, l \in K : k < l => rank[k] < rank[l]
    <2>1. SUFFICES ASSUME NEW k \in K, NEW l \in K, k < l
                   PROVE  Cardinality(upTo(k)) < Cardinality(upTo(l))
      OBVIOUS
    <2>2. upTo(k) \in SUBSET upTo(l)
      <3>1. \A x \in K : x <= k => x <= l
        BY <2>1
      <3>2. QED
        BY <3>1
    <2>3. l \in upTo(l) /\ l \notin upTo(k)
      BY <2>1
    <2>4. IsFiniteSet(upTo(l)) /\ Cardinality(upTo(k)) \in Nat /\ Cardinality(upTo(l)) \in Nat
      BY <1>2
    <2> HIDE DEF upTo
    <2>5. Cardinality(upTo(k)) <= Cardinality(upTo(l))
          /\ (Cardinality(upTo(l)) = Cardinality(upTo(k)) => upTo(l) = upTo(k))
      BY <2>2, <2>4, FS_Subset
    <2>6. QED
      BY <2>3, <2>4, <2>5
  <1>4. rank \in [K -> 1..n]
    BY <1>2
  <1>5. \A k, l \in K : rank[k] = rank[l] => k = l
    <2>1. SUFFICES ASSUME NEW k \in K, NEW l \in K, rank[k] = rank[l], k # l PROVE FALSE
      OBVIOUS
    <2>2. k < l \/ l < k
      BY <2>1
    <2>3. rank[k] \in Nat /\ rank[l] \in Nat
      BY <1>4
    <2> HIDE DEF rank
    <2>4. QED
      BY <1>3, <2>1, <2>2, <2>3
  <1>a. \A k \in K : rank[k] = Cardinality({l \in K : l <= k})
    OBVIOUS
  <1> HIDE DEF rank
  <1>6. rank \in Injection(K, 1..n)
    BY <1>4, <1>5, Fun_IsInj
  <1>7. IsFiniteSet(1..n) /\ Cardinality(1..n) = n
    BY <1>1, CountTo
  <1>8. rank \in Surjection(K, 1..n)
    BY <1>6, <1>7, FS_Injection
  <1>9. \A i \in 1..n : \E k \in K : rank[k] = i
    BY <1>8, Fun_SurjectionProperties
  <1>10. \A i \in 1..n : InOrder(K)[i] \in K /\ rank[InOrder(K)[i]] = i
    <2>1. SUFFICES ASSUME NEW i \in 1..n
                   PROVE  InOrder(K)[i] \in K /\ rank[InOrder(K)[i]] = i
      OBVIOUS
    <2>2. InOrder(K)[i] = CHOOSE k \in K : Cardinality({l \in K : l <= k}) = i
      BY DEF InOrder
    <2>3. \E k \in K : Cardinality({l \in K : l <= k}) = i
      BY <1>9, <1>a
    <2> DEFINE c == CHOOSE k \in K : Cardinality({l \in K : l <= k}) = i
    <2>4. c \in K /\ Cardinality({l \in K : l <= c}) = i
      BY <2>3
    <2> HIDE DEF c
    <2>5. QED
      BY <2>2, <2>4, <1>a DEF c
  <1>11. InOrder(K) \in [1..n -> K]
    BY <1>10 DEF InOrder
  <1>12. \A k \in K : \E i \in 1..n : InOrder(K)[i] = k
    BY <1>4, <1>5, <1>10
  <1>13. \A i, j \in 1..n : i < j => InOrder(K)[i] < InOrder(K)[j]
    <2>1. SUFFICES ASSUME NEW i \in 1..n, NEW j \in 1..n, i < j
                   PROVE  InOrder(K)[i] < InOrder(K)[j]
      OBVIOUS
    <2> DEFINE a == InOrder(K)[i]
               b == InOrder(K)[j]
    <2>2. a \in K /\ b \in K /\ rank[a] = i /\ rank[b] = j
      BY <1>10
    <2> HIDE DEF a, b
    <2>3. ~ (b < a) /\ a # b
      BY <2>1, <2>2, <1>3
    <2>4. a \in Nat /\ b \in Nat
      BY <2>2
    <2>5. a < b
      BY <2>3, <2>4
    <2>6. QED
      BY <2>5 DEF a, b
  <1>14. QED
    BY <1>1, <1>11, <1>12, <1>13

\* The places of a list.
LEMMA PlacesFacts ==
    ASSUME NEW S, NEW s \in Seq(S), NEW K, K \subseteq DOMAIN s
    PROVE  K \subseteq Nat /\ IsFiniteSet(K) /\ DOMAIN s = 1..Len(s) /\ Len(s) \in Nat
  <1>1. DOMAIN s = 1..Len(s) /\ Len(s) \in Nat
    OBVIOUS
  <1>2. IsFiniteSet(1..Len(s))
    BY <1>1, CountTo
  <1>3. IsFiniteSet(K)
    BY <1>1, <1>2, FS_Subset
  <1>4. QED
    BY <1>1, <1>3

\* A selection has what the list has at the places selected, and nothing twice
\* if they hold nothing twice.
LEMMA SelectedFacts ==
    ASSUME NEW S, NEW s \in Seq(S), NEW K, K \subseteq DOMAIN s
    PROVE  /\ Selected(s, K) \in Seq(S)
           /\ Elements(Selected(s, K)) = {s[k] : k \in K}
           /\ (\A k, l \in K : s[k] = s[l] => k = l) => Injective(Selected(s, K))
  <1> DEFINE n == Cardinality(K)
             t == Selected(s, K)
             at == InOrder(K)
  <1>1. K \subseteq Nat /\ IsFiniteSet(K) /\ DOMAIN s = 1..Len(s) /\ Len(s) \in Nat
    BY PlacesFacts
  <1>2. /\ n \in Nat /\ at \in [1..n -> K]
        /\ \A k \in K : \E i \in 1..n : at[i] = k
        /\ \A i, j \in 1..n : i < j => at[i] < at[j]
    BY <1>1, InOrderFacts
  <1>3. DOMAIN t = 1..n /\ \A i \in 1..n : t[i] = s[at[i]]
    BY <1>2 DEF Selected
  <1>a. \A k \in K : s[k] \in S
    BY <1>1
  <1>b. t = [i \in 1..n |-> s[at[i]]]
    BY <1>2 DEF Selected
  <1> HIDE DEF n, t, at
  <1>4. t \in Seq(S)
    <2>1. t \in [1..n -> S]
      BY <1>2, <1>a, <1>b
    <2>2. QED
      BY <1>2, <2>1, SeqDef
  <1>5. Elements(t) = {s[k] : k \in K}
    <2>1. Elements(t) \subseteq {s[k] : k \in K}
      BY <1>2, <1>3 DEF Elements
    <2>2. ASSUME NEW k \in K PROVE s[k] \in Elements(t)
      <3>1. PICK i \in 1..n : at[i] = k
        BY <1>2
      <3>2. QED
        BY <1>3, <3>1 DEF Elements
    <2>3. QED
      BY <2>1, <2>2
  <1>6. ASSUME \A k, l \in K : s[k] = s[l] => k = l PROVE Injective(t)
    <2>1. SUFFICES ASSUME NEW i \in 1..n, NEW j \in 1..n, t[i] = t[j] PROVE i = j
      BY <1>3 DEF Injective
    <2>2. at[i] \in K /\ at[j] \in K /\ s[at[i]] = s[at[j]]
      BY <1>2, <1>3, <2>1
    <2>3. at[i] = at[j]
      BY <1>6, <2>2
    <2>4. ~ (i < j) /\ ~ (j < i)
      <3>1. ~ (at[i] < at[j]) /\ ~ (at[j] < at[i])
        BY <2>3, <2>2, <1>1
      <3>2. QED
        BY <3>1, <1>2
    <2>5. QED
      BY <2>4
  <1>7. QED
    BY <1>4, <1>5, <1>6 DEF t

\* Of two lists put together, the elements are those of either.
LEMMA ConcatFacts ==
    ASSUME NEW S, NEW s \in Seq(S), NEW t \in Seq(S)
    PROVE  /\ s \o t \in Seq(S)
           /\ Elements(s \o t) = Elements(s) \cup Elements(t)
           /\ Injective(s) /\ Injective(t) /\ Elements(s) \cap Elements(t) = {} => Injective(s \o t)
  <1>1. /\ s \o t \in Seq(S) /\ Len(s \o t) = Len(s) + Len(t)
        /\ \A i \in 1..Len(s) + Len(t) : (s \o t)[i] = IF i <= Len(s) THEN s[i] ELSE t[i - Len(s)]
    BY ConcatProperties
  <1>2. /\ DOMAIN (s \o t) = 1..(Len(s) + Len(t)) /\ Len(s) \in Nat /\ Len(t) \in Nat
        /\ DOMAIN s = 1..Len(s) /\ DOMAIN t = 1..Len(t)
    BY <1>1
  <1>3. ASSUME NEW i \in DOMAIN s PROVE i \in DOMAIN (s \o t) /\ (s \o t)[i] = s[i]
    BY <1>1, <1>2
  <1>4. ASSUME NEW i \in DOMAIN t
        PROVE  Len(s) + i \in DOMAIN (s \o t) /\ (s \o t)[Len(s) + i] = t[i]
    BY <1>1, <1>2
  <1>5. ASSUME NEW i \in DOMAIN (s \o t)
        PROVE  \/ i \in DOMAIN s /\ (s \o t)[i] = s[i]
               \/ i - Len(s) \in DOMAIN t /\ (s \o t)[i] = t[i - Len(s)] /\ i > Len(s)
    BY <1>1, <1>2
  <1>6. Elements(s \o t) = Elements(s) \cup Elements(t)
    <2> HIDE <1>1, <1>2
    <2>1. Elements(s \o t) \subseteq Elements(s) \cup Elements(t)
      BY <1>5 DEF Elements
    <2>2. Elements(s) \subseteq Elements(s \o t)
      BY <1>3 DEF Elements
    <2>3. Elements(t) \subseteq Elements(s \o t)
      BY <1>4 DEF Elements
    <2>4. QED
      BY <2>1, <2>2, <2>3
  <1>7. ASSUME Injective(s), Injective(t), Elements(s) \cap Elements(t) = {},
               NEW i \in DOMAIN (s \o t), NEW j \in DOMAIN (s \o t), (s \o t)[i] = (s \o t)[j]
        PROVE  i = j
    <2>1. CASE i \in DOMAIN s /\ (s \o t)[i] = s[i]
      <3>1. s[i] \in Elements(s)
        BY <2>1 DEF Elements
      <3>2. ~ (j - Len(s) \in DOMAIN t /\ (s \o t)[j] = t[j - Len(s)])
        BY <1>7, <2>1, <3>1 DEF Elements
      <3>3. j \in DOMAIN s /\ s[j] = s[i]
        BY <1>5, <1>7, <2>1, <3>2
      <3>4. QED
        BY <1>7, <2>1, <3>3 DEF Injective
    <2>2. CASE i - Len(s) \in DOMAIN t /\ (s \o t)[i] = t[i - Len(s)] /\ i > Len(s)
      <3>1. t[i - Len(s)] \in Elements(t)
        BY <2>2 DEF Elements
      <3>2. ~ (j \in DOMAIN s /\ (s \o t)[j] = s[j])
        BY <1>7, <2>2, <3>1 DEF Elements
      <3>3. j - Len(s) \in DOMAIN t /\ t[j - Len(s)] = t[i - Len(s)]
        BY <1>5, <1>7, <2>2, <3>2
      <3>4. j - Len(s) = i - Len(s)
        BY <1>7, <2>2, <3>3 DEF Injective
      <3>5. QED
        BY <3>4, <1>2
    <2>3. QED
      BY <1>5, <2>1, <2>2
  <1>8. QED
    BY <1>1, <1>6, <1>7 DEF Injective

LEMMA AppendFacts ==
    ASSUME NEW S, NEW s \in Seq(S), NEW x \in S
    PROVE  /\ Append(s, x) \in Seq(S)
           /\ Elements(Append(s, x)) = Elements(s) \cup {x}
           /\ Injective(s) /\ x \notin Elements(s) => Injective(Append(s, x))
  <1>1. /\ Append(s, x) \in Seq(S) /\ DOMAIN Append(s, x) = 1..Len(s) + 1
        /\ DOMAIN s = 1..Len(s) /\ Len(s) \in Nat
        /\ \A i \in 1..Len(s) : Append(s, x)[i] = s[i]
        /\ Append(s, x)[Len(s) + 1] = x
    BY AppendProperties
  <1>2. Elements(Append(s, x)) = Elements(s) \cup {x}
    BY <1>1 DEF Elements
  <1>3. ASSUME Injective(s), x \notin Elements(s) PROVE Injective(Append(s, x))
    BY <1>1, <1>3 DEF Elements, Injective
  <1>4. QED
    BY <1>1, <1>2, <1>3

LEMMA HeadTailFacts ==
    ASSUME NEW S, NEW s \in Seq(S), s # <<>>
    PROVE  /\ Head(s) \in S /\ Tail(s) \in Seq(S)
           /\ Elements(s) = Elements(Tail(s)) \cup {Head(s)}
           /\ Injective(s) => Injective(Tail(s)) /\ Head(s) \notin Elements(Tail(s))
  <1>1. /\ Tail(s) \in Seq(S) /\ Len(s) \in Nat \ {0} /\ DOMAIN s = 1..Len(s)
        /\ DOMAIN Tail(s) = 1..Len(s) - 1
        /\ \A i \in 1..Len(s) - 1 : Tail(s)[i] = s[i+1]
        /\ Head(s) = s[1] /\ Head(s) \in S
    OBVIOUS
  <1>2. Elements(s) \subseteq Elements(Tail(s)) \cup {Head(s)}
    <2>1. SUFFICES ASSUME NEW i \in 1..Len(s)
                   PROVE  s[i] \in Elements(Tail(s)) \cup {Head(s)}
      BY <1>1 DEF Elements
    <2>2. CASE i = 1
      BY <1>1, <2>2
    <2>3. CASE i # 1
      <3>1. i - 1 \in 1..Len(s) - 1 /\ Tail(s)[i - 1] = s[i]
        BY <1>1, <2>3
      <3>2. QED
        BY <1>1, <3>1 DEF Elements
    <2>4. QED
      BY <2>2, <2>3
  <1>3. Elements(Tail(s)) \cup {Head(s)} \subseteq Elements(s)
    BY <1>1 DEF Elements
  <1>4. ASSUME Injective(s) PROVE Injective(Tail(s)) /\ Head(s) \notin Elements(Tail(s))
    BY <1>1, <1>4 DEF Elements, Injective
  <1>5. QED
    BY <1>1, <1>2, <1>3, <1>4

\* Appending a node whose sources are in the order keeps the order right.
LEMMA RespectsAppend ==
    ASSUME NEW g, NEW s \in Seq(NodeIds(g)), NEW x \in NodeIds(g), RespectsEdges(g, s),
           \A k \in EdgesInto(g, x) : Source(g, k) \in Elements(s)
    PROVE  RespectsEdges(g, Append(s, x))
  <1>1. /\ DOMAIN Append(s, x) = 1..Len(s) + 1 /\ DOMAIN s = 1..Len(s) /\ Len(s) \in Nat
        /\ \A i \in 1..Len(s) : Append(s, x)[i] = s[i]
        /\ Append(s, x)[Len(s) + 1] = x
    BY AppendProperties
  <1>2. SUFFICES ASSUME NEW k \in DataEdges(g), NEW j \in 1..Len(s) + 1,
                        Append(s, x)[j] = Target(g, k)
                 PROVE  \E i \in 1..Len(s) + 1 : i < j /\ Append(s, x)[i] = Source(g, k)
    BY <1>1 DEF RespectsEdges
  <1>3. CASE j \in 1..Len(s)
    <2>1. PICK i \in 1..Len(s) : i < j /\ s[i] = Source(g, k)
      BY <1>1, <1>2, <1>3 DEF RespectsEdges
    <2>2. QED
      BY <1>1, <2>1
  <1>4. CASE j = Len(s) + 1
    <2>1. k \in EdgesInto(g, x)
      BY <1>1, <1>2, <1>4 DEF EdgesInto
    <2>2. PICK i \in 1..Len(s) : s[i] = Source(g, k)
      BY <1>1, <2>1 DEF Elements
    <2>3. QED
      BY <1>1, <1>4, <2>2
  <1>5. QED
    BY <1>3, <1>4, <1>1

\* What the edges of an accepted edge list join.
LEMMA EdgeFacts ==
    ASSUME NEW g, ~Dangling(g)
    PROVE  /\ Touched(g) \subseteq NodeIds(g)
           /\ \A k \in DataEdges(g) : /\ Source(g, k) \in Touched(g)
                                      /\ Target(g, k) \in Touched(g)
           /\ \A n \in Touched(g) : EdgesInto(g, n) \subseteq DataEdges(g)
  BY DEF Dangling, Touched, EdgesInto

----------------------------------------------------------------------------
(* The order, turn by turn.                                                *)

\* Where the loop starts, and f being its first n turns.
Start(g) == [queue |-> Sources(g), order |-> <<>>]

TurnsUpTo(g, f, n) ==
    f = [i \in 0..n |-> IF i = 0 THEN Start(g) ELSE Turn(g, f[i-1])]

LEMMA OneMoreTurn ==
    ASSUME NEW g, NEW i \in Nat \ {0}, NEW f, TurnsUpTo(g, f, i - 1)
    PROVE  \E h : TurnsUpTo(g, h, i)
  <1> DEFINE h == [j \in 0..i |-> IF j = i THEN Turn(g, f[i-1]) ELSE f[j]]
  <1>1. ASSUME NEW j \in 0..i PROVE h[j] = IF j = 0 THEN Start(g) ELSE Turn(g, h[j-1])
    <2>1. CASE j = i
      BY <2>1
    <2>2. CASE j # i
      <3>1. j \in 0..(i-1) /\ h[j] = f[j]
        BY <2>2
      <3>2. f[j] = IF j = 0 THEN Start(g) ELSE Turn(g, f[j-1])
        BY <3>1 DEF TurnsUpTo
      <3>3. j # 0 => h[j-1] = f[j-1]
        BY <3>1
      <3> HIDE DEF h
      <3>4. QED
        BY <3>1, <3>2, <3>3
    <2>3. QED
      BY <2>1, <2>2
  <1>2. TurnsUpTo(g, h, i)
    BY <1>1 DEF TurnsUpTo
  <1>3. QED
    BY <1>2

\* Turns is what its recursion says.
LEMMA TurnsFacts ==
    ASSUME NEW g, WellFormed(g)
    PROVE  /\ Len(g.nodes) \in Nat
           /\ Turns(g)[0] = Start(g)
           /\ \A i \in 1..Len(g.nodes) : Turns(g)[i] = Turn(g, Turns(g)[i-1])
  <1> DEFINE n == Len(g.nodes)
             T == {i \in 0..n : \E f : TurnsUpTo(g, f, i)}
  <1>1. n \in Nat
    BY DEF WellFormed
  <1> HIDE DEF n
  <1>2. 0 \in T
    <2>1. TurnsUpTo(g, [i \in 0..0 |-> Start(g)], 0)
      BY DEF TurnsUpTo
    <2>2. \E f : TurnsUpTo(g, f, 0)
      BY <2>1
    <2>3. QED
      BY <1>1, <2>2
  <1>3. ASSUME NEW i \in 1..n, i - 1 \in T PROVE i \in T
    <2>1. PICK f : TurnsUpTo(g, f, i - 1)
      BY <1>3
    <2>2. \E h : TurnsUpTo(g, h, i)
      BY <1>1, <2>1, OneMoreTurn
    <2>3. QED
      BY <1>1, <2>2
  <1>4. n \in T
    <2> HIDE DEF T
    <2>1. 0..n \subseteq T
      BY <1>1, <1>2, <1>3, UpTo
    <2>2. QED
      BY <1>1, <2>1
  <1>5. \E f : TurnsUpTo(g, f, n)
    BY <1>4
  <1> DEFINE f == CHOOSE f : TurnsUpTo(g, f, n)
  <1>6. TurnsUpTo(g, f, n)
    BY <1>5
  <1>7. Turns(g) = f
    BY DEF Turns, n, TurnsUpTo, Start
  <1> HIDE DEF f
  <1>8. f[0] = Start(g) /\ \A i \in 1..n : f[i] = Turn(g, f[i-1])
    <2>1. \A i \in 0..n : f[i] = IF i = 0 THEN Start(g) ELSE Turn(g, f[i-1])
      BY <1>6 DEF TurnsUpTo
    <2>2. QED
      BY <1>1, <2>1
  <1>9. QED
    BY <1>1, <1>7, <1>8 DEF n

\* Everything that feeds n is in the order.
Ready(g, order, n) == \A k \in EdgesInto(g, n) : Source(g, k) \in Elements(order)

\* Edges into different places of one node: the places are numbers.
LEMMA EdgePlaces ==
    ASSUME NEW g, WellFormed(g), NEW K, K \subseteq DataEdges(g)
    PROVE  K \subseteq DOMAIN g.edges /\ K \subseteq Nat /\ IsFiniteSet(K)
           /\ K \subseteq 0..Len(g.edges) /\ Len(g.edges) \in Nat
  <1>1. g.edges \in Seq(Elements(g.edges)) /\ K \subseteq DOMAIN g.edges
    BY DEF WellFormed, DataEdges
  <1>2. K \subseteq Nat /\ IsFiniteSet(K) /\ DOMAIN g.edges = 1..Len(g.edges) /\ Len(g.edges) \in Nat
    BY <1>1, PlacesFacts
  <1>3. QED
    BY <1>1, <1>2

\* The edges that free something free different nodes, those that become ready
\* by id coming out.
LEMMA FreedFacts ==
    ASSUME NEW g, WellFormed(g), NEW order \in Seq(Touched(g)), NEW id \in Touched(g),
           id \notin Elements(order)
    PROVE  /\ Freed(g, id, order) \in Seq(Touched(g))
           /\ Injective(Freed(g, id, order))
           /\ Elements(Freed(g, id, order)) =
                 {n \in Touched(g) : Ready(g, Append(order, id), n) /\ ~Ready(g, order, n)}
  <1> DEFINE K == FreedBy(g, id, order)
             ks == InOrder(K)
             t == Freed(g, id, order)
             m == Cardinality(K)
  <1>1. K \subseteq DataEdges(g) /\ K \subseteq Nat /\ IsFiniteSet(K)
    <2>1. K \subseteq DataEdges(g)
      BY DEF FreedBy
    <2>2. QED
      BY <2>1, EdgePlaces
  <1>2. /\ m \in Nat /\ ks \in [1..m -> K] /\ \A k \in K : \E i \in 1..m : ks[i] = k
        /\ \A i, j \in 1..m : i < j => ks[i] < ks[j]
    BY <1>1, InOrderFacts
  <1>3. t = [i \in 1..m |-> Target(g, ks[i])]
    BY <1>2 DEF Freed
  <1>a. \A k \in K : /\ Source(g, k) = id
                    /\ \A l \in EdgesInto(g, Target(g, k)) :
                          /\ Source(g, l) \in Elements(order) \cup {id}
                          /\ Source(g, l) = id => l <= k
    BY DEF FreedBy
  <1>b. \A k \in K : Target(g, k) \in Touched(g)
    BY <1>1 DEF Touched
  <1>c. Elements(Append(order, id)) = Elements(order) \cup {id}
    BY AppendFacts
  <1> HIDE DEF m, ks, t
  <1>4. t \in Seq(Touched(g))
    <2>1. t \in [1..m -> Touched(g)]
      BY <1>2, <1>3, <1>b
    <2>2. QED
      BY <1>2, <2>1, SeqDef
  <1>5. \A k, l \in K : Target(g, k) = Target(g, l) => k = l
    <2>1. SUFFICES ASSUME NEW k \in K, NEW l \in K, Target(g, k) = Target(g, l) PROVE k = l
      OBVIOUS
    <2>2. k \in EdgesInto(g, Target(g, l)) /\ l \in EdgesInto(g, Target(g, k))
      BY <1>1, <2>1 DEF EdgesInto
    <2>3. k <= l /\ l <= k
      BY <1>a, <2>2
    <2>4. QED
      BY <1>1, <2>3
  <1>6. Injective(t)
    <2>1. SUFFICES ASSUME NEW i \in 1..m, NEW j \in 1..m, t[i] = t[j] PROVE i = j
      BY <1>3 DEF Injective
    <2>2. ks[i] \in K /\ ks[j] \in K /\ Target(g, ks[i]) = Target(g, ks[j])
      BY <1>2, <1>3, <2>1
    <2>3. ks[i] = ks[j] /\ ks[i] \in Nat
      BY <1>1, <1>5, <2>2
    <2>4. ~ (ks[i] < ks[j]) /\ ~ (ks[j] < ks[i])
      BY <2>3
    <2>5. ~ (i < j) /\ ~ (j < i)
      BY <1>2, <2>4
    <2>6. QED
      BY <2>5
  <1>7. Elements(t) = {Target(g, k) : k \in K}
    <2>1. Elements(t) \subseteq {Target(g, k) : k \in K}
      BY <1>2, <1>3 DEF Elements
    <2>2. ASSUME NEW k \in K PROVE Target(g, k) \in Elements(t)
      <3>1. PICK i \in 1..m : ks[i] = k
        BY <1>2
      <3>2. QED
        BY <1>3, <3>1 DEF Elements
    <2>3. QED
      BY <2>1, <2>2
  <1>8. ASSUME NEW k \in K
        PROVE  Ready(g, Append(order, id), Target(g, k)) /\ ~Ready(g, order, Target(g, k))
    <2>1. Ready(g, Append(order, id), Target(g, k))
      BY <1>a, <1>c DEF Ready
    <2>2. k \in EdgesInto(g, Target(g, k)) /\ Source(g, k) = id
      BY <1>1, <1>a DEF EdgesInto
    <2>3. QED
      BY <2>1, <2>2 DEF Ready
  <1>9. ASSUME NEW n \in Touched(g), Ready(g, Append(order, id), n), ~Ready(g, order, n)
        PROVE  \E k \in K : Target(g, k) = n
    <2> DEFINE T == {k \in EdgesInto(g, n) : Source(g, k) = id}
    <2>1. \A k \in EdgesInto(g, n) : Source(g, k) \in Elements(order) \cup {id}
      BY <1>9, <1>c DEF Ready
    <2>2. T # {}
      BY <1>9, <2>1 DEF Ready
    <2>3. T \subseteq 0..Len(g.edges) /\ Len(g.edges) \in Nat
      <3>1. T \subseteq DataEdges(g)
        BY DEF EdgesInto
      <3>2. QED
        BY <3>1, EdgePlaces
    <2>4. PICK k \in T : \A l \in T : l <= k
      <3> HIDE DEF T
      <3>1. QED
        BY <2>2, <2>3, Greatest
    <2>5. k \in DataEdges(g) /\ Source(g, k) = id /\ Target(g, k) = n
      BY DEF EdgesInto
    <2>6. k \in K
      BY <2>1, <2>4, <2>5 DEF FreedBy
    <2>7. QED
      BY <2>5, <2>6
  <1>10. Elements(t) = {n \in Touched(g) : Ready(g, Append(order, id), n) /\ ~Ready(g, order, n)}
    <2> HIDE DEF K
    <2>1. QED
      BY <1>7, <1>8, <1>9, <1>b
  <1>11. QED
    BY <1>4, <1>6, <1>10 DEF t

\* The loop's invariant: the queue and the order have between them, once, what
\* is ready.
TurnInv(g, s) ==
    /\ s = [queue |-> s.queue, order |-> s.order]
    /\ s.queue \in Seq(Touched(g)) /\ s.order \in Seq(Touched(g))
    /\ Injective(s.queue) /\ Injective(s.order)
    /\ Elements(s.queue) \cap Elements(s.order) = {}
    /\ RespectsEdges(g, s.order)
    /\ \A n \in Touched(g) :
          Ready(g, s.order, n) <=> n \in Elements(s.queue) \cup Elements(s.order)

LEMMA TurnInvStart ==
    ASSUME NEW g, WellFormed(g), ~Dangling(g)
    PROVE  TurnInv(g, Start(g))
  <1> DEFINE K == {i \in DOMAIN g.nodes : g.nodes[i] \in Touched(g) /\ EdgesInto(g, g.nodes[i]) = {}}
             q == Sources(g)
  <1>1. g.nodes \in Seq(NodeIds(g)) /\ K \subseteq DOMAIN g.nodes
    BY DEF WellFormed, NodeIds
  <1>2. q = Selected(g.nodes, K)
    BY DEF Sources
  <1>3. /\ q \in Seq(NodeIds(g)) /\ Elements(q) = {g.nodes[k] : k \in K}
        /\ Injective(q)
    <2> HIDE DEF K, q
    <2>1. \A k, l \in K : g.nodes[k] = g.nodes[l] => k = l
      BY <1>1 DEF WellFormed, Injective
    <2>2. QED
      BY <1>1, <1>2, <2>1, SelectedFacts
  <1>4. Elements(q) = {n \in Touched(g) : EdgesInto(g, n) = {}}
    <2>1. Touched(g) \subseteq {g.nodes[i] : i \in DOMAIN g.nodes}
      BY EdgeFacts DEF NodeIds, Elements
    <2>2. QED
      BY <1>3, <2>1
  <1> HIDE DEF q
  <1>5. q \in Seq(Touched(g))
    <2>1. DOMAIN q = 1..Len(q) /\ Len(q) \in Nat /\ q \in [1..Len(q) -> NodeIds(g)]
      BY <1>3, LenProperties
    <2>2. \A i \in 1..Len(q) : q[i] \in Touched(g)
      BY <1>4, <2>1 DEF Elements
    <2>3. q \in [1..Len(q) -> Touched(g)]
      BY <2>1, <2>2
    <2>4. QED
      BY <2>1, <2>3, SeqDef
  <1>6. Elements(<<>>) = {} /\ Injective(<<>>) /\ RespectsEdges(g, <<>>) /\ <<>> \in Seq(Touched(g))
    BY DEF Elements, Injective, RespectsEdges
  <1>7. Start(g).queue = q /\ Start(g).order = <<>> /\ Start(g) = [queue |-> q, order |-> <<>>]
    BY DEF Start, q
  <1>8. \A n \in Touched(g) : Ready(g, <<>>, n) <=> n \in Elements(q)
    BY <1>4, <1>6 DEF Ready
  <1>9. QED
    BY <1>3, <1>5, <1>6, <1>7, <1>8 DEF TurnInv

LEMMA TurnInvNext ==
    ASSUME NEW g, WellFormed(g), ~Dangling(g), NEW s, TurnInv(g, s)
    PROVE  TurnInv(g, Turn(g, s))
  <1>1. CASE s.queue = <<>>
    BY <1>1 DEF Turn
  <1>2. CASE s.queue # <<>>
    <2> DEFINE id == Head(s.queue)
               q == Tail(s.queue) \o Freed(g, id, s.order)
               o == Append(s.order, id)
    <2>1. Turn(g, s) = [queue |-> q, order |-> o]
      BY <1>2 DEF Turn
    <2>2. /\ s.queue \in Seq(Touched(g)) /\ s.order \in Seq(Touched(g))
          /\ Injective(s.queue) /\ Injective(s.order)
          /\ Elements(s.queue) \cap Elements(s.order) = {}
          /\ RespectsEdges(g, s.order)
          /\ \A n \in Touched(g) :
                Ready(g, s.order, n) <=> n \in Elements(s.queue) \cup Elements(s.order)
      BY DEF TurnInv
    <2>3. /\ id \in Touched(g) /\ Tail(s.queue) \in Seq(Touched(g))
          /\ Elements(s.queue) = Elements(Tail(s.queue)) \cup {id}
          /\ Injective(Tail(s.queue)) /\ id \notin Elements(Tail(s.queue))
      BY <1>2, <2>2, HeadTailFacts
    <2> HIDE DEF id
    <2>4. id \notin Elements(s.order)
      BY <2>2, <2>3
    <2>5. /\ o \in Seq(Touched(g)) /\ Elements(o) = Elements(s.order) \cup {id} /\ Injective(o)
      BY <2>2, <2>3, <2>4, AppendFacts
    <2>6. /\ Freed(g, id, s.order) \in Seq(Touched(g)) /\ Injective(Freed(g, id, s.order))
          /\ Elements(Freed(g, id, s.order)) =
                {n \in Touched(g) : Ready(g, o, n) /\ ~Ready(g, s.order, n)}
      BY <2>2, <2>3, <2>4, FreedFacts
    <2>7. Elements(Tail(s.queue)) \cap Elements(Freed(g, id, s.order)) = {}
      <3>1. Elements(Tail(s.queue)) \subseteq Touched(g)
        BY <2>3 DEF Elements
      <3>2. QED
        BY <2>2, <2>3, <2>6, <3>1
    <2>8. /\ q \in Seq(Touched(g)) /\ Injective(q)
          /\ Elements(q) = Elements(Tail(s.queue)) \cup Elements(Freed(g, id, s.order))
      <3> DEFINE tl == Tail(s.queue)
                 fr == Freed(g, id, s.order)
      <3>1. tl \in Seq(Touched(g)) /\ Injective(tl) /\ fr \in Seq(Touched(g)) /\ Injective(fr)
            /\ Elements(tl) \cap Elements(fr) = {}
        BY <2>3, <2>6, <2>7
      <3>2. q = tl \o fr
        OBVIOUS
      <3> HIDE DEF tl, fr, q
      <3>3. q \in Seq(Touched(g)) /\ Injective(q) /\ Elements(q) = Elements(tl) \cup Elements(fr)
        BY <3>1, <3>2, ConcatFacts
      <3>4. QED
        BY <3>3 DEF tl, fr
    <2>9. \A n \in Touched(g) : Ready(g, s.order, n) => Ready(g, o, n)
      BY <2>5 DEF Ready
    <2>10. \A n \in Touched(g) : Ready(g, o, n) <=> n \in Elements(q) \cup Elements(o)
      BY <2>2, <2>3, <2>5, <2>6, <2>8, <2>9
    <2>11. Elements(q) \cap Elements(o) = {}
      <3>1. Elements(s.order) \subseteq Touched(g)
        BY <2>2 DEF Elements
      <3>2. QED
        BY <2>2, <2>3, <2>5, <2>6, <2>8, <3>1
    <2>12. RespectsEdges(g, o)
      <3>1. Touched(g) \subseteq NodeIds(g)
        BY EdgeFacts
      <3>2. s.order \in Seq(NodeIds(g)) /\ id \in NodeIds(g)
        BY <2>2, <2>3, <3>1, SeqMonotonic
      <3>3. \A k \in EdgesInto(g, id) : Source(g, k) \in Elements(s.order)
        BY <2>2, <2>3 DEF Ready
      <3>4. QED
        BY <2>2, <3>2, <3>3, RespectsAppend
    <2> HIDE DEF q, o
    <2>13. QED
      BY <2>1, <2>5, <2>8, <2>10, <2>11, <2>12 DEF TurnInv
  <1>3. QED
    BY <1>1, <1>2

\* As long as something is queued, every turn has put out a node.
LEMMA TurnByTurn ==
    ASSUME NEW g, WellFormed(g), ~Dangling(g), NEW i \in 0..Len(g.nodes)
    PROVE  /\ TurnInv(g, Turns(g)[i])
           /\ Turns(g)[i].queue # <<>> => Len(Turns(g)[i].order) = i
  <1> DEFINE n == Len(g.nodes)
             At(j) == TurnInv(g, Turns(g)[j]) /\ (Turns(g)[j].queue # <<>> => Len(Turns(g)[j].order) = j)
             T == {j \in 0..n : At(j)}
  <1>1. n \in Nat /\ Turns(g)[0] = Start(g) /\ \A j \in 1..n : Turns(g)[j] = Turn(g, Turns(g)[j-1])
    BY TurnsFacts
  <1>2. 0 \in T
    <2>1. TurnInv(g, Turns(g)[0])
      BY <1>1, TurnInvStart
    <2>2. Len(Turns(g)[0].order) = 0
      BY <1>1 DEF Start
    <2>3. QED
      BY <1>1, <2>1, <2>2
  <1>3. ASSUME NEW j \in 1..n, j - 1 \in T PROVE j \in T
    <2> DEFINE s == Turns(g)[j-1]
    <2>1. TurnInv(g, s) /\ (s.queue # <<>> => Len(s.order) = j - 1)
      BY <1>3
    <2>2. Turns(g)[j] = Turn(g, s)
      BY <1>1
    <2> HIDE DEF s
    <2>3. TurnInv(g, Turns(g)[j])
      BY <2>1, <2>2, TurnInvNext
    <2>4. ASSUME Turns(g)[j].queue # <<>> PROVE Len(Turns(g)[j].order) = j
      <3>1. s.queue # <<>>
        BY <2>2, <2>4 DEF Turn
      <3>2. Turns(g)[j].order = Append(s.order, Head(s.queue))
        BY <2>2, <3>1 DEF Turn
      <3>3. s.order \in Seq(Touched(g)) /\ Head(s.queue) \in Touched(g)
        BY <2>1, <3>1 DEF TurnInv
      <3>4. Len(Turns(g)[j].order) = Len(s.order) + 1
        BY <3>2, <3>3, AppendProperties
      <3>5. QED
        BY <1>1, <2>1, <3>1, <3>4
    <2>5. QED
      BY <1>1, <2>3, <2>4
  <1>4. i \in T
    <2> HIDE DEF T
    <2>1. 0..n \subseteq T
      BY <1>1, <1>2, <1>3, UpTo
    <2>2. QED
      BY <2>1
  <1>5. QED
    BY <1>4

\* A list of different nodes is no longer than the node list.
LEMMA NoMoreThanNodes ==
    ASSUME NEW g, WellFormed(g), NEW s \in Seq(NodeIds(g)), Injective(s)
    PROVE  Len(s) <= Len(g.nodes)
  <1> DEFINE n == Len(g.nodes)
  <1>1. n \in Nat /\ DOMAIN g.nodes = 1..n /\ g.nodes \in [1..n -> NodeIds(g)]
    BY DEF WellFormed, NodeIds
  <1>2. IsFiniteSet(1..n) /\ Cardinality(1..n) = n
    <2> HIDE DEF n
    <2>1. QED
      BY <1>1, CountTo
  <1>3. g.nodes \in Surjection(1..n, NodeIds(g))
    <2>1. \A x \in NodeIds(g) : \E i \in 1..n : g.nodes[i] = x
      BY <1>1 DEF NodeIds, Elements
    <2>2. QED
      BY <1>1, <2>1, Fun_IsSurj
  <1>4. IsFiniteSet(NodeIds(g)) /\ Cardinality(NodeIds(g)) <= n
    BY <1>2, <1>3, FS_Surjection
  <1>5. Len(s) \in Nat /\ DOMAIN s = 1..Len(s) /\ s \in [1..Len(s) -> NodeIds(g)]
    BY LenProperties
  <1>6. s \in Injection(1..Len(s), NodeIds(g))
    BY <1>5, Fun_IsInj DEF Injective
  <1>7. Cardinality(1..Len(s)) <= Cardinality(NodeIds(g)) /\ Cardinality(NodeIds(g)) \in Nat
    BY <1>4, <1>6, FS_Injection, FS_CardinalityType
  <1>8. Cardinality(1..Len(s)) = Len(s)
    BY <1>5, CountTo
  <1>9. QED
    BY <1>1, <1>4, <1>5, <1>7, <1>8

\* After as many turns as there are nodes nothing is queued.
LEMMA TurnsEnough ==
    ASSUME NEW g, WellFormed(g), ~Dangling(g)
    PROVE  TurnInv(g, Turns(g)[Len(g.nodes)]) /\ Turns(g)[Len(g.nodes)].queue = <<>>
  <1> DEFINE n == Len(g.nodes)
             s == Turns(g)[n]
  <1>1. n \in Nat
    BY DEF WellFormed
  <1>2. TurnInv(g, s) /\ (s.queue # <<>> => Len(s.order) = n)
    BY <1>1, TurnByTurn
  <1> HIDE DEF s
  <1>3. ASSUME s.queue # <<>> PROVE FALSE
    <2> DEFINE id == Head(s.queue)
    <2>1. /\ s.queue \in Seq(Touched(g)) /\ s.order \in Seq(Touched(g)) /\ Injective(s.order)
          /\ Elements(s.queue) \cap Elements(s.order) = {} /\ Len(s.order) = n
      BY <1>2, <1>3 DEF TurnInv
    <2>2. id \in Touched(g) /\ id \in Elements(s.queue)
      BY <1>3, <2>1, HeadTailFacts
    <2>3. id \notin Elements(s.order)
      BY <2>1, <2>2
    <2> HIDE DEF id
    <2>4. Append(s.order, id) \in Seq(Touched(g)) /\ Injective(Append(s.order, id))
      BY <2>1, <2>2, <2>3, AppendFacts
    <2>5. Touched(g) \subseteq NodeIds(g)
      BY EdgeFacts
    <2>6. Append(s.order, id) \in Seq(NodeIds(g))
      BY <2>4, <2>5, SeqMonotonic
    <2>7. Len(Append(s.order, id)) <= n
      BY <2>4, <2>6, NoMoreThanNodes
    <2>8. Len(Append(s.order, id)) = n + 1
      BY <2>1, <2>2, AppendProperties
    <2>9. QED
      BY <1>1, <2>7, <2>8
  <1>4. QED
    BY <1>2, <1>3 DEF s

\* TopoOrderOf never lists a node twice or before what feeds it, whatever the
\* graph, and lists the whole data flow when nothing is deadlocked.
LEMMA OrderFacts ==
    ASSUME NEW g, WellFormed(g), ~Dangling(g)
    PROVE  /\ TopoOrderOf(g) \in Seq(Touched(g))
           /\ Injective(TopoOrderOf(g))
           /\ RespectsEdges(g, TopoOrderOf(g))
           /\ (\A C \in SUBSET NodeIds(g) : ~Deadlocked(g, C)) =>
                 Elements(TopoOrderOf(g)) = Touched(g)
  <1> DEFINE s == Turns(g)[Len(g.nodes)]
  <1>1. TurnInv(g, s) /\ s.queue = <<>> /\ s.order = TopoOrderOf(g)
    BY TurnsEnough DEF TopoOrderOf
  <1> HIDE DEF s
  <1>2. s.order \in Seq(Touched(g)) /\ Injective(s.order) /\ RespectsEdges(g, s.order)
    BY <1>1 DEF TurnInv
  <1>3. Elements(s.order) \subseteq Touched(g)
    BY <1>2 DEF Elements
  <1>4. ASSUME \A C \in SUBSET NodeIds(g) : ~Deadlocked(g, C), NEW n \in Touched(g) \ Elements(s.order)
        PROVE  FALSE
    <2> DEFINE C == Touched(g) \ Elements(s.order)
    <2>1. C \in SUBSET NodeIds(g) /\ C # {}
      BY EdgeFacts
    <2>2. ASSUME NEW m \in C PROVE \E k \in EdgesInto(g, m) : Source(g, k) \in C
      <3>1. Elements(s.queue) = {}
        BY <1>1 DEF Elements
      <3>2. ~Ready(g, s.order, m)
        BY <1>1, <3>1 DEF TurnInv
      <3>3. PICK k \in EdgesInto(g, m) : Source(g, k) \notin Elements(s.order)
        BY <3>2 DEF Ready
      <3>4. Source(g, k) \in Touched(g)
        BY DEF EdgesInto, Touched
      <3>5. QED
        BY <3>3, <3>4
    <2>3. Deadlocked(g, C)
      <3> HIDE DEF C
      <3>1. QED
        BY <2>1, <2>2 DEF Deadlocked
    <2>4. QED
      BY <1>4, <2>1, <2>3
  <1>5. QED
    BY <1>1, <1>2, <1>3, <1>4

----------------------------------------------------------------------------
(* What feeds a node.                                                      *)

LEMMA UpstreamFacts ==
    ASSUME NEW g, WellFormed(g), NEW n
    PROVE  /\ DOMAIN UpstreamOf(g, n) = 1..Cardinality(EdgesInto(g, n))
           /\ Cardinality(EdgesInto(g, n)) \in Nat
           /\ \A i \in DOMAIN UpstreamOf(g, n) :
                 \E k \in EdgesInto(g, n) : UpstreamOf(g, n)[i] = Source(g, k)
  <1> DEFINE K == EdgesInto(g, n)
             ks == InOrder(K)
  <1>1. K \subseteq Nat /\ IsFiniteSet(K)
    <2>1. K \subseteq DataEdges(g)
      BY DEF EdgesInto
    <2>2. QED
      BY <2>1, EdgePlaces
  <1>2. Cardinality(K) \in Nat /\ ks \in [1..Cardinality(K) -> K]
    BY <1>1, InOrderFacts
  <1>3. UpstreamOf(g, n) = [i \in DOMAIN ks |-> Source(g, ks[i])]
    BY DEF UpstreamOf
  <1> HIDE DEF ks, K
  <1>4. DOMAIN UpstreamOf(g, n) = 1..Cardinality(K)
    BY <1>2, <1>3
  <1>5. \A i \in 1..Cardinality(K) : \E k \in K : UpstreamOf(g, n)[i] = Source(g, k)
    BY <1>2, <1>3
  <1>6. QED
    BY <1>2, <1>4, <1>5 DEF K

\* With every ancestor come its own sources.
LEMMA AncestorsFacts ==
    ASSUME NEW g, ~Dangling(g), NEW n \in NodeIds(g)
    PROVE  /\ Ancestors(g, n) \subseteq NodeIds(g) /\ n \in Ancestors(g, n)
           /\ Fed(g, Ancestors(g, n))
  <1>1. Ancestors(g, n) \subseteq NodeIds(g) /\ n \in Ancestors(g, n)
    BY DEF Ancestors
  <1>2. ASSUME NEW k \in DataEdges(g), Target(g, k) \in Ancestors(g, n)
        PROVE  Source(g, k) \in Ancestors(g, n)
    <2>1. SUFFICES ASSUME NEW C \in SUBSET NodeIds(g), n \in C, Fed(g, C)
                   PROVE  Source(g, k) \in C
      BY DEF Ancestors, Dangling
    <2>2. Target(g, k) \in C
      BY <1>2, <2>1 DEF Ancestors
    <2>3. QED
      BY <2>1, <2>2 DEF Fed
  <1>3. QED
    BY <1>1, <1>2 DEF Fed

\* The subgraph for a node has an ancestor's edges and is sound when the graph is.
LEMMA SubgraphFacts ==
    ASSUME NEW g, WellFormed(g), ~Dangling(g), NEW n \in NodeIds(g)
    PROVE  LET sub == SubgraphForNode(g, n) IN
           /\ WellFormed(sub) /\ ~Dangling(sub)
           /\ NodeIds(sub) = Ancestors(g, n) /\ Touched(sub) \subseteq Touched(g)
           /\ \A C \in SUBSET NodeIds(sub) : Deadlocked(sub, C) => Deadlocked(g, C)
  <1> DEFINE sub == SubgraphForNode(g, n)
             kept == Ancestors(g, n)
             I == {i \in DOMAIN g.nodes : g.nodes[i] \in kept}
             K == {k \in DOMAIN g.edges : Source(g, k) \in kept /\ Target(g, k) \in kept}
  <1>1. sub = [nodes |-> Selected(g.nodes, I), edges |-> Selected(g.edges, K)]
    BY DEF SubgraphForNode
  <1>2. kept \subseteq NodeIds(g)
    BY DEF Ancestors
  <1> HIDE DEF kept
  <1>3. /\ sub.nodes \in Seq(NodeIds(g)) /\ Elements(sub.nodes) = {g.nodes[i] : i \in I}
        /\ Injective(sub.nodes)
    <2>1. g.nodes \in Seq(NodeIds(g)) /\ I \subseteq DOMAIN g.nodes
      BY DEF WellFormed, NodeIds
    <2>2. \A k, l \in I : g.nodes[k] = g.nodes[l] => k = l
      BY DEF WellFormed, Injective
    <2>3. sub.nodes = Selected(g.nodes, I)
      BY <1>1
    <2> HIDE DEF I, sub
    <2>4. QED
      BY <2>1, <2>2, <2>3, SelectedFacts
  <1>4. NodeIds(sub) = kept
    BY <1>2, <1>3 DEF NodeIds, Elements
  <1>5. /\ sub.edges \in Seq(Elements(g.edges)) /\ Elements(sub.edges) = {g.edges[k] : k \in K}
    <2>1. g.edges \in Seq(Elements(g.edges)) /\ K \subseteq DOMAIN g.edges
      BY DEF WellFormed
    <2>2. sub.edges = Selected(g.edges, K)
      BY <1>1
    <2> HIDE DEF K, sub
    <2>3. QED
      BY <2>1, <2>2, SelectedFacts
  <1>a. \A k \in K : k \in DOMAIN g.edges /\ g.edges[k].source \in kept /\ g.edges[k].target \in kept
    BY DEF Source, Target
  <1> HIDE DEF sub, I, K
  <1>6. WellFormed(sub)
    <2>1. \A S, s : s \in Seq(S) => s \in Seq(Elements(s))
      <3>1. SUFFICES ASSUME NEW S, NEW s \in Seq(S) PROVE s \in Seq(Elements(s))
        OBVIOUS
      <3>2. Len(s) \in Nat /\ s \in [1..Len(s) -> S] /\ DOMAIN s = 1..Len(s)
        BY LenProperties
      <3>3. s \in [1..Len(s) -> Elements(s)]
        BY <3>2 DEF Elements
      <3>4. QED
        BY <3>2, <3>3, SeqDef
    <2>2. sub.nodes \in Seq(Elements(sub.nodes))
      BY <1>3, <2>1
    <2>3. sub.edges \in Seq(Elements(sub.edges))
      BY <1>5, <2>1
    <2>4. QED
      BY <1>3, <2>2, <2>3 DEF WellFormed
  <1>7. ASSUME NEW k \in DataEdges(sub)
        PROVE  \E l \in DataEdges(g) : /\ Source(sub, k) = Source(g, l) /\ Target(sub, k) = Target(g, l)
                                       /\ Source(g, l) \in kept /\ Target(g, l) \in kept
    <2>1. sub.edges[k] \in Elements(sub.edges) /\ sub.edges[k].kind # "tool"
      BY DEF DataEdges, Elements
    <2>2. PICK l \in K : sub.edges[k] = g.edges[l]
      BY <1>5, <2>1
    <2>3. l \in DataEdges(g)
      BY <1>a, <2>1, <2>2 DEF DataEdges
    <2>4. QED
      BY <1>a, <2>2, <2>3 DEF Source, Target
  <1>8. ~Dangling(sub)
    BY <1>4, <1>7 DEF Dangling
  <1>9. Touched(sub) \subseteq Touched(g)
    BY <1>7 DEF Touched
  <1>10. ASSUME NEW C \in SUBSET NodeIds(sub), Deadlocked(sub, C) PROVE Deadlocked(g, C)
    <2>1. C # {} /\ C \subseteq NodeIds(g)
      BY <1>2, <1>4, <1>10 DEF Deadlocked
    <2>2. ASSUME NEW m \in C PROVE \E l \in EdgesInto(g, m) : Source(g, l) \in C
      <3>1. PICK k \in EdgesInto(sub, m) : Source(sub, k) \in C
        BY <1>10 DEF Deadlocked
      <3>2. k \in DataEdges(sub) /\ Target(sub, k) = m
        BY DEF EdgesInto
      <3>3. PICK l \in DataEdges(g) : Source(sub, k) = Source(g, l) /\ Target(sub, k) = Target(g, l)
        BY <1>7, <3>2
      <3>4. QED
        BY <3>1, <3>2, <3>3 DEF EdgesInto
    <2>3. QED
      BY <2>1, <2>2 DEF Deadlocked
  <1>11. QED
    BY <1>4, <1>6, <1>8, <1>9, <1>10 DEF sub, kept
====
