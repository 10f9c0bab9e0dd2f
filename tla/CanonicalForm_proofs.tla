------------------------ MODULE CanonicalForm_proofs -------------------------
(***************************************************************************)
(* What canonicalization computes, for every validated contract: signatures, *)
(* the partitions of the rounds, the quotient, the order of the visit, the *)
(* result, and how all of them depend on the meaning of the contract alone. *)
(* Nothing here is about a state of the module: `Canonicalizer_proofs` is. *)
(***************************************************************************)
EXTENDS Canonicalizer, FiniteSetTheorems, SequenceTheorems, WellFoundedInduction, TLAPS

\* Induction is by the least counterexample.
LEMMA LeastNumber ==
    ASSUME NEW T, T \subseteq Nat, T # {}
    PROVE  \E m \in T : \A k \in T : m <= k
<1> DEFINE Less == {ss \in Nat \X Nat : ss[1] < ss[2]}
<1>1. IsWellFoundedOn(Less, Nat)
  BY NatLessThanWellFounded DEF OpToRel
<1>2. \E m \in T : \A k \in T : <<k, m>> \notin Less
  <2> HIDE DEF Less
  <2> QED
    BY <1>1, WFMin
<1>3. \A k, m \in Nat : <<k, m>> \notin Less => m <= k
  OBVIOUS
<1> HIDE DEF Less
<1> QED
  BY <1>2, <1>3

-----------------------------------------------------------------------------
\* Ranks and sorting.

\* A strict total order on D, as a set of pairs.
Orders(R, D) ==
    /\ \A x \in D : <<x, x>> \notin R
    /\ \A x, y, z \in D : <<x, y>> \in R /\ <<y, z>> \in R => <<x, z>> \in R
    /\ \A x, y \in D : x # y => <<x, y>> \in R \/ <<y, x>> \in R

\* One more than the number of the elements before it.
RankIn(R, D) == [x \in D |-> 1 + Cardinality({y \in D : <<y, x>> \in R})]

\* The ranks of n things in order are 1 to n.
LEMMA RanksAreCounted ==
    ASSUME NEW D, IsFiniteSet(D), NEW R, Orders(R, D)
    PROVE  /\ Cardinality(D) \in Nat
           /\ RankIn(R, D) \in [D -> 1..Cardinality(D)]
           /\ \A x, y \in D : <<x, y>> \in R <=> RankIn(R, D)[x] < RankIn(R, D)[y]
           /\ \A x, y \in D : RankIn(R, D)[x] = RankIn(R, D)[y] => x = y
           /\ \A k \in 1..Cardinality(D) : \E x \in D : RankIn(R, D)[x] = k
<1> DEFINE below(x) == {y \in D : <<y, x>> \in R}
           rank == RankIn(R, D)
           n == Cardinality(D)
<1>1. n \in Nat
  BY FS_CardinalityType
<1>2. ASSUME NEW x \in D
      PROVE  /\ IsFiniteSet(below(x)) /\ Cardinality(below(x)) \in Nat
             /\ Cardinality(below(x)) < n
             /\ rank[x] = 1 + Cardinality(below(x))
  <2>1. below(x) \in SUBSET D /\ below(x) # D
    BY DEF Orders
  <2>2. IsFiniteSet(below(x)) /\ Cardinality(below(x)) <= n /\ Cardinality(below(x)) # n
    BY <2>1, FS_Subset
  <2>3. Cardinality(below(x)) \in Nat
    BY <2>2, FS_CardinalityType
  <2> QED
    BY <1>1, <2>2, <2>3 DEF RankIn
<1>3. ASSUME NEW x \in D, NEW y \in D, <<x, y>> \in R
      PROVE  rank[x] < rank[y]
  <2>1. below(x) \in SUBSET below(y) /\ x \in below(y) /\ x \notin below(x)
    BY <1>3 DEF Orders
  <2>2. Cardinality(below(x)) <= Cardinality(below(y))
        /\ Cardinality(below(x)) # Cardinality(below(y))
    <3> HIDE DEF below
    <3> QED
      BY <1>2, <2>1, FS_Subset
  <2> HIDE DEF rank, below
  <2> QED
    BY <1>2, <2>2
<1>4. ASSUME NEW x \in D
      PROVE  rank[x] \in 1..n
  <2> HIDE DEF rank, below, n
  <2> QED
    BY <1>1, <1>2
<1>5. rank \in [D -> 1..n]
  BY <1>4 DEF RankIn
<1>6. ASSUME NEW x \in D, NEW y \in D
      PROVE  /\ rank[x] = rank[y] => x = y
             /\ <<x, y>> \in R <=> rank[x] < rank[y]
  <2>1. rank[x] \in Nat /\ rank[y] \in Nat
    BY <1>1, <1>4
  <2>2. x = y \/ <<x, y>> \in R \/ <<y, x>> \in R
    BY DEF Orders
  <2>3. x = y => <<x, y>> \notin R
    BY DEF Orders
  <2> HIDE DEF rank
  <2> QED
    BY <1>3, <2>1, <2>2, <2>3
<1>7. rank \in Injection(D, 1..n)
  <2> HIDE DEF rank, n
  <2> QED
    BY <1>5, <1>6 DEF Injection, IsInjective
<1>8. rank \in Surjection(D, 1..n)
  <2> HIDE DEF rank
  <2>1. IsFiniteSet(1..n) /\ Cardinality(1..n) = n
    BY <1>1, FS_Interval
  <2> QED
    BY <1>7, <2>1, FS_Injection
<1>9. \A k \in 1..n : \E x \in D : rank[x] = k
  <2> HIDE DEF rank, n
  <2> QED
    BY <1>8 DEF Surjection
<1> HIDE DEF rank
<1> QED
  BY <1>1, <1>5, <1>6, <1>9 DEF rank

\* What a set of numbers lists in ascending order.
LEMMA AscendingLists ==
    ASSUME NEW S, S \subseteq Nat, IsFiniteSet(S)
    PROVE  /\ Ascending(S) \in Seq(S) /\ Len(Ascending(S)) = Cardinality(S)
           /\ Range(Ascending(S)) = S
           /\ \A i, j \in DOMAIN Ascending(S) : i < j => Ascending(S)[i] < Ascending(S)[j]
<1> DEFINE R == {p \in S \X S : p[1] < p[2]}
           n == Cardinality(S)
           at(k) == CHOOSE x \in S : Cardinality({y \in S : y < x}) = k - 1
<1>1. Orders(R, S)
  BY DEF Orders
<1>2. n \in Nat
  BY FS_CardinalityType
<1>3. ASSUME NEW x \in S, NEW k \in 1..n
      PROVE  /\ RankIn(R, S)[x] \in 1..n
             /\ RankIn(R, S)[x] = k <=> Cardinality({y \in S : y < x}) = k - 1
  <2>1. {y \in S : <<y, x>> \in R} = {y \in S : y < x}
    OBVIOUS
  <2>2. RankIn(R, S)[x] = 1 + Cardinality({y \in S : y < x})
    BY <2>1 DEF RankIn
  <2>3. Cardinality({y \in S : y < x}) \in Nat
    BY FS_Subset, FS_CardinalityType
  <2>4. RankIn(R, S)[x] \in 1..n
    <3> HIDE DEF R
    <3> QED
      BY <1>1, RanksAreCounted
  <2> QED
    BY <2>2, <2>3, <2>4
<1>4. ASSUME NEW k \in 1..n
      PROVE  at(k) \in S /\ RankIn(R, S)[at(k)] = k
  <2> PICK x \in S : RankIn(R, S)[x] = k
    <3> HIDE DEF R
    <3> QED
      BY <1>1, RanksAreCounted
  <2>1. Cardinality({y \in S : y < x}) = k - 1
    BY <1>3
  <2>2. at(k) \in S /\ Cardinality({y \in S : y < at(k)}) = k - 1
    BY <2>1
  <2> HIDE DEF at
  <2> QED
    BY <1>3, <2>2
<1>5. Ascending(S) = [k \in 1..n |-> at(k)]
  BY DEF Ascending
<1> HIDE DEF at, n, R
<1>6. Ascending(S) \in Seq(S) /\ Len(Ascending(S)) = n
  <2>1. \A k \in 1..n : at(k) \in S
    BY <1>4
  <2> QED
    BY <1>2, <1>5, <2>1
<1>7. Range(Ascending(S)) = S
  <2>1. ASSUME NEW x \in S
        PROVE  \E k \in 1..n : at(k) = x
    <3>1. RankIn(R, S)[x] \in 1..n
      BY <1>1, RanksAreCounted DEF n
    <3>2. at(RankIn(R, S)[x]) = x
      BY <1>1, <1>4, <3>1, RanksAreCounted
    <3> QED
      BY <3>1, <3>2
  <2>2. \A k \in 1..n : at(k) \in S
    BY <1>4
  <2>3. DOMAIN Ascending(S) = 1..n /\ \A k \in 1..n : Ascending(S)[k] = at(k)
    BY <1>5
  <2> QED
    BY <2>1, <2>2, <2>3 DEF Range
<1>8. ASSUME NEW i \in 1..n, NEW j \in 1..n, i < j
      PROVE  at(i) < at(j)
  <2>1. <<at(i), at(j)>> \in R
    BY <1>1, <1>4, <1>8, RanksAreCounted
  <2> QED
    BY <2>1 DEF R
<1> QED
  BY <1>5, <1>6, <1>7, <1>8 DEF n

\* What `Sorted` chooses: a rearrangement in which nothing follows what it precedes.
Arranges(f, seq, R) ==
    /\ f \in [DOMAIN seq -> DOMAIN seq]
    /\ \A j \in DOMAIN seq : \A i \in 1..(j - 1) :
          f[i] # f[j] /\ <<seq[f[j]], seq[f[i]]>> \notin R

\* There is one: by the rank of each position.
LEMMA ArrangementExists ==
    ASSUME NEW E, NEW seq \in Seq(E), NEW R, Orders(R, E)
    PROVE  \E f : Arranges(f, seq, R)
<1> DEFINE D == DOMAIN seq
           n == Len(seq)
           B == {p \in D \X D : \/ <<seq[p[1]], seq[p[2]]>> \in R
                                \/ seq[p[1]] = seq[p[2]] /\ p[1] < p[2]}
           rank == RankIn(B, D)
           f == [k \in D |-> CHOOSE i \in D : rank[i] = k]
<1>1. n \in Nat /\ D = 1..n /\ \A i \in D : seq[i] \in E
  OBVIOUS
<1>2. IsFiniteSet(D) /\ Cardinality(D) = n
  BY <1>1, FS_Interval
<1>3. Orders(B, D)
  <2>1. ASSUME NEW i \in D, NEW j \in D
        PROVE  <<i, j>> \in B <=> \/ <<seq[i], seq[j]>> \in R
                                  \/ seq[i] = seq[j] /\ i < j
    OBVIOUS
  <2> HIDE DEF B
  <2>2. ASSUME NEW i \in D PROVE <<i, i>> \notin B
    <3>1. seq[i] \in E /\ ~(i < i)
      BY <1>1
    <3> QED
      BY <2>1, <3>1 DEF Orders
  <2>3. ASSUME NEW i \in D, NEW j \in D, NEW k \in D, <<i, j>> \in B, <<j, k>> \in B
        PROVE  <<i, k>> \in B
    <3>1. seq[i] \in E /\ seq[j] \in E /\ seq[k] \in E
      BY <1>1
    <3>2. i < j /\ j < k => i < k
      BY <1>1
    <3>3. /\ <<seq[i], seq[j]>> \in R \/ (seq[i] = seq[j] /\ i < j)
          /\ <<seq[j], seq[k]>> \in R \/ (seq[j] = seq[k] /\ j < k)
      BY <2>1, <2>3
    <3>4. <<seq[i], seq[k]>> \in R \/ (seq[i] = seq[k] /\ i < k)
      BY <3>1, <3>2, <3>3 DEF Orders
    <3> QED
      BY <2>1, <3>4
  <2>4. ASSUME NEW i \in D, NEW j \in D, i # j
        PROVE  <<i, j>> \in B \/ <<j, i>> \in B
    <3>1. i < j \/ j < i
      BY <1>1, <2>4
    <3> QED
      BY <1>1, <2>1, <3>1 DEF Orders
  <2> QED
    BY <2>2, <2>3, <2>4 DEF Orders
<1>4. /\ \A i, j \in D : <<i, j>> \in B <=> rank[i] < rank[j]
      /\ \A k \in D : \E i \in D : rank[i] = k
  <2> HIDE DEF B, D
  <2> QED
    BY <1>1, <1>2, <1>3, RanksAreCounted
<1>5. \A k \in D : f[k] \in D /\ rank[f[k]] = k
  <2> HIDE DEF rank
  <2> QED
    BY <1>4
<1>6. ASSUME NEW j \in D, NEW i \in 1..(j - 1)
      PROVE  f[i] # f[j] /\ <<seq[f[j]], seq[f[i]]>> \notin R
  <2>1. i \in D /\ i < j /\ i # j
    BY <1>1
  <2>2. f[i] \in D /\ f[j] \in D /\ rank[f[i]] = i /\ rank[f[j]] = j
    BY <1>5, <2>1
  <2>3. <<f[i], f[j]>> \in B
    <3> HIDE DEF B, f, rank
    <3> QED
      BY <1>4, <2>1, <2>2
  <2>4. <<seq[f[i]], seq[f[j]]>> \in R \/ seq[f[i]] = seq[f[j]]
    <3> HIDE DEF f, rank
    <3> QED
      BY <2>2, <2>3
  <2> HIDE DEF B, f, rank
  <2>5. seq[f[i]] \in E /\ seq[f[j]] \in E
    BY <1>1, <2>2
  <2>6. <<seq[f[j]], seq[f[i]]>> \notin R
    BY <2>4, <2>5 DEF Orders
  <2> QED
    BY <2>1, <2>2, <2>6
<1>7. f \in [D -> D]
  BY <1>5
<1> QED
  BY <1>6, <1>7 DEF Arranges

\* A rearrangement lists the same elements, as often, in order.
LEMMA ArrangedIsSorted ==
    ASSUME NEW E, NEW seq \in Seq(E), NEW R, Orders(R, E), NEW f, Arranges(f, seq, R),
           NEW s, s = [k \in DOMAIN seq |-> seq[f[k]]]
    PROVE  /\ s \in Seq(E) /\ Len(s) = Len(seq)
           /\ Range(s) = Range(seq)
           /\ \A i, j \in DOMAIN s : i < j => <<s[i], s[j]>> \in R \/ s[i] = s[j]
           /\ \A i, j \in DOMAIN s : i < j => \E k, m \in DOMAIN seq :
                 k # m /\ s[i] = seq[k] /\ s[j] = seq[m]
<1> DEFINE D == DOMAIN seq
           n == Len(seq)
<1>1. n \in Nat /\ D = 1..n /\ (\A i \in D : seq[i] \in E) /\ f \in [D -> D]
  BY DEF Arranges
<1>2. s \in Seq(E) /\ Len(s) = n /\ DOMAIN s = D
  BY <1>1
<1>3. f \in Injection(D, D)
  <2>1. ASSUME NEW i \in D, NEW j \in D, f[i] = f[j]
        PROVE  i = j
    <3>1. CASE i < j
      <4>1. i \in 1..(j - 1)
        BY <1>1, <3>1
      <4> QED
        BY <2>1, <4>1 DEF Arranges
    <3>2. CASE j < i
      <4>1. j \in 1..(i - 1)
        BY <1>1, <3>2
      <4> QED
        BY <2>1, <4>1 DEF Arranges
    <3> QED
      BY <1>1, <3>1, <3>2
  <2> QED
    BY <1>1, <2>1 DEF Injection, IsInjective
<1>4. f \in Surjection(D, D)
  <2>1. IsFiniteSet(D)
    BY <1>1, FS_Interval
  <2> HIDE DEF D
  <2> QED
    BY <1>3, <2>1, FS_Injection
<1>5. \A x \in D : \E k \in D : f[k] = x
  BY <1>4 DEF Surjection
<1>6. Range(s) = Range(seq)
  BY <1>1, <1>2, <1>5 DEF Range
<1>7. ASSUME NEW i \in D, NEW j \in D, i < j
      PROVE  /\ <<s[i], s[j]>> \in R \/ s[i] = s[j]
             /\ \E k, m \in D : k # m /\ s[i] = seq[k] /\ s[j] = seq[m]
  <2>1. i \in 1..(j - 1)
    BY <1>1, <1>7
  <2>2. f[i] # f[j] /\ <<seq[f[j]], seq[f[i]]>> \notin R
    BY <2>1 DEF Arranges
  <2>3. s[i] = seq[f[i]] /\ s[j] = seq[f[j]] /\ f[i] \in D /\ f[j] \in D
    BY <1>1
  <2>4. seq[f[i]] \in E /\ seq[f[j]] \in E
    BY <1>1, <2>3
  <2>5. <<s[i], s[j]>> \in R \/ s[i] = s[j]
    BY <2>2, <2>3, <2>4 DEF Orders
  <2> QED
    BY <2>2, <2>3, <2>5
<1>8. \A i, j \in DOMAIN s : i < j => <<s[i], s[j]>> \in R \/ s[i] = s[j]
  BY <1>2, <1>7
<1>9. \A i, j \in DOMAIN s : i < j => \E k, m \in DOMAIN seq :
         k # m /\ s[i] = seq[k] /\ s[j] = seq[m]
  <2> SUFFICES ASSUME NEW i \in D, NEW j \in D, i < j
               PROVE  \E k, m \in D : k # m /\ s[i] = seq[k] /\ s[j] = seq[m]
    BY <1>2
  <2> QED
    BY <1>7
<1>10. Len(s) = Len(seq)
  BY <1>2
<1> HIDE DEF n, D
<1> QED
  BY <1>2, <1>6, <1>8, <1>9, <1>10

LEMMA EdgeOrderOrders ==
    ASSUME NEW n \in Nat
    PROVE  Orders({p \in Edge(n) \X Edge(n) : EdgeOrder(p[1], p[2])}, Edge(n))
<1> DEFINE R == {p \in Edge(n) \X Edge(n) : EdgeOrder(p[1], p[2])}
<1>1. \A e, g \in Edge(n) : <<e, g>> \in R <=> EdgeOrder(e, g)
  OBVIOUS
<1>2. \A e \in Edge(n) : e = [key |-> e.key, ty |-> e.ty] /\ e.key \in Nat /\ e.ty \in Nat
  BY DEF Edge
<1> HIDE DEF R
<1>3. \A e \in Edge(n) : <<e, e>> \notin R
  BY <1>1, <1>2 DEF EdgeOrder
<1>4. \A e, g, h \in Edge(n) : <<e, g>> \in R /\ <<g, h>> \in R => <<e, h>> \in R
  BY <1>1, <1>2 DEF EdgeOrder
<1>5. \A e, g \in Edge(n) : e # g => <<e, g>> \in R \/ <<g, e>> \in R
  BY <1>1, <1>2 DEF EdgeOrder
<1> QED
  BY <1>3, <1>4, <1>5 DEF Orders, R

Declaration(n) == [name : Nat, ty : 1..n]

LEMMA NameOrderOrders ==
    ASSUME NEW n \in Nat
    PROVE  Orders({p \in Declaration(n) \X Declaration(n) : NameOrder(p[1], p[2])},
                  Declaration(n))
<1> DEFINE R == {p \in Declaration(n) \X Declaration(n) : NameOrder(p[1], p[2])}
<1>1. \A e, g \in Declaration(n) : <<e, g>> \in R <=> NameOrder(e, g)
  OBVIOUS
<1>2. \A e \in Declaration(n) :
        e = [name |-> e.name, ty |-> e.ty] /\ e.name \in Nat /\ e.ty \in Nat
  BY DEF Declaration
<1> HIDE DEF R
<1>3. \A e \in Declaration(n) : <<e, e>> \notin R
  BY <1>1, <1>2 DEF NameOrder
<1>4. \A e, g, h \in Declaration(n) : <<e, g>> \in R /\ <<g, h>> \in R => <<e, h>> \in R
  BY <1>1, <1>2 DEF NameOrder
<1>5. \A e, g \in Declaration(n) : e # g => <<e, g>> \in R \/ <<g, e>> \in R
  BY <1>1, <1>2 DEF NameOrder
<1> QED
  BY <1>3, <1>4, <1>5 DEF Orders, R

\* Fields and methods come out in the order of their IDs, whatever the order
\* they were written in.
LEMMA SortedEdgesAre ==
    ASSUME NEW n \in Nat, NEW node, IsNode(node, n)
    PROVE  /\ SortedEdges(node) \in Seq(Edge(n))
           /\ Len(SortedEdges(node)) = Len(node.edges)
           /\ Range(SortedEdges(node)) = Range(node.edges)
           /\ \A i, j \in DOMAIN SortedEdges(node) :
                 i < j => SortedEdges(node)[i].key < SortedEdges(node)[j].key
           /\ node.kind \notin KeyedKinds => SortedEdges(node) = node.edges
<1> DEFINE seq == node.edges
           R == {p \in Edge(n) \X Edge(n) : EdgeOrder(p[1], p[2])}
<1>1. seq \in Seq(Edge(n))
  BY DEF IsNode, NodeShape
<1>2. CASE node.kind \notin KeyedKinds
  <2>1. SortedEdges(node) = seq
    BY <1>2 DEF SortedEdges
  <2>2. \A i \in DOMAIN seq : seq[i].key = i
    BY <1>2 DEF IsNode
  <2>3. \A i \in DOMAIN seq : i \in Nat
    BY <1>1
  <2> QED
    BY <1>1, <1>2, <2>1, <2>2, <2>3
<1>3. CASE node.kind \in KeyedKinds
  <2> DEFINE f == CHOOSE f \in [DOMAIN seq -> DOMAIN seq] :
                     \A j \in DOMAIN seq : \A i \in 1..(j - 1) :
                        f[i] # f[j] /\ ~EdgeOrder(seq[f[j]], seq[f[i]])
             s == SortedEdges(node)
  <2>1. s = [k \in DOMAIN seq |-> seq[f[k]]]
    BY <1>3 DEF SortedEdges, Sorted
  <2>2. ASSUME NEW g \in [DOMAIN seq -> DOMAIN seq]
        PROVE  Arranges(g, seq, R) <=>
                 \A j \in DOMAIN seq : \A i \in 1..(j - 1) :
                        g[i] # g[j] /\ ~EdgeOrder(seq[g[j]], seq[g[i]])
    <3>1. ASSUME NEW j \in DOMAIN seq, NEW i \in 1..(j - 1)
          PROVE  <<seq[g[j]], seq[g[i]]>> \in R <=> EdgeOrder(seq[g[j]], seq[g[i]])
      <4>1. i \in DOMAIN seq
        BY <1>1
      <4> QED
        BY <1>1, <4>1
    <3> HIDE DEF R, seq
    <3> QED
      BY <3>1 DEF Arranges
  <2>3. \E g \in [DOMAIN seq -> DOMAIN seq] : Arranges(g, seq, R)
    <3>1. Orders(R, Edge(n))
      BY EdgeOrderOrders
    <3>2. \E g : Arranges(g, seq, R)
      <4> HIDE DEF R, seq
      <4> QED
        BY <1>1, <3>1, ArrangementExists
    <3> QED
      BY <3>2 DEF Arranges
  <2>4. f \in [DOMAIN seq -> DOMAIN seq] /\ Arranges(f, seq, R)
    <3>1. \E g \in [DOMAIN seq -> DOMAIN seq] :
            \A j \in DOMAIN seq : \A i \in 1..(j - 1) :
               g[i] # g[j] /\ ~EdgeOrder(seq[g[j]], seq[g[i]])
      BY <2>2, <2>3
    <3>2. /\ f \in [DOMAIN seq -> DOMAIN seq]
          /\ \A j \in DOMAIN seq : \A i \in 1..(j - 1) :
               f[i] # f[j] /\ ~EdgeOrder(seq[f[j]], seq[f[i]])
      <4> HIDE DEF R, seq
      <4> QED
        BY <3>1
    <3> HIDE DEF f, R, seq
    <3> QED
      BY <2>2, <3>2
  <2> HIDE DEF f, s, seq
  <2>5. /\ s \in Seq(Edge(n)) /\ Len(s) = Len(seq) /\ Range(s) = Range(seq)
        /\ \A i, j \in DOMAIN s : i < j => <<s[i], s[j]>> \in R \/ s[i] = s[j]
        /\ \A i, j \in DOMAIN s : i < j => \E k, m \in DOMAIN seq :
              k # m /\ s[i] = seq[k] /\ s[j] = seq[m]
    <3>1. Orders(R, Edge(n))
      BY EdgeOrderOrders
    <3> HIDE DEF R
    <3> QED
      BY <1>1, <2>1, <2>4, <3>1, ArrangedIsSorted
  <2>6. \A i, j \in DOMAIN seq : seq[i].key = seq[j].key => i = j
    BY <1>3 DEF IsNode, seq
  <2>7. ASSUME NEW i \in DOMAIN s, NEW j \in DOMAIN s, i < j
        PROVE  s[i].key < s[j].key
    <3>1. PICK k \in DOMAIN seq, m \in DOMAIN seq : k # m /\ s[i] = seq[k] /\ s[j] = seq[m]
      BY <2>5, <2>7
    <3>2. s[i].key # s[j].key
      BY <2>6, <3>1
    <3>3. <<s[i], s[j]>> \in R
      BY <2>5, <2>7, <3>2
    <3>4. s[i] \in Edge(n) /\ s[j] \in Edge(n)
      BY <2>5
    <3>5. EdgeOrder(s[i], s[j])
      BY <3>3
    <3> QED
      BY <3>2, <3>4, <3>5 DEF EdgeOrder, Edge
  <2> QED
    BY <1>3, <2>5, <2>7 DEF s, seq
<1> QED
  BY <1>2, <1>3

Ascends(s) == \A i, j \in DOMAIN s : i < j => s[i] < s[j]

LEMMA AscendingPrefix ==
    ASSUME NEW s \in Seq(Nat), NEW t \in Seq(Nat), Ascends(s), Ascends(t),
           Range(s) = Range(t)
    PROVE  \A i \in 1..Len(s) : i <= Len(t) /\ s[i] = t[i]
<1> DEFINE Bad == {i \in 1..Len(s) : ~(i <= Len(t) /\ s[i] = t[i])}
<1>1. /\ Len(s) \in Nat /\ DOMAIN s = 1..Len(s) /\ \A i \in 1..Len(s) : s[i] \in Nat
      /\ Len(t) \in Nat /\ DOMAIN t = 1..Len(t) /\ \A i \in 1..Len(t) : t[i] \in Nat
  OBVIOUS
<1>a. \A i, j \in 1..Len(s) : i < j => s[i] < s[j]
  BY <1>1 DEF Ascends
<1>b. \A i, j \in 1..Len(t) : i < j => t[i] < t[j]
  BY <1>1 DEF Ascends
<1> SUFFICES ASSUME Bad # {} PROVE FALSE
  OBVIOUS
<1>2. PICK i \in Bad : \A k \in Bad : i <= k
  <2>1. Bad \subseteq Nat
    BY <1>1
  <2> HIDE DEF Bad
  <2> QED
    BY <2>1, LeastNumber
<1>3. i \in 1..Len(s) /\ ~(i <= Len(t) /\ s[i] = t[i])
  OBVIOUS
<1>4. \A j \in 1..Len(s) : j < i => j <= Len(t) /\ s[j] = t[j]
  <2> TAKE j \in 1..Len(s)
  <2> HAVE j < i
  <2>1. j \notin Bad
    <3> HIDE DEF Bad
    <3>1. ~(i <= j)
      BY <1>1, <1>3
    <3> QED
      BY <1>2, <3>1
  <2> QED
    BY <2>1
<1> HIDE DEF Bad
<1>5. PICK k \in 1..Len(t) : t[k] = s[i]
  BY <1>1, <1>3 DEF Range
<1>6. ~(k < i)
  <2> SUFFICES ASSUME k < i PROVE FALSE
    OBVIOUS
  <2>1. k \in 1..Len(s) /\ s[k] = t[k] /\ s[k] < s[i]
    BY <1>1, <1>3, <1>4, <1>5, <1>a
  <2> QED
    BY <1>1, <1>3, <1>5, <2>1
<1>7. i \in 1..Len(t)
  BY <1>1, <1>3, <1>6
<1>8. PICK m \in 1..Len(s) : s[m] = t[i]
  BY <1>1, <1>7 DEF Range
<1>9. ~(m < i)
  <2> SUFFICES ASSUME m < i PROVE FALSE
    OBVIOUS
  <2>1. m \in 1..Len(t) /\ s[m] = t[m] /\ t[m] < t[i]
    BY <1>1, <1>3, <1>4, <1>7, <1>8, <1>b
  <2> QED
    BY <1>1, <1>7, <1>8, <2>1
<1>10. t[i] <= t[k]
  BY <1>1, <1>3, <1>5, <1>6, <1>7, <1>b
<1>11. s[i] <= s[m]
  BY SMTT(30), <1>1, <1>3, <1>8, <1>9, <1>a
<1> QED
  BY <1>1, <1>3, <1>5, <1>7, <1>8, <1>10, <1>11

\* Two ascending lists of the same numbers are the same list.
LEMMA AscendingUnique ==
    ASSUME NEW s \in Seq(Nat), NEW t \in Seq(Nat), Ascends(s), Ascends(t),
           Range(s) = Range(t)
    PROVE  s = t
<1>1. \A i \in 1..Len(s) : i <= Len(t) /\ s[i] = t[i]
  BY AscendingPrefix
<1>2. \A i \in 1..Len(t) : i <= Len(s) /\ t[i] = s[i]
  BY AscendingPrefix
<1>3. Len(s) \in Nat /\ Len(t) \in Nat
  OBVIOUS
<1>4. Len(s) = Len(t)
  <2>1. Len(s) = 0 \/ Len(s) <= Len(t)
    BY <1>1, <1>3
  <2>2. Len(t) = 0 \/ Len(t) <= Len(s)
    BY <1>2, <1>3
  <2> QED
    BY <1>3, <2>1, <2>2
<1> QED
  BY <1>1, <1>4, SeqEqual

LEMMA EdgesTyped ==
    ASSUME NEW n, NEW s \in Seq(Edge(n))
    PROVE  /\ Len(s) \in Nat /\ DOMAIN s = 1..Len(s)
           /\ \A i \in DOMAIN s : i \in Nat /\ s[i] \in Edge(n)
                                 /\ s[i].key \in Nat /\ s[i].ty \in 1..n
<1>1. Len(s) \in Nat /\ DOMAIN s = 1..Len(s) /\ \A i \in DOMAIN s : s[i] \in Edge(n)
  OBVIOUS
<1>2. \A e \in Edge(n) : e.key \in Nat /\ e.ty \in 1..n
  BY DEF Edge
<1> QED
  BY <1>1, <1>2

LEMMA DeclarationsTyped ==
    ASSUME NEW n, NEW s \in Seq(Declaration(n))
    PROVE  /\ Len(s) \in Nat /\ DOMAIN s = 1..Len(s)
           /\ \A i \in DOMAIN s : i \in Nat /\ s[i] \in Declaration(n)
                                 /\ s[i].name \in Nat /\ s[i].ty \in 1..n
<1>1. Len(s) \in Nat /\ DOMAIN s = 1..Len(s) /\ \A i \in DOMAIN s : s[i] \in Declaration(n)
  OBVIOUS
<1>2. \A e \in Declaration(n) : e.name \in Nat /\ e.ty \in 1..n
  BY DEF Declaration
<1> QED
  BY <1>1, <1>2

\* The same IDs with the same targets, up to a renaming of these on either side.
SameRefs(n, a, p, m, b, q) ==
    /\ n \in Nat /\ m \in Nat /\ IsNode(a, n) /\ IsNode(b, m)
    /\ \A e \in Range(a.edges) : \E f \in Range(b.edges) :
          e.key = f.key /\ p[e.ty] = q[f.ty]
    /\ \A f \in Range(b.edges) : \E e \in Range(a.edges) : e.key = f.key

\* The sorted edges depend on what edges there are, not on their order.
LEMMA SameEdgesSorted ==
    ASSUME NEW n, NEW a, NEW p, NEW m, NEW b, NEW q, SameRefs(n, a, p, m, b, q)
    PROVE  /\ Len(SortedEdges(a)) = Len(SortedEdges(b))
           /\ \A i \in DOMAIN SortedEdges(a) :
                 /\ SortedEdges(a)[i].key = SortedEdges(b)[i].key
                 /\ p[SortedEdges(a)[i].ty] = q[SortedEdges(b)[i].ty]
<1>1. PICK s : s = SortedEdges(a)
  OBVIOUS
<1>2. PICK t : t = SortedEdges(b)
  OBVIOUS
<1>3. /\ s \in Seq(Edge(n)) /\ Range(s) = Range(a.edges)
      /\ \A i, j \in DOMAIN s : i < j => s[i].key < s[j].key
  BY <1>1, SortedEdgesAre DEF SameRefs
<1>4. /\ t \in Seq(Edge(m)) /\ Range(t) = Range(b.edges)
      /\ \A i, j \in DOMAIN t : i < j => t[i].key < t[j].key
  BY <1>2, SortedEdgesAre DEF SameRefs
<1> DEFINE ks == [i \in DOMAIN s |-> s[i].key]
           kt == [i \in DOMAIN t |-> t[i].key]
<1>6. ASSUME NEW i \in DOMAIN s
      PROVE  \E j \in DOMAIN t : s[i].key = t[j].key /\ p[s[i].ty] = q[t[j].ty]
  <2>1. s[i] \in Range(s)
    BY DEF Range
  <2>3. PICK e \in Range(t) : s[i].key = e.key /\ p[s[i].ty] = q[e.ty]
    BY <1>3, <1>4, <2>1 DEF SameRefs
  <2>4. PICK j \in DOMAIN t : e = t[j]
    BY DEF Range
  <2> QED
    BY <2>3, <2>4
<1>7. ASSUME NEW j \in DOMAIN t
      PROVE  \E i \in DOMAIN s : s[i].key = t[j].key
  <2>1. t[j] \in Range(t)
    BY DEF Range
  <2>3. PICK e \in Range(s) : t[j].key = e.key
    BY <1>3, <1>4, <2>1 DEF SameRefs
  <2>4. PICK i \in DOMAIN s : e = s[i]
    BY DEF Range
  <2> QED
    BY <2>3, <2>4
<1>8. ks \in Seq(Nat) /\ kt \in Seq(Nat) /\ DOMAIN ks = DOMAIN s /\ DOMAIN kt = DOMAIN t
      /\ Len(ks) = Len(s) /\ Len(kt) = Len(t)
  <2>1. /\ Len(s) \in Nat /\ DOMAIN s = 1..Len(s) /\ \A i \in DOMAIN s : s[i].key \in Nat
        /\ Len(t) \in Nat /\ DOMAIN t = 1..Len(t) /\ \A i \in DOMAIN t : t[i].key \in Nat
    BY <1>3, <1>4, EdgesTyped
  <2> QED
    BY <2>1
<1>9. Range(ks) = Range(kt)
  BY <1>6, <1>7 DEF Range
<1>10. Ascends(ks) /\ Ascends(kt)
  <2>1. \A i, j \in DOMAIN s : i < j => ks[i] < ks[j]
    BY <1>3
  <2>2. \A i, j \in DOMAIN t : i < j => kt[i] < kt[j]
    BY <1>4
  <2> HIDE DEF ks, kt
  <2> QED
    BY <1>8, <2>1, <2>2 DEF Ascends
<1>11. ks = kt
  <2> HIDE DEF ks, kt
  <2> QED
    BY <1>8, <1>9, <1>10, AscendingUnique
<1>12. Len(s) = Len(t) /\ DOMAIN s = DOMAIN t
  <2> HIDE DEF ks, kt
  <2> QED
    BY <1>8, <1>11
<1>13. ASSUME NEW i \in DOMAIN s
       PROVE  s[i].key = t[i].key /\ p[s[i].ty] = q[t[i].ty]
  <2>1. s[i].key = t[i].key
    <3>1. ks[i] = s[i].key /\ kt[i] = t[i].key
      BY <1>12
    <3> QED
      BY <1>11, <3>1
  <2>2. PICK j \in DOMAIN t : s[i].key = t[j].key /\ p[s[i].ty] = q[t[j].ty]
    BY <1>6
  <2>3. i \in DOMAIN t /\ t[i].key = t[j].key
    BY <1>12, <2>1, <2>2
  <2>4. t[i].key \in Nat /\ t[j].key \in Nat /\ i \in Nat /\ j \in Nat
    BY <1>4, <2>3, EdgesTyped
  <2>5. ~(i < j) /\ ~(j < i)
    BY <1>4, <2>3, <2>4
  <2>6. i = j
    BY <2>4, <2>5
  <2> QED
    BY <2>1, <2>2, <2>6
<1> QED
  BY <1>1, <1>2, <1>12, <1>13

\* Likewise the declarations, whose names are distinct.
LEMMA SortedDeclarationsAre ==
    ASSUME NEW n \in Nat, NEW seq \in Seq(Declaration(n)),
           \A i, j \in DOMAIN seq : seq[i].name = seq[j].name => i = j
    PROVE  /\ Sorted(seq, NameOrder) \in Seq(Declaration(n))
           /\ Len(Sorted(seq, NameOrder)) = Len(seq)
           /\ Range(Sorted(seq, NameOrder)) = Range(seq)
           /\ \A i, j \in DOMAIN Sorted(seq, NameOrder) :
                 i < j => Sorted(seq, NameOrder)[i].name < Sorted(seq, NameOrder)[j].name
<1> DEFINE E == Declaration(n)
           R == {p \in E \X E : NameOrder(p[1], p[2])}
           f == CHOOSE f \in [DOMAIN seq -> DOMAIN seq] :
                     \A j \in DOMAIN seq : \A i \in 1..(j - 1) :
                        f[i] # f[j] /\ ~NameOrder(seq[f[j]], seq[f[i]])
           s == Sorted(seq, NameOrder)
<1>1. s = [k \in DOMAIN seq |-> seq[f[k]]]
  BY DEF Sorted
<1>2. ASSUME NEW g \in [DOMAIN seq -> DOMAIN seq]
      PROVE  Arranges(g, seq, R) <=>
               \A j \in DOMAIN seq : \A i \in 1..(j - 1) :
                      g[i] # g[j] /\ ~NameOrder(seq[g[j]], seq[g[i]])
  <2>1. ASSUME NEW j \in DOMAIN seq, NEW i \in 1..(j - 1)
        PROVE  <<seq[g[j]], seq[g[i]]>> \in R <=> NameOrder(seq[g[j]], seq[g[i]])
    <3>1. i \in DOMAIN seq
      OBVIOUS
    <3> QED
      BY <3>1
  <2> HIDE DEF R
  <2> QED
    BY <2>1 DEF Arranges
<1>3. Orders(R, E)
  BY NameOrderOrders
<1>4. \E g \in [DOMAIN seq -> DOMAIN seq] : Arranges(g, seq, R)
  <2>1. \E g : Arranges(g, seq, R)
    <3> HIDE DEF R
    <3> QED
      BY <1>3, ArrangementExists
  <2> QED
    BY <2>1 DEF Arranges
<1>5. f \in [DOMAIN seq -> DOMAIN seq] /\ Arranges(f, seq, R)
  <2>1. \E g \in [DOMAIN seq -> DOMAIN seq] :
          \A j \in DOMAIN seq : \A i \in 1..(j - 1) :
             g[i] # g[j] /\ ~NameOrder(seq[g[j]], seq[g[i]])
    BY <1>2, <1>4
  <2>2. /\ f \in [DOMAIN seq -> DOMAIN seq]
        /\ \A j \in DOMAIN seq : \A i \in 1..(j - 1) :
             f[i] # f[j] /\ ~NameOrder(seq[f[j]], seq[f[i]])
    <3> HIDE DEF R, s
    <3> QED
      BY <2>1
  <2> HIDE DEF f, R
  <2> QED
    BY <1>2, <2>2
<1> HIDE DEF f, s
<1>6. /\ s \in Seq(E) /\ Len(s) = Len(seq) /\ Range(s) = Range(seq)
      /\ \A i, j \in DOMAIN s : i < j => <<s[i], s[j]>> \in R \/ s[i] = s[j]
      /\ \A i, j \in DOMAIN s : i < j => \E k, m \in DOMAIN seq :
            k # m /\ s[i] = seq[k] /\ s[j] = seq[m]
  <2> HIDE DEF R
  <2> QED
    BY <1>1, <1>3, <1>5, ArrangedIsSorted
<1>7. ASSUME NEW i \in DOMAIN s, NEW j \in DOMAIN s, i < j
      PROVE  s[i].name < s[j].name
  <2>1. PICK k \in DOMAIN seq, m \in DOMAIN seq : k # m /\ s[i] = seq[k] /\ s[j] = seq[m]
    BY <1>6, <1>7
  <2>2. s[i].name # s[j].name
    BY <2>1
  <2>3. <<s[i], s[j]>> \in R
    BY <1>6, <1>7, <2>2
  <2>4. s[i] \in E /\ s[j] \in E
    BY <1>6
  <2>5. NameOrder(s[i], s[j])
    BY <2>3
  <2> QED
    BY <2>2, <2>4, <2>5 DEF NameOrder, Declaration
<1> QED
  BY <1>6, <1>7 DEF s

\* So they are determined by the set of declarations.
LEMMA SameDeclarationsSorted ==
    ASSUME NEW n \in Nat, NEW s \in Seq(Declaration(n)), NEW t \in Seq(Declaration(n)),
           \A i, j \in DOMAIN s : i < j => s[i].name < s[j].name,
           \A i, j \in DOMAIN t : i < j => t[i].name < t[j].name,
           Range(s) = Range(t)
    PROVE  s = t
<1> DEFINE ks == [i \in DOMAIN s |-> s[i].name]
           kt == [i \in DOMAIN t |-> t[i].name]
<1>1. ks \in Seq(Nat) /\ kt \in Seq(Nat) /\ DOMAIN ks = DOMAIN s /\ DOMAIN kt = DOMAIN t
      /\ Len(ks) = Len(s) /\ Len(kt) = Len(t)
  <2>1. /\ Len(s) \in Nat /\ DOMAIN s = 1..Len(s) /\ \A i \in DOMAIN s : s[i].name \in Nat
        /\ Len(t) \in Nat /\ DOMAIN t = 1..Len(t) /\ \A i \in DOMAIN t : t[i].name \in Nat
    BY DeclarationsTyped
  <2> QED
    BY <2>1
<1>2. Range(ks) = Range(kt)
  <2>1. Range(ks) = {d.name : d \in Range(s)}
    BY DEF Range
  <2>2. Range(kt) = {d.name : d \in Range(t)}
    BY DEF Range
  <2> QED
    BY <2>1, <2>2
<1>3. Ascends(ks) /\ Ascends(kt)
  <2>1. \A i, j \in DOMAIN s : i < j => ks[i] < ks[j]
    OBVIOUS
  <2>2. \A i, j \in DOMAIN t : i < j => kt[i] < kt[j]
    OBVIOUS
  <2> HIDE DEF ks, kt
  <2> QED
    BY <1>1, <2>1, <2>2 DEF Ascends
<1>4. ks = kt
  <2> HIDE DEF ks, kt
  <2> QED
    BY <1>1, <1>2, <1>3, AscendingUnique
<1>5. Len(s) = Len(t) /\ DOMAIN s = DOMAIN t
  <2> HIDE DEF ks, kt
  <2> QED
    BY <1>1, <1>4
<1>6. ASSUME NEW i \in 1..Len(s)
      PROVE  s[i] = t[i]
  <2>1. i \in DOMAIN s /\ i \in DOMAIN t
    BY <1>5
  <2>2. s[i].name = t[i].name
    <3>1. ks[i] = s[i].name /\ kt[i] = t[i].name
      BY <2>1
    <3> QED
      BY <1>4, <3>1
  <2>3. PICK j \in DOMAIN t : t[j] = s[i]
    BY <2>1 DEF Range
  <2>4. t[i].name \in Nat /\ t[j].name \in Nat /\ i \in Nat /\ j \in Nat
    BY <2>1, DeclarationsTyped
  <2>5. ~(i < j) /\ ~(j < i)
    BY <2>1, <2>2, <2>3, <2>4
  <2>6. i = j
    BY <2>4, <2>5
  <2> QED
    BY <2>3, <2>6
<1> QED
  BY <1>5, <1>6, SeqEqual

-----------------------------------------------------------------------------
\* Signatures.

Joins(w, S, s, t) ==
    /\ w \in Seq(S) /\ Len(w) = Len(s) + Len(t)
    /\ Len(s) \in Nat /\ Len(t) \in Nat /\ Len(w) \in Nat
    /\ \A i \in 1..Len(s) : w[i] = s[i]
    /\ \A i \in 1..Len(t) : w[Len(s) + i] = t[i]

LEMMA Concatenated ==
    ASSUME NEW S, NEW s \in Seq(S), NEW t \in Seq(S)
    PROVE  Joins(s \o t, S, s, t)
<1>1. Len(s) \in Nat /\ Len(t) \in Nat
  OBVIOUS
<1>2. s \o t \in Seq(S) /\ Len(s \o t) = Len(s) + Len(t)
  OBVIOUS
<1>3. \A i \in 1..Len(s) : (s \o t)[i] = s[i]
  OBVIOUS
<1>4. \A i \in 1..Len(t) : (s \o t)[Len(s) + i] = t[i]
  <2> SUFFICES ASSUME NEW i \in 1..Len(t) PROVE (s \o t)[Len(s) + i] = t[i]
    OBVIOUS
  <2>1. Len(s) + i \in 1..(Len(s) + Len(t)) /\ ~(Len(s) + i <= Len(s)) /\ Len(s) + i - Len(s) = i
    BY <1>1
  <2> QED
    BY <1>1, <2>1
<1> QED
  BY <1>1, <1>2, <1>3, <1>4 DEF Joins

LEMMA KindTagTells ==
    ASSUME NEW k \in Range(Kinds), NEW l \in Range(Kinds)
    PROVE  KindTag(k) \in Nat /\ (KindTag(k) = KindTag(l) => k = l)
<1>1. DOMAIN Kinds = 1..8
  BY DEF Kinds
<1>2. ASSUME NEW x \in Range(Kinds)
      PROVE  \E i \in 1..8 : KindTag(x) = i - 1 /\ Kinds[i] = x
  <2>1. \E i \in DOMAIN Kinds : Kinds[i] = x
    BY DEF Range
  <2>2. PICK i : i = CHOOSE j \in DOMAIN Kinds : Kinds[j] = x
    OBVIOUS
  <2>3. i \in DOMAIN Kinds /\ Kinds[i] = x
    BY <2>1, <2>2
  <2> QED
    BY <1>1, <2>2, <2>3 DEF KindTag
<1>3. PICK i \in 1..8 : KindTag(k) = i - 1 /\ Kinds[i] = k
  BY <1>2
<1>4. PICK j \in 1..8 : KindTag(l) = j - 1 /\ Kinds[j] = l
  BY <1>2
<1>5. KindTag(k) \in Nat
  BY <1>3
<1>6. KindTag(k) = KindTag(l) => i = j
  <2>1. i \in Int /\ j \in Int
    OBVIOUS
  <2> QED
    BY <1>3, <1>4, <2>1
<1> QED
  BY <1>3, <1>4, <1>5, <1>6

LEMMA NodeTyped ==
    ASSUME NEW n \in Nat, NEW node, IsNode(node, n)
    PROVE  /\ node.kind \in Range(Kinds) /\ KindTag(node.kind) \in Nat
           /\ node.detail \in Seq(Nat) /\ Len(node.detail) = DetailLength(node.kind)
           /\ DetailLength(node.kind) \in Nat
           /\ node.edges \in Seq(Edge(n)) /\ Len(node.edges) \in Nat
           /\ node = [kind |-> node.kind, detail |-> node.detail, edges |-> node.edges]
<1>1. node \in NodeShape(n) /\ Len(node.detail) = DetailLength(node.kind)
  BY DEF IsNode
<1>2. /\ node.kind \in Range(Kinds) /\ node.detail \in Seq(Nat) /\ node.edges \in Seq(Edge(n))
      /\ node = [kind |-> node.kind, detail |-> node.detail, edges |-> node.edges]
  BY <1>1 DEF NodeShape
<1>3. KindTag(node.kind) \in Nat
  BY <1>2, KindTagTells
<1>4. Len(node.edges) \in Nat
  BY <1>2
<1>5. DetailLength(node.kind) \in Nat
  BY DEF DetailLength
<1> QED
  BY <1>1, <1>2, <1>3, <1>4, <1>5

KeysLength(node) == IF node.kind \in KeyedKinds THEN Len(node.edges) ELSE 0

\* Where a local signature holds what.
LEMMA LocalShape ==
    ASSUME NEW n \in Nat, NEW node, IsNode(node, n)
    PROVE  LET sig == LocalSignature(node)
               dl == DetailLength(node.kind)
           IN  /\ sig \in Seq(Nat) /\ Len(sig) \in Nat
               /\ Len(sig) = 2 + dl + KeysLength(node)
               /\ sig[1] = KindTag(node.kind)
               /\ \A i \in 1..dl : sig[1 + i] = node.detail[i]
               /\ sig[2 + dl] = Len(node.edges)
               /\ \A i \in 1..KeysLength(node) : sig[2 + dl + i] = SortedEdges(node)[i].key
<1> DEFINE edges == SortedEdges(node)
           dl == DetailLength(node.kind)
           kl == KeysLength(node)
           keys == IF node.kind \in KeyedKinds
                   THEN [i \in DOMAIN edges |-> edges[i].key] ELSE << >>
           tag == <<KindTag(node.kind)>>
           len == <<Len(edges)>>
           det == node.detail
           sig == LocalSignature(node)
<1>1. /\ tag \in Seq(Nat) /\ Len(tag) = 1 /\ tag[1] = KindTag(node.kind)
      /\ det \in Seq(Nat) /\ Len(det) = dl /\ dl \in Nat
      /\ Len(node.edges) \in Nat
  BY NodeTyped
<1>2. /\ edges \in Seq(Edge(n)) /\ Len(edges) = Len(node.edges) /\ DOMAIN edges = 1..Len(edges)
      /\ \A i \in DOMAIN edges : edges[i].key \in Nat
  <2>1. edges \in Seq(Edge(n)) /\ Len(edges) = Len(node.edges)
    BY SortedEdgesAre
  <2> HIDE DEF edges
  <2> QED
    BY <2>1, EdgesTyped
<1>3. len \in Seq(Nat) /\ Len(len) = 1 /\ len[1] = Len(node.edges)
  BY <1>1, <1>2
<1>4. /\ keys \in Seq(Nat) /\ Len(keys) = kl /\ kl \in Nat
      /\ \A i \in 1..kl : keys[i] = edges[i].key
  <2> HIDE DEF edges
  <2>1. CASE node.kind \in KeyedKinds
    <3>1. keys = [i \in 1..Len(edges) |-> edges[i].key]
      BY <1>2, <2>1
    <3>2. kl = Len(edges)
      BY <1>2, <2>1 DEF KeysLength
    <3> HIDE DEF keys, kl
    <3> QED
      BY SMTT(30), <1>1, <1>2, <3>1, <3>2
  <2>2. CASE node.kind \notin KeyedKinds
    <3>1. keys = << >> /\ kl = 0
      BY <2>2 DEF KeysLength
    <3> HIDE DEF keys, kl
    <3> QED
      BY <3>1
  <2> QED
    BY <2>1, <2>2
<1>5. sig = tag \o det \o len \o keys
  BY DEF LocalSignature
<1> HIDE DEF tag, det, len, keys, sig, dl, kl, edges
<1>6. /\ tag \o det \in Seq(Nat) /\ Len(tag \o det) = 1 + dl
      /\ (tag \o det)[1] = tag[1]
      /\ \A i \in 1..dl : (tag \o det)[1 + i] = det[i]
  <2>1. Joins(tag \o det, Nat, tag, det)
    BY <1>1, Concatenated
  <2> QED
    BY <1>1, <2>1 DEF Joins
<1> DEFINE td == tag \o det
<1>7. /\ td \in Seq(Nat) /\ Len(td) = 1 + dl /\ td[1] = tag[1]
      /\ \A i \in 1..dl : td[1 + i] = det[i]
  BY <1>6
<1>8. sig = td \o len \o keys
  BY <1>5
<1> HIDE DEF td
<1> DEFINE tdl == td \o len
<1>9. /\ tdl \in Seq(Nat) /\ Len(tdl) = 2 + dl
      /\ \A i \in 1..(1 + dl) : tdl[i] = td[i]
      /\ \A i \in 1..1 : tdl[1 + dl + i] = len[i]
  <2>1. Joins(tdl, Nat, td, len)
    BY <1>3, <1>7, Concatenated
  <2> HIDE DEF tdl
  <2> QED
    BY <1>1, <1>3, <1>7, <2>1 DEF Joins
<1>10. sig = tdl \o keys
  BY <1>8
<1> HIDE DEF tdl
<1>11. /\ sig \in Seq(Nat) /\ Len(sig) = 2 + dl + kl /\ Len(sig) \in Nat
       /\ \A i \in 1..(2 + dl) : sig[i] = tdl[i]
       /\ \A i \in 1..kl : sig[2 + dl + i] = keys[i]
  <2>1. Joins(sig, Nat, tdl, keys)
    BY <1>4, <1>9, <1>10, Concatenated
  <2> QED
    BY <1>1, <1>4, <1>9, <2>1 DEF Joins
<1>12. sig[1] = tag[1]
  <2>1. 1 \in 1..(2 + dl) /\ 1 \in 1..(1 + dl)
    BY <1>1
  <2> QED
    BY <1>7, <1>9, <1>11, <2>1
<1>13. \A i \in 1..dl : sig[1 + i] = det[i]
  <2> SUFFICES ASSUME NEW i \in 1..dl PROVE sig[1 + i] = det[i]
    OBVIOUS
  <2>1. 1 + i \in 1..(2 + dl) /\ 1 + i \in 1..(1 + dl)
    BY <1>1
  <2> QED
    BY <1>7, <1>9, <1>11, <2>1
<1>14. sig[2 + dl] = len[1]
  <2>1. 2 + dl \in 1..(2 + dl) /\ 1 \in 1..1 /\ 2 + dl = 1 + dl + 1
    BY <1>1
  <2> QED
    BY <1>9, <1>11, <2>1
<1> QED
  BY <1>1, <1>3, <1>4, <1>11, <1>12, <1>13, <1>14 DEF det, sig, dl, kl, edges

\* What two local signatures being the same says of their nodes.
SameShape(a, b) ==
    /\ a.kind = b.kind /\ a.detail = b.detail /\ Len(a.edges) = Len(b.edges)
    /\ \A i \in 1..Len(a.edges) : SortedEdges(a)[i].key = SortedEdges(b)[i].key

Begins(w, s) == \A i \in 1..Len(w) : s[i] = w[i]

LEMMA SameHead ==
    ASSUME NEW n \in Nat, NEW m \in Nat, NEW a, NEW b, IsNode(a, n), IsNode(b, m),
           NEW s, Begins(LocalSignature(a), s), Begins(LocalSignature(b), s)
    PROVE  SameShape(a, b) /\ Len(LocalSignature(a)) = Len(LocalSignature(b))
<1> DEFINE da == DetailLength(a.kind)
           db == DetailLength(b.kind)
<1>1. PICK sa : sa = LocalSignature(a)
  OBVIOUS
<1>2. PICK sb : sb = LocalSignature(b)
  OBVIOUS
<1>3. /\ Len(sa) = 2 + da + KeysLength(a) /\ sa[1] = KindTag(a.kind)
      /\ \A i \in 1..da : sa[1 + i] = a.detail[i]
      /\ sa[2 + da] = Len(a.edges)
      /\ \A i \in 1..KeysLength(a) : sa[2 + da + i] = SortedEdges(a)[i].key
  BY <1>1, LocalShape
<1>4. /\ Len(sb) = 2 + db + KeysLength(b) /\ sb[1] = KindTag(b.kind)
      /\ \A i \in 1..db : sb[1 + i] = b.detail[i]
      /\ sb[2 + db] = Len(b.edges)
      /\ \A i \in 1..KeysLength(b) : sb[2 + db + i] = SortedEdges(b)[i].key
  BY <1>2, LocalShape
<1>5. /\ da \in Nat /\ db \in Nat /\ KeysLength(a) \in Nat /\ KeysLength(b) \in Nat
      /\ a.kind \in Range(Kinds) /\ b.kind \in Range(Kinds)
      /\ a.detail \in Seq(Nat) /\ b.detail \in Seq(Nat)
      /\ Len(a.detail) = da /\ Len(b.detail) = db
      /\ Len(a.edges) \in Nat
  BY NodeTyped DEF KeysLength
<1>6. /\ \A i \in 1..Len(sa) : s[i] = sa[i]
      /\ \A i \in 1..Len(sb) : s[i] = sb[i]
  BY <1>1, <1>2 DEF Begins
<1> HIDE DEF da, db
<1>7. a.kind = b.kind
  <2>1. 1 \in 1..Len(sa) /\ 1 \in 1..Len(sb)
    BY <1>3, <1>4, <1>5
  <2>2. KindTag(a.kind) = KindTag(b.kind)
    BY <1>3, <1>4, <1>6, <2>1
  <2> QED
    BY <1>5, <2>2, KindTagTells
<1>8. da = db
  BY <1>7 DEF da, db
<1>9. Len(a.edges) = Len(b.edges)
  <2>1. 2 + da \in 1..Len(sa) /\ 2 + da \in 1..Len(sb)
    BY <1>3, <1>4, <1>5, <1>8
  <2> QED
    BY <1>3, <1>4, <1>6, <1>8, <2>1
<1>10. KeysLength(a) = KeysLength(b)
  BY <1>7, <1>9 DEF KeysLength
<1>11. Len(sa) = Len(sb)
  BY <1>3, <1>4, <1>8, <1>10
<1>12. a.detail = b.detail
  <2>1. ASSUME NEW i \in 1..da
        PROVE  a.detail[i] = b.detail[i]
    <3>1. i \in 1..db
      BY <1>8
    <3>2. 1 + i \in 1..(2 + da + KeysLength(a)) /\ 1 + i \in 1..(2 + db + KeysLength(b))
      BY <1>5, <3>1
    <3> QED
      BY <1>3, <1>4, <1>6, <3>1, <3>2
  <2> QED
    BY <1>5, <1>8, <2>1, SeqEqual
<1>13. ASSUME NEW i \in 1..Len(a.edges)
       PROVE  SortedEdges(a)[i].key = SortedEdges(b)[i].key
  <2>1. CASE a.kind \in KeyedKinds
    <3>1. i \in 1..KeysLength(a) /\ i \in 1..KeysLength(b)
      BY <1>10, <2>1 DEF KeysLength
    <3>2. 2 + da + i \in 1..Len(sa) /\ 2 + da + i \in 1..Len(sb)
      BY SMTT(30), <1>3, <1>4, <1>5, <1>8, <3>1
    <3> QED
      BY <1>3, <1>4, <1>6, <1>8, <3>1, <3>2
  <2>2. CASE a.kind \notin KeyedKinds
    <3>1. SortedEdges(a) = a.edges /\ SortedEdges(b) = b.edges
      BY <1>7, <2>2, SortedEdgesAre
    <3>2. a.edges \in Seq(Edge(n)) /\ b.edges \in Seq(Edge(m))
      BY NodeTyped
    <3>3. i \in DOMAIN a.edges /\ i \in DOMAIN b.edges
      BY <1>9, <3>2
    <3> QED
      BY <1>7, <2>2, <3>1, <3>3 DEF IsNode
  <2> QED
    BY <2>1, <2>2
<1> QED
  BY <1>1, <1>2, <1>7, <1>9, <1>11, <1>12, <1>13 DEF SameShape

LEMMA SameShapeSigns ==
    ASSUME NEW n \in Nat, NEW m \in Nat, NEW a, NEW b, IsNode(a, n), IsNode(b, m)
    PROVE  LocalSignature(a) = LocalSignature(b) <=> SameShape(a, b)
<1>1. LocalSignature(a) = LocalSignature(b) => SameShape(a, b)
  <2>1. Begins(LocalSignature(a), LocalSignature(a))
    BY DEF Begins
  <2> QED
    BY <2>1, SameHead
<1>2. ASSUME SameShape(a, b)
      PROVE  LocalSignature(a) = LocalSignature(b)
  <2>1. PICK s : s = SortedEdges(a)
    OBVIOUS
  <2>2. PICK t : t = SortedEdges(b)
    OBVIOUS
  <2>3. /\ s \in Seq(Edge(n)) /\ t \in Seq(Edge(m)) /\ Len(s) = Len(t)
        /\ Len(s) = Len(a.edges)
    BY <1>2, <2>1, <2>2, SortedEdgesAre DEF SameShape
  <2>4. DOMAIN s = DOMAIN t /\ DOMAIN s = 1..Len(a.edges)
    <3>1. DOMAIN s = 1..Len(s) /\ DOMAIN t = 1..Len(t)
      BY <2>3, LenProperties
    <3> QED
      BY <2>3, <3>1
  <2>5. [i \in DOMAIN s |-> s[i].key] = [i \in DOMAIN t |-> t[i].key]
    BY <1>2, <2>1, <2>2, <2>4 DEF SameShape
  <2> QED
    BY <1>2, <2>1, <2>2, <2>3, <2>5 DEF LocalSignature, SameShape
<1> QED
  BY <1>1, <1>2

LEMMA ChildrenAre ==
    ASSUME NEW n \in Nat, NEW node, IsNode(node, n)
    PROVE  /\ SortedChildren(node) \in Seq(1..n)
           /\ Len(SortedChildren(node)) = Len(node.edges) /\ Len(node.edges) \in Nat
           /\ DOMAIN SortedChildren(node) = 1..Len(node.edges)
           /\ \A i \in 1..Len(node.edges) :
                 /\ i \in Nat
                 /\ SortedChildren(node)[i] = SortedEdges(node)[i].ty
                 /\ SortedChildren(node)[i] \in 1..n
                 /\ SortedEdges(node)[i].key \in Nat
<1>1. PICK s : s = SortedEdges(node)
  OBVIOUS
<1>2. s \in Seq(Edge(n)) /\ Len(s) = Len(node.edges)
  BY <1>1, SortedEdgesAre
<1>3. /\ Len(s) \in Nat /\ DOMAIN s = 1..Len(s)
      /\ \A i \in DOMAIN s : i \in Nat /\ s[i].key \in Nat /\ s[i].ty \in 1..n
  BY <1>2, EdgesTyped
<1>4. SortedChildren(node) = [i \in 1..Len(s) |-> s[i].ty]
  BY <1>1, <1>3 DEF SortedChildren
<1>5. SortedChildren(node) \in Seq(1..n) /\ Len(SortedChildren(node)) = Len(s)
  BY <1>3, <1>4
<1> QED
  BY <1>1, <1>2, <1>3, <1>4, <1>5

NatValued(f, n) == \A i \in 1..n : f[i] \in Nat

LEMMA RefinedTyped ==
    ASSUME NEW n \in Nat, NEW a, IsNode(a, n), NEW f, NatValued(f, n), NEW x \in Nat
    PROVE  RefinedSignature(a, x, f) \in Seq(Nat)
<1>1. PICK ka : ka = SortedChildren(a)
  OBVIOUS
<1>2. PICK la : la = LocalSignature(a)
  OBVIOUS
<1>3. Len(a.edges) \in Nat /\ DOMAIN ka = 1..Len(a.edges) /\ \A i \in DOMAIN ka : ka[i] \in 1..n
  BY <1>1, ChildrenAre
<1>4. la \in Seq(Nat)
  BY <1>2, LocalShape
<1> DEFINE ca == [i \in 1..Len(a.edges) |-> f[ka[i]]]
<1>5. ca \in Seq(Nat)
  BY <1>3 DEF NatValued
<1>6. RefinedSignature(a, x, f) = la \o <<x>> \o ca
  BY <1>1, <1>2, <1>3 DEF RefinedSignature
<1> HIDE DEF ca
<1> QED
  BY <1>4, <1>5, <1>6

SameTargets(a, f, b, g) ==
    \A i \in 1..Len(a.edges) : f[SortedChildren(a)[i]] = g[SortedChildren(b)[i]]

\* A refined signature tells the local one, the own class and the children's.
Signs(n, a, f, x) == n \in Nat /\ IsNode(a, n) /\ NatValued(f, n) /\ x \in Nat

LEMMA RefinedTells ==
    ASSUME NEW n, NEW a, NEW f, NEW x, Signs(n, a, f, x),
           NEW m, NEW b, NEW g, NEW y, Signs(m, b, g, y)
    PROVE  RefinedSignature(a, x, f) = RefinedSignature(b, y, g) <=>
              /\ LocalSignature(a) = LocalSignature(b)
              /\ x = y
              /\ SameTargets(a, f, b, g)
<1> DEFINE ka == SortedChildren(a)
           kb == SortedChildren(b)
           ca == [i \in DOMAIN ka |-> f[ka[i]]]
           cb == [i \in DOMAIN kb |-> g[kb[i]]]
           la == LocalSignature(a)
           lb == LocalSignature(b)
           sa == RefinedSignature(a, x, f)
           sb == RefinedSignature(b, y, g)
           na == Len(a.edges)
           nb == Len(b.edges)
           ha == la \o <<x>>
           hb == lb \o <<y>>
<1>0. /\ n \in Nat /\ IsNode(a, n) /\ (\A i \in 1..n : f[i] \in Nat) /\ x \in Nat
      /\ m \in Nat /\ IsNode(b, m) /\ (\A i \in 1..m : g[i] \in Nat) /\ y \in Nat
  BY DEF Signs, NatValued
<1>1. /\ na \in Nat /\ DOMAIN ka = 1..na /\ \A i \in 1..na : ka[i] \in 1..n
      /\ nb \in Nat /\ DOMAIN kb = 1..nb /\ \A i \in 1..nb : kb[i] \in 1..m
  BY <1>0, ChildrenAre
<1>2. la \in Seq(Nat) /\ lb \in Seq(Nat)
  BY <1>0, LocalShape
<1>3. sa = ha \o ca /\ sb = hb \o cb
  BY DEF RefinedSignature
<1>4. la = lb => na = nb
  BY <1>0, SameShapeSigns DEF SameShape
<1> HIDE DEF ka, kb, la, lb, sa, sb, na, nb
<1>5. /\ ca \in Seq(Nat) /\ Len(ca) = na /\ \A i \in 1..na : ca[i] = f[ka[i]]
      /\ cb \in Seq(Nat) /\ Len(cb) = nb /\ \A i \in 1..nb : cb[i] = g[kb[i]]
  <2>1. ca = [i \in 1..na |-> f[ka[i]]] /\ cb = [i \in 1..nb |-> g[kb[i]]]
    BY <1>1
  <2> HIDE DEF ca, cb
  <2> QED
    BY <1>0, <1>1, <2>1
<1>6. /\ <<x>> \in Seq(Nat) /\ Len(<<x>>) = 1 /\ <<x>>[1] = x
      /\ <<y>> \in Seq(Nat) /\ Len(<<y>>) = 1 /\ <<y>>[1] = y
  BY <1>0
<1> HIDE DEF ca, cb
<1>7. Joins(ha, Nat, la, <<x>>) /\ Joins(hb, Nat, lb, <<y>>)
  BY <1>2, <1>6, Concatenated
<1>8. ha \in Seq(Nat) /\ hb \in Seq(Nat)
  BY <1>7 DEF Joins
<1> HIDE DEF ha, hb
<1>9. Joins(sa, Nat, ha, ca) /\ Joins(sb, Nat, hb, cb)
  BY <1>3, <1>5, <1>8, Concatenated
<1>10. /\ Len(la) \in Nat /\ Len(ha) = Len(la) + 1
       /\ \A i \in 1..Len(la) : ha[i] = la[i]
       /\ ha[Len(la) + 1] = x
       /\ Len(lb) \in Nat /\ Len(hb) = Len(lb) + 1
       /\ \A i \in 1..Len(lb) : hb[i] = lb[i]
       /\ hb[Len(lb) + 1] = y
  <2>1. 1 \in 1..Len(<<x>>) /\ 1 \in 1..Len(<<y>>)
    BY <1>6
  <2>2. /\ Len(la) \in Nat /\ Len(ha) = Len(la) + Len(<<x>>)
        /\ \A i \in 1..Len(la) : ha[i] = la[i]
        /\ ha[Len(la) + 1] = <<x>>[1]
    BY <1>7, <2>1 DEF Joins
  <2>3. /\ Len(lb) \in Nat /\ Len(hb) = Len(lb) + Len(<<y>>)
        /\ \A i \in 1..Len(lb) : hb[i] = lb[i]
        /\ hb[Len(lb) + 1] = <<y>>[1]
    BY <1>7, <2>1 DEF Joins
  <2> QED
    BY <1>6, <2>2, <2>3
<1>11. /\ sa \in Seq(Nat) /\ Len(sa) = Len(la) + 1 + na
       /\ \A i \in 1..Len(la) : sa[i] = la[i]
       /\ sa[Len(la) + 1] = x
       /\ \A i \in 1..na : sa[Len(la) + 1 + i] = ca[i]
  <2>1. /\ sa \in Seq(Nat) /\ Len(sa) = Len(ha) + Len(ca)
        /\ \A i \in 1..Len(ha) : sa[i] = ha[i]
        /\ \A i \in 1..Len(ca) : sa[Len(ha) + i] = ca[i]
    BY <1>9 DEF Joins
  <2>2. \A i \in 1..Len(la) : i \in 1..Len(ha)
    BY <1>10
  <2>3. Len(la) + 1 \in 1..Len(ha)
    BY <1>10
  <2> QED
    BY <1>5, <1>10, <2>1, <2>2, <2>3
<1>12. /\ sb \in Seq(Nat) /\ Len(sb) = Len(lb) + 1 + nb
       /\ \A i \in 1..Len(lb) : sb[i] = lb[i]
       /\ sb[Len(lb) + 1] = y
       /\ \A i \in 1..nb : sb[Len(lb) + 1 + i] = cb[i]
  <2>1. /\ sb \in Seq(Nat) /\ Len(sb) = Len(hb) + Len(cb)
        /\ \A i \in 1..Len(hb) : sb[i] = hb[i]
        /\ \A i \in 1..Len(cb) : sb[Len(hb) + i] = cb[i]
    BY <1>9 DEF Joins
  <2>2. \A i \in 1..Len(lb) : i \in 1..Len(hb)
    BY <1>10
  <2>3. Len(lb) + 1 \in 1..Len(hb)
    BY <1>10
  <2> QED
    BY <1>5, <1>10, <2>1, <2>2, <2>3
<1>13. ASSUME sa = sb
       PROVE  la = lb /\ x = y /\ \A i \in 1..na : f[ka[i]] = g[kb[i]]
  <2>1. SameShape(a, b) /\ Len(la) = Len(lb)
    <3>1. Begins(LocalSignature(a), sa)
      BY <1>11 DEF la, Begins
    <3>2. Begins(LocalSignature(b), sa)
      BY <1>12, <1>13 DEF lb, Begins
    <3>3. SameShape(a, b) /\ Len(LocalSignature(a)) = Len(LocalSignature(b))
      BY <1>0, <3>1, <3>2, SameHead
    <3> QED
      BY <3>3 DEF la, lb
  <2>2. la = lb
    BY <1>0, <2>1, SameShapeSigns DEF la, lb
  <2>3. na = nb
    BY <1>4, <2>2
  <2>4. x = y
    BY <1>11, <1>12, <1>13, <2>1
  <2>5. ASSUME NEW i \in 1..na PROVE f[ka[i]] = g[kb[i]]
    <3>1. sa[Len(la) + 1 + i] = ca[i] /\ sa[Len(la) + 1 + i] = cb[i]
      BY <1>11, <1>12, <1>13, <2>1, <2>3
    <3> QED
      BY <1>5, <2>3, <3>1
  <2> QED
    BY <2>2, <2>4, <2>5
<1>14. ASSUME la = lb, x = y, \A i \in 1..na : f[ka[i]] = g[kb[i]]
       PROVE  sa = sb
  <2>1. na = nb
    BY <1>4, <1>14
  <2>2. ca = cb
    <3>1. DOMAIN ka = DOMAIN kb /\ \A i \in DOMAIN ka : f[ka[i]] = g[kb[i]]
      BY <1>1, <1>14, <2>1
    <3> QED
      BY <3>1 DEF ca, cb
  <2>3. ha = hb
    BY <1>14 DEF ha, hb
  <2> QED
    BY <1>3, <2>2, <2>3
<1>15. sa = sb <=> la = lb /\ x = y /\ \A i \in 1..na : f[ka[i]] = g[kb[i]]
  BY <1>13, <1>14
<1> QED
  BY <1>15 DEF sa, sb, la, lb, na, ka, kb, SameTargets

-----------------------------------------------------------------------------
\* Byte order of signatures, and the ranks in it.

\* Where two signatures first differ, if one is not the start of the other.
LEMMA BeforeOrders == 
    Orders({p \in Seq(Nat) \X Seq(Nat) : Before(p[1], p[2])}, Seq(Nat))
<1> DEFINE R == {p \in Seq(Nat) \X Seq(Nat) : Before(p[1], p[2])}
<1>1. \A s, t : <<s, t>> \in R <=> s \in Seq(Nat) /\ t \in Seq(Nat) /\ Before(s, t)
  OBVIOUS
<1> HIDE DEF R
<1>2. ASSUME NEW s \in Seq(Nat) PROVE ~Before(s, s)
  <2>1. Len(s) \in Nat /\ \A i \in 1..Len(s) : s[i] \in Nat
    OBVIOUS
  <2> QED
    BY <2>1 DEF Before
<1>3. ASSUME NEW s \in Seq(Nat), NEW t \in Seq(Nat), NEW u \in Seq(Nat),
             Before(s, t), Before(t, u)
      PROVE  Before(s, u)
  <2>1. /\ Len(s) \in Nat /\ \A i \in 1..Len(s) : s[i] \in Nat
        /\ Len(t) \in Nat /\ \A i \in 1..Len(t) : t[i] \in Nat
        /\ Len(u) \in Nat /\ \A i \in 1..Len(u) : u[i] \in Nat
    OBVIOUS
  <2>2. PICK i \in 1..Len(t) : /\ \A j \in 1..(i - 1) : j <= Len(s) /\ s[j] = t[j]
                               /\ i = Len(s) + 1 \/ (i <= Len(s) /\ s[i] < t[i])
    BY <1>3 DEF Before
  <2>3. PICK k \in 1..Len(u) : /\ \A j \in 1..(k - 1) : j <= Len(t) /\ t[j] = u[j]
                               /\ k = Len(t) + 1 \/ (k <= Len(t) /\ t[k] < u[k])
    BY <1>3 DEF Before
  <2>4. CASE i <= k
    <3>1. i \in 1..Len(u)
      BY <2>1, <2>4
    <3>2. \A j \in 1..(i - 1) : j <= Len(s) /\ s[j] = u[j]
      <4> SUFFICES ASSUME NEW j \in 1..(i - 1) PROVE j <= Len(s) /\ s[j] = u[j]
        OBVIOUS
      <4>1. j \in 1..(k - 1)
        BY <2>1, <2>4
      <4> QED
        BY <2>2, <2>3, <4>1
    <3>3. i <= Len(s) => s[i] < u[i]
      <4> SUFFICES ASSUME i <= Len(s) PROVE s[i] < u[i]
        OBVIOUS
      <4>1. s[i] < t[i] /\ s[i] \in Nat /\ t[i] \in Nat /\ u[i] \in Nat
        BY <2>1, <2>2, <3>1
      <4>2. t[i] = u[i] \/ t[i] < u[i]
        BY SMTT(30), <2>1, <2>2, <2>3, <2>4
      <4> QED
        BY SMTT(30), <4>1, <4>2
    <3> QED
      BY <2>1, <2>2, <3>1, <3>2, <3>3 DEF Before
  <2>5. CASE k < i
    <3>1. k <= Len(t) /\ t[k] < u[k]
      BY <2>1, <2>2, <2>3, <2>5
    <3>2. \A j \in 1..(k - 1) : j <= Len(s) /\ s[j] = u[j]
      <4> SUFFICES ASSUME NEW j \in 1..(k - 1) PROVE j <= Len(s) /\ s[j] = u[j]
        OBVIOUS
      <4>1. j \in 1..(i - 1)
        BY <2>1, <2>5
      <4> QED
        BY <2>2, <2>3, <4>1
    <3>3. k <= Len(s) /\ s[k] = t[k]
      BY <2>1, <2>2, <2>5
    <3> QED
      BY <3>1, <3>2, <3>3 DEF Before
  <2> QED
    BY <2>1, <2>4, <2>5
<1>4. ASSUME NEW s \in Seq(Nat), NEW t \in Seq(Nat), s # t
      PROVE  Before(s, t) \/ Before(t, s)
  <2>1. /\ Len(s) \in Nat /\ \A i \in 1..Len(s) : s[i] \in Nat
        /\ Len(t) \in Nat /\ \A i \in 1..Len(t) : t[i] \in Nat
    OBVIOUS
  <2> DEFINE T == {i \in Nat : i >= 1 /\ (i > Len(s) \/ i > Len(t) \/ s[i] # t[i])}
  <2>2. Len(s) + 1 \in T
    BY <2>1
  <2>3. PICK k \in T : \A j \in T : k <= j
    <3>1. T \subseteq Nat /\ T # {}
      BY <2>2
    <3> HIDE DEF T
    <3> QED
      BY <3>1, LeastNumber
  <2>4. k \in Nat /\ k >= 1 /\ (k > Len(s) \/ k > Len(t) \/ s[k] # t[k])
    BY <2>3
  <2>5. \A j \in 1..(k - 1) : j <= Len(s) /\ j <= Len(t) /\ s[j] = t[j]
    <3> SUFFICES ASSUME NEW j \in 1..(k - 1)
                 PROVE  j <= Len(s) /\ j <= Len(t) /\ s[j] = t[j]
      OBVIOUS
    <3>1. j \in Nat /\ j >= 1 /\ j < k
      BY <2>4
    <3>2. j \notin T
      BY <2>3, <2>4, <3>1
    <3> QED
      BY <2>1, <3>1, <3>2
  <2> HIDE DEF T
  <2>6. CASE k <= Len(s) /\ k <= Len(t)
    <3>1. s[k] \in Nat /\ t[k] \in Nat /\ s[k] # t[k] /\ k \in 1..Len(s) /\ k \in 1..Len(t)
      BY <2>1, <2>4, <2>6
    <3>2. s[k] < t[k] \/ t[k] < s[k]
      BY <3>1
    <3> QED
      BY <2>5, <2>6, <3>1, <3>2 DEF Before
  <2>7. CASE k > Len(s) /\ k <= Len(t)
    <3>1. k = Len(s) + 1
      <4>1. k - 1 \in 1..(k - 1) \/ k = 1
        BY <2>4
      <4>2. k - 1 <= Len(s)
        BY <2>1, <2>4, <2>5, <4>1
      <4> QED
        BY <2>1, <2>4, <2>7, <4>2
    <3>2. k \in 1..Len(t)
      BY <2>1, <2>4, <2>7
    <3> QED
      BY <2>5, <3>1, <3>2 DEF Before
  <2>8. CASE k <= Len(s) /\ k > Len(t)
    <3>1. k = Len(t) + 1
      <4>1. k - 1 \in 1..(k - 1) \/ k = 1
        BY <2>4
      <4>2. k - 1 <= Len(t)
        BY <2>1, <2>4, <2>5, <4>1
      <4> QED
        BY <2>1, <2>4, <2>8, <4>2
    <3>2. k \in 1..Len(s)
      BY <2>1, <2>4, <2>8
    <3>3. \A j \in 1..(k - 1) : j <= Len(t) /\ t[j] = s[j]
      BY <2>5
    <3> QED
      BY <3>1, <3>2, <3>3 DEF Before
  <2>9. CASE k > Len(s) /\ k > Len(t)
    <3>1. Len(s) = Len(t)
      <4>1. k - 1 \in 1..(k - 1) \/ k = 1
        BY <2>4
      <4>2. k - 1 <= Len(s) /\ k - 1 <= Len(t)
        BY <2>1, <2>4, <2>5, <4>1
      <4> QED
        BY <2>1, <2>4, <2>9, <4>2
    <3>2. \A j \in 1..Len(s) : s[j] = t[j]
      BY <2>1, <2>4, <2>5, <2>9
    <3>3. s = t
      BY <3>1, <3>2, SeqEqual
    <3> QED
      BY <1>4, <3>3
  <2> QED
    BY <2>1, <2>4, <2>6, <2>7, <2>8, <2>9
<1>5. \A s \in Seq(Nat) : <<s, s>> \notin R
  BY <1>1, <1>2
<1>6. \A s, t, u \in Seq(Nat) : <<s, t>> \in R /\ <<t, u>> \in R => <<s, u>> \in R
  BY <1>1, <1>3
<1>7. \A s, t \in Seq(Nat) : s # t => <<s, t>> \in R \/ <<t, s>> \in R
  BY <1>1, <1>4
<1> QED
  BY <1>5, <1>6, <1>7 DEF Orders, R

\* The ranks of signatures: from 1, none left out, equal when the signatures
\* are, and depending on nothing but the set of signatures.
LEMMA PartitionIds ==
    ASSUME NEW n \in Nat, NEW sigs, DOMAIN sigs = 1..n, \A i \in 1..n : sigs[i] \in Seq(Nat)
    PROVE  LET ids == AssignPartitionIds(sigs)
           IN  /\ DOMAIN ids = 1..n
               /\ ids = [i \in 1..n |-> ids[i]]
               /\ \E k \in Nat : /\ \A i \in 1..n : ids[i] \in 1..k
                                 /\ \A c \in 1..k : \E i \in 1..n : ids[i] = c
               /\ \A i, j \in 1..n : ids[i] = ids[j] <=> sigs[i] = sigs[j]
<1> DEFINE ids == AssignPartitionIds(sigs)
           D == {sigs[i] : i \in 1..n}
           R == {p \in Seq(Nat) \X Seq(Nat) : Before(p[1], p[2])}
           rank == RankIn(R, D)
           k == Cardinality(D)
<1>1. D \subseteq Seq(Nat)
  OBVIOUS
<1>2. IsFiniteSet(D)
  <2>1. IsFiniteSet(1..n)
    BY FS_Interval
  <2> DEFINE f == [i \in 1..n |-> sigs[i]]
  <2>2. f \in [1..n -> D] /\ \A s \in D : \E i \in 1..n : f[i] = s
    OBVIOUS
  <2> HIDE DEF f, D
  <2>3. f \in Surjection(1..n, D)
    BY <2>2 DEF Surjection
  <2> QED
    BY <2>1, <2>3, FS_Surjection
<1>3. Orders(R, D)
  <2>1. Orders(R, Seq(Nat))
    BY BeforeOrders
  <2> HIDE DEF R
  <2> QED
    BY <1>1, <2>1 DEF Orders
<1>4. \A s \in D : {t \in D : Before(t, s)} = {t \in D : <<t, s>> \in R}
  BY <1>1
<1>5. ids = [i \in 1..n |-> rank[sigs[i]]]
  <2>1. [s \in D |-> 1 + Cardinality({t \in D : Before(t, s)})] = rank
    BY <1>4 DEF RankIn
  <2>2. D = {sigs[i] : i \in DOMAIN sigs}
    OBVIOUS
  <2> QED
    BY <2>1, <2>2 DEF AssignPartitionIds
<1>6. \A i \in 1..n : sigs[i] \in D
  OBVIOUS
<1>7. \A s \in D : \E i \in 1..n : sigs[i] = s
  OBVIOUS
<1> HIDE DEF ids, D, R, rank, k
<1>8. /\ k \in Nat /\ \A s \in D : rank[s] \in 1..k
      /\ \A s, t \in D : rank[s] = rank[t] => s = t
      /\ \A c \in 1..k : \E s \in D : rank[s] = c
  <2>1. RankIn(R, D) \in [D -> 1..Cardinality(D)]
    BY <1>2, <1>3, RanksAreCounted
  <2>2. \A s \in D : rank[s] \in 1..k
    BY <2>1 DEF rank, k
  <2> QED
    BY <1>2, <1>3, <2>2, RanksAreCounted DEF rank, k
<1>9. \A i \in 1..n : ids[i] = rank[sigs[i]] /\ ids[i] \in 1..k
  BY <1>5, <1>6, <1>8
<1>10. ASSUME NEW c \in 1..k PROVE \E i \in 1..n : ids[i] = c
  <2>1. PICK s \in D : rank[s] = c
    BY <1>8
  <2>2. PICK i \in 1..n : sigs[i] = s
    BY <1>7
  <2> QED
    BY <1>9, <2>1, <2>2
<1>11. \A i, j \in 1..n : ids[i] = ids[j] <=> sigs[i] = sigs[j]
  BY <1>6, <1>8, <1>9
<1>12. DOMAIN ids = 1..n /\ ids = [i \in 1..n |-> ids[i]]
  BY <1>5
<1> QED
  BY <1>8, <1>9, <1>10, <1>11, <1>12 DEF ids

SameValues(s, t) ==
    /\ \A i \in DOMAIN s : \E j \in DOMAIN t : s[i] = t[j]
    /\ \A j \in DOMAIN t : \E i \in DOMAIN s : s[i] = t[j]

LEMMA PartitionIdsOfSet ==
    ASSUME NEW s, NEW t, SameValues(s, t),
           NEW a \in DOMAIN s, NEW b \in DOMAIN t, s[a] = t[b]
    PROVE  AssignPartitionIds(s)[a] = AssignPartitionIds(t)[b]
<1>0. {s[i] : i \in DOMAIN s} = {t[i] : i \in DOMAIN t}
  BY DEF SameValues
<1>1. PICK D : D = {s[i] : i \in DOMAIN s} /\ D = {t[i] : i \in DOMAIN t}
  BY <1>0
<1>2. PICK rank : rank = [x \in D |-> 1 + Cardinality({y \in D : Before(y, x)})]
  OBVIOUS
<1>3. AssignPartitionIds(s) = [i \in DOMAIN s |-> rank[s[i]]]
  BY <1>1, <1>2 DEF AssignPartitionIds
<1>4. AssignPartitionIds(t) = [i \in DOMAIN t |-> rank[t[i]]]
  BY <1>1, <1>2 DEF AssignPartitionIds
<1> QED
  BY <1>3, <1>4

-----------------------------------------------------------------------------
\* Rewriting a node's references.

LEMMA RemapEdges ==
    ASSUME NEW n \in Nat, NEW node, IsNode(node, n), NEW m \in Nat,
           NEW to, \A i \in 1..n : to[i] \in 1..m
    PROVE  LET new == Remap(node, to)
           IN  /\ new = [kind |-> node.kind, detail |-> node.detail, edges |-> new.edges]
               /\ new.edges \in Seq(Edge(m)) /\ Len(new.edges) = Len(node.edges)
               /\ \A i \in 1..Len(node.edges) :
                     /\ new.edges[i].key = SortedEdges(node)[i].key
                     /\ new.edges[i].ty = to[SortedChildren(node)[i]]
<1>1. PICK s : s = SortedEdges(node)
  OBVIOUS
<1>2. s \in Seq(Edge(n)) /\ Len(s) = Len(node.edges)
  BY <1>1, SortedEdgesAre
<1>3. /\ Len(s) \in Nat /\ DOMAIN s = 1..Len(s)
      /\ \A i \in DOMAIN s : i \in Nat /\ s[i].key \in Nat /\ s[i].ty \in 1..n
  BY <1>2, EdgesTyped
<1>4. node = [kind |-> node.kind, detail |-> node.detail, edges |-> node.edges]
  BY NodeTyped
<1> DEFINE e == [i \in 1..Len(s) |-> [key |-> s[i].key, ty |-> to[s[i].ty]]]
<1>5. Remap(node, to) = [node EXCEPT !.edges = e]
  BY <1>1, <1>3 DEF Remap
<1>6. \A i \in 1..Len(s) : [key |-> s[i].key, ty |-> to[s[i].ty]] \in Edge(m)
  BY <1>3 DEF Edge
<1>7. e \in Seq(Edge(m)) /\ Len(e) = Len(s)
  BY <1>3, <1>6
<1>8. \A i \in 1..Len(s) : e[i].key = s[i].key /\ e[i].ty = to[s[i].ty]
  OBVIOUS
<1>9. \A i \in 1..Len(s) : SortedChildren(node)[i] = s[i].ty
  BY <1>1, <1>2, ChildrenAre
<1> HIDE DEF e
<1>10. Remap(node, to) = [kind |-> node.kind, detail |-> node.detail, edges |-> e]
  BY <1>4, <1>5
<1> QED
  BY <1>1, <1>2, <1>7, <1>8, <1>9, <1>10

LEMMA RemapIsNode ==
    ASSUME NEW n \in Nat, NEW node, IsNode(node, n), NEW m \in Nat,
           NEW to, \A i \in 1..n : to[i] \in 1..m
    PROVE  IsNode(Remap(node, to), m)
<1>1. PICK new : new = Remap(node, to)
  OBVIOUS
<1>2. /\ new = [kind |-> node.kind, detail |-> node.detail, edges |-> new.edges]
      /\ new.edges \in Seq(Edge(m)) /\ Len(new.edges) = Len(node.edges)
      /\ \A i \in 1..Len(node.edges) : new.edges[i].key = SortedEdges(node)[i].key
  BY <1>1, RemapEdges
<1>3. /\ node.kind \in Range(Kinds) /\ node.detail \in Seq(Nat)
      /\ Len(node.detail) = DetailLength(node.kind)
      /\ Len(node.edges) \in Nat
  BY NodeTyped
<1>4. new \in NodeShape(m)
  BY <1>2, <1>3 DEF NodeShape
<1>5. new.kind = node.kind /\ new.detail = node.detail
  BY <1>2
<1>6. DOMAIN new.edges = 1..Len(node.edges)
  BY <1>2, LenProperties
<1>7. CASE node.kind \in KeyedKinds
  <2>1. PICK s : s = SortedEdges(node)
    OBVIOUS
  <2>2. /\ s \in Seq(Edge(n)) /\ Len(s) = Len(node.edges)
        /\ \A i, j \in DOMAIN s : i < j => s[i].key < s[j].key
    BY <2>1, SortedEdgesAre
  <2>3. DOMAIN s = 1..Len(node.edges) /\ \A i \in DOMAIN s : s[i].key \in Nat
    BY <2>2, EdgesTyped
  <2>4. \A i, j \in DOMAIN new.edges : new.edges[i].key = new.edges[j].key => i = j
    <3> SUFFICES ASSUME NEW i \in DOMAIN new.edges, NEW j \in DOMAIN new.edges,
                        new.edges[i].key = new.edges[j].key
                 PROVE  i = j
      OBVIOUS
    <3>1. i \in DOMAIN s /\ j \in DOMAIN s /\ s[i].key = s[j].key
      BY <1>2, <1>6, <2>1, <2>3
    <3>2. ~(i < j) /\ ~(j < i)
      BY <2>2, <2>3, <3>1
    <3> QED
      BY <1>3, <1>6, <3>2
  <2> QED
    BY <1>3, <1>4, <1>5, <1>7, <2>4, <1>1 DEF IsNode
<1>8. CASE node.kind \notin KeyedKinds
  <2>1. SortedEdges(node) = node.edges
    BY <1>8, SortedEdgesAre
  <2>2. DOMAIN node.edges = 1..Len(node.edges)
    BY NodeTyped, LenProperties
  <2>3. \A i \in DOMAIN node.edges : node.edges[i].key = i
    BY <1>8 DEF IsNode
  <2>4. \A i \in DOMAIN new.edges : new.edges[i].key = i
    BY <1>2, <1>6, <2>1, <2>2, <2>3
  <2> QED
    BY <1>3, <1>4, <1>5, <1>8, <2>4, <1>1 DEF IsNode
<1> QED
  BY <1>7, <1>8

\* Edges whose keys ascend are where sorting leaves them.
LEMMA AscendingEdgesStay ==
    ASSUME NEW n \in Nat, NEW node, IsNode(node, n),
           \A i, j \in 1..Len(node.edges) : i < j => node.edges[i].key < node.edges[j].key
    PROVE  SortedEdges(node) = node.edges
<1>1. PICK s : s = SortedEdges(node)
  OBVIOUS
<1>2. PICK t : t = node.edges
  OBVIOUS
<1>3. /\ s \in Seq(Edge(n)) /\ Len(s) = Len(t) /\ Range(s) = Range(t)
      /\ \A i, j \in DOMAIN s : i < j => s[i].key < s[j].key
      /\ t \in Seq(Edge(n))
  BY <1>1, <1>2, SortedEdgesAre, NodeTyped
<1>4. /\ Len(s) \in Nat /\ DOMAIN s = 1..Len(s)
      /\ \A i \in DOMAIN s : s[i].key \in Nat /\ s[i] \in Edge(n)
      /\ DOMAIN t = 1..Len(t)
      /\ \A i \in DOMAIN t : t[i].key \in Nat /\ t[i] \in Edge(n)
  BY <1>3, EdgesTyped
<1>5. \A i, j \in DOMAIN t : i < j => t[i].key < t[j].key
  BY <1>2, <1>4
<1> DEFINE ks == [i \in 1..Len(s) |-> s[i].key]
           kt == [i \in 1..Len(s) |-> t[i].key]
<1>0. /\ \A i \in 1..Len(s) : s[i].key \in Nat /\ t[i].key \in Nat
      /\ Len(s) \in Nat
  BY <1>3, <1>4
<1>6. ks \in Seq(Nat) /\ kt \in Seq(Nat) /\ DOMAIN ks = 1..Len(s) /\ DOMAIN kt = 1..Len(s)
      /\ \A i \in 1..Len(s) : ks[i] = s[i].key /\ kt[i] = t[i].key
  BY <1>0
<1> HIDE DEF ks, kt
<1>7. Ascends(ks) /\ Ascends(kt)
  BY <1>3, <1>4, <1>5, <1>6 DEF Ascends
<1>8. \A i \in 1..Len(s) : \E j \in 1..Len(s) : s[i] = t[j]
  BY <1>3, <1>4 DEF Range
<1>9. \A i \in 1..Len(s) : \E j \in 1..Len(s) : t[i] = s[j]
  BY <1>3, <1>4 DEF Range
<1>10. Range(ks) = Range(kt)
  <2>1. Range(ks) = {ks[i] : i \in 1..Len(s)} /\ Range(kt) = {kt[i] : i \in 1..Len(s)}
    BY <1>6 DEF Range
  <2>2. \A i \in 1..Len(s) : \E j \in 1..Len(s) : ks[i] = kt[j]
    <3> TAKE i \in 1..Len(s)
    <3>1. PICK j \in 1..Len(s) : s[i] = t[j]
      BY <1>8
    <3>2. ks[i] = kt[j]
      BY <1>6, <3>1
    <3> QED
      BY <3>2
  <2>3. \A i \in 1..Len(s) : \E j \in 1..Len(s) : kt[i] = ks[j]
    <3> TAKE i \in 1..Len(s)
    <3>1. PICK j \in 1..Len(s) : t[i] = s[j]
      BY <1>9
    <3>2. kt[i] = ks[j]
      BY <1>6, <3>1
    <3> QED
      BY <3>2
  <2> QED
    BY <2>1, <2>2, <2>3
<1>11. ks = kt
  BY <1>6, <1>7, <1>10, AscendingUnique
<1>12. \A i \in 1..Len(s) : s[i] = t[i]
  <2> SUFFICES ASSUME NEW i \in 1..Len(s) PROVE s[i] = t[i]
    OBVIOUS
  <2>1. PICK j \in 1..Len(s) : s[i] = t[j]
    BY <1>8
  <2>2. t[i].key = t[j].key
    BY <1>6, <1>11, <2>1
  <2>3. ~(i < j) /\ ~(j < i)
    BY <1>3, <1>4, <1>5, <2>2
  <2>4. i = j
    BY <1>4, <2>3
  <2> QED
    BY <2>1, <2>4
<1>13. s = t
  BY <1>3, <1>12, SeqEqual
<1> QED
  BY <1>1, <1>2, <1>13

LEMMA RemapKeeps ==
    ASSUME NEW n \in Nat, NEW node, IsNode(node, n), NEW m \in Nat,
           NEW to, \A i \in 1..n : to[i] \in 1..m
    PROVE  LET new == Remap(node, to)
           IN  /\ LocalSignature(new) = LocalSignature(node)
               /\ SortedEdges(new) = new.edges
               /\ SortedChildren(new) =
                     [i \in DOMAIN SortedChildren(node) |-> to[SortedChildren(node)[i]]]
<1>1. PICK new : new = Remap(node, to)
  OBVIOUS
<1>2. IsNode(new, m)
  BY <1>1, RemapIsNode
<1>3. /\ new = [kind |-> node.kind, detail |-> node.detail, edges |-> new.edges]
      /\ new.edges \in Seq(Edge(m)) /\ Len(new.edges) = Len(node.edges)
      /\ \A i \in 1..Len(node.edges) :
            /\ new.edges[i].key = SortedEdges(node)[i].key
            /\ new.edges[i].ty = to[SortedChildren(node)[i]]
  BY <1>1, RemapEdges
<1>4. /\ DOMAIN SortedChildren(node) = 1..Len(node.edges) /\ Len(node.edges) \in Nat
  BY ChildrenAre
<1>5. /\ DOMAIN SortedChildren(new) = 1..Len(node.edges)
      /\ \A i \in 1..Len(node.edges) : SortedChildren(new)[i] = SortedEdges(new)[i].ty
      /\ SortedChildren(new) \in Seq(1..m)
  BY <1>2, <1>3, ChildrenAre
<1>6. SortedEdges(new) = new.edges
  <2>1. CASE node.kind \in KeyedKinds
    <3>1. PICK s : s = SortedEdges(node)
      OBVIOUS
    <3>2. /\ s \in Seq(Edge(n)) /\ Len(s) = Len(node.edges)
          /\ \A i, j \in DOMAIN s : i < j => s[i].key < s[j].key
      BY <3>1, SortedEdgesAre
    <3>3. DOMAIN s = 1..Len(node.edges)
      BY <3>2, EdgesTyped
    <3>4. \A i, j \in 1..Len(new.edges) : i < j => new.edges[i].key < new.edges[j].key
      BY <1>3, <3>1, <3>2, <3>3
    <3> QED
      BY <1>2, <3>4, AscendingEdgesStay
  <2>2. CASE node.kind \notin KeyedKinds
    <3>1. new.kind = node.kind
      BY <1>3
    <3> QED
      BY <1>2, <2>2, <3>1, SortedEdgesAre
  <2> QED
    BY <2>1, <2>2
<1>7. \A i \in 1..Len(node.edges) : SortedChildren(new)[i] = to[SortedChildren(node)[i]]
  BY <1>3, <1>5, <1>6
<1>8. SortedChildren(new)
        = [i \in DOMAIN SortedChildren(node) |-> to[SortedChildren(node)[i]]]
  BY <1>4, <1>5, <1>7, SeqEqual
<1>9. LocalSignature(new) = LocalSignature(node)
  <2>1. new.kind = node.kind /\ new.detail = node.detail
    BY <1>3
  <2>2. SameShape(new, node)
    BY <1>3, <1>6, <2>1 DEF SameShape
  <2> QED
    BY <1>2, <2>2, SameShapeSigns
<1> QED
  BY <1>1, <1>6, <1>8, <1>9

Fits(n, node, to, k) ==
    n \in Nat /\ IsNode(node, n) /\ k \in Nat /\ \A i \in 1..n : to[i] \in 1..k

\* Nodes alike by themselves whose children go to the same places become one.
LEMMA RemapSame ==
    ASSUME NEW n, NEW a, NEW f, NEW k, Fits(n, a, f, k),
           NEW m, NEW b, NEW g, Fits(m, b, g, k),
           LocalSignature(a) = LocalSignature(b), SameTargets(a, f, b, g)
    PROVE  Remap(a, f) = Remap(b, g)
<1>0. /\ n \in Nat /\ IsNode(a, n) /\ k \in Nat /\ \A i \in 1..n : f[i] \in 1..k
      /\ m \in Nat /\ IsNode(b, m) /\ \A i \in 1..m : g[i] \in 1..k
      /\ \A i \in 1..Len(a.edges) : f[SortedChildren(a)[i]] = g[SortedChildren(b)[i]]
  BY DEF Fits, SameTargets
<1>1. SameShape(a, b)
  BY <1>0, SameShapeSigns
<1>2. PICK x : x = Remap(a, f)
  OBVIOUS
<1>3. PICK y : y = Remap(b, g)
  OBVIOUS
<1>4. /\ x = [kind |-> a.kind, detail |-> a.detail, edges |-> x.edges]
      /\ x.edges \in Seq(Edge(k)) /\ Len(x.edges) = Len(a.edges)
      /\ \A i \in 1..Len(a.edges) :
            /\ x.edges[i].key = SortedEdges(a)[i].key
            /\ x.edges[i].ty = f[SortedChildren(a)[i]]
  BY <1>0, <1>2, RemapEdges
<1>5. /\ y = [kind |-> b.kind, detail |-> b.detail, edges |-> y.edges]
      /\ y.edges \in Seq(Edge(k)) /\ Len(y.edges) = Len(b.edges)
      /\ \A i \in 1..Len(b.edges) :
            /\ y.edges[i].key = SortedEdges(b)[i].key
            /\ y.edges[i].ty = g[SortedChildren(b)[i]]
  BY <1>0, <1>3, RemapEdges
<1>6. \A i \in 1..Len(a.edges) : x.edges[i].key = y.edges[i].key /\ x.edges[i].ty = y.edges[i].ty
  BY <1>0, <1>1, <1>4, <1>5 DEF SameShape
<1>7. \A i \in 1..Len(a.edges) : x.edges[i] = y.edges[i]
  <2> SUFFICES ASSUME NEW i \in 1..Len(a.edges) PROVE x.edges[i] = y.edges[i]
    OBVIOUS
  <2>1. Len(x.edges) = Len(y.edges) /\ i \in DOMAIN x.edges /\ i \in DOMAIN y.edges
    BY <1>1, <1>4, <1>5, LenProperties DEF SameShape
  <2>2. x.edges[i] \in Edge(k) /\ y.edges[i] \in Edge(k)
    BY <1>4, <1>5, <2>1, EdgesTyped
  <2> QED
    BY <1>6, <2>2 DEF Edge
<1>8. x.edges = y.edges
  <2>1. Len(x.edges) = Len(y.edges)
    BY <1>1, <1>4, <1>5 DEF SameShape
  <2>2. \A i \in 1..Len(x.edges) : x.edges[i] = y.edges[i]
    BY <1>4, <1>7
  <2> QED
    BY <1>4, <1>5, <2>1, <2>2, SeqEqual
<1> QED
  BY <1>1, <1>2, <1>3, <1>4, <1>5, <1>8 DEF SameShape

-----------------------------------------------------------------------------
\* The rounds of refinement.

\* The nodes of a validated contract.
IsArena(types) ==
    /\ Len(types) \in Nat /\ DOMAIN types = 1..Len(types)
    /\ \A i \in 1..Len(types) : IsNode(types[i], Len(types))

Local(types, i) == LocalSignature(types[i])
Kid(types, i, k) == SortedChildren(types[i])[k]
Degree(types, i) == Len(types[i].edges)

LEMMA ArenaNodes ==
    ASSUME NEW types, IsArena(types), NEW a \in 1..Len(types)
    PROVE  /\ Local(types, a) \in Seq(Nat)
           /\ Degree(types, a) \in Nat
           /\ \A k \in 1..Degree(types, a) : Kid(types, a, k) \in 1..Len(types)
           /\ DOMAIN SortedChildren(types[a]) = 1..Degree(types, a)
           /\ SortedChildren(types[a]) \in Seq(1..Len(types))
           /\ Len(SortedChildren(types[a])) = Degree(types, a)
<1>1. Len(types) \in Nat /\ IsNode(types[a], Len(types))
  BY DEF IsArena
<1>2. Local(types, a) \in Seq(Nat)
  BY <1>1, LocalShape DEF Local
<1> QED
  BY <1>1, <1>2, ChildrenAre DEF Degree, Kid

LEMMA LocalTellsDegree ==
    ASSUME NEW s, IsArena(s), NEW a \in 1..Len(s), NEW t, IsArena(t), NEW b \in 1..Len(t),
           Local(s, a) = Local(t, b)
    PROVE  Degree(s, a) = Degree(t, b)
<1>1. /\ Len(s) \in Nat /\ IsNode(s[a], Len(s)) /\ Len(t) \in Nat /\ IsNode(t[b], Len(t))
      /\ LocalSignature(s[a]) = LocalSignature(t[b])
  BY DEF IsArena, Local
<1> QED
  BY <1>1, SameShapeSigns DEF SameShape, Degree

FirstClasses(types) == AssignPartitionIds([i \in DOMAIN types |-> LocalSignature(types[i])])
NextClasses(types, cls) ==
    AssignPartitionIds([i \in DOMAIN types |-> RefinedSignature(types[i], cls[i], cls)])

\* Class numbers from 1 to k, all in use.
Numbers(cls, n, k) == cls \in [1..n -> 1..k] /\ \A c \in 1..k : \E i \in 1..n : cls[i] = c

\* Nodes alike by themselves whose children are in the same classes.
SameByKids(s, a, c, t, b, d) ==
    /\ Local(s, a) = Local(t, b)
    /\ \A k \in 1..Degree(s, a) : c[Kid(s, a, k)] = d[Kid(t, b, k)]

LEMMA FirstClassesAre ==
    ASSUME NEW types, IsArena(types)
    PROVE  /\ \E k \in Nat : Numbers(FirstClasses(types), Len(types), k)
           /\ \A a, b \in 1..Len(types) :
                 FirstClasses(types)[a] = FirstClasses(types)[b]
                   <=> Local(types, a) = Local(types, b)
<1> DEFINE n == Len(types)
           sigs == [i \in DOMAIN types |-> LocalSignature(types[i])]
           ids == AssignPartitionIds(sigs)
<1>1. n \in Nat /\ DOMAIN sigs = 1..n /\ \A i \in 1..n : sigs[i] = Local(types, i)
  BY DEF IsArena, Local
<1>2. \A i \in 1..n : Local(types, i) \in Seq(Nat)
  BY ArenaNodes
<1> HIDE DEF n, sigs
<1>3. \A i \in 1..n : sigs[i] \in Seq(Nat)
  BY <1>1, <1>2
<1>4. /\ DOMAIN ids = 1..n /\ ids = [i \in 1..n |-> ids[i]]
      /\ \E k \in Nat : /\ \A i \in 1..n : ids[i] \in 1..k
                        /\ \A c \in 1..k : \E i \in 1..n : ids[i] = c
      /\ \A i, j \in 1..n : ids[i] = ids[j] <=> sigs[i] = sigs[j]
  BY SMTT(30), <1>1, <1>3, PartitionIds
<1>5. ids = FirstClasses(types)
  BY DEF FirstClasses, sigs
<1> HIDE DEF ids
<1>6. PICK k \in Nat : /\ \A i \in 1..n : ids[i] \in 1..k
                       /\ \A c \in 1..k : \E i \in 1..n : ids[i] = c
  BY <1>4
<1>7. Numbers(ids, n, k)
  BY <1>4, <1>6 DEF Numbers
<1> QED
  BY <1>1, <1>4, <1>5, <1>7 DEF n

LEMMA RefinedSignatures ==
    ASSUME NEW types, IsArena(types), NEW cls, NEW k \in Nat, cls \in [1..Len(types) -> 1..k]
    PROVE  LET sigs == [i \in DOMAIN types |-> RefinedSignature(types[i], cls[i], cls)]
           IN  /\ DOMAIN sigs = 1..Len(types)
               /\ \A i \in 1..Len(types) :
                     /\ sigs[i] \in Seq(Nat)
                     /\ sigs[i] = RefinedSignature(types[i], cls[i], cls)
<1> SUFFICES ASSUME NEW i \in 1..Len(types)
             PROVE  RefinedSignature(types[i], cls[i], cls) \in Seq(Nat)
  BY DEF IsArena
<1>1. Len(types) \in Nat /\ IsNode(types[i], Len(types))
  BY DEF IsArena
<1>2. NatValued(cls, Len(types)) /\ cls[i] \in Nat
  BY DEF NatValued
<1> QED
  BY <1>1, <1>2, RefinedTyped

\* Of two arenas, possibly the same one.
LEMMA RefinedSame ==
    ASSUME NEW s, IsArena(s), NEW k \in Nat, NEW c \in [1..Len(s) -> 1..k],
           NEW t, IsArena(t), NEW m \in Nat, NEW d \in [1..Len(t) -> 1..m],
           NEW a \in 1..Len(s), NEW b \in 1..Len(t)
    PROVE  RefinedSignature(s[a], c[a], c) = RefinedSignature(t[b], d[b], d)
             <=> c[a] = d[b] /\ SameByKids(s, a, c, t, b, d)
<1>1. Len(s) \in Nat /\ IsNode(s[a], Len(s)) /\ Len(t) \in Nat /\ IsNode(t[b], Len(t))
  BY DEF IsArena
<1>4. NatValued(c, Len(s)) /\ NatValued(d, Len(t))
  BY SMTT(30) DEF NatValued
<1>2. c[a] \in Nat /\ d[b] \in Nat
  BY <1>4 DEF NatValued
<1>5. Signs(Len(s), s[a], c, c[a]) /\ Signs(Len(t), t[b], d, d[b])
  BY <1>1, <1>2, <1>4 DEF Signs
<1>3. RefinedSignature(s[a], c[a], c) = RefinedSignature(t[b], d[b], d)
        <=> /\ LocalSignature(s[a]) = LocalSignature(t[b])
            /\ c[a] = d[b]
            /\ SameTargets(s[a], c, t[b], d)
  BY <1>5, RefinedTells
<1> QED
  BY <1>3 DEF SameByKids, Local, Kid, Degree, SameTargets

LEMMA NextClassesAre ==
    ASSUME NEW types, IsArena(types), NEW cls, NEW k \in Nat, cls \in [1..Len(types) -> 1..k]
    PROVE  /\ \E m \in Nat : Numbers(NextClasses(types, cls), Len(types), m)
           /\ \A a, b \in 1..Len(types) :
                 NextClasses(types, cls)[a] = NextClasses(types, cls)[b]
                   <=> cls[a] = cls[b] /\ SameByKids(types, a, cls, types, b, cls)
<1> DEFINE n == Len(types)
           sigs == [i \in DOMAIN types |-> RefinedSignature(types[i], cls[i], cls)]
           ids == AssignPartitionIds(sigs)
<1>1. n \in Nat
  BY DEF IsArena
<1>2. /\ DOMAIN sigs = 1..n
      /\ \A i \in 1..n : sigs[i] \in Seq(Nat) /\ sigs[i] = RefinedSignature(types[i], cls[i], cls)
  BY RefinedSignatures
<1>3. ids = NextClasses(types, cls)
  BY DEF NextClasses
<1> HIDE DEF sigs, n
<1>8. DOMAIN sigs = 1..n /\ \A i \in 1..n : sigs[i] \in Seq(Nat)
  BY <1>2
<1>4. /\ DOMAIN ids = 1..n /\ ids = [i \in 1..n |-> ids[i]]
      /\ \E m \in Nat : /\ \A i \in 1..n : ids[i] \in 1..m
                        /\ \A c \in 1..m : \E i \in 1..n : ids[i] = c
      /\ \A i, j \in 1..n : ids[i] = ids[j] <=> sigs[i] = sigs[j]
  BY ZenonT(60), <1>1, <1>8, PartitionIds
<1> HIDE DEF ids
<1>5. PICK m \in Nat : /\ \A i \in 1..n : ids[i] \in 1..m
                       /\ \A c \in 1..m : \E i \in 1..n : ids[i] = c
  BY <1>4
<1>6. Numbers(ids, n, m)
  BY <1>4, <1>5 DEF Numbers
<1>7. ASSUME NEW a \in 1..n, NEW b \in 1..n
      PROVE  ids[a] = ids[b] <=> cls[a] = cls[b] /\ SameByKids(types, a, cls, types, b, cls)
  <2>1. sigs[a] = RefinedSignature(types[a], cls[a], cls)
        /\ sigs[b] = RefinedSignature(types[b], cls[b], cls)
    BY <1>2
  <2>2. sigs[a] = sigs[b] <=> cls[a] = cls[b] /\ SameByKids(types, a, cls, types, b, cls)
    BY <2>1, RefinedSame DEF n
  <2> QED
    BY <1>4, <2>2
<1> QED
  BY <1>3, <1>6, <1>7 DEF n

-----------------------------------------------------------------------------
\* Two arenas whose nodes stand for each other.

\* Related nodes are alike by themselves and have related children.
Matches(s, t, B) ==
    /\ B \subseteq (1..Len(s)) \X (1..Len(t))
    /\ \A a \in 1..Len(s), b \in 1..Len(t) : <<a, b>> \in B =>
          /\ Local(s, a) = Local(t, b)
          /\ \A k \in 1..Degree(s, a) : <<Kid(s, a, k), Kid(t, b, k)>> \in B

Covers(s, t, B) ==
    /\ \A a \in 1..Len(s) : \E b \in 1..Len(t) : <<a, b>> \in B
    /\ \A b \in 1..Len(t) : \E a \in 1..Len(s) : <<a, b>> \in B

\* Related nodes have one class.
Agree(c, d, B) == \A p \in B : c[p[1]] = d[p[2]]

LEMMA FirstAgrees ==
    ASSUME NEW s, IsArena(s), NEW t, IsArena(t), NEW B, Matches(s, t, B), Covers(s, t, B)
    PROVE  Agree(FirstClasses(s), FirstClasses(t), B)
<1> DEFINE x == [i \in DOMAIN s |-> LocalSignature(s[i])]
           y == [i \in DOMAIN t |-> LocalSignature(t[i])]
<1>1. /\ DOMAIN x = 1..Len(s) /\ \A i \in 1..Len(s) : x[i] = Local(s, i)
      /\ DOMAIN y = 1..Len(t) /\ \A i \in 1..Len(t) : y[i] = Local(t, i)
  BY DEF IsArena, Local
<1>2. FirstClasses(s) = AssignPartitionIds(x) /\ FirstClasses(t) = AssignPartitionIds(y)
  BY DEF FirstClasses
<1> HIDE DEF x, y
<1>9. \A a \in 1..Len(s), b \in 1..Len(t) : <<a, b>> \in B => x[a] = y[b]
  BY <1>1 DEF Matches
<1>3. \A a \in DOMAIN x : \E b \in DOMAIN y : x[a] = y[b]
  BY <1>1, <1>9 DEF Covers
<1>4. \A b \in DOMAIN y : \E a \in DOMAIN x : x[a] = y[b]
  BY <1>1, <1>9 DEF Covers
<1>5. SameValues(x, y)
  BY <1>3, <1>4 DEF SameValues
<1> SUFFICES ASSUME NEW p \in B PROVE FirstClasses(s)[p[1]] = FirstClasses(t)[p[2]]
  BY DEF Agree
<1>6. PICK a \in 1..Len(s), b \in 1..Len(t) : p = <<a, b>>
  BY DEF Matches
<1>7. a \in DOMAIN x /\ b \in DOMAIN y /\ x[a] = y[b]
  BY <1>1, <1>6, <1>9
<1>8. AssignPartitionIds(x)[a] = AssignPartitionIds(y)[b]
  BY <1>5, <1>7, PartitionIdsOfSet
<1> QED
  BY <1>2, <1>6, <1>8

LEMMA NextAgrees ==
    ASSUME NEW s, IsArena(s), NEW t, IsArena(t), NEW B, Matches(s, t, B), Covers(s, t, B),
           NEW k \in Nat, NEW c \in [1..Len(s) -> 1..k],
           NEW m \in Nat, NEW d \in [1..Len(t) -> 1..m], Agree(c, d, B)
    PROVE  Agree(NextClasses(s, c), NextClasses(t, d), B)
<1> DEFINE x == [i \in DOMAIN s |-> RefinedSignature(s[i], c[i], c)]
           y == [i \in DOMAIN t |-> RefinedSignature(t[i], d[i], d)]
<1>1. DOMAIN x = 1..Len(s) /\ \A i \in 1..Len(s) : x[i] = RefinedSignature(s[i], c[i], c)
  BY RefinedSignatures
<1>2. DOMAIN y = 1..Len(t) /\ \A i \in 1..Len(t) : y[i] = RefinedSignature(t[i], d[i], d)
  BY RefinedSignatures
<1>3. NextClasses(s, c) = AssignPartitionIds(x) /\ NextClasses(t, d) = AssignPartitionIds(y)
  BY DEF NextClasses
<1> HIDE DEF x, y
<1>4. ASSUME NEW a \in 1..Len(s), NEW b \in 1..Len(t), <<a, b>> \in B
      PROVE  x[a] = y[b]
  <2>1. c[a] = d[b]
    BY <1>4 DEF Agree
  <2>2. Local(s, a) = Local(t, b)
    BY <1>4 DEF Matches
  <2>3. \A i \in 1..Degree(s, a) : <<Kid(s, a, i), Kid(t, b, i)>> \in B
    BY <1>4 DEF Matches
  <2>4. \A i \in 1..Degree(s, a) : c[Kid(s, a, i)] = d[Kid(t, b, i)]
    BY <2>3 DEF Agree
  <2>5. SameByKids(s, a, c, t, b, d)
    BY <2>2, <2>4 DEF SameByKids
  <2>6. RefinedSignature(s[a], c[a], c) = RefinedSignature(t[b], d[b], d)
    BY <2>1, <2>5, RefinedSame
  <2> QED
    BY <1>1, <1>2, <2>6
<1>5. \A a \in DOMAIN x : \E b \in DOMAIN y : x[a] = y[b]
  BY <1>1, <1>2, <1>4 DEF Covers
<1>6. \A b \in DOMAIN y : \E a \in DOMAIN x : x[a] = y[b]
  BY <1>1, <1>2, <1>4 DEF Covers
<1>7. SameValues(x, y)
  BY <1>5, <1>6 DEF SameValues
<1> SUFFICES ASSUME NEW p \in B PROVE NextClasses(s, c)[p[1]] = NextClasses(t, d)[p[2]]
  BY DEF Agree
<1>8. PICK a \in 1..Len(s), b \in 1..Len(t) : p = <<a, b>>
  BY DEF Matches
<1>9. a \in DOMAIN x /\ b \in DOMAIN y /\ x[a] = y[b]
  BY <1>1, <1>2, <1>4, <1>8
<1>10. AssignPartitionIds(x)[a] = AssignPartitionIds(y)[b]
  BY <1>7, <1>9, PartitionIdsOfSet
<1> QED
  BY <1>3, <1>8, <1>10

-----------------------------------------------------------------------------
\* The partitions of the rounds, from the first.

History(types, h, m) ==
    /\ m \in Nat \ {0}
    /\ h[1] = FirstClasses(types)
    /\ \A i \in 1..(m - 1) : /\ h[i + 1] = NextClasses(types, h[i])
                             /\ PartitionWasSplit(h[i], h[i + 1])

\* What the loop has reached, and what it ends with.
Reached(types, cls) == \E h, m : History(types, h, m) /\ cls = h[m]

Final(types, cls) ==
    \E h, m : /\ History(types, h, m)
              /\ cls = NextClasses(types, h[m]) /\ ~PartitionWasSplit(h[m], cls)

LEMMA ReachedStarts ==
    ASSUME NEW types
    PROVE  Reached(types, FirstClasses(types))
<1> DEFINE h == [i \in {1} |-> FirstClasses(types)]
<1>1. h[1] = FirstClasses(types) /\ 1 \in Nat \ {0} /\ \A i \in 1..(1 - 1) : FALSE
  OBVIOUS
<1> HIDE DEF h
<1>2. History(types, h, 1)
  BY <1>1 DEF History
<1> QED
  BY <1>1, <1>2 DEF Reached

LEMMA ReachedGoesOn ==
    ASSUME NEW types, NEW cls, Reached(types, cls)
    PROVE  IF PartitionWasSplit(cls, NextClasses(types, cls))
           THEN Reached(types, NextClasses(types, cls))
           ELSE Final(types, NextClasses(types, cls))
<1>1. PICK h, m : History(types, h, m) /\ cls = h[m]
  BY DEF Reached
<1>2. CASE ~PartitionWasSplit(cls, NextClasses(types, cls))
  BY <1>1, <1>2 DEF Final
<1>3. CASE PartitionWasSplit(cls, NextClasses(types, cls))
  <2>1. /\ m \in Nat \ {0} /\ h[1] = FirstClasses(types)
        /\ \A i \in 1..(m - 1) : /\ h[i + 1] = NextClasses(types, h[i])
                                 /\ PartitionWasSplit(h[i], h[i + 1])
    BY <1>1 DEF History
  <2> DEFINE g == [i \in 1..(m + 1) |-> IF i = m + 1 THEN NextClasses(types, cls) ELSE h[i]]
  <2>2. g[m + 1] = NextClasses(types, cls) /\ \A i \in 1..m : g[i] = h[i]
    BY <2>1
  <2> HIDE DEF g
  <2>3. g[1] = FirstClasses(types) /\ g[m] = cls
    BY <1>1, <2>1, <2>2
  <2>4. ASSUME NEW i \in 1..(m + 1 - 1)
        PROVE  g[i + 1] = NextClasses(types, g[i]) /\ PartitionWasSplit(g[i], g[i + 1])
    <3>1. CASE i = m
      BY <1>3, <2>2, <2>3, <3>1
    <3>2. CASE i # m
      <4>1. i \in 1..(m - 1) /\ i \in 1..m /\ i + 1 \in 1..m
        BY <2>1, <3>2
      <4> QED
        BY <2>1, <2>2, <4>1
    <3> QED
      BY <3>1, <3>2
  <2>5. PICK q : q = m + 1
    OBVIOUS
  <2>6. q \in Nat \ {0} /\ q - 1 = m /\ m + 1 - 1 = m
    BY <2>1, <2>5
  <2>8. \A i \in 1..(q - 1) :
          g[i + 1] = NextClasses(types, g[i]) /\ PartitionWasSplit(g[i], g[i + 1])
    BY <2>4, <2>6
  <2>9. History(types, g, q)
    BY <2>3, <2>6, <2>8 DEF History
  <2>7. Reached(types, NextClasses(types, cls))
    BY <2>2, <2>5, <2>9 DEF Reached
  <2> QED
    BY <1>3, <2>7
<1> QED
  BY <1>2, <1>3

\* A partition: class numbers from 1, none left out.
Numbered(cls, n) == \E k \in Nat : Numbers(cls, n, k)

LEMMA HistoryNumbers ==
    ASSUME NEW types, IsArena(types), NEW h, NEW m, History(types, h, m)
    PROVE  \A i \in 1..m : Numbered(h[i], Len(types))
<1> DEFINE T == {i \in 1..m : ~Numbered(h[i], Len(types))}
<1>1. /\ m \in Nat \ {0} /\ h[1] = FirstClasses(types)
      /\ \A i \in 1..(m - 1) : h[i + 1] = NextClasses(types, h[i])
  BY DEF History
<1> SUFFICES ASSUME T # {} PROVE FALSE
  OBVIOUS
<1>2. PICK i \in T : \A j \in T : i <= j
  <2>1. T \subseteq Nat
    OBVIOUS
  <2> HIDE DEF T
  <2> QED
    BY <2>1, LeastNumber
<1>3. i \in 1..m /\ ~Numbered(h[i], Len(types))
  BY <1>2
<1>4. i # 1
  BY <1>1, <1>3, FirstClassesAre DEF Numbered
<1>5. i - 1 \in 1..(m - 1) /\ i - 1 \in 1..m /\ i - 1 + 1 = i
  BY <1>1, <1>3, <1>4
<1>6. Numbered(h[i - 1], Len(types))
  BY <1>2, <1>5
<1>7. h[i] = NextClasses(types, h[i - 1])
  BY <1>1, <1>5
<1>8. PICK c : c = h[i - 1]
  OBVIOUS
<1>9. Numbered(NextClasses(types, c), Len(types))
  <2>1. PICK k \in Nat : Numbers(c, Len(types), k)
    BY <1>6, <1>8 DEF Numbered
  <2>2. c \in [1..Len(types) -> 1..k]
    BY <2>1 DEF Numbers
  <2>3. \E l \in Nat : Numbers(NextClasses(types, c), Len(types), l)
    BY <2>1, <2>2, NextClassesAre
  <2> QED
    BY <2>3 DEF Numbered
<1>10. Numbered(h[i], Len(types))
  BY <1>7, <1>8, <1>9
<1> QED
  BY <1>3, <1>10

LEMMA NextNumbered ==
    ASSUME NEW types, IsArena(types), NEW cls, Numbered(cls, Len(types))
    PROVE  Numbered(NextClasses(types, cls), Len(types))
<1>1. PICK k \in Nat : cls \in [1..Len(types) -> 1..k]
  BY DEF Numbered, Numbers
<1> QED
  BY <1>1, NextClassesAre DEF Numbered

LEMMA ReachedNumbers ==
    ASSUME NEW types, IsArena(types), NEW cls, Reached(types, cls)
    PROVE  Numbered(cls, Len(types))
<1>1. PICK h, m : History(types, h, m) /\ cls = h[m]
  BY DEF Reached
<1>2. m \in 1..m
  BY <1>1 DEF History
<1> QED
  BY <1>1, <1>2, HistoryNumbers

\* No round separates nodes that some bisimulation relates.
LEMMA HistoryKeeps ==
    ASSUME NEW types, IsArena(types), NEW h, NEW m, History(types, h, m),
           NEW B, Matches(types, types, B)
    PROVE  \A i \in 1..m : Agree(h[i], h[i], B)
<1> DEFINE T == {i \in 1..m : ~Agree(h[i], h[i], B)}
<1>1. /\ m \in Nat \ {0} /\ h[1] = FirstClasses(types)
      /\ \A i \in 1..(m - 1) : h[i + 1] = NextClasses(types, h[i])
  BY DEF History
<1> SUFFICES ASSUME T # {} PROVE FALSE
  OBVIOUS
<1>2. PICK i \in T : \A j \in T : i <= j
  <2>1. T \subseteq Nat
    OBVIOUS
  <2> HIDE DEF T
  <2> QED
    BY <2>1, LeastNumber
<1>3. i \in 1..m /\ ~Agree(h[i], h[i], B)
  BY <1>2
<1>4. PICK p \in B : h[i][p[1]] # h[i][p[2]]
  BY <1>3 DEF Agree
<1>5. PICK a \in 1..Len(types), b \in 1..Len(types) : p = <<a, b>>
  BY DEF Matches
<1>6. Local(types, a) = Local(types, b)
  BY <1>4, <1>5 DEF Matches
<1>7. i # 1
  BY <1>1, <1>4, <1>5, <1>6, FirstClassesAre
<1>8. i - 1 \in 1..(m - 1) /\ i - 1 \in 1..m /\ i - 1 + 1 = i
  BY <1>1, <1>3, <1>7
<1>9. PICK g : g = h[i - 1]
  OBVIOUS
<1>10. Agree(g, g, B) /\ h[i] = NextClasses(types, g)
  BY <1>1, <1>2, <1>8, <1>9
<1>11. PICK k \in Nat : g \in [1..Len(types) -> 1..k]
  BY <1>8, <1>9, HistoryNumbers DEF Numbered, Numbers
<1>12. g[a] = g[b]
  BY <1>4, <1>5, <1>10 DEF Agree
<1>13. \A j \in 1..Degree(types, a) : <<Kid(types, a, j), Kid(types, b, j)>> \in B
  BY <1>4, <1>5 DEF Matches
<1>14. \A j \in 1..Degree(types, a) : g[Kid(types, a, j)] = g[Kid(types, b, j)]
  BY <1>10, <1>13 DEF Agree
<1>15. SameByKids(types, a, g, types, b, g)
  BY <1>6, <1>14 DEF SameByKids
<1>16. NextClasses(types, g)[a] = NextClasses(types, g)[b]
  BY <1>11, <1>12, <1>15, NextClassesAre
<1> QED
  BY <1>4, <1>5, <1>10, <1>16

\* The partition the loop ends with: nodes of a class are alike and have
\* children of the same classes; whatever a bisimulation relates is together.
Stable(types, cls) ==
    \A a, b \in 1..Len(types) : cls[a] = cls[b] => SameByKids(types, a, cls, types, b, cls)

LEMMA FinalIs ==
    ASSUME NEW types, IsArena(types), NEW cls, Final(types, cls)
    PROVE  /\ Numbered(cls, Len(types))
           /\ Stable(types, cls)
           /\ \A B : Matches(types, types, B) => Agree(cls, cls, B)
<1>1. PICK h, m : /\ History(types, h, m)
                  /\ cls = NextClasses(types, h[m]) /\ ~PartitionWasSplit(h[m], cls)
  BY DEF Final
<1>2. m \in 1..m
  BY <1>1 DEF History
<1>3. PICK g : g = h[m]
  OBVIOUS
<1>4. Numbered(g, Len(types))
  BY <1>1, <1>2, <1>3, HistoryNumbers
<1>5. PICK k \in Nat : g \in [1..Len(types) -> 1..k]
  BY <1>4 DEF Numbered, Numbers
<1>6. \A a, b \in 1..Len(types) :
         cls[a] = cls[b] <=> g[a] = g[b] /\ SameByKids(types, a, g, types, b, g)
  BY <1>1, <1>3, <1>5, NextClassesAre
<1>7. Numbered(cls, Len(types))
  BY <1>1, <1>3, <1>4, NextNumbered
<1>8. \A a, b \in 1..Len(types) : g[a] = g[b] => cls[a] = cls[b]
  BY <1>1, <1>3, <1>5 DEF PartitionWasSplit
<1>9. Stable(types, cls)
  <2> SUFFICES ASSUME NEW a \in 1..Len(types), NEW b \in 1..Len(types), cls[a] = cls[b]
               PROVE  SameByKids(types, a, cls, types, b, cls)
    BY DEF Stable
  <2>1. Local(types, a) = Local(types, b)
        /\ \A i \in 1..Degree(types, a) : g[Kid(types, a, i)] = g[Kid(types, b, i)]
    BY <1>6 DEF SameByKids
  <2>2. Degree(types, a) = Degree(types, b)
    BY <2>1, LocalTellsDegree
  <2>3. \A i \in 1..Degree(types, a) :
           Kid(types, a, i) \in 1..Len(types) /\ Kid(types, b, i) \in 1..Len(types)
    BY <2>2, ArenaNodes
  <2>4. \A i \in 1..Degree(types, a) : cls[Kid(types, a, i)] = cls[Kid(types, b, i)]
    BY <1>8, <2>1, <2>3
  <2> QED
    BY <2>1, <2>4 DEF SameByKids
<1>10. ASSUME NEW B, Matches(types, types, B) PROVE Agree(cls, cls, B)
  <2>1. Agree(g, g, B)
    BY <1>1, <1>2, <1>3, <1>10, HistoryKeeps
  <2> SUFFICES ASSUME NEW p \in B PROVE cls[p[1]] = cls[p[2]]
    BY DEF Agree
  <2>2. PICK a \in 1..Len(types), b \in 1..Len(types) : p = <<a, b>>
    BY <1>10 DEF Matches
  <2>3. g[a] = g[b]
    BY <2>1, <2>2 DEF Agree
  <2> QED
    BY <1>8, <2>2, <2>3
<1> QED
  BY <1>7, <1>9, <1>10

LEMMA SplitsTogether ==
    ASSUME NEW s, NEW t, NEW B, Covers(s, t, B), B \subseteq (1..Len(s)) \X (1..Len(t)),
           NEW c, NEW d, DOMAIN c = 1..Len(s), DOMAIN d = 1..Len(t), Agree(c, d, B),
           NEW x, NEW y, Agree(x, y, B)
    PROVE  PartitionWasSplit(c, x) <=> PartitionWasSplit(d, y)
<1>1. ASSUME PartitionWasSplit(c, x) PROVE PartitionWasSplit(d, y)
  <2>1. PICK a1 \in 1..Len(s), a2 \in 1..Len(s) : c[a1] = c[a2] /\ x[a1] # x[a2]
    BY <1>1 DEF PartitionWasSplit
  <2>2. PICK b1 \in 1..Len(t) : <<a1, b1>> \in B
    BY DEF Covers
  <2>3. PICK b2 \in 1..Len(t) : <<a2, b2>> \in B
    BY DEF Covers
  <2>4. c[a1] = d[b1] /\ c[a2] = d[b2] /\ x[a1] = y[b1] /\ x[a2] = y[b2]
    BY <2>2, <2>3 DEF Agree
  <2> QED
    BY <2>1, <2>4 DEF PartitionWasSplit
<1>2. ASSUME PartitionWasSplit(d, y) PROVE PartitionWasSplit(c, x)
  <2>1. PICK b1 \in 1..Len(t), b2 \in 1..Len(t) : d[b1] = d[b2] /\ y[b1] # y[b2]
    BY <1>2 DEF PartitionWasSplit
  <2>2. PICK a1 \in 1..Len(s) : <<a1, b1>> \in B
    BY DEF Covers
  <2>3. PICK a2 \in 1..Len(s) : <<a2, b2>> \in B
    BY DEF Covers
  <2>4. c[a1] = d[b1] /\ c[a2] = d[b2] /\ x[a1] = y[b1] /\ x[a2] = y[b2]
    BY <2>2, <2>3 DEF Agree
  <2> QED
    BY <2>1, <2>4 DEF PartitionWasSplit
<1> QED
  BY <1>1, <1>2

\* Arenas that stand for each other go through the same rounds.
LEMMA HistoriesAgree ==
    ASSUME NEW s, IsArena(s), NEW t, IsArena(t), NEW B, Matches(s, t, B), Covers(s, t, B),
           NEW h, NEW m, History(s, h, m), NEW g, NEW l, History(t, g, l)
    PROVE  \A i \in 1..m : i \in 1..l => Agree(h[i], g[i], B)
<1> DEFINE T == {i \in 1..m : i \in 1..l /\ ~Agree(h[i], g[i], B)}
<1>1. /\ m \in Nat \ {0} /\ h[1] = FirstClasses(s)
      /\ \A i \in 1..(m - 1) : h[i + 1] = NextClasses(s, h[i])
      /\ l \in Nat \ {0} /\ g[1] = FirstClasses(t)
      /\ \A i \in 1..(l - 1) : g[i + 1] = NextClasses(t, g[i])
  BY DEF History
<1> SUFFICES ASSUME T # {} PROVE FALSE
  OBVIOUS
<1>2. PICK i \in T : \A j \in T : i <= j
  <2>1. T \subseteq Nat
    OBVIOUS
  <2> HIDE DEF T
  <2> QED
    BY <2>1, LeastNumber
<1>3. i \in 1..m /\ i \in 1..l /\ ~Agree(h[i], g[i], B)
  BY <1>2
<1>4. i # 1
  BY <1>1, <1>3, FirstAgrees
<1>5. /\ i - 1 \in 1..(m - 1) /\ i - 1 \in 1..m /\ i - 1 + 1 = i
      /\ i - 1 \in 1..(l - 1) /\ i - 1 \in 1..l
  BY <1>1, <1>3, <1>4
<1>6. PICK c : c = h[i - 1]
  OBVIOUS
<1>7. PICK d : d = g[i - 1]
  OBVIOUS
<1>8. Agree(c, d, B)
  <2>1. i - 1 \notin T
    BY <1>2, <1>5
  <2> QED
    BY <1>5, <1>6, <1>7, <2>1
<1>9. h[i] = NextClasses(s, c) /\ g[i] = NextClasses(t, d)
  BY <1>1, <1>5, <1>6, <1>7
<1>10. PICK k \in Nat : c \in [1..Len(s) -> 1..k]
  BY <1>5, <1>6, HistoryNumbers DEF Numbered, Numbers
<1>11. PICK r \in Nat : d \in [1..Len(t) -> 1..r]
  BY <1>5, <1>7, HistoryNumbers DEF Numbered, Numbers
<1>12. Agree(NextClasses(s, c), NextClasses(t, d), B)
  BY <1>8, <1>10, <1>11, NextAgrees
<1> QED
  BY <1>3, <1>9, <1>12

LEMMA EndsTogether ==
    ASSUME NEW s, IsArena(s), NEW t, IsArena(t), NEW B, Matches(s, t, B), Covers(s, t, B),
           NEW h, NEW m, History(s, h, m), NEW g, NEW l, History(t, g, l),
           m \in 1..l
    PROVE  /\ Agree(NextClasses(s, h[m]), NextClasses(t, g[m]), B)
           /\ PartitionWasSplit(h[m], NextClasses(s, h[m]))
                <=> PartitionWasSplit(g[m], NextClasses(t, g[m]))
<1>1. PICK c : c = h[m]
  OBVIOUS
<1>2. PICK d : d = g[m]
  OBVIOUS
<1>3. m \in 1..m
  BY DEF History
<1>4. Agree(c, d, B)
  BY <1>1, <1>2, <1>3, HistoriesAgree
<1>5. PICK k \in Nat : c \in [1..Len(s) -> 1..k]
  BY <1>1, <1>3, HistoryNumbers DEF Numbered, Numbers
<1>6. PICK r \in Nat : d \in [1..Len(t) -> 1..r]
  BY <1>2, HistoryNumbers DEF Numbered, Numbers
<1>7. Agree(NextClasses(s, c), NextClasses(t, d), B)
  BY <1>4, <1>5, <1>6, NextAgrees
<1>8. B \subseteq (1..Len(s)) \X (1..Len(t))
  BY DEF Matches
<1>9. DOMAIN c = 1..Len(s) /\ DOMAIN d = 1..Len(t)
  BY <1>5, <1>6
<1>10. PartitionWasSplit(c, NextClasses(s, c)) <=> PartitionWasSplit(d, NextClasses(t, d))
  BY <1>4, <1>7, <1>8, <1>9, SplitsTogether
<1> QED
  BY <1>1, <1>2, <1>7, <1>10

Converse(B) == {<<p[2], p[1]>> : p \in B}

LEMMA FinalNotSooner ==
    ASSUME NEW s, IsArena(s), NEW t, IsArena(t), NEW B, Matches(s, t, B), Covers(s, t, B),
           NEW h, NEW m, History(s, h, m), ~PartitionWasSplit(h[m], NextClasses(s, h[m])),
           NEW g, NEW l, History(t, g, l)
    PROVE  l <= m
<1>1. m \in Nat \ {0} /\ l \in Nat \ {0}
      /\ \A i \in 1..(l - 1) : g[i + 1] = NextClasses(t, g[i]) /\ PartitionWasSplit(g[i], g[i + 1])
  BY DEF History
<1> SUFFICES ASSUME m < l PROVE FALSE
  BY <1>1
<1>2. m \in 1..l /\ m \in 1..(l - 1)
  BY <1>1
<1>3. PartitionWasSplit(g[m], NextClasses(t, g[m]))
  BY <1>1, <1>2
<1> QED
  BY <1>2, <1>3, EndsTogether

LEMMA MatchesBack ==
    ASSUME NEW s, IsArena(s), NEW t, IsArena(t), NEW B, Matches(s, t, B)
    PROVE  /\ Matches(t, s, Converse(B))
           /\ Covers(s, t, B) => Covers(t, s, Converse(B))
<1>1. B \subseteq (1..Len(s)) \X (1..Len(t))
  BY DEF Matches
<1>2. \A b, a : <<b, a>> \in Converse(B) <=> <<a, b>> \in B
  BY <1>1 DEF Converse
<1>3. Converse(B) \subseteq (1..Len(t)) \X (1..Len(s))
  BY <1>1 DEF Converse
<1>4. ASSUME NEW b \in 1..Len(t), NEW a \in 1..Len(s), <<a, b>> \in B
      PROVE  /\ Local(t, b) = Local(s, a)
             /\ \A k \in 1..Degree(t, b) : <<Kid(s, a, k), Kid(t, b, k)>> \in B
  <2>1. /\ Local(s, a) = Local(t, b)
        /\ \A k \in 1..Degree(s, a) : <<Kid(s, a, k), Kid(t, b, k)>> \in B
    BY <1>4 DEF Matches
  <2>2. Degree(s, a) = Degree(t, b)
    BY <2>1, LocalTellsDegree
  <2> QED
    BY <2>1, <2>2
<1>5. Matches(t, s, Converse(B))
  BY <1>2, <1>3, <1>4 DEF Matches
<1>6. Covers(s, t, B) => Covers(t, s, Converse(B))
  BY <1>2 DEF Covers
<1> QED
  BY <1>5, <1>6

\* Arenas that stand for each other end with the same partition.
LEMMA FinalAgrees ==
    ASSUME NEW s, IsArena(s), NEW t, IsArena(t), NEW B, Matches(s, t, B), Covers(s, t, B),
           NEW c, Final(s, c), NEW d, Final(t, d)
    PROVE  Agree(c, d, B)
<1>1. PICK h, m : /\ History(s, h, m)
                  /\ c = NextClasses(s, h[m]) /\ ~PartitionWasSplit(h[m], c)
  BY DEF Final
<1>2. PICK g, l : /\ History(t, g, l)
                  /\ d = NextClasses(t, g[l]) /\ ~PartitionWasSplit(g[l], d)
  BY DEF Final
<1>3. l <= m
  BY <1>1, <1>2, FinalNotSooner
<1>4. PICK C : C = Converse(B)
  OBVIOUS
<1>5. Matches(t, s, C) /\ Covers(t, s, C)
  BY <1>4, MatchesBack
<1>6. m <= l
  BY <1>1, <1>2, <1>5, FinalNotSooner
<1>7. m = l /\ m \in 1..l
  BY <1>1, <1>2, <1>3, <1>6 DEF History
<1> QED
  BY <1>1, <1>2, <1>7, EndsTogether

-----------------------------------------------------------------------------
\* Contracts: arenas with roots.

LEMMA ContractIs ==
    ASSUME NEW contract, IsContract(contract)
    PROVE  /\ IsArena(contract.types)
           /\ contract.declarations \in Seq(Declaration(Len(contract.types)))
           /\ \A i, j \in DOMAIN contract.declarations :
                 contract.declarations[i].name = contract.declarations[j].name => i = j
           /\ contract.actor \in {NoActor} \cup 1..Len(contract.types)
           /\ contract = [types |-> contract.types, declarations |-> contract.declarations,
                          actor |-> contract.actor]
<1> DEFINE n == Len(contract.types)
<1>1. /\ contract \in [types : Seq(NodeShape(n)), declarations : Seq([name : Nat, ty : 1..n]),
                       actor : {NoActor} \cup 1..n]
      /\ \A i \in 1..n : IsNode(contract.types[i], n)
      /\ \A i, j \in DOMAIN contract.declarations :
            contract.declarations[i].name = contract.declarations[j].name => i = j
  BY DEF IsContract
<1>2. /\ contract.types \in Seq(NodeShape(n))
      /\ contract.declarations \in Seq([name : Nat, ty : 1..n])
      /\ contract.actor \in {NoActor} \cup 1..n
      /\ contract = [types |-> contract.types, declarations |-> contract.declarations,
                     actor |-> contract.actor]
  BY <1>1
<1>3. IsArena(contract.types)
  BY <1>1, <1>2 DEF IsArena
<1>4. contract.declarations \in Seq(Declaration(n))
  BY <1>2 DEF Declaration
<1> QED
  BY <1>1, <1>2, <1>3, <1>4

LEMMA ContractIf ==
    ASSUME NEW n \in Nat, NEW types \in Seq(NodeShape(n)), Len(types) = n,
           \A i \in 1..n : IsNode(types[i], n),
           NEW declarations \in Seq(Declaration(n)),
           \A i, j \in DOMAIN declarations :
              declarations[i].name = declarations[j].name => i = j,
           NEW actor \in {NoActor} \cup 1..n
    PROVE  IsContract([types |-> types, declarations |-> declarations, actor |-> actor])
<1> DEFINE contract == [types |-> types, declarations |-> declarations, actor |-> actor]
<1>1. contract.types = types /\ contract.declarations = declarations /\ contract.actor = actor
  OBVIOUS
<1>2. declarations \in Seq([name : Nat, ty : 1..n])
  BY DEF Declaration
<1>3. contract \in [types : Seq(NodeShape(n)), declarations : Seq([name : Nat, ty : 1..n]),
                    actor : {NoActor} \cup 1..n]
  BY <1>2
<1> HIDE DEF contract
<1>4. IsContract(contract)
  BY <1>1, <1>3 DEF IsContract
<1> QED
  BY <1>4 DEF contract

\* A list of nodes as an arena.
LEMMA ArenaIf ==
    ASSUME NEW n \in Nat, NEW types, types = [i \in 1..n |-> types[i]],
           \A i \in 1..n : IsNode(types[i], n)
    PROVE  types \in Seq(NodeShape(n)) /\ Len(types) = n /\ IsArena(types)
<1>1. \A i \in 1..n : types[i] \in NodeShape(n)
  BY DEF IsNode
<1>2. types \in Seq(NodeShape(n)) /\ Len(types) = n /\ DOMAIN types = 1..n
  BY <1>1
<1> QED
  BY <1>2 DEF IsArena

RootsFit(contract, to, k) ==
    IsContract(contract) /\ k \in Nat /\ to \in [1..Len(contract.types) -> 1..k]

LEMMA RootsAre ==
    ASSUME NEW contract, NEW to, NEW k, RootsFit(contract, to, k)
    PROVE  LET roots == RemapRoots(contract, to)
               old == contract.declarations
           IN  /\ roots.declarations \in Seq(Declaration(k))
               /\ Len(roots.declarations) = Len(old)
               /\ DOMAIN roots.declarations = DOMAIN old
               /\ \A i \in DOMAIN old :
                     roots.declarations[i] = [name |-> old[i].name, ty |-> to[old[i].ty]]
               /\ \A i, j \in DOMAIN old :
                     roots.declarations[i].name = roots.declarations[j].name => i = j
               /\ roots.actor = IF contract.actor = NoActor THEN NoActor ELSE to[contract.actor]
               /\ roots.actor \in {NoActor} \cup 1..k
<1> DEFINE n == Len(contract.types)
<1>0. IsContract(contract) /\ k \in Nat /\ to \in [1..n -> 1..k]
  BY DEF RootsFit
<1>1. PICK old : old = contract.declarations
  OBVIOUS
<1>2. /\ old \in Seq(Declaration(n)) /\ contract.actor \in {NoActor} \cup 1..n
      /\ \A i, j \in DOMAIN old : old[i].name = old[j].name => i = j
  BY <1>0, <1>1, ContractIs
<1>3. /\ Len(old) \in Nat /\ DOMAIN old = 1..Len(old)
      /\ \A i \in DOMAIN old :
            old[i] \in Declaration(n) /\ old[i].name \in Nat /\ old[i].ty \in 1..n
  BY <1>2, DeclarationsTyped
<1> DEFINE new == [i \in DOMAIN old |-> [old[i] EXCEPT !.ty = to[@]]]
<1>4. \A i \in DOMAIN old :
          [old[i] EXCEPT !.ty = to[@]] = [name |-> old[i].name, ty |-> to[old[i].ty]]
  BY <1>3 DEF Declaration
<1>5. new = [i \in 1..Len(old) |-> [name |-> old[i].name, ty |-> to[old[i].ty]]]
  BY <1>3, <1>4
<1>6. /\ RemapRoots(contract, to).declarations = new
      /\ RemapRoots(contract, to).actor
           = IF contract.actor = NoActor THEN NoActor ELSE to[contract.actor]
  BY <1>1 DEF RemapRoots
<1> HIDE DEF new
<1>7. /\ DOMAIN new = DOMAIN old
      /\ \A i \in DOMAIN old : new[i] = [name |-> old[i].name, ty |-> to[old[i].ty]]
  BY <1>3, <1>5
<1>8. \A i \in 1..Len(old) : [name |-> old[i].name, ty |-> to[old[i].ty]] \in Declaration(k)
  BY <1>0, <1>3 DEF Declaration
<1>9. new \in Seq(Declaration(k)) /\ Len(new) = Len(old)
  BY <1>3, <1>5, <1>8
<1>10. \A i, j \in DOMAIN old : new[i].name = new[j].name => i = j
  BY <1>2, <1>7
<1>11. (IF contract.actor = NoActor THEN NoActor ELSE to[contract.actor]) \in {NoActor} \cup 1..k
  BY <1>0, <1>2
<1> QED
  BY <1>1, <1>6, <1>7, <1>9, <1>10, <1>11

-----------------------------------------------------------------------------
\* The quotient.

FirstIn(cls, c) == CHOOSE x \in DOMAIN cls : cls[x] = c /\ \A m \in 1..(x - 1) : cls[m] # c

LEMMA FirstMember ==
    ASSUME NEW cls, NEW n \in Nat, DOMAIN cls = 1..n, NEW c, \E i \in 1..n : cls[i] = c
    PROVE  FirstIn(cls, c) \in 1..n /\ cls[FirstIn(cls, c)] = c
<1> DEFINE T == {i \in 1..n : cls[i] = c}
<1>1. PICK x \in T : \A j \in T : x <= j
  <2>1. T \subseteq Nat /\ T # {}
    OBVIOUS
  <2> HIDE DEF T
  <2> QED
    BY <2>1, LeastNumber
<1>2. x \in 1..n /\ cls[x] = c
  BY <1>1
<1>3. \A m \in 1..(x - 1) : cls[m] # c
  BY <1>1, <1>2
<1>4. \E y \in DOMAIN cls : cls[y] = c /\ \A m \in 1..(y - 1) : cls[m] # c
  BY <1>2, <1>3
<1> QED
  BY <1>4 DEF FirstIn

LEMMA QuotientIs ==
    ASSUME NEW contract, IsContract(contract), NEW cls, NEW k \in Nat,
           Numbers(cls, Len(contract.types), k), Stable(contract.types, cls)
    PROVE  LET q == Quotient(contract, cls)
           IN  /\ IsContract(q) /\ Len(q.types) = k
               /\ \A a \in 1..Len(contract.types) :
                     q.types[cls[a]] = Remap(contract.types[a], cls)
               /\ q.declarations = RemapRoots(contract, cls).declarations
               /\ q.actor = RemapRoots(contract, cls).actor
<1> DEFINE n == Len(contract.types)
           q == Quotient(contract, cls)
           member(c) == FirstIn(cls, c)
<1>1. PICK types : types = contract.types
  OBVIOUS
<1>2. n \in Nat /\ IsArena(types) /\ \A a \in 1..n : IsNode(types[a], n)
  BY <1>1, ContractIs DEF IsArena
<1>3. /\ cls \in [1..n -> 1..k] /\ DOMAIN cls = 1..n
      /\ \A c \in 1..k : \E i \in 1..n : cls[i] = c
  BY DEF Numbers
<1>4. Range(cls) = 1..k
  BY <1>3 DEF Range
<1>5. ASSUME NEW c \in 1..k
      PROVE  member(c) \in 1..n /\ cls[member(c)] = c
  <2>1. \E i \in 1..n : cls[i] = c
    BY <1>3
  <2> QED
    BY <1>2, <1>3, <2>1, FirstMember
<1>6. /\ q.types = [c \in Range(cls) |-> Remap(types[member(c)], cls)]
      /\ q.declarations = RemapRoots(contract, cls).declarations
      /\ q.actor = RemapRoots(contract, cls).actor
      /\ q = [types |-> q.types, declarations |-> q.declarations, actor |-> q.actor]
  BY <1>1 DEF Quotient, FirstIn
<1> HIDE DEF q, member
<1>7. /\ q.types = [c \in 1..k |-> q.types[c]]
      /\ \A c \in 1..k : q.types[c] = Remap(types[member(c)], cls)
  BY <1>4, <1>6
<1>8. \A i \in 1..n : cls[i] \in 1..k
  BY <1>3
<1>9. \A c \in 1..k : IsNode(q.types[c], k)
  <2> TAKE c \in 1..k
  <2>1. IsNode(types[member(c)], n)
    BY <1>2, <1>5
  <2> HIDE DEF n
  <2>2. IsNode(Remap(types[member(c)], cls), k)
    BY <1>2, <1>8, <2>1, RemapIsNode
  <2> QED
    BY <1>7, <2>2
<1>10. q.types \in Seq(NodeShape(k)) /\ Len(q.types) = k
  BY <1>7, <1>9, ArenaIf
<1>11. /\ q.declarations \in Seq(Declaration(k))
       /\ \A i, j \in DOMAIN q.declarations :
             q.declarations[i].name = q.declarations[j].name => i = j
       /\ q.actor \in {NoActor} \cup 1..k
  <2>1. RootsFit(contract, cls, k)
    BY <1>3 DEF RootsFit
  <2> QED
    BY <1>6, <2>1, RootsAre
<1>12. IsContract([types |-> q.types, declarations |-> q.declarations, actor |-> q.actor])
  BY <1>9, <1>10, <1>11, ContractIf
<1>13. ASSUME NEW a \in 1..n PROVE q.types[cls[a]] = Remap(types[a], cls)
  <2>1. PICK c \in 1..k : c = cls[a]
    BY <1>3
  <2>2. PICK b \in 1..n : b = member(c) /\ cls[b] = c
    BY <1>5
  <2>3. SameByKids(types, b, cls, types, a, cls)
    BY <1>1, <2>1, <2>2 DEF Stable
  <2>4. /\ LocalSignature(types[b]) = LocalSignature(types[a])
        /\ SameTargets(types[b], cls, types[a], cls)
    BY <2>3 DEF SameByKids, Local, Degree, Kid, SameTargets
  <2>5. Fits(n, types[b], cls, k) /\ Fits(n, types[a], cls, k)
    BY <1>2, <1>8 DEF Fits
  <2>6. Remap(types[b], cls) = Remap(types[a], cls)
    BY <2>4, <2>5, RemapSame
  <2> QED
    BY <1>7, <2>1, <2>2, <2>6
<1> QED
  BY <1>1, <1>6, <1>10, <1>12, <1>13 DEF q

-----------------------------------------------------------------------------
\* Functions defined by repeating a step that makes a number smaller.

Solves(f, W, base, leaf, step) ==
    f = [w \in W |-> IF w \in base THEN leaf[w] ELSE f[step[w]]]

Descends(W, base, step, size) ==
    /\ size \in [W -> Nat]
    /\ \A w \in W : w \notin base => step[w] \in W /\ size[step[w]] < size[w]

\* A solution as far as size k.
SolvesBelow(f, k, W, base, leaf, step, size) ==
    \A w \in W : size[w] < k => f[w] = IF w \in base THEN leaf[w] ELSE f[step[w]]

LEMMA SolutionsAgree ==
    ASSUME NEW W, NEW base, NEW leaf, NEW step, NEW size, Descends(W, base, step, size),
           NEW f, NEW k \in Nat, SolvesBelow(f, k, W, base, leaf, step, size),
           NEW g, NEW l \in Nat, SolvesBelow(g, l, W, base, leaf, step, size),
           NEW w \in W, size[w] < k, size[w] < l
    PROVE  f[w] = g[w]
<1> DEFINE T == {size[x] : x \in {y \in W : size[y] < k /\ size[y] < l /\ f[y] # g[y]}}
<1> SUFFICES ASSUME T # {} PROVE FALSE
  OBVIOUS
<1>1. \A x \in W : size[x] \in Nat
  BY DEF Descends
<1>2. PICK t \in T : \A j \in T : t <= j
  <2>1. T \subseteq Nat
    BY <1>1
  <2> HIDE DEF T
  <2> QED
    BY <2>1, LeastNumber
<1>3. PICK x \in W : t = size[x] /\ size[x] < k /\ size[x] < l /\ f[x] # g[x]
  BY <1>2
<1>4. /\ f[x] = IF x \in base THEN leaf[x] ELSE f[step[x]]
      /\ g[x] = IF x \in base THEN leaf[x] ELSE g[step[x]]
  BY <1>3 DEF SolvesBelow
<1>5. x \notin base /\ f[step[x]] # g[step[x]]
  BY <1>3, <1>4
<1>6. step[x] \in W /\ size[step[x]] < size[x]
  BY <1>5 DEF Descends
<1>7. size[step[x]] < k /\ size[step[x]] < l
  BY <1>1, <1>3, <1>6
<1>8. size[step[x]] \in T
  BY <1>5, <1>6, <1>7
<1> HIDE DEF T
<1>9. size[x] <= size[step[x]]
  BY <1>2, <1>3, <1>8
<1> QED
  BY <1>1, <1>6, <1>9

LEMMA SolutionsBelow ==
    ASSUME NEW W, NEW base, NEW leaf, NEW step, NEW size, Descends(W, base, step, size)
    PROVE  \A k \in Nat : \E f : SolvesBelow(f, k, W, base, leaf, step, size)
<1> DEFINE Some(k) == \E f : SolvesBelow(f, k, W, base, leaf, step, size)
           T == {k \in Nat : ~Some(k)}
<1> SUFFICES ASSUME T # {} PROVE FALSE
  OBVIOUS
<1>1. \A x \in W : size[x] \in Nat
  BY DEF Descends
<1> HIDE DEF Some
<1>2. PICK k \in T : \A j \in T : k <= j
  <2>1. T \subseteq Nat
    OBVIOUS
  <2> HIDE DEF T
  <2> QED
    BY <2>1, LeastNumber
<1>3. k \in Nat /\ ~Some(k)
  BY <1>2
<1>4. k # 0
  <2>1. SolvesBelow(leaf, 0, W, base, leaf, step, size)
    BY <1>1 DEF SolvesBelow
  <2>2. Some(0)
    BY <2>1 DEF Some
  <2> QED
    BY <1>3, <2>2
<1>5. k - 1 \in Nat /\ k - 1 < k
  BY <1>3, <1>4
<1>6. Some(k - 1)
  <2>1. k - 1 \notin T
    BY <1>2, <1>3, <1>5
  <2> QED
    BY <1>5, <2>1
<1>7. PICK f : SolvesBelow(f, k - 1, W, base, leaf, step, size)
  BY <1>6 DEF Some
<1> DEFINE g == [w \in W |-> IF w \in base THEN leaf[w] ELSE f[step[w]]]
<1>8. \A w \in W : g[w] = IF w \in base THEN leaf[w] ELSE f[step[w]]
  OBVIOUS
<1> HIDE DEF g
<1>9. SolvesBelow(g, k, W, base, leaf, step, size)
  <2> SUFFICES ASSUME NEW w \in W, size[w] < k, w \notin base
               PROVE  g[w] = g[step[w]]
    BY <1>8 DEF SolvesBelow
  <2>1. step[w] \in W /\ size[step[w]] < size[w]
    BY DEF Descends
  <2>2. size[step[w]] < k - 1
    BY <1>1, <1>3, <2>1
  <2>3. f[step[w]] = IF step[w] \in base THEN leaf[step[w]] ELSE f[step[step[w]]]
    BY <1>7, <2>1, <2>2 DEF SolvesBelow
  <2> QED
    BY <1>8, <2>1, <2>3
<1> QED
  BY <1>3, <1>9 DEF Some

LEMMA SolutionExists ==
    ASSUME NEW W, NEW base, NEW leaf, NEW step, NEW size, Descends(W, base, step, size)
    PROVE  \E f : Solves(f, W, base, leaf, step)
<1> DEFINE below(k) == CHOOSE f : SolvesBelow(f, k, W, base, leaf, step, size)
           f == [w \in W |-> below(size[w] + 1)[w]]
<1>1. \A x \in W : size[x] \in Nat
  BY DEF Descends
<1>2. ASSUME NEW k \in Nat PROVE SolvesBelow(below(k), k, W, base, leaf, step, size)
  BY SolutionsBelow
<1> HIDE DEF below
<1>3. ASSUME NEW w \in W, NEW k \in Nat, size[w] < k PROVE f[w] = below(k)[w]
  <2>1. size[w] + 1 \in Nat /\ size[w] < size[w] + 1
    BY <1>1
  <2>2. SolvesBelow(below(size[w] + 1), size[w] + 1, W, base, leaf, step, size)
    BY <1>2, <2>1
  <2>3. SolvesBelow(below(k), k, W, base, leaf, step, size)
    BY <1>2
  <2>4. below(size[w] + 1)[w] = below(k)[w]
    BY <1>3, <2>1, <2>2, <2>3, SolutionsAgree
  <2> QED
    BY <2>4
<1> HIDE DEF f
<1>4. ASSUME NEW w \in W
      PROVE  f[w] = IF w \in base THEN leaf[w] ELSE f[step[w]]
  <2>1. PICK k \in Nat : k = size[w] + 1 /\ size[w] < k
    BY <1>1
  <2>2. f[w] = below(k)[w]
    BY <1>3, <2>1
  <2>3. below(k)[w] = IF w \in base THEN leaf[w] ELSE below(k)[step[w]]
    BY <1>2, <2>1 DEF SolvesBelow
  <2>4. w \notin base => step[w] \in W /\ size[step[w]] < k
    BY <1>1, <2>1 DEF Descends
  <2>5. w \notin base => f[step[w]] = below(k)[step[w]]
    BY <1>3, <2>4
  <2> QED
    BY <2>2, <2>3, <2>5
<1>5. f = [w \in W |-> f[w]]
  BY DEF f
<1>6. f = [w \in W |-> IF w \in base THEN leaf[w] ELSE f[step[w]]]
  BY <1>4, <1>5
<1> QED
  BY <1>6 DEF Solves

\* What a function so defined has in common with its last argument is shown
\* for a set of arguments.
LEMMA DescentCovers ==
    ASSUME NEW W, NEW base, NEW step, NEW size, Descends(W, base, step, size),
           NEW P, W \cap base \subseteq P,
           \A w \in W : w \notin base /\ step[w] \in P => w \in P
    PROVE  W \subseteq P
<1> DEFINE T == {size[x] : x \in W \ P}
<1> SUFFICES ASSUME W \ P # {} PROVE FALSE
  OBVIOUS
<1>1. \A x \in W : size[x] \in Nat
  BY DEF Descends
<1>2. PICK t \in T : \A j \in T : t <= j
  <2>1. T \subseteq Nat /\ T # {}
    BY <1>1
  <2> HIDE DEF T
  <2> QED
    BY <2>1, LeastNumber
<1>3. PICK x \in W \ P : t = size[x]
  BY <1>2
<1>4. x \notin base /\ step[x] \notin P
  BY <1>3
<1>5. step[x] \in W /\ size[step[x]] < size[x]
  BY <1>3, <1>4 DEF Descends
<1>6. size[step[x]] \in T
  BY <1>4, <1>5
<1> HIDE DEF T
<1>7. size[x] <= size[step[x]]
  BY <1>2, <1>3, <1>6
<1> QED
  BY <1>1, <1>3, <1>5, <1>7

-----------------------------------------------------------------------------
\* The visit: nodes N, their children in order.

LEMMA HeadTail ==
    ASSUME NEW S, NEW s \in Seq(S), s # << >>
    PROVE  /\ Head(s) \in S /\ Tail(s) \in Seq(S) /\ Len(Tail(s)) = Len(s) - 1
           /\ Len(s) \in Nat /\ Len(s) > 0
           /\ Range(s) = {Head(s)} \cup Range(Tail(s))
<1>1. /\ Head(s) \in S /\ Tail(s) \in Seq(S) /\ Len(Tail(s)) = Len(s) - 1
      /\ \A i \in 1..Len(Tail(s)) : Tail(s)[i] = s[i + 1]
  BY HeadTailProperties
<1>2. Len(s) \in Nat /\ Len(s) > 0 /\ Head(s) = s[1]
  OBVIOUS
<1>3. PICK t : t = Tail(s)
  OBVIOUS
<1>4. DOMAIN s = 1..Len(s) /\ DOMAIN t = 1..(Len(s) - 1) /\ \A i \in DOMAIN t : t[i] = s[i + 1]
  BY <1>1, <1>3, LenProperties
<1>5. \A i \in DOMAIN s : s[i] = s[1] \/ \E j \in DOMAIN t : s[i] = t[j]
  <2> TAKE i \in DOMAIN s
  <2>1. CASE i = 1
    BY <2>1
  <2>2. CASE i # 1
    <3>1. i - 1 \in DOMAIN t /\ i - 1 + 1 = i
      BY <1>2, <1>4, <2>2
    <3>2. t[i - 1] = s[i]
      BY <1>4, <3>1
    <3> QED
      BY <3>1, <3>2
  <2> QED
    BY <2>1, <2>2
<1>6. 1 \in DOMAIN s /\ \A j \in DOMAIN t : j + 1 \in DOMAIN s /\ t[j] = s[j + 1]
  BY <1>2, <1>4
<1>7. Range(s) = {s[1]} \cup Range(t)
  BY <1>5, <1>6 DEF Range
<1> QED
  BY <1>1, <1>2, <1>3, <1>7

LEMMA RangeOfConcat ==
    ASSUME NEW S, NEW s \in Seq(S), NEW t \in Seq(S)
    PROVE  Range(s \o t) = Range(s) \cup Range(t)
<1>1. Joins(s \o t, S, s, t)
  BY Concatenated
<1>2. PICK w : w = s \o t
  OBVIOUS
<1>3. /\ DOMAIN w = 1..(Len(s) + Len(t)) /\ DOMAIN s = 1..Len(s) /\ DOMAIN t = 1..Len(t)
      /\ Len(s) \in Nat /\ Len(t) \in Nat
      /\ \A i \in 1..Len(s) : w[i] = s[i]
      /\ \A i \in 1..Len(t) : w[Len(s) + i] = t[i]
  BY <1>1, <1>2, LenProperties DEF Joins
<1>4. \A i \in DOMAIN w : (\E j \in DOMAIN s : w[i] = s[j]) \/ (\E j \in DOMAIN t : w[i] = t[j])
  <2> TAKE i \in DOMAIN w
  <2>1. CASE i <= Len(s)
    BY <1>3, <2>1
  <2>2. CASE i > Len(s)
    <3>1. i - Len(s) \in DOMAIN t /\ Len(s) + (i - Len(s)) = i
      BY <1>3, <2>2
    <3>2. w[i] = t[i - Len(s)]
      BY <1>3, <3>1
    <3> QED
      BY <3>1, <3>2
  <2> QED
    BY <1>3, <2>1, <2>2
<1>5. \A j \in DOMAIN s : j \in DOMAIN w /\ w[j] = s[j]
  BY <1>3
<1>6. \A j \in DOMAIN t : Len(s) + j \in DOMAIN w /\ w[Len(s) + j] = t[j]
  BY <1>3
<1>7. \A x \in Range(w) : x \in Range(s) \cup Range(t)
  BY <1>4 DEF Range
<1>8. \A x \in Range(s) \cup Range(t) : x \in Range(w)
  BY <1>5, <1>6 DEF Range
<1> QED
  BY <1>2, <1>7, <1>8

LEMMA RangeOfAppend ==
    ASSUME NEW S, NEW s \in Seq(S), NEW x \in S
    PROVE  /\ Append(s, x) \in Seq(S)
           /\ Range(Append(s, x)) = Range(s) \cup {x}
           /\ Len(Append(s, x)) = Len(s) + 1 /\ Len(s) \in Nat
           /\ \A i \in 1..Len(s) : Append(s, x)[i] = s[i]
           /\ Append(s, x)[Len(s) + 1] = x
           /\ Range(s) \subseteq S
<1>1. PICK w : w = Append(s, x)
  OBVIOUS
<1>2. /\ w \in Seq(S) /\ Len(w) = Len(s) + 1 /\ Len(s) \in Nat
      /\ \A i \in 1..Len(s) : w[i] = s[i]
      /\ w[Len(s) + 1] = x
  BY <1>1
<1>3. DOMAIN w = 1..(Len(s) + 1) /\ DOMAIN s = 1..Len(s)
  BY <1>2, LenProperties
<1>4. Range(w) = Range(s) \cup {x}
  BY <1>2, <1>3 DEF Range
<1>5. Range(s) \subseteq S
  BY DEF Range
<1> QED
  BY <1>1, <1>2, <1>4, <1>5

\* Finitely many numbers have a bound.
LEMMA Bounded ==
    ASSUME NEW n \in Nat, NEW f, \A i \in 1..n : f[i] \in Nat
    PROVE  \E b \in Nat : \A i \in 1..n : f[i] <= b
<1> DEFINE Some(k) == \E b \in Nat : \A i \in 1..k : f[i] <= b
           T == {k \in Nat : k <= n /\ ~Some(k)}
<1>0. SUFFICES ASSUME ~Some(n) PROVE FALSE
  OBVIOUS
<1> HIDE DEF Some
<1>9. T # {}
  BY <1>0
<1>1. PICK k \in T : \A j \in T : k <= j
  <2>1. T \subseteq Nat
    OBVIOUS
  <2> HIDE DEF T
  <2> QED
    BY <1>9, <2>1, LeastNumber
<1>2. k \in Nat /\ k <= n /\ ~Some(k)
  BY <1>1
<1>3. k # 0
  <2>1. Some(0)
    BY DEF Some
  <2> QED
    BY <1>2, <2>1
<1>4. k - 1 \in Nat /\ k - 1 <= n /\ Some(k - 1)
  <2>1. k - 1 \in Nat /\ k - 1 <= n /\ k - 1 < k
    BY <1>2, <1>3
  <2>2. k - 1 \notin T
    BY <1>1, <1>2, <2>1
  <2> QED
    BY <2>1, <2>2
<1>5. PICK b \in Nat : \A i \in 1..(k - 1) : f[i] <= b
  BY <1>4 DEF Some
<1>6. f[k] \in Nat
  BY <1>2, <1>3
<1> DEFINE c == IF f[k] <= b THEN b ELSE f[k]
<1>7. c \in Nat /\ b <= c /\ f[k] <= c
  BY <1>6
<1> HIDE DEF c
<1>8. \A i \in 1..k : f[i] <= c
  <2> TAKE i \in 1..k
  <2>1. CASE i = k
    BY <1>7, <2>1
  <2>2. CASE i # k
    <3>1. i \in 1..(k - 1) /\ f[i] \in Nat
      BY <1>2, <2>2
    <3> QED
      BY <1>5, <1>7, <3>1
  <2> QED
    BY <2>1, <2>2
<1> QED
  BY <1>2, <1>7, <1>8 DEF Some

-----------------------------------------------------------------------------
Walks(n) == Seq(1..n) \X Seq(1..n)
Ended(n) == {w \in Walks(n) : w[1] = << >>}
OrderSoFar(n) == [w \in Walks(n) |-> w[2]]
Step(kids, w) ==
    IF Head(w[1]) \in Range(w[2]) THEN <<Tail(w[1]), w[2]>>
    ELSE <<kids[Head(w[1])] \o Tail(w[1]), Append(w[2], Head(w[1]))>>
Steps(n, kids) == [w \in Walks(n) |-> Step(kids, w)]

LEMMA WalkDescends ==
    ASSUME NEW n \in Nat, NEW kids \in [1..n -> Seq(1..n)]
    PROVE  \E size : Descends(Walks(n), Ended(n), Steps(n, kids), size)
<1> DEFINE N == 1..n
<1>1. \A i \in N : kids[i] \in Seq(N) /\ Len(kids[i]) \in Nat
  OBVIOUS
<1>2. PICK b \in Nat : \A i \in N : Len(kids[i]) <= b
  <2> DEFINE f == [i \in N |-> Len(kids[i])]
  <2>1. \A i \in N : f[i] \in Nat /\ f[i] = Len(kids[i])
    BY <1>1
  <2> HIDE DEF f
  <2>2. \E b \in Nat : \A i \in N : f[i] <= b
    BY <2>1, Bounded
  <2> QED
    BY <2>1, <2>2
<1>3. ASSUME NEW o \in Seq(N)
      PROVE  /\ IsFiniteSet(Range(o)) /\ Cardinality(Range(o)) \in Nat
             /\ Cardinality(Range(o)) <= n /\ Range(o) \subseteq N
  <2>1. Range(o) \in SUBSET N
    BY DEF Range
  <2>2. IsFiniteSet(N) /\ Cardinality(N) = n
    BY FS_Interval
  <2> QED
    BY <2>1, <2>2, FS_Subset, FS_CardinalityType
<1> DEFINE left(o) == n - Cardinality(Range(o))
           size == [w \in Walks(n) |-> Len(w[1]) + left(w[2]) * (b + 1)]
<1>4. \A o \in Seq(N) : left(o) \in Nat
  BY <1>3
<1>5. ASSUME NEW s \in Seq(N), NEW o \in Seq(N)
      PROVE  size[<<s, o>>] = Len(s) + left(o) * (b + 1)
  BY DEF Walks
<1>6. size \in [Walks(n) -> Nat]
  <2>1. \A w \in Walks(n) : Len(w[1]) + left(w[2]) * (b + 1) \in Nat
    <3> TAKE w \in Walks(n)
    <3>1. Len(w[1]) \in Nat /\ left(w[2]) \in Nat
      BY <1>4 DEF Walks
    <3> HIDE DEF left
    <3>2. left(w[2]) * (b + 1) \in Nat
      BY <3>1
    <3> QED
      BY <3>1, <3>2
  <2> QED
    BY <2>1
<1> HIDE DEF size
<1>7. ASSUME NEW w \in Walks(n), w \notin Ended(n)
      PROVE  Steps(n, kids)[w] \in Walks(n) /\ size[Steps(n, kids)[w]] < size[w]
  <2>1. PICK s \in Seq(N), o \in Seq(N) : w = <<s, o>> /\ s # << >>
    BY <1>7 DEF Walks, Ended
  <2>2. /\ Head(s) \in N /\ Tail(s) \in Seq(N) /\ Len(Tail(s)) = Len(s) - 1
        /\ Len(s) \in Nat /\ Len(s) > 0
    BY <2>1, HeadTail
  <2>3. Steps(n, kids)[w] = Step(kids, <<s, o>>)
    BY <2>1 DEF Steps
  <2>4. CASE Head(s) \in Range(o)
    <3>1. Steps(n, kids)[w] = <<Tail(s), o>>
      BY <2>3, <2>4 DEF Step
    <3>2. left(o) * (b + 1) \in Nat
      <4>1. left(o) \in Nat
        BY <1>4
      <4> HIDE DEF left
      <4> QED
        BY <4>1
    <3>3. size[<<Tail(s), o>>] = Len(s) - 1 + left(o) * (b + 1)
          /\ size[w] = Len(s) + left(o) * (b + 1)
      BY <1>5, <2>1, <2>2
    <3> HIDE DEF left
    <3>4. size[<<Tail(s), o>>] < size[w]
      BY <2>2, <3>2, <3>3
    <3>5. <<Tail(s), o>> \in Walks(n)
      BY <2>2 DEF Walks
    <3> QED
      BY <3>1, <3>4, <3>5
  <2>5. CASE Head(s) \notin Range(o)
    <3> DEFINE x == Head(s)
               t == kids[x] \o Tail(s)
               p == Append(o, x)
    <3>1. Steps(n, kids)[w] = <<t, p>>
      BY <2>3, <2>5 DEF Step
    <3>2. t \in Seq(N) /\ Len(t) = Len(kids[x]) + (Len(s) - 1)
      <4>1. kids[x] \in Seq(N)
        BY <1>1, <2>2
      <4> QED
        BY <2>2, <4>1, ConcatProperties
    <3>3. p \in Seq(N) /\ Range(p) = Range(o) \cup {x}
      BY <2>2, RangeOfAppend
    <3>4. Cardinality(Range(p)) = Cardinality(Range(o)) + 1
      <4>1. IsFiniteSet(Range(o))
        BY <1>3
      <4> HIDE DEF x, p
      <4> QED
        BY <2>5, <3>3, <4>1, FS_AddElement DEF x
    <3>5. left(p) = left(o) - 1 /\ left(o) \in Nat /\ left(p) \in Nat
      <4>1. left(o) \in Nat /\ left(p) \in Nat
        BY <1>4, <3>3
      <4>2. Cardinality(Range(o)) \in Nat
        BY <1>3
      <4>3. left(o) = n - Cardinality(Range(o)) /\ left(p) = n - Cardinality(Range(p))
        OBVIOUS
      <4> HIDE DEF left, p
      <4> QED
        BY <3>4, <4>1, <4>2, <4>3
    <3>6. Len(kids[x]) \in Nat /\ Len(kids[x]) <= b
      BY <1>1, <1>2, <2>2
    <3>7. size[<<t, p>>] = Len(t) + left(p) * (b + 1) /\ size[w] = Len(s) + left(o) * (b + 1)
      BY <1>5, <2>1, <3>2, <3>3
    <3> HIDE DEF left, t, p, x
    <3>8. left(o) * (b + 1) = left(p) * (b + 1) + (b + 1) /\ left(p) * (b + 1) \in Nat
      <4>1. PICK y \in Nat : y = left(p)
        BY <3>5
      <4>2. left(o) = y + 1
        BY <3>5, <4>1
      <4>3. (y + 1) * (b + 1) = y * (b + 1) + (b + 1) /\ y * (b + 1) \in Nat
        OBVIOUS
      <4> QED
        BY <4>1, <4>2, <4>3
    <3>9. PICK u \in Nat : u = left(p) * (b + 1)
      BY <3>8
    <3>10. size[<<t, p>>] = Len(kids[x]) + (Len(s) - 1) + u /\ size[w] = Len(s) + (u + (b + 1))
      BY <3>2, <3>7, <3>8, <3>9
    <3>11. size[<<t, p>>] < size[w]
      BY <2>2, <3>6, <3>10
    <3> QED
      BY <3>1, <3>2, <3>3, <3>11 DEF Walks
  <2> QED
    BY <2>4, <2>5
<1>8. Descends(Walks(n), Ended(n), Steps(n, kids), size)
  BY <1>6, <1>7 DEF Descends
<1> QED
  BY <1>8

Kids(types) == [i \in 1..Len(types) |-> SortedChildren(types[i])]

\* The function `Visit` defines.
IsWalk(f, n, kids) == Solves(f, Walks(n), Ended(n), OrderSoFar(n), Steps(n, kids))

LEMMA WalkInduction ==
    ASSUME NEW n \in Nat, NEW kids \in [1..n -> Seq(1..n)], NEW P,
           \A o \in Seq(1..n) : <<<< >>, o>> \in P,
           \A s, o \in Seq(1..n) : s # << >> /\ Step(kids, <<s, o>>) \in P => <<s, o>> \in P
    PROVE  \A s, o \in Seq(1..n) : <<s, o>> \in P
<1>1. PICK size : Descends(Walks(n), Ended(n), Steps(n, kids), size)
  BY WalkDescends
<1>2. Walks(n) \cap Ended(n) \subseteq P
  <2> SUFFICES ASSUME NEW w \in Walks(n), w[1] = << >> PROVE w \in P
    BY DEF Ended
  <2>1. w = <<<< >>, w[2]>> /\ w[2] \in Seq(1..n)
    BY DEF Walks
  <2> QED
    BY <2>1
<1>3. \A w \in Walks(n) : w \notin Ended(n) /\ Steps(n, kids)[w] \in P => w \in P
  <2> SUFFICES ASSUME NEW w \in Walks(n), w[1] # << >>, Step(kids, w) \in P PROVE w \in P
    BY DEF Ended, Steps
  <2>1. PICK s \in Seq(1..n), o \in Seq(1..n) : w = <<s, o>>
    BY DEF Walks
  <2>2. s # << >>
    BY <2>1
  <2> QED
    BY <2>1, <2>2
<1>4. Walks(n) \subseteq P
  BY <1>1, <1>2, <1>3, DescentCovers
<1> QED
  BY <1>4 DEF Walks

LEMMA WalkSteps ==
    ASSUME NEW n \in Nat, NEW kids \in [1..n -> Seq(1..n)], NEW f, IsWalk(f, n, kids),
           NEW s \in Seq(1..n), NEW o \in Seq(1..n)
    PROVE  /\ s = << >> => f[<<s, o>>] = o
           /\ s # << >> => f[<<s, o>>] = f[Step(kids, <<s, o>>)]
<1>1. <<s, o>> \in Walks(n) /\ <<s, o>>[1] = s /\ <<s, o>>[2] = o
  BY DEF Walks
<1>2. f[<<s, o>>] = IF <<s, o>> \in Ended(n) THEN OrderSoFar(n)[<<s, o>>]
                    ELSE f[Steps(n, kids)[<<s, o>>]]
  BY <1>1 DEF IsWalk, Solves
<1>3. <<s, o>> \in Ended(n) <=> s = << >>
  BY <1>1 DEF Ended
<1>4. OrderSoFar(n)[<<s, o>>] = o
  BY <1>1 DEF OrderSoFar
<1>5. Steps(n, kids)[<<s, o>>] = Step(kids, <<s, o>>)
  BY <1>1 DEF Steps
<1> QED
  BY <1>2, <1>3, <1>4, <1>5

LEMMA WalkEnds ==
    ASSUME NEW n \in Nat, NEW kids \in [1..n -> Seq(1..n)], NEW f, IsWalk(f, n, kids),
           NEW o \in Seq(1..n)
    PROVE  f[<<<< >>, o>>] = o
<1>1. PICK w : w = <<<< >>, o>>
  OBVIOUS
<1>2. << >> \in Seq(1..n)
  OBVIOUS
<1>3. w \in Walks(n) /\ w[1] = << >> /\ w[2] = o
  BY <1>1, <1>2 DEF Walks
<1>4. w \in Ended(n) /\ OrderSoFar(n)[w] = o
  BY <1>3 DEF Ended, OrderSoFar
<1>5. f[w] = o
  BY <1>3, <1>4 DEF IsWalk, Solves
<1> QED
  BY <1>1, <1>5

LEMMA StepIs ==
    ASSUME NEW n \in Nat, NEW kids \in [1..n -> Seq(1..n)],
           NEW s \in Seq(1..n), s # << >>, NEW o \in Seq(1..n)
    PROVE  /\ Head(s) \in 1..n /\ Tail(s) \in Seq(1..n)
           /\ kids[Head(s)] \in Seq(1..n)
           /\ Head(s) \in Range(o) => Step(kids, <<s, o>>) = <<Tail(s), o>>
           /\ Head(s) \notin Range(o) =>
                /\ Step(kids, <<s, o>>) = <<kids[Head(s)] \o Tail(s), Append(o, Head(s))>>
                /\ kids[Head(s)] \o Tail(s) \in Seq(1..n)
                /\ Append(o, Head(s)) \in Seq(1..n)
<1>1. Head(s) \in 1..n /\ Tail(s) \in Seq(1..n)
  BY HeadTail
<1>2. kids[Head(s)] \in Seq(1..n)
  BY <1>1
<1>3. kids[Head(s)] \o Tail(s) \in Seq(1..n) /\ Append(o, Head(s)) \in Seq(1..n)
  BY <1>1, <1>2, ConcatProperties, AppendProperties
<1>4. <<s, o>>[1] = s /\ <<s, o>>[2] = o
  OBVIOUS
<1>5. Step(kids, <<s, o>>)
        = IF Head(s) \in Range(o) THEN <<Tail(s), o>>
          ELSE <<kids[Head(s)] \o Tail(s), Append(o, Head(s))>>
  BY <1>4 DEF Step
<1> QED
  BY <1>1, <1>2, <1>3, <1>5

LEMMA VisitIs ==
    ASSUME NEW types, IsArena(types)
    PROVE  /\ Kids(types) \in [1..Len(types) -> Seq(1..Len(types))]
           /\ \E f : /\ IsWalk(f, Len(types), Kids(types))
                     /\ \A roots : Visit(roots, types) = f[<<roots, << >>>>]
<1> DEFINE n == Len(types)
           kids == Kids(types)
           body(f) == [w \in Walks(n) |->
                         IF w[1] = << >> THEN w[2]
                         ELSE IF Head(w[1]) \in Range(w[2]) THEN f[<<Tail(w[1]), w[2]>>]
                         ELSE f[<<SortedChildren(types[Head(w[1])]) \o Tail(w[1]),
                                  Append(w[2], Head(w[1]))>>]]
           walk == CHOOSE f : f = body(f)
<1>1. n \in Nat /\ DOMAIN types = 1..n
  BY DEF IsArena
<1>2. kids \in [1..n -> Seq(1..n)] /\ \A i \in 1..n : kids[i] = SortedChildren(types[i])
  <2>1. \A i \in 1..n : SortedChildren(types[i]) \in Seq(1..n)
    BY ArenaNodes
  <2> QED
    BY <2>1 DEF Kids
<1>3. Walks(n) = Seq(DOMAIN types) \X Seq(DOMAIN types)
  BY <1>1 DEF Walks
<1>4. \A roots : Visit(roots, types) = walk[<<roots, << >>>>]
  BY <1>3 DEF Visit
<1> HIDE DEF kids
<1>5. ASSUME NEW f, f = body(f) PROVE IsWalk(f, n, kids)
  <2>1. \A w \in Walks(n) :
           f[w] = IF w \in Ended(n) THEN OrderSoFar(n)[w] ELSE f[Steps(n, kids)[w]]
    <3> TAKE w \in Walks(n)
    <3>1. f[w] = IF w[1] = << >> THEN w[2]
                 ELSE IF Head(w[1]) \in Range(w[2]) THEN f[<<Tail(w[1]), w[2]>>]
                 ELSE f[<<SortedChildren(types[Head(w[1])]) \o Tail(w[1]),
                          Append(w[2], Head(w[1]))>>]
      BY <1>5
    <3>2. w[1] \in Seq(1..n)
      BY DEF Walks
    <3>3. w[1] # << >> => kids[Head(w[1])] = SortedChildren(types[Head(w[1])])
      BY <1>2, <3>2, HeadTail
    <3>4. w[1] # << >> => f[w] = f[Step(kids, w)]
      BY <3>1, <3>3 DEF Step
    <3> QED
      BY <3>1, <3>4 DEF Ended, OrderSoFar, Steps
  <2>2. f = [w \in Walks(n) |-> f[w]]
    BY <1>5
  <2> QED
    BY <2>1, <2>2 DEF IsWalk, Solves
<1>6. \E f : f = body(f)
  <2>1. PICK size : Descends(Walks(n), Ended(n), Steps(n, kids), size)
    BY <1>1, <1>2, WalkDescends
  <2>2. PICK f : IsWalk(f, n, kids)
    BY <2>1, SolutionExists DEF IsWalk
  <2>3. \A w \in Walks(n) :
           f[w] = IF w[1] = << >> THEN w[2]
                  ELSE IF Head(w[1]) \in Range(w[2]) THEN f[<<Tail(w[1]), w[2]>>]
                  ELSE f[<<SortedChildren(types[Head(w[1])]) \o Tail(w[1]),
                          Append(w[2], Head(w[1]))>>]
    <3> TAKE w \in Walks(n)
    <3>1. f[w] = IF w \in Ended(n) THEN OrderSoFar(n)[w] ELSE f[Steps(n, kids)[w]]
      BY <2>2 DEF IsWalk, Solves
    <3>2. w[1] \in Seq(1..n)
      BY DEF Walks
    <3>3. w[1] # << >> => kids[Head(w[1])] = SortedChildren(types[Head(w[1])])
      BY <1>2, <3>2, HeadTail
    <3>4. w[1] # << >> => f[w] = f[Step(kids, w)]
      BY <3>1 DEF Ended, Steps
    <3>5. w[1] = << >> => f[w] = w[2]
      BY <3>1 DEF Ended, OrderSoFar
    <3> QED
      BY <3>3, <3>4, <3>5 DEF Step
  <2>4. f = [w \in Walks(n) |-> f[w]]
    BY <2>2 DEF IsWalk, Solves
  <2>5. f = body(f)
    BY <2>3, <2>4
  <2> QED
    BY <2>5
<1>7. walk = body(walk)
  <2> HIDE DEF body
  <2> QED
    BY <1>6
<1> HIDE DEF walk, body
<1>8. IsWalk(walk, n, kids)
  BY <1>5, <1>7
<1> QED
  BY <1>2, <1>4, <1>8 DEF kids

-----------------------------------------------------------------------------
\* What the visit returns.

Unfolds(f, N, kids) ==
    \A s, o \in Seq(N) : s # << >> => f[<<s, o>>] = f[Step(kids, <<s, o>>)]

LEMMA WalkUnfolds ==
    ASSUME NEW n \in Nat, NEW kids \in [1..n -> Seq(1..n)], NEW f, IsWalk(f, n, kids)
    PROVE  Unfolds(f, 1..n, kids)
<1> SUFFICES ASSUME NEW s \in Seq(1..n), NEW o \in Seq(1..n), s # << >>
             PROVE  f[<<s, o>>] = f[Step(kids, <<s, o>>)]
  BY DEF Unfolds
<1> QED
  BY ZenonT(60), WalkSteps

Distinct(s) == \A i, j \in DOMAIN s : s[i] = s[j] => i = j

Extends(r, o) ==
    /\ Len(o) \in Nat /\ Len(r) \in Nat /\ Len(o) <= Len(r)
    /\ \A i \in 1..Len(o) : r[i] = o[i]

\* From stack s, after o: each node once, o first, all of s there.
Lists(r, n, s, o) ==
    /\ r \in Seq(1..n)
    /\ Distinct(o) => Distinct(r)
    /\ Extends(r, o)
    /\ Range(o) \cup Range(s) \subseteq Range(r)

LEMMA DistinctAppend ==
    ASSUME NEW S, NEW o \in Seq(S), NEW x \in S, x \notin Range(o), Distinct(o)
    PROVE  Distinct(Append(o, x))
<1>1. PICK w : w = Append(o, x)
  OBVIOUS
<1>2. /\ w \in Seq(S) /\ Len(w) = Len(o) + 1 /\ Len(o) \in Nat
      /\ \A i \in 1..Len(o) : w[i] = o[i]
      /\ w[Len(o) + 1] = x
  BY <1>1, RangeOfAppend
<1>3. DOMAIN w = 1..(Len(o) + 1) /\ DOMAIN o = 1..Len(o)
  BY <1>2, LenProperties
<1>4. \A i \in 1..Len(o) : o[i] # x
  BY <1>3 DEF Range
<1>5. \A i, j \in DOMAIN w : w[i] = w[j] => i = j
  <2> SUFFICES ASSUME NEW i \in DOMAIN w, NEW j \in DOMAIN w, w[i] = w[j] PROVE i = j
    OBVIOUS
  <2>1. i \in 1..Len(o) \/ i = Len(o) + 1
    BY <1>2, <1>3
  <2>2. j \in 1..Len(o) \/ j = Len(o) + 1
    BY <1>2, <1>3
  <2>3. CASE i \in 1..Len(o) /\ j \in 1..Len(o)
    BY <1>2, <1>3, <2>3 DEF Distinct
  <2>4. CASE i \in 1..Len(o) /\ j = Len(o) + 1
    BY <1>2, <1>4, <2>4
  <2>5. CASE i = Len(o) + 1 /\ j \in 1..Len(o)
    BY <1>2, <1>4, <2>5
  <2> QED
    BY <2>1, <2>2, <2>3, <2>4, <2>5
<1> QED
  BY <1>1, <1>5 DEF Distinct

LEMMA ExtendsBack ==
    ASSUME NEW S, NEW o \in Seq(S), NEW x \in S, NEW r, Extends(r, Append(o, x))
    PROVE  Extends(r, o)
<1>1. PICK w : w = Append(o, x)
  OBVIOUS
<1>2. /\ Len(w) = Len(o) + 1 /\ Len(o) \in Nat
      /\ \A i \in 1..Len(o) : w[i] = o[i]
  BY <1>1, RangeOfAppend
<1>3. Extends(r, w)
  BY <1>1
<1>4. \A i \in 1..Len(o) : i \in 1..Len(w)
  BY <1>2
<1>5. Len(r) \in Nat /\ Len(w) <= Len(r) /\ \A i \in 1..Len(w) : r[i] = w[i]
  BY <1>3 DEF Extends
<1>6. \A i \in 1..Len(o) : r[i] = o[i]
  BY <1>2, <1>4, <1>5
<1>7. Len(o) <= Len(r)
  BY <1>2, <1>5
<1> QED
  BY <1>2, <1>5, <1>6, <1>7 DEF Extends

LEMMA RangeInside ==
    ASSUME NEW S, NEW s \in Seq(S)
    PROVE  Range(s) \subseteq S /\ DOMAIN s = 1..Len(s) /\ Len(s) \in Nat
BY LenProperties DEF Range

\* A step from a node already numbered.
LEMMA StepOver ==
    ASSUME NEW kids, NEW s, NEW o, Head(s) \in Range(o)
    PROVE  Step(kids, <<s, o>>) = <<Tail(s), o>>
<1>1. <<s, o>>[1] = s /\ <<s, o>>[2] = o
  OBVIOUS
<1> QED
  BY <1>1 DEF Step

\* A step from a node not yet numbered.
Onto(N, kids, s, o, x, t, p) ==
    /\ x = Head(s) /\ t = kids[x] \o Tail(s) /\ p = Append(o, x)
    /\ Step(kids, <<s, o>>) = <<t, p>>
    /\ x \in N /\ kids[x] \in Seq(N)
    /\ t \in Seq(N) /\ p \in Seq(N)
    /\ Range(t) = Range(kids[x]) \cup Range(Tail(s))
    /\ Range(p) = Range(o) \cup {x}
    /\ Range(s) = {x} \cup Range(Tail(s))

LEMMA StepOnto ==
    ASSUME NEW N, NEW kids \in [N -> Seq(N)],
           NEW s \in Seq(N), s # << >>, NEW o \in Seq(N), Head(s) \notin Range(o)
    PROVE  \E x, t, p : Onto(N, kids, s, o, x, t, p)
<1>1. /\ Head(s) \in N /\ Tail(s) \in Seq(N)
      /\ Range(s) = {Head(s)} \cup Range(Tail(s))
  BY HeadTail
<1>2. PICK x, t, p, u : x = Head(s) /\ u = Tail(s) /\ t = kids[x] \o u /\ p = Append(o, x)
  OBVIOUS
<1>3. x \in N /\ u \in Seq(N) /\ kids[x] \in Seq(N)
  BY <1>1, <1>2
<1>4. Step(kids, <<s, o>>) = <<t, p>>
  <2>1. <<s, o>>[1] = s /\ <<s, o>>[2] = o
    OBVIOUS
  <2> QED
    BY <1>2, <2>1 DEF Step
<1>5. PICK k : k = kids[x]
  OBVIOUS
<1>6. t \in Seq(N) /\ Range(t) = Range(k) \cup Range(u)
  <2>1. k \in Seq(N)
    BY <1>3, <1>5
  <2>2. k \o u \in Seq(N)
    BY <1>3, <2>1, ConcatProperties
  <2>3. Range(k \o u) = Range(k) \cup Range(u)
    BY <1>3, <2>1, RangeOfConcat
  <2> QED
    BY <1>2, <1>5, <2>2, <2>3
<1>7. p \in Seq(N) /\ Range(p) = Range(o) \cup {x}
  <2>1. Append(o, x) \in Seq(N) /\ Range(Append(o, x)) = Range(o) \cup {x}
    BY <1>3, RangeOfAppend
  <2> QED
    BY <1>2, <2>1
<1>8. t = kids[x] \o Tail(s) /\ Range(u) = Range(Tail(s)) /\ Range(s) = {x} \cup Range(u)
  BY <1>1, <1>2
<1> QED
  BY <1>2, <1>3, <1>4, <1>5, <1>6, <1>7, <1>8 DEF Onto

LEMMA WalkLists ==
    ASSUME NEW n \in Nat, NEW kids \in [1..n -> Seq(1..n)], NEW f, IsWalk(f, n, kids)
    PROVE  \A s, o \in Seq(1..n) : Lists(f[<<s, o>>], n, s, o)
<1> DEFINE N == 1..n
           P == {w \in Walks(n) : Lists(f[w], n, w[1], w[2])}
<1>1. \A s, o \in Seq(N) : <<s, o>> \in P <=> Lists(f[<<s, o>>], n, s, o)
  BY DEF Walks
<1>8. Unfolds(f, N, kids)
  BY WalkUnfolds
<1> HIDE DEF P
<1>2. ASSUME NEW o \in Seq(N) PROVE <<<< >>, o>> \in P
  <2>1. << >> \in Seq(N)
    OBVIOUS
  <2>2. f[<<<< >>, o>>] = o
    BY WalkEnds
  <2>3. Range(<< >>) = {} /\ Len(o) \in Nat
    BY DEF Range
  <2>4. Lists(o, n, << >>, o)
    BY <2>3 DEF Lists, Extends
  <2> QED
    BY <1>1, <2>1, <2>2, <2>4
<1>3. ASSUME NEW s \in Seq(N), NEW o \in Seq(N), s # << >>, Step(kids, <<s, o>>) \in P
      PROVE  <<s, o>> \in P
  <2>1. f[<<s, o>>] = f[Step(kids, <<s, o>>)]
    BY <1>3, <1>8 DEF Unfolds
  <2>2. Range(s) = {Head(s)} \cup Range(Tail(s)) /\ Head(s) \in N /\ Tail(s) \in Seq(N)
    BY <1>3, HeadTail
  <2>3. CASE Head(s) \in Range(o)
    <3>1. Step(kids, <<s, o>>) = <<Tail(s), o>>
      BY <1>3, <2>3, StepIs
    <3>2. Lists(f[<<s, o>>], n, Tail(s), o)
      BY <1>1, <1>3, <2>1, <2>2, <3>1
    <3>3. Lists(f[<<s, o>>], n, s, o)
      BY <2>2, <2>3, <3>2 DEF Lists
    <3> QED
      BY <1>1, <3>3
  <2>4. CASE Head(s) \notin Range(o)
    <3>1. s # << >>
      BY <1>3
    <3>9. PICK x, t, p : Onto(N, kids, s, o, x, t, p)
      <4> HIDE DEF N
      <4>1. kids \in [N -> Seq(N)]
        BY DEF N
      <4>2. s \in Seq(N) /\ o \in Seq(N)
        OBVIOUS
      <4> QED
        BY <2>4, <3>1, <4>1, <4>2, StepOnto
    <3>2. /\ x = Head(s) /\ t = kids[x] \o Tail(s) /\ p = Append(o, x)
          /\ Step(kids, <<s, o>>) = <<t, p>>
          /\ x \in N /\ kids[x] \in Seq(N)
          /\ t \in Seq(N) /\ p \in Seq(N)
          /\ Range(t) = Range(kids[x]) \cup Range(Tail(s))
          /\ Range(p) = Range(o) \cup {x}
          /\ Range(s) = {x} \cup Range(Tail(s))
      BY <3>9 DEF Onto
    <3>3. PICK r : r = f[<<s, o>>]
      OBVIOUS
    <3>4. Lists(r, n, t, p)
      BY <1>1, <1>3, <2>1, <3>2, <3>3
    <3>6. Distinct(o) => Distinct(p)
      BY <2>4, <3>2, DistinctAppend
    <3>7. Extends(r, o)
      BY <3>2, <3>4, ExtendsBack DEF Lists
    <3>8. Lists(r, n, s, o)
      BY <3>2, <3>4, <3>6, <3>7 DEF Lists
    <3> QED
      BY <1>1, <3>3, <3>8
  <2> QED
    BY <2>3, <2>4
<1>4. \A s, o \in Seq(N) : <<s, o>> \in P
  BY <1>2, <1>3, WalkInduction
<1> QED
  BY <1>1, <1>4

\* With a node its children: those of what is listed are listed or waiting.
KidsIn(n, kids, S, T) == \A x \in 1..n : x \in S => Range(kids[x]) \subseteq T

\* What is visited from a stack is the least set with a node's children.
Spans(r, n, kids, s, o) ==
    /\ KidsIn(n, kids, Range(o), Range(o) \cup Range(s)) => KidsIn(n, kids, Range(r), Range(r))
    /\ \A S \in SUBSET (1..n) :
          KidsIn(n, kids, S, S) /\ Range(o) \cup Range(s) \subseteq S => Range(r) \subseteq S

LEMMA WalkSpans ==
    ASSUME NEW n \in Nat, NEW kids \in [1..n -> Seq(1..n)], NEW f, IsWalk(f, n, kids)
    PROVE  \A s, o \in Seq(1..n) : Spans(f[<<s, o>>], n, kids, s, o)
<1> DEFINE N == 1..n
           P == {w \in Walks(n) : Spans(f[w], n, kids, w[1], w[2])}
<1>1. \A s, o \in Seq(N) : <<s, o>> \in P <=> Spans(f[<<s, o>>], n, kids, s, o)
  BY DEF Walks
<1>8. Unfolds(f, N, kids)
  BY WalkUnfolds
<1> HIDE DEF P
<1>2. ASSUME NEW o \in Seq(N) PROVE <<<< >>, o>> \in P
  <2>1. << >> \in Seq(N)
    OBVIOUS
  <2>2. f[<<<< >>, o>>] = o
    BY WalkEnds
  <2>3. Range(<< >>) = {}
    BY DEF Range
  <2>4. Range(o) \cup Range(<< >>) = Range(o)
    BY <2>3
  <2>5. Spans(o, n, kids, << >>, o)
    BY <2>4 DEF Spans
  <2> QED
    BY <1>1, <2>1, <2>2, <2>5
<1>3. ASSUME NEW s \in Seq(N), NEW o \in Seq(N), s # << >>, Step(kids, <<s, o>>) \in P
      PROVE  <<s, o>> \in P
  <2>1. f[<<s, o>>] = f[Step(kids, <<s, o>>)]
    BY <1>3, <1>8 DEF Unfolds
  <2>2. Range(s) = {Head(s)} \cup Range(Tail(s)) /\ Head(s) \in N /\ Tail(s) \in Seq(N)
    BY <1>3, HeadTail
  <2>3. CASE Head(s) \in Range(o)
    <3>1. Step(kids, <<s, o>>) = <<Tail(s), o>>
      BY <1>3, <2>3, StepIs
    <3>2. Spans(f[<<s, o>>], n, kids, Tail(s), o)
      BY <1>1, <1>3, <2>1, <2>2, <3>1
    <3>3. Range(o) \cup Range(s) = Range(o) \cup Range(Tail(s))
      BY <2>2, <2>3
    <3>4. Spans(f[<<s, o>>], n, kids, s, o)
      BY <3>2, <3>3 DEF Spans
    <3> QED
      BY <1>1, <3>4
  <2>4. CASE Head(s) \notin Range(o)
    <3>1. s # << >>
      BY <1>3
    <3>9. PICK x, t, p : Onto(N, kids, s, o, x, t, p)
      <4> HIDE DEF N
      <4>1. kids \in [N -> Seq(N)]
        BY DEF N
      <4>2. s \in Seq(N) /\ o \in Seq(N)
        OBVIOUS
      <4> QED
        BY <2>4, <3>1, <4>1, <4>2, StepOnto
    <3>2. /\ x = Head(s) /\ t = kids[x] \o Tail(s) /\ p = Append(o, x)
          /\ Step(kids, <<s, o>>) = <<t, p>>
          /\ x \in N /\ kids[x] \in Seq(N)
          /\ t \in Seq(N) /\ p \in Seq(N)
          /\ Range(t) = Range(kids[x]) \cup Range(Tail(s))
          /\ Range(p) = Range(o) \cup {x}
          /\ Range(s) = {x} \cup Range(Tail(s))
      BY <3>9 DEF Onto
    <3>3. PICK r : r = f[<<s, o>>]
      OBVIOUS
    <3>4. Spans(r, n, kids, t, p)
      BY <1>1, <1>3, <2>1, <3>2, <3>3
    <3>6. ASSUME KidsIn(n, kids, Range(o), Range(o) \cup Range(s))
          PROVE  KidsIn(n, kids, Range(r), Range(r))
      <4>1. KidsIn(n, kids, Range(p), Range(p) \cup Range(t))
        BY <3>2, <3>6 DEF KidsIn
      <4> QED
        BY <3>4, <4>1 DEF Spans
    <3>7. ASSUME NEW S \in SUBSET N, KidsIn(n, kids, S, S), Range(o) \cup Range(s) \subseteq S
          PROVE  Range(r) \subseteq S
      <4>1. Range(p) \cup Range(t) \subseteq S
        BY <3>2, <3>7 DEF KidsIn
      <4> QED
        BY <3>4, <3>7, <4>1 DEF Spans
    <3>8. Spans(r, n, kids, s, o)
      BY <3>6, <3>7 DEF Spans
    <3> QED
      BY <1>1, <3>3, <3>8
  <2> QED
    BY <2>3, <2>4
<1>4. \A s, o \in Seq(N) : <<s, o>> \in P
  BY <1>2, <1>3, WalkInduction
<1> QED
  BY <1>1, <1>4

LEMMA HeadTailConcat ==
    ASSUME NEW S, NEW s \in Seq(S), s # << >>, NEW t \in Seq(S)
    PROVE  s \o t # << >> /\ Head(s \o t) = Head(s) /\ Tail(s \o t) = Tail(s) \o t
<1>1. PICK w : w = s \o t
  OBVIOUS
<1>2. /\ w \in Seq(S) /\ Len(w) = Len(s) + Len(t) /\ Len(s) \in Nat /\ Len(t) \in Nat
      /\ \A i \in 1..Len(s) : w[i] = s[i]
      /\ \A i \in 1..Len(t) : w[Len(s) + i] = t[i]
  BY <1>1, Concatenated DEF Joins
<1>3. Len(s) > 0
  BY HeadTail
<1>4. w # << >> /\ Head(w) = w[1] /\ Head(s) = s[1]
  BY <1>2, <1>3
<1>5. w[1] = s[1]
  BY <1>2, <1>3
<1>6. PICK u : u = Tail(w)
  OBVIOUS
<1>7. u \in Seq(S) /\ Len(u) = Len(w) - 1 /\ \A i \in 1..Len(u) : u[i] = w[i + 1]
  BY <1>2, <1>4, <1>6, HeadTailProperties
<1>8. PICK v : v = Tail(s)
  OBVIOUS
<1>9. v \in Seq(S) /\ Len(v) = Len(s) - 1 /\ \A i \in 1..Len(v) : v[i] = s[i + 1]
  BY <1>8, HeadTailProperties
<1>10. PICK z : z = v \o t
  OBVIOUS
<1>11. /\ z \in Seq(S) /\ Len(z) = Len(v) + Len(t)
       /\ \A i \in 1..Len(v) : z[i] = v[i]
       /\ \A i \in 1..Len(t) : z[Len(v) + i] = t[i]
  <2>1. Joins(v \o t, S, v, t)
    BY <1>9, Concatenated
  <2> QED
    BY <1>10, <2>1 DEF Joins
<1>12. Len(u) = Len(z) /\ Len(u) \in Nat
  BY <1>2, <1>3, <1>7, <1>9, <1>11
<1>13. \A i \in 1..Len(u) : u[i] = z[i]
  <2> TAKE i \in 1..Len(u)
  <2>1. CASE i <= Len(s) - 1
    <3>1. i + 1 \in 1..Len(s) /\ i \in 1..Len(v)
      BY <1>2, <1>9, <2>1
    <3> QED
      BY <1>2, <1>7, <1>9, <1>11, <3>1
  <2>2. CASE i > Len(s) - 1
    <3>1. PICK j \in 1..Len(t) : i + 1 = Len(s) + j /\ i = Len(v) + j
      <4>1. i + 1 - Len(s) \in 1..Len(t) /\ i + 1 = Len(s) + (i + 1 - Len(s))
            /\ i = Len(v) + (i + 1 - Len(s))
        BY <1>2, <1>3, <1>7, <1>9, <2>2
      <4> QED
        BY <4>1
    <3>2. w[Len(s) + j] = t[j] /\ z[Len(v) + j] = t[j]
      BY <1>2, <1>11, <3>1
    <3> QED
      BY <1>7, <3>1, <3>2
  <2>3. i \in Nat /\ Len(s) \in Nat
    BY <1>2, <1>12
  <2> QED
    BY <2>1, <2>2, <2>3
<1>14. u = z
  BY <1>7, <1>11, <1>12, <1>13, SeqEqual
<1> QED
  BY <1>1, <1>4, <1>5, <1>6, <1>8, <1>10, <1>14

LEMMA JoinsAssociate ==
    ASSUME NEW N, NEW k \in Seq(N), NEW z \in Seq(N), NEW u \in Seq(N)
    PROVE  k \o (z \o u) = (k \o z) \o u
<1>1. PICK a, b : a = z \o u /\ b = k \o z
  OBVIOUS
<1>2. Joins(a, N, z, u) /\ Joins(b, N, k, z)
  BY <1>1, Concatenated
<1>3. a \in Seq(N) /\ b \in Seq(N)
  BY <1>2 DEF Joins
<1>4. PICK x, y : x = k \o a /\ y = b \o u
  OBVIOUS
<1>5. Joins(x, N, k, a) /\ Joins(y, N, b, u)
  BY <1>3, <1>4, Concatenated
<1>6. PICK i \in Nat, j \in Nat, l \in Nat : i = Len(k) /\ j = Len(z) /\ l = Len(u)
  BY <1>2, <1>5 DEF Joins
<1>7. Len(a) = j + l /\ Len(b) = i + j /\ Len(x) = i + j + l /\ Len(y) = i + j + l
  BY <1>2, <1>5, <1>6 DEF Joins
<1>8. /\ \A n \in 1..j : a[n] = z[n] /\ b[i + n] = z[n]
      /\ \A n \in 1..l : a[j + n] = u[n] /\ y[i + j + n] = u[n]
      /\ \A n \in 1..i : b[n] = k[n] /\ x[n] = k[n]
      /\ \A n \in 1..(j + l) : x[i + n] = a[n]
      /\ \A n \in 1..(i + j) : y[n] = b[n]
  BY <1>2, <1>5, <1>6, <1>7 DEF Joins
<1>9. ASSUME NEW n \in 1..(i + j + l) PROVE x[n] = y[n]
  <2>1. CASE n <= i
    <3>1. n \in 1..i /\ n \in 1..(i + j)
      BY <1>6, <2>1
    <3> QED
      BY <1>8, <3>1
  <2>2. CASE i < n /\ n <= i + j
    <3>1. PICK m \in 1..j : n = i + m
      <4>1. n - i \in 1..j /\ n = i + (n - i)
        BY <1>6, <2>2
      <4> QED
        BY <4>1
    <3>2. m \in 1..(j + l) /\ n \in 1..(i + j)
      BY <1>6, <2>2
    <3> QED
      BY <1>8, <3>1, <3>2
  <2>3. CASE i + j < n
    <3>1. PICK m \in 1..l : n = i + j + m
      <4>1. n - (i + j) \in 1..l /\ n = i + j + (n - (i + j))
        BY <1>6, <2>3
      <4> QED
        BY <4>1
    <3>2. j + m \in 1..(j + l) /\ n = i + (j + m)
      BY <1>6, <3>1
    <3>3. x[n] = a[j + m] /\ a[j + m] = u[m] /\ y[n] = u[m]
      BY <1>8, <3>1, <3>2
    <3> QED
      BY <3>3
  <2> QED
    BY <1>6, <2>1, <2>2, <2>3
<1>10. x \in Seq(N) /\ y \in Seq(N) /\ Len(x) = Len(y) /\ Len(x) = i + j + l
  BY <1>5, <1>7 DEF Joins
<1>11. x = y
  <2>1. PICK m \in Nat : m = i + j + l
    BY <1>6
  <2>2. x \in Seq(N) /\ y \in Seq(N) /\ Len(x) = m /\ Len(y) = m
        /\ \A n \in 1..m : x[n] = y[n]
    BY <1>9, <1>10, <2>1
  <2> QED
    BY <2>1, <2>2
<1> QED
  BY <1>1, <1>4, <1>11

Associates(N) == \A k, z, u \in Seq(N) : k \o (z \o u) = (k \o z) \o u

LEMMA AllAssociate == \A N : Associates(N)
  BY JoinsAssociate DEF Associates

\* What is below on the stack is visited after what is above.
InParts(f, N) ==
    \A u \in Seq(N) : \A s, o \in Seq(N) : f[<<s \o u, o>>] = f[<<u, f[<<s, o>>]>>]

LEMMA WalkInParts ==
    ASSUME NEW n \in Nat, NEW kids \in [1..n -> Seq(1..n)], NEW f, IsWalk(f, n, kids)
    PROVE  InParts(f, 1..n)
<1> SUFFICES ASSUME NEW u \in Seq(1..n)
             PROVE  \A s, o \in Seq(1..n) : f[<<s \o u, o>>] = f[<<u, f[<<s, o>>]>>]
  BY DEF InParts
<1> DEFINE N == 1..n
           P == {w \in Walks(n) : f[<<w[1] \o u, w[2]>>] = f[<<u, f[w]>>]}
<1>1. \A s, o \in Seq(N) : <<s, o>> \in P <=> f[<<s \o u, o>>] = f[<<u, f[<<s, o>>]>>]
  BY DEF Walks
<1>4. kids \in [N -> Seq(N)] /\ u \in Seq(N)
  OBVIOUS
<1>8. Unfolds(f, N, kids)
  BY WalkUnfolds
<1>9. Associates(N)
  BY AllAssociate
<1> HIDE DEF P
<1>2. ASSUME NEW o \in Seq(N) PROVE <<<< >>, o>> \in P
  <2>1. << >> \in Seq(N)
    OBVIOUS
  <2>2. f[<<<< >>, o>>] = o
    BY WalkEnds
  <2>3. << >> \o u = u
    BY ConcatEmptySeq
  <2> QED
    BY <1>1, <2>1, <2>2, <2>3
<1>3. ASSUME NEW s \in Seq(N), NEW o \in Seq(N), s # << >>, Step(kids, <<s, o>>) \in P
      PROVE  <<s, o>> \in P
  <2>1. f[<<s, o>>] = f[Step(kids, <<s, o>>)]
    BY <1>3, <1>8 DEF Unfolds
  <2>2. Head(s) \in N /\ Tail(s) \in Seq(N)
    BY <1>3, HeadTail
  <2>3. PICK v : v = s \o u
    OBVIOUS
  <2>4. v # << >> /\ Head(v) = Head(s) /\ Tail(v) = Tail(s) \o u /\ v \in Seq(N)
    <3>1. s # << >> /\ s \in Seq(N)
      BY <1>3
    <3> HIDE DEF N
    <3> QED
      BY <1>4, <2>3, <3>1, HeadTailConcat, ConcatProperties
  <2>5. f[<<v, o>>] = f[Step(kids, <<v, o>>)]
    BY <1>8, <2>4 DEF Unfolds
  <2>6. CASE Head(s) \in Range(o)
    <3>1. Step(kids, <<s, o>>) = <<Tail(s), o>>
      BY <1>3, <2>6, StepIs
    <3>2. Step(kids, <<v, o>>) = <<Tail(v), o>>
      BY <2>4, <2>6, StepIs
    <3>3. f[<<Tail(s) \o u, o>>] = f[<<u, f[<<Tail(s), o>>]>>]
      BY <1>1, <1>3, <2>2, <3>1
    <3>4. f[<<v, o>>] = f[<<u, f[<<s, o>>]>>]
      BY <2>1, <2>4, <2>5, <3>1, <3>2, <3>3
    <3> QED
      BY <1>1, <2>3, <3>4
  <2>7. CASE Head(s) \notin Range(o)
    <3>1. PICK x, t, p : Onto(N, kids, s, o, x, t, p)
      <4>1. s # << >>
        BY <1>3
      <4> HIDE DEF N
      <4> QED
        BY <1>4, <2>7, <4>1, StepOnto
    <3>2. /\ x = Head(s) /\ t = kids[x] \o Tail(s) /\ p = Append(o, x)
          /\ Step(kids, <<s, o>>) = <<t, p>>
          /\ kids[x] \in Seq(N) /\ t \in Seq(N) /\ p \in Seq(N)
      BY <3>1 DEF Onto
    <3>3. PICK y, c, q : Onto(N, kids, v, o, y, c, q)
      <4> HIDE DEF N
      <4> QED
        BY <1>4, <2>4, <2>7, StepOnto
    <3>4. /\ y = Head(v) /\ c = kids[y] \o Tail(v) /\ q = Append(o, y)
          /\ Step(kids, <<v, o>>) = <<c, q>>
      BY <3>3 DEF Onto
    <3>5. c = t \o u /\ q = p
      <4>1. kids[x] \o (Tail(s) \o u) = (kids[x] \o Tail(s)) \o u
        <5>1. PICK k, z, w : k = kids[x] /\ z = Tail(s) /\ w = u
          OBVIOUS
        <5>2. k \in Seq(N) /\ z \in Seq(N) /\ w \in Seq(N)
          BY <2>2, <3>2, <5>1
        <5> HIDE DEF N
        <5>3. k \o (z \o w) = (k \o z) \o w
          BY SMTT(30), <5>2, <1>9 DEF Associates
        <5> QED
          BY <5>1, <5>3
      <4> QED
        BY <2>4, <3>2, <3>4, <4>1
    <3>6. f[<<t \o u, p>>] = f[<<u, f[<<t, p>>]>>]
      BY ZenonT(60), <1>1, <1>3, <3>2
    <3>7. f[<<v, o>>] = f[<<u, f[<<s, o>>]>>]
      BY <2>1, <2>5, <3>2, <3>4, <3>5, <3>6
    <3> QED
      BY <1>1, <2>3, <3>7
  <2> QED
    BY <2>6, <2>7
<1>5. \A s, o \in Seq(N) : <<s, o>> \in P
  BY <1>2, <1>3, WalkInduction
<1> QED
  BY <1>1, <1>5

-----------------------------------------------------------------------------
\* Two visits side by side.

OneToOne(E) == \A p, q \in E : p[1] = q[1] <=> p[2] = q[2]

\* Lists whose elements correspond.
Pairs(E, s, t) ==
    /\ Len(s) \in Nat /\ Len(t) = Len(s)
    /\ DOMAIN s = 1..Len(s) /\ DOMAIN t = 1..Len(s)
    /\ \A i \in 1..Len(s) : <<s[i], t[i]>> \in E

LEMMA PairsInRange ==
    ASSUME NEW E, OneToOne(E), NEW s, NEW t, Pairs(E, s, t), NEW x, NEW y, <<x, y>> \in E
    PROVE  x \in Range(s) <=> y \in Range(t)
<1>1. \A i \in 1..Len(s) : s[i] = x <=> t[i] = y
  <2> TAKE i \in 1..Len(s)
  <2>1. PICK p, q : p = <<s[i], t[i]>> /\ q = <<x, y>>
    OBVIOUS
  <2>2. p \in E /\ q \in E
    BY <2>1 DEF Pairs
  <2>3. p[1] = q[1] <=> p[2] = q[2]
    BY <2>2 DEF OneToOne
  <2> QED
    BY <2>1, <2>3
<1>2. DOMAIN s = 1..Len(s) /\ DOMAIN t = 1..Len(s)
  BY DEF Pairs
<1> QED
  BY <1>1, <1>2 DEF Range

LEMMA PairsAppend ==
    ASSUME NEW E, NEW S, NEW T, NEW s \in Seq(S), NEW t \in Seq(T), Pairs(E, s, t),
           NEW x \in S, NEW y \in T, <<x, y>> \in E
    PROVE  Pairs(E, Append(s, x), Append(t, y))
<1>1. PICK v, w : v = Append(s, x) /\ w = Append(t, y)
  OBVIOUS
<1>2. /\ v \in Seq(S) /\ Len(v) = Len(s) + 1 /\ Len(s) \in Nat /\ v[Len(s) + 1] = x
      /\ \A i \in 1..Len(s) : v[i] = s[i]
  BY <1>1, RangeOfAppend
<1>3. /\ w \in Seq(T) /\ Len(w) = Len(t) + 1 /\ Len(t) \in Nat /\ w[Len(t) + 1] = y
      /\ \A i \in 1..Len(t) : w[i] = t[i]
  BY <1>1, RangeOfAppend
<1>4. Len(t) = Len(s) /\ \A i \in 1..Len(s) : <<s[i], t[i]>> \in E
  BY DEF Pairs
<1>5. DOMAIN v = 1..Len(v) /\ DOMAIN w = 1..Len(w)
  BY <1>2, <1>3, LenProperties
<1>6. \A i \in 1..Len(v) : <<v[i], w[i]>> \in E
  <2> TAKE i \in 1..Len(v)
  <2>1. i \in 1..Len(s) \/ i = Len(s) + 1
    BY <1>2
  <2> QED
    BY <1>2, <1>3, <1>4, <2>1
<1>7. Len(v) \in Nat /\ Len(w) = Len(v)
  BY <1>2, <1>3, <1>4
<1> QED
  BY <1>1, <1>5, <1>6, <1>7 DEF Pairs

LEMMA PairsConcat ==
    ASSUME NEW E, NEW S, NEW T, NEW s \in Seq(S), NEW t \in Seq(T), Pairs(E, s, t),
           NEW u \in Seq(S), NEW v \in Seq(T), Pairs(E, u, v)
    PROVE  Pairs(E, s \o u, t \o v)
<1>1. PICK w, z : w = s \o u /\ z = t \o v
  OBVIOUS
<1>2. Joins(w, S, s, u)
  BY <1>1, Concatenated
<1>3. Joins(z, T, t, v)
  BY <1>1, Concatenated
<1>4. /\ w \in Seq(S) /\ Len(w) = Len(s) + Len(u) /\ Len(s) \in Nat /\ Len(u) \in Nat
      /\ \A i \in 1..Len(s) : w[i] = s[i]
      /\ \A i \in 1..Len(u) : w[Len(s) + i] = u[i]
  BY <1>2 DEF Joins
<1>5. /\ z \in Seq(T) /\ Len(z) = Len(t) + Len(v)
      /\ \A i \in 1..Len(t) : z[i] = t[i]
      /\ \A i \in 1..Len(v) : z[Len(t) + i] = v[i]
  BY <1>3 DEF Joins
<1>6. /\ Len(t) = Len(s) /\ \A i \in 1..Len(s) : <<s[i], t[i]>> \in E
      /\ Len(v) = Len(u) /\ \A i \in 1..Len(u) : <<u[i], v[i]>> \in E
  BY DEF Pairs
<1>7. \A i \in 1..Len(w) : <<w[i], z[i]>> \in E
  <2> TAKE i \in 1..Len(w)
  <2>1. CASE i <= Len(s)
    <3>1. i \in 1..Len(s) /\ i \in 1..Len(t)
      BY <1>4, <1>6, <2>1
    <3>2. w[i] = s[i] /\ z[i] = t[i]
      BY <1>4, <1>5, <3>1
    <3> QED
      BY <1>6, <3>1, <3>2
  <2>2. CASE i > Len(s)
    <3>1. PICK j \in 1..Len(u) : i = Len(s) + j
      <4>1. i - Len(s) \in 1..Len(u) /\ i = Len(s) + (i - Len(s))
        BY <1>4, <2>2
      <4> QED
        BY <4>1
    <3>2. w[i] = u[j] /\ z[i] = v[j]
      BY <1>4, <1>5, <1>6, <3>1
    <3> QED
      BY <1>6, <3>2
  <2>3. i \in Nat
    BY <1>4
  <2> QED
    BY <1>4, <2>1, <2>2, <2>3
<1>8. DOMAIN w = 1..Len(w) /\ DOMAIN z = 1..Len(z) /\ Len(w) \in Nat /\ Len(z) = Len(w)
  BY <1>4, <1>5, <1>6, LenProperties
<1> QED
  BY <1>1, <1>7, <1>8 DEF Pairs

LEMMA PairsTail ==
    ASSUME NEW E, NEW S, NEW T, NEW s \in Seq(S), NEW t \in Seq(T), Pairs(E, s, t), s # << >>
    PROVE  t # << >> /\ <<Head(s), Head(t)>> \in E /\ Pairs(E, Tail(s), Tail(t))
<1>1. /\ Len(t) = Len(s) /\ \A i \in 1..Len(s) : <<s[i], t[i]>> \in E
  BY DEF Pairs
<1>2. Len(s) > 0 /\ Len(s) \in Nat
  BY HeadTail
<1>3. t # << >>
  BY <1>1, <1>2
<1>4. Head(s) = s[1] /\ Head(t) = t[1]
  BY <1>2, <1>3
<1>5. PICK u, v : u = Tail(s) /\ v = Tail(t)
  OBVIOUS
<1>6. u \in Seq(S) /\ Len(u) = Len(s) - 1 /\ \A i \in 1..Len(u) : u[i] = s[i + 1]
  BY <1>5, HeadTailProperties
<1>7. v \in Seq(T) /\ Len(v) = Len(t) - 1 /\ \A i \in 1..Len(v) : v[i] = t[i + 1]
  BY <1>3, <1>5, HeadTailProperties
<1>8. \A i \in 1..Len(u) : <<u[i], v[i]>> \in E
  <2> TAKE i \in 1..Len(u)
  <2>1. i + 1 \in 1..Len(s)
    BY <1>2, <1>6
  <2>2. u[i] = s[i + 1] /\ v[i] = t[i + 1]
    BY <1>1, <1>6, <1>7
  <2> QED
    BY <1>1, <2>1, <2>2
<1>9. DOMAIN u = 1..Len(u) /\ DOMAIN v = 1..Len(v) /\ Len(u) \in Nat /\ Len(v) = Len(u)
  BY <1>1, <1>2, <1>6, <1>7, LenProperties
<1>10. <<s[1], t[1]>> \in E
  BY <1>1, <1>2
<1> QED
  BY <1>3, <1>4, <1>5, <1>8, <1>9, <1>10 DEF Pairs

\* The results in step: from any lists that correspond to s and o.
InStep(E, M, r, g, s, o) ==
    \A t, p \in Seq(M) : Pairs(E, s, t) /\ Pairs(E, o, p) => Pairs(E, r, g[<<t, p>>])

LEMMA WalkPairs ==
    ASSUME NEW n \in Nat, NEW kids \in [1..n -> Seq(1..n)], NEW f, IsWalk(f, n, kids),
           NEW m \in Nat, NEW lids \in [1..m -> Seq(1..m)], NEW g, IsWalk(g, m, lids),
           NEW E, E \subseteq (1..n) \X (1..m), OneToOne(E),
           \A a \in 1..n, b \in 1..m : <<a, b>> \in E => Pairs(E, kids[a], lids[b])
    PROVE  \A s, o \in Seq(1..n) : InStep(E, 1..m, f[<<s, o>>], g, s, o)
<1> DEFINE N == 1..n
           M == 1..m
           P == {w \in Walks(n) : InStep(E, M, f[w], g, w[1], w[2])}
<1>1. \A s, o \in Seq(N) : <<s, o>> \in P <=> InStep(E, M, f[<<s, o>>], g, s, o)
  BY DEF Walks
<1>4. kids \in [N -> Seq(N)] /\ lids \in [M -> Seq(M)]
  OBVIOUS
<1>5. Unfolds(f, N, kids) /\ Unfolds(g, M, lids)
  BY WalkUnfolds
<1> HIDE DEF P
<1>2. ASSUME NEW o \in Seq(N) PROVE <<<< >>, o>> \in P
  <2>1. << >> \in Seq(N)
    OBVIOUS
  <2>2. f[<<<< >>, o>>] = o
    BY WalkEnds
  <2>3. InStep(E, M, o, g, << >>, o)
    <3> SUFFICES ASSUME NEW t \in Seq(M), NEW p \in Seq(M), Pairs(E, << >>, t), Pairs(E, o, p)
                 PROVE  Pairs(E, o, g[<<t, p>>])
      BY DEF InStep
    <3>1. Len(t) = 0
      BY DEF Pairs
    <3>2. t = << >>
      BY <3>1
    <3>3. g[<<<< >>, p>>] = p
      BY WalkEnds
    <3> QED
      BY <3>2, <3>3
  <2> QED
    BY <1>1, <2>1, <2>2, <2>3
<1>3. ASSUME NEW s \in Seq(N), NEW o \in Seq(N), s # << >>, Step(kids, <<s, o>>) \in P
      PROVE  <<s, o>> \in P
  <2> SUFFICES ASSUME NEW t \in Seq(M), NEW p \in Seq(M), Pairs(E, s, t), Pairs(E, o, p)
               PROVE  Pairs(E, f[<<s, o>>], g[<<t, p>>])
    BY <1>1 DEF InStep
  <2>1. f[<<s, o>>] = f[Step(kids, <<s, o>>)]
    BY <1>3, <1>5 DEF Unfolds
  <2>2. Head(s) \in N /\ Tail(s) \in Seq(N)
    BY <1>3, HeadTail
  <2>3. t # << >> /\ <<Head(s), Head(t)>> \in E /\ Pairs(E, Tail(s), Tail(t))
    <3>1. s # << >> /\ s \in Seq(N) /\ t \in Seq(M)
      BY <1>3
    <3> HIDE DEF N, M
    <3> QED
      BY <3>1, PairsTail
  <2>4. Head(t) \in M /\ Tail(t) \in Seq(M)
    BY <2>3, HeadTail
  <2>5. g[<<t, p>>] = g[Step(lids, <<t, p>>)]
    BY <1>5, <2>3 DEF Unfolds
  <2>6. Head(s) \in Range(o) <=> Head(t) \in Range(p)
    BY <2>3, PairsInRange
  <2>7. CASE Head(s) \in Range(o)
    <3>1. Step(kids, <<s, o>>) = <<Tail(s), o>>
      BY <2>7, StepOver
    <3>2. Step(lids, <<t, p>>) = <<Tail(t), p>>
      BY <2>6, <2>7, StepOver
    <3>3. InStep(E, M, f[<<Tail(s), o>>], g, Tail(s), o)
      BY <1>1, <1>3, <2>2, <3>1
    <3>4. Pairs(E, f[<<Tail(s), o>>], g[<<Tail(t), p>>])
      BY <2>3, <2>4, <3>3 DEF InStep
    <3> QED
      BY <2>1, <2>5, <3>1, <3>2, <3>4
  <2>8. CASE Head(s) \notin Range(o)
    <3>1. PICK x, c, q : Onto(N, kids, s, o, x, c, q)
      <4>1. s # << >>
        BY <1>3
      <4> HIDE DEF N
      <4> QED
        BY <1>4, <2>8, <4>1, StepOnto
    <3>2. /\ x = Head(s) /\ c = kids[x] \o Tail(s) /\ q = Append(o, x)
          /\ Step(kids, <<s, o>>) = <<c, q>>
          /\ kids[x] \in Seq(N) /\ c \in Seq(N) /\ q \in Seq(N)
      BY <3>1 DEF Onto
    <3>3. PICK y, d, r : Onto(M, lids, t, p, y, d, r)
      <4>1. t # << >> /\ Head(t) \notin Range(p)
        BY <2>3, <2>6, <2>8
      <4> HIDE DEF M
      <4> QED
        BY <1>4, <4>1, StepOnto
    <3>4. /\ y = Head(t) /\ d = lids[y] \o Tail(t) /\ r = Append(p, y)
          /\ Step(lids, <<t, p>>) = <<d, r>>
          /\ lids[y] \in Seq(M) /\ d \in Seq(M) /\ r \in Seq(M)
      BY <3>3 DEF Onto
    <3>5. <<x, y>> \in E /\ x \in N /\ y \in M
      BY <2>2, <2>3, <2>4, <3>2, <3>4
    <3>6. Pairs(E, kids[x], lids[y])
      BY <3>5
    <3>7. Pairs(E, c, d)
      <4>1. PICK k, l, u, v : k = kids[x] /\ l = lids[y] /\ u = Tail(s) /\ v = Tail(t)
        OBVIOUS
      <4>2. /\ k \in Seq(N) /\ u \in Seq(N) /\ l \in Seq(M) /\ v \in Seq(M)
            /\ Pairs(E, k, l) /\ Pairs(E, u, v)
        BY <2>2, <2>3, <2>4, <3>2, <3>4, <3>6, <4>1
      <4> HIDE DEF N, M
      <4>3. Pairs(E, k \o u, l \o v)
        BY <4>2, PairsConcat
      <4> QED
        BY <3>2, <3>4, <4>1, <4>3
    <3>8. Pairs(E, q, r)
      <4>1. o \in Seq(N) /\ p \in Seq(M) /\ x \in N /\ y \in M /\ <<x, y>> \in E
        BY <3>5
      <4> HIDE DEF N, M
      <4>2. Pairs(E, Append(o, x), Append(p, y))
        BY <4>1, PairsAppend
      <4> QED
        BY <3>2, <3>4, <4>2
    <3>9. InStep(E, M, f[<<c, q>>], g, c, q)
      BY <1>1, <1>3, <3>2
    <3>10. Pairs(E, f[<<c, q>>], g[<<d, r>>])
      BY <3>4, <3>7, <3>8, <3>9 DEF InStep
    <3> QED
      BY <2>1, <2>5, <3>2, <3>4, <3>10
  <2> QED
    BY <2>7, <2>8
<1>6. \A s, o \in Seq(N) : <<s, o>> \in P
  BY <1>2, <1>3, WalkInduction
<1> QED
  BY <1>1, <1>6

-----------------------------------------------------------------------------
\* The visit of an arena.

\* A list of the nodes from 1 to n, each once.
Numbering(r, n) ==
    /\ r \in Seq(1..n) /\ Distinct(r) /\ Range(r) = 1..n
    /\ Len(r) \in Nat /\ DOMAIN r = 1..Len(r)

LEMMA VisitNumbers ==
    ASSUME NEW types, IsArena(types), NEW roots \in Seq(1..Len(types)),
           Range(roots) = 1..Len(types)
    PROVE  Numbering(Visit(roots, types), Len(types))
<1> DEFINE n == Len(types)
           kids == Kids(types)
<1>1. n \in Nat
  BY DEF IsArena
<1>2. PICK f : /\ kids \in [1..n -> Seq(1..n)] /\ IsWalk(f, n, kids)
               /\ \A s : Visit(s, types) = f[<<s, << >>>>]
  BY VisitIs
<1>3. << >> \in Seq(1..n) /\ Distinct(<< >>)
  BY DEF Distinct
<1>4. PICK r : r = Visit(roots, types)
  OBVIOUS
<1> HIDE DEF n, kids
<1>5. \A s, o \in Seq(1..n) : Lists(f[<<s, o>>], n, s, o)
  BY <1>1, <1>2, WalkLists
<1>6. roots \in Seq(1..n) /\ Range(roots) = 1..n
  BY DEF n
<1>7. Lists(r, n, roots, << >>)
  BY <1>2, <1>3, <1>4, <1>5, <1>6
<1>8. r \in Seq(1..n) /\ Distinct(r) /\ Len(r) \in Nat
  BY <1>3, <1>7 DEF Lists, Extends
<1>9. Range(roots) \subseteq Range(r)
  BY <1>7 DEF Lists
<1>10. Range(r) \subseteq 1..n /\ DOMAIN r = 1..Len(r)
  BY <1>8, RangeInside
<1> QED
  BY <1>4, <1>6, <1>8, <1>9, <1>10 DEF Numbering, n

\* What is visited from an actor: it first, and with each node its children;
\* no more.
Segment(s, a, types) ==
    /\ Distinct(s) /\ s \in Seq(1..Len(types)) /\ Len(s) \in Nat /\ DOMAIN s = 1..Len(s)
    /\ Len(s) > 0 /\ s[1] = a
    /\ KidsIn(Len(types), Kids(types), Range(s), Range(s))
    /\ \A S \in SUBSET (1..Len(types)) :
          KidsIn(Len(types), Kids(types), S, S) /\ a \in S => Range(s) \subseteq S

LEMMA One ==
    ASSUME NEW S, NEW a \in S
    PROVE  /\ <<a>> \in Seq(S) /\ Range(<<a>>) = {a} /\ <<a>> # << >>
           /\ Head(<<a>>) = a /\ Tail(<<a>>) = << >>
           /\ Append(<< >>, a) = <<a>> /\ Len(<<a>>) = 1 /\ <<a>>[1] = a
<1>1. <<a>> \in Seq(S) /\ <<a>> # << >> /\ Len(<<a>>) = 1 /\ <<a>>[1] = a
  OBVIOUS
<1>2. Head(<<a>>) = a /\ Tail(<<a>>) = << >>
  OBVIOUS
<1>3. Append(<< >>, a) = <<a>>
  OBVIOUS
<1>4. Range(<<a>>) = {a}
  BY DEF Range
<1> QED
  BY <1>1, <1>2, <1>3, <1>4

LEMMA VisitFromActor ==
    ASSUME NEW types, IsArena(types), NEW a \in 1..Len(types)
    PROVE  /\ Segment(Visit(<<a>>, types), a, types)
           /\ \A rest \in Seq(1..Len(types)) :
                 Extends(Visit(<<a>> \o rest, types), Visit(<<a>>, types))
<1>1. PICK n, kids : n = Len(types) /\ kids = Kids(types)
  OBVIOUS
<1>2. n \in Nat /\ a \in 1..n
  BY <1>1 DEF IsArena
<1>3. PICK f : /\ kids \in [1..n -> Seq(1..n)] /\ IsWalk(f, n, kids)
               /\ \A s : Visit(s, types) = f[<<s, << >>>>]
  BY <1>1, VisitIs
<1>4. << >> \in Seq(1..n) /\ Distinct(<< >>) /\ Range(<< >>) = {}
  BY DEF Distinct, Range
<1>5. <<a>> \in Seq(1..n) /\ Range(<<a>>) = {a}
  BY <1>2, One
<1>6. PICK r : r = f[<<<<a>>, << >>>>]
  OBVIOUS
<1>7. Lists(r, n, <<a>>, << >>)
  BY <1>2, <1>3, <1>4, <1>5, <1>6, WalkLists
<1>8. Spans(r, n, kids, <<a>>, << >>)
  BY <1>2, <1>3, <1>4, <1>5, <1>6, WalkSpans
<1>9. /\ r \in Seq(1..n) /\ Distinct(r) /\ a \in Range(r)
      /\ DOMAIN r = 1..Len(r) /\ Len(r) \in Nat
  BY <1>4, <1>5, <1>7, RangeInside DEF Lists
<1>10. KidsIn(n, kids, Range(r), Range(r))
  BY <1>4, <1>8 DEF Spans, KidsIn
<1>11. \A S \in SUBSET (1..n) : KidsIn(n, kids, S, S) /\ a \in S => Range(r) \subseteq S
  BY <1>4, <1>5, <1>8 DEF Spans
<1>12. Len(r) > 0 /\ r[1] = a
  <2>1. PICK s, o : s = <<a>> /\ o = << >>
    OBVIOUS
  <2>2. /\ s \in Seq(1..n) /\ o \in Seq(1..n) /\ s # << >> /\ Head(s) = a /\ Tail(s) = << >>
        /\ Head(s) \notin Range(o) /\ r = f[<<s, o>>] /\ Append(o, a) = <<a>>
    BY <1>2, <1>4, <1>5, <1>6, <2>1, One
  <2>3. PICK N : N = 1..n
    OBVIOUS
  <2>4. PICK x, t, p : Onto(N, kids, s, o, x, t, p)
    <3>1. kids \in [N -> Seq(N)] /\ s \in Seq(N) /\ o \in Seq(N)
      BY <1>3, <2>2, <2>3
    <3> QED
      BY <2>2, <3>1, StepOnto
  <2>5. x = a /\ p = <<a>> /\ t \in Seq(1..n) /\ p \in Seq(1..n) /\ Step(kids, <<s, o>>) = <<t, p>>
    BY <2>2, <2>3, <2>4 DEF Onto
  <2>6. Unfolds(f, 1..n, kids)
    BY <1>2, <1>3, WalkUnfolds
  <2>7. r = f[<<t, p>>]
    BY <2>2, <2>5, <2>6 DEF Unfolds
  <2>8. Lists(r, n, t, p)
    BY <1>2, <1>3, <2>5, <2>7, WalkLists
  <2>9. Extends(r, p) /\ Len(p) = 1 /\ p[1] = a
    BY <2>5, <2>8 DEF Lists
  <2> QED
    BY <2>9 DEF Extends
<1>13. Segment(r, a, types)
  BY <1>1, <1>9, <1>10, <1>11, <1>12 DEF Segment
<1>14. ASSUME NEW rest \in Seq(1..n) PROVE Extends(f[<<<<a>> \o rest, << >>>>], r)
  <2>0. InParts(f, 1..n)
    BY <1>2, <1>3, WalkInParts
  <2>3. PICK v, o : v = <<a>> /\ o = << >>
    OBVIOUS
  <2>4. f[<<v \o rest, o>>] = f[<<rest, f[<<v, o>>]>>]
    BY <1>4, <1>5, <2>0, <2>3 DEF InParts
  <2>1. f[<<<<a>> \o rest, << >>>>] = f[<<rest, r>>]
    BY <1>6, <2>3, <2>4
  <2>2. Lists(f[<<rest, r>>], n, rest, r)
    BY <1>2, <1>3, <1>9, WalkLists
  <2> QED
    BY <2>1, <2>2 DEF Lists
<1> QED
  <2>1. r = Visit(<<a>>, types)
    BY <1>3, <1>6
  <2>2. \A rest \in Seq(1..Len(types)) : Extends(Visit(<<a>> \o rest, types), r)
    <3> TAKE rest \in Seq(1..Len(types))
    <3>1. rest \in Seq(1..n)
      BY <1>1
    <3> QED
      BY <1>3, <1>14, <3>1
  <2> QED
    BY <1>13, <2>1, <2>2

\* A one-to-one correspondence of nodes under which children correspond, as
\* far as it goes.
Mirrors(s, t, E) == Matches(s, t, E) /\ OneToOne(E)

LEMMA SegmentsPair ==
    ASSUME NEW s, IsArena(s), NEW t, IsArena(t), NEW E, Mirrors(s, t, E),
           NEW a \in 1..Len(s), NEW b \in 1..Len(t), <<a, b>> \in E
    PROVE  Pairs(E, Visit(<<a>>, s), Visit(<<b>>, t))
<1>1. PICK n, m, kids, lids :
         n = Len(s) /\ m = Len(t) /\ kids = Kids(s) /\ lids = Kids(t)
  OBVIOUS
<1>2. n \in Nat /\ m \in Nat /\ a \in 1..n /\ b \in 1..m
  BY <1>1 DEF IsArena
<1>3. PICK f : /\ kids \in [1..n -> Seq(1..n)] /\ IsWalk(f, n, kids)
               /\ \A r : Visit(r, s) = f[<<r, << >>>>]
  BY <1>1, VisitIs
<1>4. PICK g : /\ lids \in [1..m -> Seq(1..m)] /\ IsWalk(g, m, lids)
               /\ \A r : Visit(r, t) = g[<<r, << >>>>]
  BY <1>1, VisitIs
<1>5. E \subseteq (1..n) \X (1..m) /\ OneToOne(E)
  BY <1>1 DEF Mirrors, Matches
<1>6. ASSUME NEW x \in 1..n, NEW y \in 1..m, <<x, y>> \in E
      PROVE  Pairs(E, kids[x], lids[y])
  <2>1. PICK u, v : u = SortedChildren(s[x]) /\ v = SortedChildren(t[y])
    OBVIOUS
  <2>2. kids[x] = u /\ lids[y] = v
    BY <1>1, <2>1 DEF Kids
  <2>3. /\ Local(s, x) = Local(t, y)
        /\ \A k \in 1..Degree(s, x) : <<Kid(s, x, k), Kid(t, y, k)>> \in E
    BY <1>1, <1>6 DEF Mirrors, Matches
  <2>4. Degree(s, x) = Degree(t, y)
    BY <1>1, <2>3, LocalTellsDegree
  <2>5. /\ Degree(s, x) \in Nat
        /\ DOMAIN u = 1..Degree(s, x) /\ Len(u) = Degree(s, x)
        /\ DOMAIN v = 1..Degree(t, y) /\ Len(v) = Degree(t, y)
    BY <1>1, <2>1, ArenaNodes
  <2>6. \A k \in 1..Degree(s, x) : <<u[k], v[k]>> \in E
    BY <2>1, <2>3 DEF Kid
  <2> QED
    BY <2>2, <2>4, <2>5, <2>6 DEF Pairs
<1>7. <<a>> \in Seq(1..n) /\ <<b>> \in Seq(1..m) /\ << >> \in Seq(1..n) /\ << >> \in Seq(1..m)
  BY <1>2, One
<1>8. Pairs(E, <<a>>, <<b>>) /\ Pairs(E, << >>, << >>)
  BY DEF Pairs
<1>9. InStep(E, 1..m, f[<<<<a>>, << >>>>], g, <<a>>, << >>)
  BY <1>2, <1>3, <1>4, <1>5, <1>6, <1>7, WalkPairs
<1>10. Pairs(E, f[<<<<a>>, << >>>>], g[<<<<b>>, << >>>>])
  BY <1>7, <1>8, <1>9 DEF InStep
<1> QED
  BY <1>3, <1>4, <1>10

-----------------------------------------------------------------------------
\* Re-indexing.

OrderOf(q) == Visit(Roots(q), q.types)
PlaceOf(q) ==
    [c \in DOMAIN q.types |-> CHOOSE i \in DOMAIN OrderOf(q) : OrderOf(q)[i] = c]
ResultOf(q) ==
    [types |-> [i \in DOMAIN OrderOf(q) |-> Remap(q.types[OrderOf(q)[i]], PlaceOf(q))],
     declarations |-> Sorted(RemapRoots(q, PlaceOf(q)).declarations, NameOrder),
     actor |-> RemapRoots(q, PlaceOf(q)).actor]

LaterRoots(q) == Ascending(DeclaredTypes(q)) \o [c \in DOMAIN q.types |-> c]

LEMMA RootsList ==
    ASSUME NEW q, IsContract(q)
    PROVE  /\ LaterRoots(q) \in Seq(1..Len(q.types))
           /\ Roots(q) \in Seq(1..Len(q.types))
           /\ Range(Roots(q)) = 1..Len(q.types)
           /\ q.actor # NoActor => Roots(q) = <<q.actor>> \o LaterRoots(q)
<1>1. PICK n, N : n = Len(q.types) /\ N = 1..n
  OBVIOUS
<1>2. /\ n \in Nat /\ DOMAIN q.types = N /\ q.actor \in {NoActor} \cup N
      /\ q.declarations \in Seq(Declaration(n))
  BY <1>1, ContractIs DEF IsArena
<1>3. DeclaredTypes(q) \subseteq N
  <2>1. \A i \in DOMAIN q.declarations : q.declarations[i].ty \in 1..n
    BY <1>2, DeclarationsTyped
  <2> QED
    BY <1>1, <2>1 DEF DeclaredTypes
<1>4. IsFiniteSet(N) /\ N \subseteq Nat
  <2>1. IsFiniteSet(1..n)
    BY <1>2, FS_Interval
  <2>2. 1..n \subseteq Nat
    BY <1>2
  <2> QED
    BY <1>1, <2>1, <2>2
<1>5. IsFiniteSet(DeclaredTypes(q)) /\ DeclaredTypes(q) \subseteq Nat
  BY <1>3, <1>4, FS_Subset
<1>6. PICK s, t, u : s = Ascending(DeclaredTypes(q)) /\ t = [c \in DOMAIN q.types |-> c]
                     /\ u = ActorRoot(q)
  OBVIOUS
<1>7. s \in Seq(N)
  <2>1. s \in Seq(DeclaredTypes(q))
    BY <1>5, <1>6, AscendingLists
  <2>2. Len(s) \in Nat /\ DOMAIN s = 1..Len(s) /\ Range(s) \subseteq DeclaredTypes(q)
    BY <2>1, RangeInside
  <2>3. \A i \in 1..Len(s) : s[i] \in N
    BY <1>3, <2>2 DEF Range
  <2>4. s = [i \in 1..Len(s) |-> s[i]]
    BY <2>1, <2>2
  <2> QED
    BY <2>2, <2>3, <2>4
<1>8. t \in Seq(N) /\ Range(t) = N
  <2>1. t = [c \in 1..n |-> c]
    BY <1>1, <1>2, <1>6
  <2>2. \A c \in 1..n : c \in N
    BY <1>1
  <2>3. t \in Seq(N)
    BY <1>2, <2>1, <2>2
  <2>4. Range(t) = N
    BY <1>1, <2>1 DEF Range
  <2> QED
    BY <2>3, <2>4
<1>9. u \in Seq(N) /\ (q.actor # NoActor => u = <<q.actor>>)
  <2>1. CASE q.actor = NoActor
    BY <1>6, <2>1 DEF ActorRoot
  <2>2. CASE q.actor # NoActor
    <3>1. q.actor \in N /\ u = <<q.actor>>
      BY <1>2, <1>6, <2>2 DEF ActorRoot
    <3> QED
      BY <3>1, One
  <2> QED
    BY <2>1, <2>2
<1>10. PICK v : v = s \o t
  OBVIOUS
<1>11. v \in Seq(N) /\ Range(v) = Range(s) \cup Range(t)
  <2>1. s \o t \in Seq(N) /\ Range(s \o t) = Range(s) \cup Range(t)
    BY <1>7, <1>8, ConcatProperties, RangeOfConcat
  <2> QED
    BY <1>10, <2>1
<1>12. u \o v \in Seq(N) /\ Range(u \o v) = Range(u) \cup Range(v)
  BY <1>9, <1>11, ConcatProperties, RangeOfConcat
<1>13. Range(u) \subseteq N /\ Range(s) \subseteq N
  BY <1>7, <1>9, RangeInside
<1>14. Roots(q) = u \o v /\ LaterRoots(q) = v
  <2>1. LaterRoots(q) = v
    BY <1>6, <1>10 DEF LaterRoots
  <2>2. Roots(q) = (u \o s) \o t
    BY <1>6 DEF Roots
  <2>3. (u \o s) \o t = u \o (s \o t)
    BY SMTT(30), <1>7, <1>8, <1>9, JoinsAssociate
  <2> QED
    BY <1>10, <2>1, <2>2, <2>3
<1> QED
  BY <1>1, <1>8, <1>9, <1>11, <1>12, <1>13, <1>14

\* Every node has one place in the order, and every place one node.
PlacesMatch(order, place, n) ==
    /\ place \in [1..n -> 1..Len(order)] /\ Len(order) \in Nat
    /\ \A c \in 1..n : order[place[c]] = c
    /\ \A i \in 1..Len(order) : order[i] \in 1..n /\ place[order[i]] = i

LEMMA OrderPlaces ==
    ASSUME NEW q, IsContract(q)
    PROVE  /\ Numbering(OrderOf(q), Len(q.types))
           /\ PlacesMatch(OrderOf(q), PlaceOf(q), Len(q.types))
<1>1. PICK r, n, place : r = OrderOf(q) /\ n = Len(q.types) /\ place = PlaceOf(q)
  OBVIOUS
<1>2. IsArena(q.types)
  BY ContractIs
<1>3. Numbering(r, n)
  BY <1>1, <1>2, RootsList, VisitNumbers DEF OrderOf
<1>4. /\ Len(r) \in Nat /\ DOMAIN r = 1..Len(r) /\ Range(r) = 1..n
      /\ \A i, j \in DOMAIN r : r[i] = r[j] => i = j
  BY <1>3 DEF Numbering, Distinct
<1>5. DOMAIN q.types = 1..n
  BY <1>1, <1>2 DEF IsArena
<1>6. place = [c \in 1..n |-> CHOOSE i \in DOMAIN r : r[i] = c]
  BY <1>1, <1>5 DEF PlaceOf
<1>7. ASSUME NEW c \in 1..n PROVE place[c] \in 1..Len(r) /\ r[place[c]] = c
  <2>1. \E i \in DOMAIN r : r[i] = c
    BY <1>4 DEF Range
  <2>2. place[c] = CHOOSE i \in DOMAIN r : r[i] = c
    BY <1>6
  <2> QED
    BY <1>4, <2>1, <2>2
<1>8. ASSUME NEW i \in 1..Len(r) PROVE r[i] \in 1..n /\ place[r[i]] = i
  <2>1. r[i] \in 1..n
    BY <1>4 DEF Range
  <2>2. place[r[i]] \in DOMAIN r /\ r[place[r[i]]] = r[i]
    BY <1>4, <1>7, <2>1
  <2> QED
    BY <1>4, <2>1, <2>2
<1>9. place \in [1..n -> 1..Len(r)]
  BY <1>6, <1>7
<1> QED
  BY <1>1, <1>3, <1>4, <1>7, <1>8, <1>9 DEF PlacesMatch

-----------------------------------------------------------------------------
\* A contract whose nodes stand for those of another.

StandsFor(s, t, h) ==
    /\ h \in [1..Len(s) -> 1..Len(t)]
    /\ \A b \in 1..Len(t) : \E a \in 1..Len(s) : h[a] = b
    /\ \A a \in 1..Len(s) :
          /\ Local(t, h[a]) = Local(s, a)
          /\ \A k \in 1..Degree(s, a) : Kid(t, h[a], k) = h[Kid(s, a, k)]

DeclaresFor(old, new, h) ==
    /\ \A i \in DOMAIN old : \E j \in DOMAIN new :
          new[j].name = old[i].name /\ new[j].ty = h[old[i].ty]
    /\ \A j \in DOMAIN new : \E i \in DOMAIN old :
          new[j].name = old[i].name /\ new[j].ty = h[old[i].ty]

Stands(C, D, h) ==
    /\ StandsFor(C.types, D.types, h)
    /\ DeclaresFor(C.declarations, D.declarations, h)
    /\ D.actor = IF C.actor = NoActor THEN NoActor ELSE h[C.actor]

LEMMA RemapFits ==
    ASSUME NEW n, NEW node, NEW to, NEW k, Fits(n, node, to, k)
    PROVE  /\ IsNode(Remap(node, to), k)
           /\ LocalSignature(Remap(node, to)) = LocalSignature(node)
           /\ SortedEdges(Remap(node, to)) = Remap(node, to).edges
           /\ \A j \in 1..Len(node.edges) :
                 SortedChildren(Remap(node, to))[j] = to[SortedChildren(node)[j]]
<1>1. n \in Nat /\ IsNode(node, n) /\ k \in Nat /\ \A i \in 1..n : to[i] \in 1..k
  BY DEF Fits
<1>2. /\ LocalSignature(Remap(node, to)) = LocalSignature(node)
      /\ SortedEdges(Remap(node, to)) = Remap(node, to).edges
      /\ SortedChildren(Remap(node, to)) =
            [i \in DOMAIN SortedChildren(node) |-> to[SortedChildren(node)[i]]]
  BY <1>1, RemapKeeps
<1>3. DOMAIN SortedChildren(node) = 1..Len(node.edges)
  BY <1>1, ChildrenAre
<1>4. IsNode(Remap(node, to), k)
  BY <1>1, RemapIsNode
<1> QED
  BY <1>2, <1>3, <1>4

LEMMA QuotientStands ==
    ASSUME NEW contract, IsContract(contract), NEW cls, NEW k \in Nat,
           Numbers(cls, Len(contract.types), k), Stable(contract.types, cls)
    PROVE  IsContract(Quotient(contract, cls)) /\ Stands(contract, Quotient(contract, cls), cls)
<1>1. PICK q, n, types, old : /\ q = Quotient(contract, cls) /\ n = Len(contract.types)
                              /\ types = contract.types /\ old = contract.declarations
  OBVIOUS
<1>2. /\ IsContract(q) /\ Len(q.types) = k
      /\ \A a \in 1..n : q.types[cls[a]] = Remap(types[a], cls)
      /\ q.declarations = RemapRoots(contract, cls).declarations
      /\ q.actor = RemapRoots(contract, cls).actor
  BY <1>1, QuotientIs
<1>3. cls \in [1..n -> 1..k] /\ \A c \in 1..k : \E i \in 1..n : cls[i] = c
  BY <1>1 DEF Numbers
<1>4. n \in Nat /\ \A a \in 1..n : IsNode(types[a], n)
  BY <1>1, ContractIs DEF IsArena
<1>5. ASSUME NEW a \in 1..n
      PROVE  /\ Local(q.types, cls[a]) = Local(types, a)
             /\ \A j \in 1..Degree(types, a) : Kid(q.types, cls[a], j) = cls[Kid(types, a, j)]
  <2>1. Fits(n, types[a], cls, k)
    BY <1>3, <1>4 DEF Fits
  <2>2. PICK node, new : node = types[a] /\ new = Remap(node, cls) /\ new = q.types[cls[a]]
    BY <1>2
  <2>3. /\ LocalSignature(new) = LocalSignature(node)
        /\ \A j \in 1..Len(node.edges) : SortedChildren(new)[j] = cls[SortedChildren(node)[j]]
    <3>1. Fits(n, node, cls, k)
      BY <2>1, <2>2
    <3>2. /\ LocalSignature(Remap(node, cls)) = LocalSignature(node)
          /\ \A j \in 1..Len(node.edges) :
                SortedChildren(Remap(node, cls))[j] = cls[SortedChildren(node)[j]]
      BY <3>1, RemapFits
    <3> QED
      BY <2>2, <3>2
  <2> QED
    BY <2>2, <2>3 DEF Local, Kid, Degree
<1>6. StandsFor(types, q.types, cls)
  BY <1>1, <1>2, <1>3, <1>5 DEF StandsFor
<1>7. /\ DOMAIN q.declarations = DOMAIN old
      /\ \A i \in DOMAIN old : q.declarations[i] = [name |-> old[i].name, ty |-> cls[old[i].ty]]
      /\ q.actor = IF contract.actor = NoActor THEN NoActor ELSE cls[contract.actor]
  <2>1. RootsFit(contract, cls, k)
    BY <1>1, <1>3 DEF RootsFit
  <2>2. LET roots == RemapRoots(contract, cls)
        IN  /\ DOMAIN roots.declarations = DOMAIN contract.declarations
            /\ \A i \in DOMAIN contract.declarations :
                  roots.declarations[i] = [name |-> contract.declarations[i].name,
                                           ty |-> cls[contract.declarations[i].ty]]
            /\ roots.actor = IF contract.actor = NoActor THEN NoActor ELSE cls[contract.actor]
    BY <2>1, RootsAre
  <2> QED
    BY <1>1, <1>2, <2>2
<1>8. DeclaresFor(old, q.declarations, cls)
  <2>1. \A i \in DOMAIN old : /\ i \in DOMAIN q.declarations
                              /\ q.declarations[i].name = old[i].name
                              /\ q.declarations[i].ty = cls[old[i].ty]
    <3> TAKE i \in DOMAIN old
    <3>1. q.declarations[i] = [name |-> old[i].name, ty |-> cls[old[i].ty]]
      BY <1>7
    <3> QED
      BY <1>7, <3>1
  <2> QED
    BY <1>7, <2>1 DEF DeclaresFor
<1> QED
  BY <1>1, <1>2, <1>6, <1>7, <1>8 DEF Stands

LEMMA ResultIs ==
    ASSUME NEW q, IsContract(q)
    PROVE  LET r == ResultOf(q)
           IN  /\ IsContract(r) /\ Len(r.types) = Len(OrderOf(q))
               /\ \A i \in 1..Len(OrderOf(q)) :
                     r.types[i] = Remap(q.types[OrderOf(q)[i]], PlaceOf(q))
               /\ Stands(q, r, PlaceOf(q))
<1>1. PICK r, n, m, order, place, types :
         /\ r = ResultOf(q) /\ n = Len(q.types) /\ order = OrderOf(q) /\ m = Len(order)
         /\ place = PlaceOf(q) /\ types = q.types
  OBVIOUS
<1>2. n \in Nat /\ \A a \in 1..n : IsNode(types[a], n)
  BY <1>1, ContractIs DEF IsArena
<1>3. /\ m \in Nat /\ DOMAIN order = 1..m /\ PlacesMatch(order, place, n)
      /\ place \in [1..n -> 1..m]
      /\ \A c \in 1..n : order[place[c]] = c
      /\ \A i \in 1..m : order[i] \in 1..n /\ place[order[i]] = i
  BY <1>1, OrderPlaces DEF PlacesMatch, Numbering
<1>4. RootsFit(q, place, m)
  BY <1>1, <1>3 DEF RootsFit
<1>5. PICK roots : roots = RemapRoots(q, place)
  OBVIOUS
<1>6. /\ roots.declarations \in Seq(Declaration(m))
      /\ DOMAIN roots.declarations = DOMAIN q.declarations
      /\ \A i \in DOMAIN q.declarations : roots.declarations[i] =
            [name |-> q.declarations[i].name, ty |-> place[q.declarations[i].ty]]
      /\ \A i, j \in DOMAIN q.declarations :
            roots.declarations[i].name = roots.declarations[j].name => i = j
      /\ roots.actor = IF q.actor = NoActor THEN NoActor ELSE place[q.actor]
      /\ roots.actor \in {NoActor} \cup 1..m
  BY <1>4, <1>5, RootsAre
<1>7. /\ r.types = [i \in 1..m |-> Remap(types[order[i]], place)]
      /\ r.declarations = Sorted(roots.declarations, NameOrder)
      /\ r.actor = roots.actor
      /\ r = [types |-> r.types, declarations |-> r.declarations, actor |-> r.actor]
  BY <1>1, <1>3, <1>5 DEF ResultOf
<1>8. /\ r.types = [i \in 1..m |-> r.types[i]]
      /\ \A i \in 1..m : r.types[i] = Remap(types[order[i]], place)
  BY <1>7
<1>9. \A a \in 1..n : Fits(n, types[a], place, m)
  BY <1>2, <1>3 DEF Fits
<1>10. \A i \in 1..m : IsNode(r.types[i], m)
  <2> TAKE i \in 1..m
  <2>1. Fits(n, types[order[i]], place, m)
    BY <1>3, <1>9
  <2>2. IsNode(Remap(types[order[i]], place), m)
    BY <2>1, RemapFits
  <2> QED
    BY <1>8, <2>2
<1>11. r.types \in Seq(NodeShape(m)) /\ Len(r.types) = m
  BY <1>3, <1>8, <1>10, ArenaIf
<1>12. PICK old, new : old = roots.declarations /\ new = r.declarations
  OBVIOUS
<1>13. /\ new \in Seq(Declaration(m)) /\ Range(new) = Range(old)
       /\ Len(new) \in Nat /\ DOMAIN new = 1..Len(new)
       /\ \A i, j \in DOMAIN new : i < j => new[i].name < new[j].name
  <2>1. old \in Seq(Declaration(m)) /\ \A i, j \in DOMAIN old : old[i].name = old[j].name => i = j
    BY <1>6, <1>12
  <2>2. /\ Sorted(old, NameOrder) \in Seq(Declaration(m))
        /\ Range(Sorted(old, NameOrder)) = Range(old)
        /\ \A i, j \in DOMAIN Sorted(old, NameOrder) :
              i < j => Sorted(old, NameOrder)[i].name < Sorted(old, NameOrder)[j].name
    BY <1>3, <2>1, SortedDeclarationsAre
  <2>3. new = Sorted(old, NameOrder)
    BY <1>7, <1>12
  <2>4. new \in Seq(Declaration(m))
    BY <2>2, <2>3
  <2> QED
    BY <2>2, <2>3, <2>4, DeclarationsTyped
<1>14. \A i, j \in DOMAIN new : new[i].name = new[j].name => i = j
  <2> SUFFICES ASSUME NEW i \in DOMAIN new, NEW j \in DOMAIN new, i # j
               PROVE  new[i].name # new[j].name
    OBVIOUS
  <2>1. i < j \/ j < i
    BY <1>13
  <2>2. new[i].name \in Nat /\ new[j].name \in Nat
    BY <1>13, DeclarationsTyped
  <2>3. new[i].name < new[j].name \/ new[j].name < new[i].name
    BY <1>13, <2>1
  <2> QED
    BY <2>2, <2>3
<1>15. IsContract([types |-> r.types, declarations |-> r.declarations, actor |-> r.actor])
  BY <1>3, <1>6, <1>7, <1>10, <1>11, <1>12, <1>13, <1>14, ContractIf
<1>16. ASSUME NEW a \in 1..n
       PROVE  /\ Local(r.types, place[a]) = Local(types, a)
              /\ \A k \in 1..Degree(types, a) : Kid(r.types, place[a], k) = place[Kid(types, a, k)]
  <2>1. place[a] \in 1..m /\ order[place[a]] = a
    BY <1>3
  <2>2. r.types[place[a]] = Remap(types[a], place)
    BY <1>8, <2>1
  <2>3. PICK node : node = types[a]
    OBVIOUS
  <2>4. Fits(n, node, place, m)
    BY <1>9, <2>3
  <2>5. /\ LocalSignature(Remap(node, place)) = LocalSignature(node)
        /\ \A j \in 1..Len(node.edges) :
              SortedChildren(Remap(node, place))[j] = place[SortedChildren(node)[j]]
    BY <2>4, RemapFits
  <2> QED
    BY <2>2, <2>3, <2>5 DEF Local, Kid, Degree
<1>17. \A b \in 1..m : \E a \in 1..n : place[a] = b
  BY <1>3
<1>18. StandsFor(types, r.types, place)
  BY <1>1, <1>3, <1>11, <1>16, <1>17 DEF StandsFor
<1>19. DeclaresFor(q.declarations, new, place)
  <2>1. ASSUME NEW i \in DOMAIN q.declarations
        PROVE  \E j \in DOMAIN new : /\ new[j].name = q.declarations[i].name
                                     /\ new[j].ty = place[q.declarations[i].ty]
    <3>1. old[i] = [name |-> q.declarations[i].name, ty |-> place[q.declarations[i].ty]]
      BY <1>6, <1>12
    <3>2. old[i] \in Range(old)
      BY <1>6, <1>12 DEF Range
    <3>3. PICK j \in DOMAIN new : new[j] = old[i]
      BY <1>13, <3>2 DEF Range
    <3> QED
      BY <3>1, <3>3
  <2>2. ASSUME NEW j \in DOMAIN new
        PROVE  \E i \in DOMAIN q.declarations : /\ new[j].name = q.declarations[i].name
                                                /\ new[j].ty = place[q.declarations[i].ty]
    <3>1. new[j] \in Range(old)
      BY <1>13 DEF Range
    <3>2. PICK i \in DOMAIN old : new[j] = old[i]
      BY <3>1 DEF Range
    <3>3. i \in DOMAIN q.declarations
      BY <1>6, <1>12, <3>2
    <3>4. old[i] = [name |-> q.declarations[i].name, ty |-> place[q.declarations[i].ty]]
      BY <1>6, <1>12, <3>3
    <3> QED
      BY <3>2, <3>3, <3>4
  <2> QED
    BY <2>1, <2>2 DEF DeclaresFor
<1>20. r.actor = IF q.actor = NoActor THEN NoActor ELSE place[q.actor]
  BY <1>6, <1>7
<1>21. Stands(q, r, place)
  BY <1>1, <1>12, <1>18, <1>19, <1>20 DEF Stands
<1> QED
  BY <1>1, <1>7, <1>8, <1>11, <1>15, <1>21

Then(g, h) == [a \in DOMAIN g |-> h[g[a]]]

LEMMA StandsThrough ==
    ASSUME NEW C, NEW D, NEW E, NEW g, NEW h, IsContract(C), IsContract(D),
           Stands(C, D, g), Stands(D, E, h)
    PROVE  Stands(C, E, Then(g, h))
<1>1. PICK s, t, u, f : s = C.types /\ t = D.types /\ u = E.types /\ f = Then(g, h)
  OBVIOUS
<1>2. /\ g \in [1..Len(s) -> 1..Len(t)]
      /\ \A b \in 1..Len(t) : \E a \in 1..Len(s) : g[a] = b
      /\ \A a \in 1..Len(s) :
            /\ Local(t, g[a]) = Local(s, a)
            /\ \A k \in 1..Degree(s, a) : Kid(t, g[a], k) = g[Kid(s, a, k)]
  BY <1>1 DEF Stands, StandsFor
<1>3. /\ h \in [1..Len(t) -> 1..Len(u)]
      /\ \A b \in 1..Len(u) : \E a \in 1..Len(t) : h[a] = b
      /\ \A a \in 1..Len(t) :
            /\ Local(u, h[a]) = Local(t, a)
            /\ \A k \in 1..Degree(t, a) : Kid(u, h[a], k) = h[Kid(t, a, k)]
  BY <1>1 DEF Stands, StandsFor
<1>4. IsArena(s) /\ IsArena(t)
  BY <1>1, ContractIs
<1>5. f \in [1..Len(s) -> 1..Len(u)] /\ \A a \in 1..Len(s) : f[a] = h[g[a]]
  BY <1>1, <1>2, <1>3 DEF Then
<1>6. \A b \in 1..Len(u) : \E a \in 1..Len(s) : f[a] = b
  <2> TAKE b \in 1..Len(u)
  <2>1. PICK c \in 1..Len(t) : h[c] = b
    BY <1>3
  <2>2. PICK a \in 1..Len(s) : g[a] = c
    BY <1>2
  <2> QED
    BY <1>5, <2>1, <2>2
<1>7. ASSUME NEW a \in 1..Len(s)
      PROVE  /\ Local(u, f[a]) = Local(s, a)
             /\ \A k \in 1..Degree(s, a) : Kid(u, f[a], k) = f[Kid(s, a, k)]
  <2>1. PICK b \in 1..Len(t) : b = g[a]
    BY <1>2
  <2>2. Local(t, b) = Local(s, a) /\ Local(u, h[b]) = Local(t, b) /\ f[a] = h[b]
    BY <1>2, <1>3, <1>5, <2>1
  <2>3. Degree(t, b) = Degree(s, a)
    BY <1>4, <2>2, LocalTellsDegree
  <2>4. \A k \in 1..Degree(s, a) : Kid(s, a, k) \in 1..Len(s)
    BY <1>4, ArenaNodes
  <2>5. \A k \in 1..Degree(s, a) : Kid(u, f[a], k) = f[Kid(s, a, k)]
    <3> TAKE k \in 1..Degree(s, a)
    <3>1. Kid(t, b, k) = g[Kid(s, a, k)]
      BY <1>2, <2>1
    <3>2. Kid(u, h[b], k) = h[Kid(t, b, k)]
      BY <1>3, <2>3
    <3>3. f[Kid(s, a, k)] = h[g[Kid(s, a, k)]]
      BY <1>5, <2>4
    <3> QED
      BY <2>2, <3>1, <3>2, <3>3
  <2> QED
    BY <2>2, <2>5
<1>8. StandsFor(s, u, f)
  BY <1>5, <1>6, <1>7 DEF StandsFor
<1>9. /\ DeclaresFor(C.declarations, D.declarations, g)
      /\ DeclaresFor(D.declarations, E.declarations, h)
  BY DEF Stands
<1>10. /\ \A i \in DOMAIN C.declarations : C.declarations[i].ty \in 1..Len(s)
       /\ C.actor \in {NoActor} \cup 1..Len(s)
  BY <1>1, ContractIs, DeclarationsTyped
<1>11. DeclaresFor(C.declarations, E.declarations, f)
  <2>1. PICK c, d, e : c = C.declarations /\ d = D.declarations /\ e = E.declarations
    OBVIOUS
  <2>2. \A i \in DOMAIN c : f[c[i].ty] = h[g[c[i].ty]]
    BY <1>5, <1>10, <2>1
  <2>3. ASSUME NEW i \in DOMAIN c
        PROVE  \E k \in DOMAIN e : e[k].name = c[i].name /\ e[k].ty = f[c[i].ty]
    <3>1. PICK j \in DOMAIN d : d[j].name = c[i].name /\ d[j].ty = g[c[i].ty]
      BY <1>9, <2>1 DEF DeclaresFor
    <3>2. PICK k \in DOMAIN e : e[k].name = d[j].name /\ e[k].ty = h[d[j].ty]
      BY <1>9, <2>1 DEF DeclaresFor
    <3> QED
      BY <2>2, <3>1, <3>2
  <2>4. ASSUME NEW k \in DOMAIN e
        PROVE  \E i \in DOMAIN c : e[k].name = c[i].name /\ e[k].ty = f[c[i].ty]
    <3>1. PICK j \in DOMAIN d : e[k].name = d[j].name /\ e[k].ty = h[d[j].ty]
      BY <1>9, <2>1 DEF DeclaresFor
    <3>2. PICK i \in DOMAIN c : d[j].name = c[i].name /\ d[j].ty = g[c[i].ty]
      BY <1>9, <2>1 DEF DeclaresFor
    <3> QED
      BY <2>2, <3>1, <3>2
  <2> QED
    BY <2>1, <2>3, <2>4 DEF DeclaresFor
<1>12. E.actor = IF C.actor = NoActor THEN NoActor ELSE f[C.actor]
  <2>1. /\ D.actor = IF C.actor = NoActor THEN NoActor ELSE g[C.actor]
        /\ E.actor = IF D.actor = NoActor THEN NoActor ELSE h[D.actor]
    BY DEF Stands
  <2>2. CASE C.actor = NoActor
    BY <2>1, <2>2
  <2>3. CASE C.actor # NoActor
    <3>1. C.actor \in 1..Len(s)
      BY <1>10, <2>3
    <3>2. g[C.actor] \in 1..Len(t)
      BY <1>2, <3>1
    <3>3. Len(t) \in Nat
      BY <1>4 DEF IsArena
    <3>4. D.actor # NoActor
      BY <2>1, <2>3, <3>2, <3>3 DEF NoActor
    <3> QED
      BY <1>5, <2>1, <2>3, <3>1, <3>4
  <2> QED
    BY <2>2, <2>3
<1> QED
  BY <1>1, <1>8, <1>11, <1>12 DEF Stands

-----------------------------------------------------------------------------
\* Contracts that mean the same.

Declares(old, new, B) ==
    /\ \A i \in DOMAIN old : \E j \in DOMAIN new :
          new[j].name = old[i].name /\ <<old[i].ty, new[j].ty>> \in B
    /\ \A j \in DOMAIN new : \E i \in DOMAIN old :
          new[j].name = old[i].name /\ <<old[i].ty, new[j].ty>> \in B

Alike(C, D, B) ==
    /\ Matches(C.types, D.types, B) /\ Covers(C.types, D.types, B)
    /\ Declares(C.declarations, D.declarations, B)
    /\ C.actor = NoActor <=> D.actor = NoActor
    /\ C.actor # NoActor => <<C.actor, D.actor>> \in B

\* Nodes that stand for the same.
Meet(g, h) == {p \in (DOMAIN g) \X (DOMAIN h) : g[p[1]] = h[p[2]]}

LEMMA MeetAlike ==
    ASSUME NEW C, NEW D, NEW R, IsContract(C), IsContract(D), NEW g, NEW h,
           Stands(C, R, g), Stands(D, R, h)
    PROVE  Alike(C, D, Meet(g, h))
<1>1. PICK s, t, u, B : s = C.types /\ t = D.types /\ u = R.types /\ B = Meet(g, h)
  OBVIOUS
<1>2. /\ g \in [1..Len(s) -> 1..Len(u)]
      /\ \A b \in 1..Len(u) : \E a \in 1..Len(s) : g[a] = b
      /\ \A a \in 1..Len(s) :
            /\ Local(u, g[a]) = Local(s, a)
            /\ \A k \in 1..Degree(s, a) : Kid(u, g[a], k) = g[Kid(s, a, k)]
  BY <1>1 DEF Stands, StandsFor
<1>3. /\ h \in [1..Len(t) -> 1..Len(u)]
      /\ \A b \in 1..Len(u) : \E a \in 1..Len(t) : h[a] = b
      /\ \A a \in 1..Len(t) :
            /\ Local(u, h[a]) = Local(t, a)
            /\ \A k \in 1..Degree(t, a) : Kid(u, h[a], k) = h[Kid(t, a, k)]
  BY <1>1 DEF Stands, StandsFor
<1>4. IsArena(s) /\ IsArena(t)
  BY <1>1, ContractIs
<1>5. B = {p \in (1..Len(s)) \X (1..Len(t)) : g[p[1]] = h[p[2]]}
  BY <1>1, <1>2, <1>3 DEF Meet
<1>6. \A a \in 1..Len(s), b \in 1..Len(t) : <<a, b>> \in B <=> g[a] = h[b]
  BY <1>5
<1>7. Matches(s, t, B)
  <2>1. B \subseteq (1..Len(s)) \X (1..Len(t))
    BY <1>5
  <2>2. ASSUME NEW a \in 1..Len(s), NEW b \in 1..Len(t), <<a, b>> \in B
        PROVE  /\ Local(s, a) = Local(t, b)
               /\ \A k \in 1..Degree(s, a) : <<Kid(s, a, k), Kid(t, b, k)>> \in B
    <3>1. g[a] = h[b]
      BY <1>6, <2>2
    <3>2. Local(s, a) = Local(t, b)
      BY <1>2, <1>3, <3>1
    <3>3. Degree(s, a) = Degree(t, b)
      BY <1>4, <3>2, LocalTellsDegree
    <3>4. ASSUME NEW k \in 1..Degree(s, a) PROVE <<Kid(s, a, k), Kid(t, b, k)>> \in B
      <4>1. Kid(s, a, k) \in 1..Len(s) /\ Kid(t, b, k) \in 1..Len(t)
        BY <1>4, <3>3, ArenaNodes
      <4>2. g[Kid(s, a, k)] = h[Kid(t, b, k)]
        BY <1>2, <1>3, <3>1, <3>3
      <4> QED
        BY <1>6, <4>1, <4>2
    <3> QED
      BY <3>2, <3>4
  <2> QED
    BY <2>1, <2>2 DEF Matches
<1>8. Covers(s, t, B)
  <2>1. ASSUME NEW a \in 1..Len(s) PROVE \E b \in 1..Len(t) : <<a, b>> \in B
    BY <1>2, <1>3, <1>6
  <2>2. ASSUME NEW b \in 1..Len(t) PROVE \E a \in 1..Len(s) : <<a, b>> \in B
    <3>1. h[b] \in 1..Len(u)
      BY <1>3
    <3>2. PICK a \in 1..Len(s) : g[a] = h[b]
      BY <1>2, <3>1
    <3> QED
      BY <1>6, <3>2
  <2> QED
    BY <2>1, <2>2 DEF Covers
<1>9. PICK c, d, e : c = C.declarations /\ d = D.declarations /\ e = R.declarations
  OBVIOUS
<1>10. /\ \A i \in DOMAIN c : c[i].ty \in 1..Len(s)
       /\ \A i \in DOMAIN d : d[i].ty \in 1..Len(t)
       /\ C.actor \in {NoActor} \cup 1..Len(s)
       /\ D.actor \in {NoActor} \cup 1..Len(t)
  BY <1>1, <1>9, ContractIs, DeclarationsTyped
<1>11. DeclaresFor(c, e, g) /\ DeclaresFor(d, e, h)
  BY <1>9 DEF Stands
<1>12. Declares(c, d, B)
  <2>1. ASSUME NEW i \in DOMAIN c
        PROVE  \E j \in DOMAIN d : d[j].name = c[i].name /\ <<c[i].ty, d[j].ty>> \in B
    <3>1. PICK k \in DOMAIN e : e[k].name = c[i].name /\ e[k].ty = g[c[i].ty]
      BY <1>11 DEF DeclaresFor
    <3>2. PICK j \in DOMAIN d : e[k].name = d[j].name /\ e[k].ty = h[d[j].ty]
      BY <1>11 DEF DeclaresFor
    <3>3. <<c[i].ty, d[j].ty>> \in B
      BY ZenonT(60), <1>6, <1>10, <3>1, <3>2
    <3> QED
      BY <3>1, <3>2, <3>3
  <2>2. ASSUME NEW j \in DOMAIN d
        PROVE  \E i \in DOMAIN c : d[j].name = c[i].name /\ <<c[i].ty, d[j].ty>> \in B
    <3>1. PICK k \in DOMAIN e : e[k].name = d[j].name /\ e[k].ty = h[d[j].ty]
      BY <1>11 DEF DeclaresFor
    <3>2. PICK i \in DOMAIN c : e[k].name = c[i].name /\ e[k].ty = g[c[i].ty]
      BY <1>11 DEF DeclaresFor
    <3>3. <<c[i].ty, d[j].ty>> \in B
      BY ZenonT(60), <1>6, <1>10, <3>1, <3>2
    <3> QED
      BY <3>1, <3>2, <3>3
  <2> QED
    BY <2>1, <2>2 DEF Declares
<1>13. /\ R.actor = IF C.actor = NoActor THEN NoActor ELSE g[C.actor]
       /\ R.actor = IF D.actor = NoActor THEN NoActor ELSE h[D.actor]
  BY DEF Stands
<1>14. /\ C.actor # NoActor => C.actor \in 1..Len(s) /\ g[C.actor] \in 1..Len(u)
       /\ D.actor # NoActor => D.actor \in 1..Len(t) /\ h[D.actor] \in 1..Len(u)
  BY <1>2, <1>3, <1>10
<1>15. NoActor \notin 1..Len(u)
  BY DEF NoActor
<1>16. C.actor = NoActor <=> D.actor = NoActor
  BY <1>13, <1>14, <1>15
<1>17. C.actor # NoActor => <<C.actor, D.actor>> \in B
  BY <1>6, <1>13, <1>14, <1>16
<1> QED
  BY <1>1, <1>7, <1>8, <1>9, <1>12, <1>16, <1>17 DEF Alike

LEMMA SameEnd ==
    ASSUME NEW k \in Nat, NEW l \in Nat, 1..k = 1..l
    PROVE  k = l
<1>1. CASE k < l
  <2>1. l \in 1..l /\ l \notin 1..k
    BY <1>1
  <2> QED
    BY <2>1
<1>2. CASE l < k
  <2>1. k \in 1..k /\ k \notin 1..l
    BY <1>2
  <2> QED
    BY <2>1
<1> QED
  BY <1>1, <1>2

\* Related nodes become one node of the quotients.
Relates(s, t, B, k, c, d) ==
    /\ IsArena(s) /\ IsArena(t) /\ Matches(s, t, B) /\ k \in Nat
    /\ c \in [1..Len(s) -> 1..k] /\ d \in [1..Len(t) -> 1..k] /\ Agree(c, d, B)

LEMMA RemapRelated ==
    ASSUME NEW s, NEW t, NEW B, NEW k, NEW c, NEW d, Relates(s, t, B, k, c, d),
           NEW a \in 1..Len(s), NEW b \in 1..Len(t), <<a, b>> \in B
    PROVE  Remap(s[a], c) = Remap(t[b], d)
<1>0. /\ IsArena(s) /\ IsArena(t) /\ Matches(s, t, B) /\ k \in Nat
      /\ c \in [1..Len(s) -> 1..k] /\ d \in [1..Len(t) -> 1..k] /\ Agree(c, d, B)
  BY DEF Relates
<1>1. Fits(Len(s), s[a], c, k) /\ Fits(Len(t), t[b], d, k)
  BY <1>0 DEF Fits, IsArena
<1>2. Local(s, a) = Local(t, b) /\ \A i \in 1..Degree(s, a) : <<Kid(s, a, i), Kid(t, b, i)>> \in B
  BY <1>0 DEF Matches
<1>3. ASSUME NEW i \in 1..Degree(s, a) PROVE c[Kid(s, a, i)] = d[Kid(t, b, i)]
  <2>1. PICK p \in B : p = <<Kid(s, a, i), Kid(t, b, i)>>
    BY <1>2
  <2>2. c[p[1]] = d[p[2]]
    BY <1>0 DEF Agree
  <2> QED
    BY <2>1, <2>2
<1>4. SameTargets(s[a], c, t[b], d)
  BY <1>3 DEF SameTargets, Degree, Kid
<1>5. LocalSignature(s[a]) = LocalSignature(t[b])
  BY <1>2 DEF Local
<1> QED
  BY <1>1, <1>4, <1>5, RemapSame

\* Their quotients are the same, but for the order of the declarations.
SameButOrder(q, p) ==
    /\ q.types = p.types /\ q.actor = p.actor
    /\ \A i \in DOMAIN q.declarations : \E j \in DOMAIN p.declarations :
          q.declarations[i] = p.declarations[j]
    /\ \A j \in DOMAIN p.declarations : \E i \in DOMAIN q.declarations :
          q.declarations[i] = p.declarations[j]

LEMMA SameQuotients ==
    ASSUME NEW C, IsContract(C), NEW D, IsContract(D), NEW B, Alike(C, D, B),
           NEW c, Final(C.types, c), NEW d, Final(D.types, d)
    PROVE  SameButOrder(Quotient(C, c), Quotient(D, d))
<1>1. PICK s, t : s = C.types /\ t = D.types
  OBVIOUS
<1>2. /\ IsArena(s) /\ IsArena(t) /\ Matches(s, t, B) /\ Covers(s, t, B)
      /\ Final(s, c) /\ Final(t, d)
  BY <1>1, ContractIs DEF Alike
<1>3. Agree(c, d, B)
  BY <1>2, FinalAgrees
<1>4. PICK k \in Nat : Numbers(c, Len(s), k)
  BY <1>2, FinalIs DEF Numbered
<1>5. PICK l \in Nat : Numbers(d, Len(t), l)
  BY <1>2, FinalIs DEF Numbered
<1>6. /\ c \in [1..Len(s) -> 1..k] /\ \A x \in 1..k : \E a \in 1..Len(s) : c[a] = x
      /\ d \in [1..Len(t) -> 1..l] /\ \A x \in 1..l : \E a \in 1..Len(t) : d[a] = x
  BY <1>4, <1>5 DEF Numbers
<1>7. \A a \in 1..Len(s), b \in 1..Len(t) : <<a, b>> \in B => c[a] = d[b]
  <2> TAKE a \in 1..Len(s), b \in 1..Len(t)
  <2> HAVE <<a, b>> \in B
  <2>1. PICK p \in B : p = <<a, b>>
    OBVIOUS
  <2>2. c[p[1]] = d[p[2]]
    BY <1>3 DEF Agree
  <2> QED
    BY <2>1, <2>2
<1>8. k = l
  <2>1. ASSUME NEW x \in 1..k PROVE x \in 1..l
    <3>1. PICK a \in 1..Len(s) : c[a] = x
      BY <1>6
    <3>2. PICK b \in 1..Len(t) : <<a, b>> \in B
      BY <1>2 DEF Covers
    <3> QED
      BY <1>6, <1>7, <3>1, <3>2
  <2>2. ASSUME NEW x \in 1..l PROVE x \in 1..k
    <3>1. PICK b \in 1..Len(t) : d[b] = x
      BY <1>6
    <3>2. PICK a \in 1..Len(s) : <<a, b>> \in B
      BY <1>2 DEF Covers
    <3> QED
      BY <1>6, <1>7, <3>1, <3>2
  <2>3. 1..k = 1..l
    BY <2>1, <2>2
  <2> QED
    BY <2>3, SameEnd
<1>9. Stable(s, c) /\ Stable(t, d)
  BY <1>2, FinalIs
<1>10. PICK q, p : q = Quotient(C, c) /\ p = Quotient(D, d)
  OBVIOUS
<1>11. /\ IsContract(q) /\ Len(q.types) = k
       /\ \A a \in 1..Len(s) : q.types[c[a]] = Remap(s[a], c)
       /\ q.declarations = RemapRoots(C, c).declarations
       /\ q.actor = RemapRoots(C, c).actor
  BY <1>1, <1>4, <1>9, <1>10, QuotientIs
<1>12. /\ IsContract(p) /\ Len(p.types) = k
       /\ \A a \in 1..Len(t) : p.types[d[a]] = Remap(t[a], d)
       /\ p.declarations = RemapRoots(D, d).declarations
       /\ p.actor = RemapRoots(D, d).actor
  BY <1>1, <1>5, <1>8, <1>9, <1>10, QuotientIs
<1>13. q.types = p.types
  <2>1. ASSUME NEW x \in 1..k PROVE q.types[x] = p.types[x]
    <3>1. PICK a \in 1..Len(s) : c[a] = x
      BY <1>6
    <3>2. PICK b \in 1..Len(t) : <<a, b>> \in B
      BY <1>2 DEF Covers
    <3>3. d[b] = x
      BY <1>7, <3>1, <3>2
    <3>4. Relates(s, t, B, k, c, d)
      BY <1>2, <1>3, <1>6, <1>8 DEF Relates
    <3>5. Remap(s[a], c) = Remap(t[b], d)
      BY <3>2, <3>4, RemapRelated
    <3> QED
      BY <1>11, <1>12, <3>1, <3>3, <3>5
  <2>2. q.types \in Seq(NodeShape(k)) /\ p.types \in Seq(NodeShape(k))
    BY <1>11, <1>12 DEF IsContract
  <2>3. PICK u, v : u = q.types /\ v = p.types
    OBVIOUS
  <2>4. Len(u) = k /\ Len(v) = k /\ \A x \in 1..Len(u) : u[x] = v[x]
    BY <1>11, <1>12, <2>1, <2>3
  <2> QED
    BY <2>2, <2>3, <2>4, SeqEqual
<1>14. RootsFit(C, c, k) /\ RootsFit(D, d, k)
  BY <1>1, <1>6, <1>8 DEF RootsFit
<1>15. /\ DOMAIN q.declarations = DOMAIN C.declarations
       /\ \A i \in DOMAIN C.declarations : q.declarations[i] =
             [name |-> C.declarations[i].name, ty |-> c[C.declarations[i].ty]]
       /\ q.actor = IF C.actor = NoActor THEN NoActor ELSE c[C.actor]
  BY <1>11, <1>14, RootsAre
<1>16. /\ DOMAIN p.declarations = DOMAIN D.declarations
       /\ \A i \in DOMAIN D.declarations : p.declarations[i] =
             [name |-> D.declarations[i].name, ty |-> d[D.declarations[i].ty]]
       /\ p.actor = IF D.actor = NoActor THEN NoActor ELSE d[D.actor]
  BY <1>12, <1>14, RootsAre
<1>17. /\ \A i \in DOMAIN C.declarations : C.declarations[i].ty \in 1..Len(s)
       /\ \A i \in DOMAIN D.declarations : D.declarations[i].ty \in 1..Len(t)
       /\ C.actor \in {NoActor} \cup 1..Len(s) /\ D.actor \in {NoActor} \cup 1..Len(t)
  BY <1>1, ContractIs, DeclarationsTyped
<1>18. q.actor = p.actor
  BY <1>7, <1>15, <1>16, <1>17 DEF Alike
<1>19. ASSUME NEW i \in DOMAIN C.declarations, NEW j \in DOMAIN D.declarations,
              D.declarations[j].name = C.declarations[i].name,
              <<C.declarations[i].ty, D.declarations[j].ty>> \in B
       PROVE  q.declarations[i] = p.declarations[j]
  <2>1. c[C.declarations[i].ty] = d[D.declarations[j].ty]
    BY <1>7, <1>17, <1>19
  <2> QED
    BY <1>15, <1>16, <1>19, <2>1
<1>20. Declares(C.declarations, D.declarations, B)
  BY DEF Alike
<1>21. \A i \in DOMAIN q.declarations : \E j \in DOMAIN p.declarations :
          q.declarations[i] = p.declarations[j]
  BY ZenonT(60), <1>15, <1>16, <1>19, <1>20 DEF Declares
<1>22. \A j \in DOMAIN p.declarations : \E i \in DOMAIN q.declarations :
          q.declarations[i] = p.declarations[j]
  <2> TAKE j \in DOMAIN p.declarations
  <2>1. j \in DOMAIN D.declarations
    BY <1>16
  <2>2. PICK i \in DOMAIN C.declarations :
           /\ D.declarations[j].name = C.declarations[i].name
           /\ <<C.declarations[i].ty, D.declarations[j].ty>> \in B
    BY <1>20, <2>1 DEF Declares
  <2> QED
    BY <1>15, <1>19, <2>1, <2>2
<1> QED
  BY <1>10, <1>13, <1>18, <1>21, <1>22 DEF SameButOrder

RootsBecome(contract, to, k, roots) ==
    /\ roots.declarations \in Seq(Declaration(k))
    /\ DOMAIN roots.declarations = DOMAIN contract.declarations
    /\ \A i \in DOMAIN contract.declarations :
          /\ roots.declarations[i] = [name |-> contract.declarations[i].name,
                                      ty |-> to[contract.declarations[i].ty]]
    /\ \A i, j \in DOMAIN contract.declarations :
          roots.declarations[i].name = roots.declarations[j].name => i = j
    /\ roots.actor = IF contract.actor = NoActor THEN NoActor ELSE to[contract.actor]

LEMMA RootsBecoming ==
    ASSUME NEW contract, NEW to, NEW k, RootsFit(contract, to, k)
    PROVE  RootsBecome(contract, to, k, RemapRoots(contract, to))
BY RootsAre DEF RootsBecome

LEMMA SameReindexed ==
    ASSUME NEW q, IsContract(q), NEW p, IsContract(p), SameButOrder(q, p)
    PROVE  ResultOf(q) = ResultOf(p) /\ PlaceOf(q) = PlaceOf(p)
<1>1. q.types = p.types /\ q.actor = p.actor
  BY DEF SameButOrder
<1>2. DeclaredTypes(q) = DeclaredTypes(p)
  <2>1. ASSUME NEW x \in DeclaredTypes(q) PROVE x \in DeclaredTypes(p)
    <3>1. PICK i \in DOMAIN q.declarations : x = q.declarations[i].ty
      BY DEF DeclaredTypes
    <3>2. PICK j \in DOMAIN p.declarations : q.declarations[i] = p.declarations[j]
      BY DEF SameButOrder
    <3> QED
      BY <3>1, <3>2 DEF DeclaredTypes
  <2>2. ASSUME NEW x \in DeclaredTypes(p) PROVE x \in DeclaredTypes(q)
    <3>1. PICK j \in DOMAIN p.declarations : x = p.declarations[j].ty
      BY DEF DeclaredTypes
    <3>2. PICK i \in DOMAIN q.declarations : q.declarations[i] = p.declarations[j]
      BY DEF SameButOrder
    <3> QED
      BY <3>1, <3>2 DEF DeclaredTypes
  <2> QED
    BY <2>1, <2>2
<1>3. Roots(q) = Roots(p)
  BY <1>1, <1>2 DEF Roots, ActorRoot
<1>4. OrderOf(q) = OrderOf(p)
  BY <1>1, <1>3 DEF OrderOf
<1>5. PlaceOf(q) = PlaceOf(p)
  BY <1>1, <1>4 DEF PlaceOf
<1>6. PICK order, place, m : order = OrderOf(q) /\ place = PlaceOf(q) /\ m = Len(order)
  OBVIOUS
<1>7. RootsFit(q, place, m) /\ RootsFit(p, place, m)
  BY <1>1, <1>6, OrderPlaces DEF RootsFit, PlacesMatch
<1>8. PICK old, new : old = RemapRoots(q, place) /\ new = RemapRoots(p, place)
  OBVIOUS
<1>9. /\ old.declarations \in Seq(Declaration(m))
      /\ DOMAIN old.declarations = DOMAIN q.declarations
      /\ \A i \in DOMAIN q.declarations : old.declarations[i] =
            [name |-> q.declarations[i].name, ty |-> place[q.declarations[i].ty]]
      /\ \A i, j \in DOMAIN q.declarations :
            old.declarations[i].name = old.declarations[j].name => i = j
      /\ old.actor = IF q.actor = NoActor THEN NoActor ELSE place[q.actor]
  <2>1. RootsBecome(q, place, m, old)
    BY <1>7, <1>8, RootsBecoming
  <2> QED
    BY <2>1 DEF RootsBecome
<1>10. /\ new.declarations \in Seq(Declaration(m))
       /\ DOMAIN new.declarations = DOMAIN p.declarations
       /\ \A i \in DOMAIN p.declarations : new.declarations[i] =
             [name |-> p.declarations[i].name, ty |-> place[p.declarations[i].ty]]
       /\ \A i, j \in DOMAIN p.declarations :
             new.declarations[i].name = new.declarations[j].name => i = j
       /\ new.actor = IF p.actor = NoActor THEN NoActor ELSE place[p.actor]
  <2>1. RootsBecome(p, place, m, new)
    BY <1>7, <1>8, RootsBecoming
  <2> QED
    BY <2>1 DEF RootsBecome
<1>11. old.actor = new.actor
  BY <1>1, <1>9, <1>10
<1>12. PICK u, v : u = old.declarations /\ v = new.declarations
  OBVIOUS
<1>13. Range(u) = Range(v)
  <2>1. \A i \in DOMAIN u : \E j \in DOMAIN v : u[i] = v[j]
    <3> TAKE i \in DOMAIN u
    <3>1. i \in DOMAIN q.declarations
      BY <1>9, <1>12
    <3>2. PICK j \in DOMAIN p.declarations : q.declarations[i] = p.declarations[j]
      BY <3>1 DEF SameButOrder
    <3>3. u[i] = [name |-> q.declarations[i].name, ty |-> place[q.declarations[i].ty]]
      BY <1>9, <1>12, <3>1
    <3>4. v[j] = [name |-> p.declarations[j].name, ty |-> place[p.declarations[j].ty]]
      BY <1>10, <1>12, <3>2
    <3>5. i \in DOMAIN u /\ j \in DOMAIN v
      BY <1>9, <1>10, <1>12, <3>1, <3>2
    <3> QED
      BY <3>2, <3>3, <3>4, <3>5
  <2>2. \A j \in DOMAIN v : \E i \in DOMAIN u : u[i] = v[j]
    <3> TAKE j \in DOMAIN v
    <3>1. j \in DOMAIN p.declarations
      BY <1>10, <1>12
    <3>2. PICK i \in DOMAIN q.declarations : q.declarations[i] = p.declarations[j]
      BY <3>1 DEF SameButOrder
    <3>3. u[i] = [name |-> q.declarations[i].name, ty |-> place[q.declarations[i].ty]]
      BY <1>9, <1>12, <3>1
    <3>4. v[j] = [name |-> p.declarations[j].name, ty |-> place[p.declarations[j].ty]]
      BY <1>10, <1>12, <3>2
    <3>5. i \in DOMAIN u /\ j \in DOMAIN v
      BY <1>9, <1>10, <1>12, <3>1, <3>2
    <3> QED
      BY <3>2, <3>3, <3>4, <3>5
  <2> QED
    BY <2>1, <2>2 DEF Range
<1>14. m \in Nat
  BY <1>7 DEF RootsFit
<1>15. PICK x : x = Sorted(u, NameOrder)
  OBVIOUS
<1>16. PICK y : y = Sorted(v, NameOrder)
  OBVIOUS
<1>17. /\ x \in Seq(Declaration(m)) /\ Range(x) = Range(u)
       /\ \A i, j \in DOMAIN x : i < j => x[i].name < x[j].name
  <2>1. u \in Seq(Declaration(m)) /\ \A i, j \in DOMAIN u : u[i].name = u[j].name => i = j
    BY <1>9, <1>12
  <2> QED
    BY <1>14, <1>15, <2>1, SortedDeclarationsAre
<1>18. /\ y \in Seq(Declaration(m)) /\ Range(y) = Range(v)
       /\ \A i, j \in DOMAIN y : i < j => y[i].name < y[j].name
  <2>1. v \in Seq(Declaration(m)) /\ \A i, j \in DOMAIN v : v[i].name = v[j].name => i = j
    BY <1>10, <1>12
  <2> QED
    BY <1>14, <1>16, <2>1, SortedDeclarationsAre
<1>19. x = y
  BY <1>13, <1>14, <1>17, <1>18, SameDeclarationsSorted
<1>20. Sorted(old.declarations, NameOrder) = Sorted(new.declarations, NameOrder)
  BY <1>12, <1>15, <1>16, <1>19
<1>21. ResultOf(q) = [types |-> [i \in DOMAIN order |-> Remap(q.types[order[i]], place)],
                     declarations |-> Sorted(old.declarations, NameOrder), actor |-> old.actor]
  BY <1>6, <1>8 DEF ResultOf
<1>22. ResultOf(p) = [types |-> [i \in DOMAIN order |-> Remap(p.types[order[i]], place)],
                     declarations |-> Sorted(new.declarations, NameOrder), actor |-> new.actor]
  BY <1>4, <1>5, <1>6, <1>8 DEF ResultOf
<1> QED
  BY <1>1, <1>5, <1>11, <1>20, <1>21, <1>22

-----------------------------------------------------------------------------
\* What the loop, the quotient and re-indexing make of a contract.

Canonical(C, c, R) ==
    /\ IsContract(C) /\ Final(C.types, c)
    /\ R = ResultOf(Quotient(C, c))

LEMMA CanonicalIs ==
    ASSUME NEW C, IsContract(C), NEW c, Final(C.types, c)
    PROVE  /\ IsContract(Quotient(C, c)) /\ IsContract(ResultOf(Quotient(C, c)))
           /\ Stands(C, ResultOf(Quotient(C, c)), Then(c, PlaceOf(Quotient(C, c))))
<1>1. PICK q : q = Quotient(C, c)
  OBVIOUS
<1>2. IsArena(C.types)
  BY ContractIs
<1>3. Stable(C.types, c) /\ \E k \in Nat : Numbers(c, Len(C.types), k)
  BY <1>2, FinalIs DEF Numbered
<1>4. PICK k \in Nat : Numbers(c, Len(C.types), k)
  BY <1>3
<1>5. IsContract(q) /\ Stands(C, q, c)
  BY <1>1, <1>3, <1>4, QuotientStands
<1>6. IsContract(ResultOf(q)) /\ Stands(q, ResultOf(q), PlaceOf(q))
  BY <1>5, ResultIs
<1>7. Stands(C, ResultOf(q), Then(c, PlaceOf(q)))
  BY <1>5, <1>6, StandsThrough
<1> QED
  BY <1>1, <1>5, <1>6, <1>7

\* However a contract is written, its canonical form is the same.
LEMMA AlikeSame ==
    ASSUME NEW C, NEW c, NEW R, Canonical(C, c, R),
           NEW D, NEW d, NEW T, Canonical(D, d, T),
           NEW B, Alike(C, D, B)
    PROVE  R = T
<1>1. SameButOrder(Quotient(C, c), Quotient(D, d))
  BY SameQuotients DEF Canonical
<1>2. IsContract(Quotient(C, c)) /\ IsContract(Quotient(D, d))
  BY CanonicalIs DEF Canonical
<1> QED
  BY <1>1, <1>2, SameReindexed DEF Canonical

-----------------------------------------------------------------------------
\* What the actor reaches.

LEMMA KidsOf ==
    ASSUME NEW n \in Nat, NEW node, IsNode(node, n), NEW x \in Range(SortedChildren(node))
    PROVE  \E k \in 1..Len(node.edges) : x = SortedChildren(node)[k]
BY ChildrenAre DEF Range

\* With the actor's segment of the order come the nodes it reaches.
ActorFirst(q, s) ==
    /\ IsContract(q) /\ q.actor # NoActor
    /\ s = Visit(<<q.actor>>, q.types)

LEMMA ActorsSegment ==
    ASSUME NEW q, NEW s, ActorFirst(q, s)
    PROVE  /\ q.actor \in 1..Len(q.types)
           /\ Segment(s, q.actor, q.types)
           /\ Extends(OrderOf(q), s)
<1>1. IsContract(q) /\ q.actor # NoActor /\ s = Visit(<<q.actor>>, q.types)
  BY DEF ActorFirst
<1>2. q.actor \in 1..Len(q.types) /\ IsArena(q.types)
  BY <1>1, ContractIs
<1>3. Segment(s, q.actor, q.types)
  BY <1>1, <1>2, VisitFromActor
<1>4. \A rest \in Seq(1..Len(q.types)) : Extends(Visit(<<q.actor>> \o rest, q.types), s)
  BY <1>1, <1>2, VisitFromActor
<1>5. LaterRoots(q) \in Seq(1..Len(q.types)) /\ Roots(q) = <<q.actor>> \o LaterRoots(q)
  BY <1>1, RootsList
<1>6. Extends(Visit(<<q.actor>> \o LaterRoots(q), q.types), s)
  BY <1>4, <1>5
<1> QED
  BY <1>2, <1>3, <1>5, <1>6 DEF OrderOf

LEMMA PlaceInSegment ==
    ASSUME NEW q, NEW s, ActorFirst(q, s)
    PROVE  /\ Len(s) \in Nat /\ Len(s) > 0 /\ Len(s) <= Len(OrderOf(q))
           /\ \A i \in 1..Len(s) : /\ s[i] \in 1..Len(q.types)
                                   /\ OrderOf(q)[i] = s[i] /\ PlaceOf(q)[s[i]] = i
           /\ PlaceOf(q)[q.actor] = 1
           /\ \A x \in Range(s) : \E i \in 1..Len(s) : s[i] = x
<1>1. Segment(s, q.actor, q.types) /\ Extends(OrderOf(q), s) /\ IsContract(q)
  BY ActorsSegment DEF ActorFirst
<1>2. PICK order, place, n : order = OrderOf(q) /\ place = PlaceOf(q) /\ n = Len(q.types)
  OBVIOUS
<1>3. /\ Len(order) \in Nat
      /\ \A i \in 1..Len(order) : order[i] \in 1..n /\ place[order[i]] = i
  BY <1>1, <1>2, OrderPlaces DEF PlacesMatch
<1>4. /\ Len(s) \in Nat /\ Len(s) <= Len(order) /\ \A i \in 1..Len(s) : order[i] = s[i]
  BY <1>1, <1>2 DEF Extends
<1>5. Len(s) > 0 /\ s[1] = q.actor /\ DOMAIN s = 1..Len(s)
  BY <1>1 DEF Segment
<1>6. ASSUME NEW i \in 1..Len(s) PROVE s[i] \in 1..n /\ order[i] = s[i] /\ place[s[i]] = i
  <2>1. i \in 1..Len(order)
    BY <1>3, <1>4
  <2> QED
    BY <1>3, <1>4, <2>1
<1>7. 1 \in 1..Len(s)
  BY <1>4, <1>5
<1>8. place[q.actor] = 1
  BY <1>5, <1>6, <1>7
<1> QED
  BY <1>2, <1>4, <1>5, <1>6, <1>8 DEF Range

\* The children of a node the actor reaches, re-indexed.
LEMMA ReachedKids ==
    ASSUME NEW q, NEW s, ActorFirst(q, s), NEW i \in 1..Len(s)
    PROVE  LET node == ResultOf(q).types[i]
               old == q.types[s[i]]
           IN  /\ node = Remap(old, PlaceOf(q))
               /\ DOMAIN node.edges = 1..Len(old.edges)
               /\ \A k \in 1..Len(old.edges) :
                     /\ SortedChildren(old)[k] \in Range(s)
                     /\ node.edges[k].ty = PlaceOf(q)[SortedChildren(old)[k]]
<1>1. /\ s[i] \in 1..Len(q.types) /\ OrderOf(q)[i] = s[i]
      /\ i \in 1..Len(OrderOf(q))
  BY OrderPlaces, PlaceInSegment DEF ActorFirst, PlacesMatch
<1>2. PICK x, m, n, place : /\ x = s[i] /\ m = Len(OrderOf(q)) /\ n = Len(q.types)
                            /\ place = PlaceOf(q)
  OBVIOUS
<1>3. PICK old : old = q.types[x]
  OBVIOUS
<1>4. IsContract(q)
  BY DEF ActorFirst
<1>5. ResultOf(q).types[i] = Remap(old, place)
  BY <1>1, <1>2, <1>3, <1>4, ResultIs
<1>6. n \in Nat /\ IsNode(old, n) /\ x \in 1..n
  BY <1>1, <1>2, <1>3, <1>4, ContractIs DEF IsArena
<1>7. m \in Nat /\ place \in [1..n -> 1..m]
  BY <1>2, <1>4, OrderPlaces DEF PlacesMatch
<1>8. Fits(n, old, place, m)
  BY <1>6, <1>7 DEF Fits
<1>9. \A j \in 1..n : place[j] \in 1..m
  BY <1>7
<1>10. PICK node : node = Remap(old, place)
  OBVIOUS
<1>11. /\ node.edges \in Seq(Edge(m)) /\ Len(node.edges) = Len(old.edges)
       /\ \A k \in 1..Len(old.edges) : node.edges[k].ty = place[SortedChildren(old)[k]]
  <2>1. /\ Remap(old, place).edges \in Seq(Edge(m))
        /\ Len(Remap(old, place).edges) = Len(old.edges)
        /\ \A k \in 1..Len(old.edges) :
              Remap(old, place).edges[k].ty = place[SortedChildren(old)[k]]
    BY SMTT(30), <1>6, <1>7, <1>9, RemapEdges
  <2> QED
    BY <1>10, <2>1
<1>12. DOMAIN node.edges = 1..Len(old.edges)
  BY <1>11, EdgesTyped
<1>13. ASSUME NEW k \in 1..Len(old.edges) PROVE SortedChildren(old)[k] \in Range(s)
  <2>1. KidsIn(n, Kids(q.types), Range(s), Range(s))
    BY <1>2, ActorsSegment DEF Segment
  <2>2. x \in Range(s)
    <3>1. DOMAIN s = 1..Len(s)
      BY ActorsSegment DEF Segment
    <3> QED
      BY <1>2, <3>1 DEF Range
  <2>3. Kids(q.types)[x] = SortedChildren(old)
    BY <1>2, <1>3, <1>6 DEF Kids
  <2>4. Range(SortedChildren(old)) \subseteq Range(s)
    BY <1>6, <2>1, <2>2, <2>3 DEF KidsIn
  <2>5. SortedChildren(old)[k] \in Range(SortedChildren(old))
    BY <1>6, ChildrenAre DEF Range
  <2> QED
    BY <2>4, <2>5
<1> QED
  BY <1>2, <1>3, <1>5, <1>10, <1>11, <1>12, <1>13

LEMMA PrefixReached ==
    ASSUME NEW R, NEW m \in Nat, Len(R.types) \in Nat, m <= Len(R.types),
           ReachableFrom(R.actor, R.types) = 1..m
    PROVE  ReachedPrefix(R) = SubSeq(R.types, 1, m)
<1> DEFINE n == Len(R.types)
           P(k) == 1..k \subseteq 1..m /\ (k = n \/ k + 1 \notin 1..m)
<1>1. m \in 0..n /\ P(m)
  OBVIOUS
<1>2. ASSUME NEW k \in 0..n, P(k) PROVE k = m
  <2>1. k <= m
    <3>1. CASE k = 0
      BY <3>1
    <3>2. CASE k # 0
      <4>1. k \in 1..k
        BY <3>2
      <4> QED
        BY <1>2, <4>1
    <3> QED
      BY <3>1, <3>2
  <2>2. ~(k < m)
    <3>1. ASSUME k < m PROVE FALSE
      <4>1. k + 1 \in 1..m /\ k # n
        BY <3>1
      <4> QED
        BY <1>2, <4>1
    <3> QED
      BY <3>1
  <2> QED
    BY <2>1, <2>2
<1>3. (CHOOSE k \in 0..n : P(k)) = m
  <2> HIDE DEF P, n
  <2> QED
    BY <1>1, <1>2
<1> QED
  BY <1>3 DEF ReachedPrefix

LEMMA ReachedIs ==
    ASSUME NEW q, NEW s, ActorFirst(q, s)
    PROVE  LET R == ResultOf(q)
           IN  /\ R.actor = 1 /\ Len(s) <= Len(R.types)
               /\ Closed(1..Len(s), R.types)
               /\ ReachableFrom(R.actor, R.types) = 1..Len(s)
               /\ ReachedPrefix(R) = SubSeq(R.types, 1, Len(s))
<1>1. PICK R, m, order, place, n :
         /\ R = ResultOf(q) /\ m = Len(s) /\ order = OrderOf(q) /\ place = PlaceOf(q)
         /\ n = Len(q.types)
  OBVIOUS
<1>2. IsContract(q) /\ q.actor # NoActor
  BY DEF ActorFirst
<1>3. /\ IsContract(R) /\ Len(R.types) = Len(order)
      /\ R.actor = place[q.actor]
  BY <1>1, <1>2, ResultIs DEF Stands
<1>4. /\ m \in Nat /\ m > 0 /\ m <= Len(order) /\ place[q.actor] = 1
      /\ \A i \in 1..m : s[i] \in 1..n /\ order[i] = s[i] /\ place[s[i]] = i
      /\ \A x \in Range(s) : \E i \in 1..m : s[i] = x
  BY <1>1, PlaceInSegment
<1>5. /\ Len(order) \in Nat /\ place \in [1..n -> 1..Len(order)]
      /\ \A c \in 1..n : order[place[c]] = c
      /\ \A i \in 1..Len(order) : order[i] \in 1..n /\ place[order[i]] = i
  BY <1>1, <1>2, OrderPlaces DEF PlacesMatch
<1>6. n \in Nat /\ \A x \in 1..n : IsNode(q.types[x], n)
  BY <1>1, <1>2, ContractIs DEF IsArena
<1>7. DOMAIN R.types = 1..Len(order)
  BY <1>3, ContractIs DEF IsArena
<1>8. ASSUME NEW i \in 1..m
      PROVE  /\ DOMAIN R.types[i].edges = 1..Len(q.types[s[i]].edges)
             /\ \A k \in 1..Len(q.types[s[i]].edges) :
                   /\ SortedChildren(q.types[s[i]])[k] \in Range(s)
                   /\ R.types[i].edges[k].ty = place[SortedChildren(q.types[s[i]])[k]]
  <2>1. LET node == ResultOf(q).types[i]
            old == q.types[s[i]]
        IN  /\ DOMAIN node.edges = 1..Len(old.edges)
            /\ \A k \in 1..Len(old.edges) :
                  /\ SortedChildren(old)[k] \in Range(s)
                  /\ node.edges[k].ty = PlaceOf(q)[SortedChildren(old)[k]]
    <3>1. i \in 1..Len(s)
      BY <1>1
    <3> QED
      BY <3>1, ReachedKids
  <2> QED
    BY <1>1, <2>1
<1>9. Closed(1..m, R.types)
  <2> SUFFICES ASSUME NEW i \in 1..m, NEW k \in DOMAIN R.types[i].edges
               PROVE  R.types[i].edges[k].ty \in 1..m
    BY DEF Closed
  <2>1. PICK x : x = SortedChildren(q.types[s[i]])[k]
    OBVIOUS
  <2>2. x \in Range(s) /\ R.types[i].edges[k].ty = place[x]
    BY <1>8, <2>1
  <2>3. PICK j \in 1..m : s[j] = x
    BY <1>4, <2>2
  <2> QED
    BY <1>4, <2>2, <2>3
<1>10. 1..m \subseteq DOMAIN R.types /\ 1 \in 1..m
  BY <1>4, <1>5, <1>7
<1>11. ASSUME NEW S \in SUBSET (DOMAIN R.types), 1 \in S, Closed(S, R.types)
       PROVE  1..m \subseteq S
  <2> DEFINE T == {x \in 1..n : x \in Range(s) => place[x] \in S}
  <2>1. T \in SUBSET (1..n)
    OBVIOUS
  <2>2. q.actor \in T
    <3>1. q.actor \in 1..n
      BY <1>1, ActorsSegment
    <3> QED
      BY <1>4, <1>11, <3>1
  <2>3. KidsIn(n, Kids(q.types), T \cap Range(s), T)
    <3> SUFFICES ASSUME NEW x \in 1..n, x \in T, x \in Range(s),
                        NEW y \in Range(Kids(q.types)[x])
                 PROVE  y \in T
      BY DEF KidsIn
    <3>1. PICK i \in 1..m : s[i] = x
      BY <1>4
    <3>2. place[x] = i /\ place[x] \in S
      BY <1>4, <3>1
    <3>3. Kids(q.types)[x] = SortedChildren(q.types[x])
      BY <1>1 DEF Kids
    <3>4. PICK k \in 1..Len(q.types[x].edges) : y = SortedChildren(q.types[x])[k]
      BY <1>6, <3>3, KidsOf
    <3>5. k \in DOMAIN R.types[i].edges /\ R.types[i].edges[k].ty = place[y]
      BY <1>8, <3>1, <3>4
    <3>6. place[y] \in S
      BY <1>11, <3>2, <3>5 DEF Closed
    <3>7. y \in 1..n
      BY <1>6, <3>4, ChildrenAre
    <3> QED
      BY <3>6, <3>7
  <2> DEFINE V == T \cap Range(s)
  <2>4. KidsIn(n, Kids(q.types), Range(s), Range(s))
    BY <1>1, ActorsSegment DEF Segment
  <2>5. V \in SUBSET (1..n) /\ KidsIn(n, Kids(q.types), V, V) /\ q.actor \in V
    <3>1. q.actor \in Range(s)
      <4>1. s[1] = q.actor /\ DOMAIN s = 1..m
        BY <1>1, ActorsSegment DEF Segment
      <4> QED
        BY <1>10, <4>1 DEF Range
    <3> HIDE DEF T
    <3>2. KidsIn(n, Kids(q.types), V, V)
      BY <2>3, <2>4 DEF KidsIn
    <3> QED
      BY <2>1, <2>2, <3>1, <3>2
  <2>6. Range(s) \subseteq V
    <3> HIDE DEF V
    <3> QED
      BY <1>1, <2>5, ActorsSegment DEF Segment
  <2>7. ASSUME NEW i \in 1..m PROVE i \in S
    <3>1. s[i] \in Range(s)
      <4>1. DOMAIN s = 1..m
        BY <1>1, ActorsSegment DEF Segment
      <4> QED
        BY <4>1 DEF Range
    <3>2. place[s[i]] \in S
      BY <2>6, <3>1
    <3> QED
      BY <1>4, <3>2
  <2> QED
    BY <2>7
<1>12. R.actor = 1
  BY <1>3, <1>4
<1>13. ReachableFrom(1, R.types) = 1..m
  <2>1. ASSUME NEW i \in 1..m PROVE i \in ReachableFrom(1, R.types)
    BY <1>10, <1>11 DEF ReachableFrom
  <2>2. ASSUME NEW i \in ReachableFrom(1, R.types) PROVE i \in 1..m
    <3>1. 1..m \in SUBSET (DOMAIN R.types)
      BY <1>10
    <3>2. \A S \in SUBSET (DOMAIN R.types) : 1 \in S /\ Closed(S, R.types) => i \in S
      BY DEF ReachableFrom
    <3> QED
      BY <1>9, <1>10, <3>1, <3>2
  <2> QED
    BY <2>1, <2>2
<1>14. Len(R.types) \in Nat /\ m <= Len(R.types)
  BY <1>3, <1>4, <1>5
<1>15. ReachedPrefix(R) = SubSeq(R.types, 1, m)
  BY <1>4, <1>12, <1>13, <1>14, PrefixReached
<1> QED
  BY <1>1, <1>9, <1>12, <1>13, <1>14, <1>15

-----------------------------------------------------------------------------
\* Contracts with one actor, whatever else they declare.

SharesActor(C, D, B) ==
    /\ Matches(C.types, D.types, B)
    /\ C.actor # NoActor /\ D.actor # NoActor /\ <<C.actor, D.actor>> \in B

\* What a relation between nodes relates on one side: those of the other side's
\* classes.
Folded(B, c) ==
    {<<r[1][2], r[2][2]>> : r \in {u \in B \X B : c[u[1][1]] = c[u[2][1]]}}

LEMMA FoldedMatches ==
    ASSUME NEW s, IsArena(s), NEW t, IsArena(t), NEW B, Matches(s, t, B),
           NEW c, Stable(s, c)
    PROVE  Matches(t, t, Folded(B, c))
<1>1. PICK M : M = Folded(B, c)
  OBVIOUS
<1>2. B \subseteq (1..Len(s)) \X (1..Len(t))
  BY DEF Matches
<1>3. ASSUME NEW p \in M
      PROVE  \E a \in 1..Len(s), b \in 1..Len(s), x \in 1..Len(t), y \in 1..Len(t) :
                p = <<x, y>> /\ <<a, x>> \in B /\ <<b, y>> \in B /\ c[a] = c[b]
  <2>1. PICK u \in B \X B : p = <<u[1][2], u[2][2]>> /\ c[u[1][1]] = c[u[2][1]]
    BY <1>1, <1>3 DEF Folded
  <2>2. PICK v \in B, w \in B : u = <<v, w>>
    BY <2>1
  <2>3. PICK a \in 1..Len(s), x \in 1..Len(t) : v = <<a, x>>
    BY <1>2, <2>2
  <2>4. PICK b \in 1..Len(s), y \in 1..Len(t) : w = <<b, y>>
    BY <1>2, <2>2
  <2> QED
    BY <2>1, <2>2, <2>3, <2>4
<1>4. ASSUME NEW a, NEW b, NEW x, NEW y, <<a, x>> \in B, <<b, y>> \in B, c[a] = c[b]
      PROVE  <<x, y>> \in M
  <2>1. PICK u : u = <<<<a, x>>, <<b, y>>>>
    OBVIOUS
  <2>2. u \in B \X B /\ u[1][1] = a /\ u[2][1] = b /\ u[1][2] = x /\ u[2][2] = y
    BY <1>4, <2>1
  <2> QED
    BY <1>1, <1>4, <2>2 DEF Folded
<1>5. M \subseteq (1..Len(t)) \X (1..Len(t))
  <2> SUFFICES ASSUME NEW p \in M PROVE p \in (1..Len(t)) \X (1..Len(t))
    OBVIOUS
  <2>1. PICK a \in 1..Len(s), b \in 1..Len(s), x \in 1..Len(t), y \in 1..Len(t) :
            p = <<x, y>> /\ <<a, x>> \in B /\ <<b, y>> \in B /\ c[a] = c[b]
    BY <1>3
  <2> QED
    BY <2>1
<1>6. ASSUME NEW x \in 1..Len(t), NEW y \in 1..Len(t), <<x, y>> \in M
      PROVE  /\ Local(t, x) = Local(t, y)
             /\ \A k \in 1..Degree(t, x) : <<Kid(t, x, k), Kid(t, y, k)>> \in M
  <2>1. PICK a \in 1..Len(s), b \in 1..Len(s) :
           <<a, x>> \in B /\ <<b, y>> \in B /\ c[a] = c[b]
    <3>1. PICK p \in M : p = <<x, y>>
      BY <1>6
    <3>2. PICK a \in 1..Len(s), b \in 1..Len(s), u \in 1..Len(t), v \in 1..Len(t) :
              p = <<u, v>> /\ <<a, u>> \in B /\ <<b, v>> \in B /\ c[a] = c[b]
      BY <1>3
    <3>3. u = x /\ v = y
      BY <3>1, <3>2
    <3> QED
      BY <3>2, <3>3
  <2>2. SameByKids(s, a, c, s, b, c)
    BY <2>1 DEF Stable
  <2>3. /\ Local(s, a) = Local(s, b)
        /\ \A k \in 1..Degree(s, a) : c[Kid(s, a, k)] = c[Kid(s, b, k)]
    BY <2>2 DEF SameByKids
  <2>4. /\ Local(s, a) = Local(t, x)
        /\ \A k \in 1..Degree(s, a) : <<Kid(s, a, k), Kid(t, x, k)>> \in B
        /\ Local(s, b) = Local(t, y)
        /\ \A k \in 1..Degree(s, b) : <<Kid(s, b, k), Kid(t, y, k)>> \in B
    BY <2>1 DEF Matches
  <2>5. Degree(s, a) = Degree(t, x) /\ Degree(s, a) = Degree(s, b)
    <3>1. Degree(s, a) = Degree(t, x)
      BY <2>4, LocalTellsDegree
    <3>2. Degree(s, a) = Degree(s, b)
      BY <2>3, LocalTellsDegree
    <3> QED
      BY <3>1, <3>2
  <2>6. ASSUME NEW k \in 1..Degree(t, x) PROVE <<Kid(t, x, k), Kid(t, y, k)>> \in M
    <3>1. <<Kid(s, a, k), Kid(t, x, k)>> \in B /\ <<Kid(s, b, k), Kid(t, y, k)>> \in B
      BY <2>4, <2>5
    <3>2. c[Kid(s, a, k)] = c[Kid(s, b, k)]
      BY <2>3, <2>5
    <3> QED
      BY <1>4, <3>1, <3>2
  <2> QED
    BY <2>3, <2>4, <2>6
<1>7. Matches(t, t, M)
  BY <1>5, <1>6 DEF Matches
<1> QED
  BY <1>1, <1>7

\* Related nodes are in one class on one side when they are on the other.
LEMMA ClassesFollow ==
    ASSUME NEW s, IsArena(s), NEW t, IsArena(t), NEW B, Matches(s, t, B),
           NEW c, Final(s, c), NEW d, Final(t, d),
           NEW a, NEW b, NEW x, NEW y, <<a, x>> \in B, <<b, y>> \in B, c[a] = c[b]
    PROVE  d[x] = d[y]
<1>1. Stable(s, c)
  BY FinalIs
<1>2. Matches(t, t, Folded(B, c))
  BY <1>1, FoldedMatches
<1>3. Agree(d, d, Folded(B, c))
  BY <1>2, FinalIs
<1>4. <<x, y>> \in Folded(B, c)
  <2>1. PICK u : u = <<<<a, x>>, <<b, y>>>>
    OBVIOUS
  <2>2. u \in B \X B /\ u[1][1] = a /\ u[2][1] = b /\ u[1][2] = x /\ u[2][2] = y
    BY <2>1
  <2> QED
    BY <2>2 DEF Folded
<1>5. PICK p \in Folded(B, c) : p = <<x, y>>
  BY <1>4
<1>6. d[p[1]] = d[p[2]]
  BY <1>3 DEF Agree
<1> QED
  BY <1>5, <1>6

\* The classes of related nodes.
ClassPairs(B, c, d) == {<<c[u[1]], d[u[2]]>> : u \in B}

LEMMA ClassesMirror ==
    ASSUME NEW C, NEW c, IsContract(C), Final(C.types, c),
           NEW D, NEW d, IsContract(D), Final(D.types, d),
           NEW B, Matches(C.types, D.types, B)
    PROVE  Mirrors(Quotient(C, c).types, Quotient(D, d).types, ClassPairs(B, c, d))
<1>1. PICK s, t, q, p, E : /\ s = C.types /\ t = D.types /\ q = Quotient(C, c).types
                           /\ p = Quotient(D, d).types /\ E = ClassPairs(B, c, d)
  OBVIOUS
<1>2. IsArena(s) /\ IsArena(t) /\ Final(s, c) /\ Final(t, d) /\ Matches(s, t, B)
  BY <1>1, ContractIs
<1>3. StandsFor(s, q, c)
  <2>1. Stable(s, c) /\ \E k \in Nat : Numbers(c, Len(s), k)
    BY <1>2, FinalIs DEF Numbered
  <2>2. PICK k \in Nat : Numbers(c, Len(s), k)
    BY <2>1
  <2>3. Stands(C, Quotient(C, c), c)
    BY <1>1, <2>1, <2>2, QuotientStands
  <2> QED
    BY <1>1, <2>3 DEF Stands
<1>4. StandsFor(t, p, d)
  <2>1. Stable(t, d) /\ \E k \in Nat : Numbers(d, Len(t), k)
    BY <1>2, FinalIs DEF Numbered
  <2>2. PICK k \in Nat : Numbers(d, Len(t), k)
    BY <2>1
  <2>3. Stands(D, Quotient(D, d), d)
    BY <1>1, <2>1, <2>2, QuotientStands
  <2> QED
    BY <1>1, <2>3 DEF Stands
<1>5. B \subseteq (1..Len(s)) \X (1..Len(t))
  BY <1>2 DEF Matches
<1>6. ASSUME NEW e \in E
      PROVE  \E a \in 1..Len(s), b \in 1..Len(t) : <<a, b>> \in B /\ e = <<c[a], d[b]>>
  <2>1. PICK u \in B : e = <<c[u[1]], d[u[2]]>>
    BY <1>1, <1>6 DEF ClassPairs
  <2>2. PICK a \in 1..Len(s), b \in 1..Len(t) : u = <<a, b>>
    BY <1>5
  <2> QED
    BY <2>1, <2>2
<1>7. ASSUME NEW a, NEW b, <<a, b>> \in B PROVE <<c[a], d[b]>> \in E
  <2>1. PICK u \in B : u = <<a, b>>
    BY <1>7
  <2> QED
    BY <1>1, <2>1 DEF ClassPairs
<1>8. E \subseteq (1..Len(q)) \X (1..Len(p))
  <2>1. c \in [1..Len(s) -> 1..Len(q)] /\ d \in [1..Len(t) -> 1..Len(p)]
    BY <1>3, <1>4 DEF StandsFor
  <2> SUFFICES ASSUME NEW e \in E PROVE e \in (1..Len(q)) \X (1..Len(p))
    OBVIOUS
  <2>2. PICK a \in 1..Len(s), b \in 1..Len(t) : <<a, b>> \in B /\ e = <<c[a], d[b]>>
    BY <1>6
  <2>3. c[a] \in 1..Len(q) /\ d[b] \in 1..Len(p)
    BY <2>1
  <2> QED
    BY <2>2, <2>3
<1>9. ASSUME NEW x \in 1..Len(q), NEW y \in 1..Len(p), <<x, y>> \in E
      PROVE  /\ Local(q, x) = Local(p, y)
             /\ \A k \in 1..Degree(q, x) : <<Kid(q, x, k), Kid(p, y, k)>> \in E
  <2>1. PICK a \in 1..Len(s), b \in 1..Len(t) : <<a, b>> \in B /\ c[a] = x /\ d[b] = y
    BY <1>6, <1>9
  <2>2. /\ Local(s, a) = Local(t, b)
        /\ \A k \in 1..Degree(s, a) : <<Kid(s, a, k), Kid(t, b, k)>> \in B
    BY <1>2, <2>1 DEF Matches
  <2>3. /\ Local(q, x) = Local(s, a)
        /\ \A k \in 1..Degree(s, a) : Kid(q, x, k) = c[Kid(s, a, k)]
    BY <1>3, <2>1 DEF StandsFor
  <2>4. /\ Local(p, y) = Local(t, b)
        /\ \A k \in 1..Degree(t, b) : Kid(p, y, k) = d[Kid(t, b, k)]
    BY <1>4, <2>1 DEF StandsFor
  <2>5. Degree(s, a) = Degree(t, b)
    BY <1>2, <2>2, LocalTellsDegree
  <2>6. Degree(q, x) = Degree(s, a)
    <3>1. IsArena(q)
      BY <1>1, <1>2, CanonicalIs, ContractIs
    <3> QED
      BY <1>2, <2>3, <3>1, LocalTellsDegree
  <2>7. ASSUME NEW k \in 1..Degree(q, x) PROVE <<Kid(q, x, k), Kid(p, y, k)>> \in E
    <3>1. <<Kid(s, a, k), Kid(t, b, k)>> \in B
      BY <2>2, <2>6
    <3>2. Kid(q, x, k) = c[Kid(s, a, k)] /\ Kid(p, y, k) = d[Kid(t, b, k)]
      BY <2>3, <2>4, <2>5, <2>6
    <3> QED
      BY <1>7, <3>1, <3>2
  <2> QED
    BY <2>2, <2>3, <2>4, <2>7
<1>10. Matches(q, p, E)
  BY <1>8, <1>9 DEF Matches
<1>11. OneToOne(E)
  <2> SUFFICES ASSUME NEW e \in E, NEW f \in E PROVE e[1] = f[1] <=> e[2] = f[2]
    BY DEF OneToOne
  <2>1. PICK a \in 1..Len(s), x \in 1..Len(t) : <<a, x>> \in B /\ e = <<c[a], d[x]>>
    BY <1>6
  <2>2. PICK b \in 1..Len(s), y \in 1..Len(t) : <<b, y>> \in B /\ f = <<c[b], d[y]>>
    BY <1>6
  <2>3. c[a] = c[b] => d[x] = d[y]
    BY <1>2, <2>1, <2>2, ClassesFollow
  <2>4. d[x] = d[y] => c[a] = c[b]
    <3>1. Matches(t, s, Converse(B))
      BY <1>2, MatchesBack
    <3>2. <<x, a>> \in Converse(B) /\ <<y, b>> \in Converse(B)
      <4>1. PICK u \in B, v \in B : u = <<a, x>> /\ v = <<b, y>>
        BY <2>1, <2>2
      <4>2. <<u[2], u[1]>> \in Converse(B) /\ <<v[2], v[1]>> \in Converse(B)
        BY DEF Converse
      <4> QED
        BY <4>1, <4>2
    <3> QED
      BY <1>2, <3>1, <3>2, ClassesFollow
  <2> QED
    BY <2>1, <2>2, <2>3, <2>4
<1> QED
  BY <1>1, <1>10, <1>11 DEF Mirrors

\* Corresponding nodes that the actors reach have the same place.
LEMMA SamePlaces ==
    ASSUME NEW q, NEW s, ActorFirst(q, s), NEW p, NEW u, ActorFirst(p, u),
           NEW E, OneToOne(E), Pairs(E, s, u),
           NEW x \in Range(s), NEW y, <<x, y>> \in E
    PROVE  PlaceOf(q)[x] = PlaceOf(p)[y]
<1>1. PICK i \in 1..Len(s) : s[i] = x
  BY PlaceInSegment
<1>2. <<s[i], u[i]>> \in E /\ i \in 1..Len(u)
  BY DEF Pairs
<1>3. u[i] = y
  <2>1. PICK e \in E, f \in E : e = <<s[i], u[i]>> /\ f = <<x, y>>
    BY <1>2
  <2>2. e[1] = f[1] <=> e[2] = f[2]
    BY DEF OneToOne
  <2> QED
    BY <1>1, <2>1, <2>2
<1>4. PlaceOf(q)[s[i]] = i
  BY PlaceInSegment
<1>5. PlaceOf(p)[u[i]] = i
  BY <1>2, PlaceInSegment
<1> QED
  BY <1>1, <1>3, <1>4, <1>5

LEMMA WiderFits ==
    ASSUME NEW q, IsContract(q), NEW x \in 1..Len(q.types),
           NEW k \in Nat, Len(OrderOf(q)) <= k
    PROVE  Fits(Len(q.types), q.types[x], PlaceOf(q), k)
<1>1. Len(q.types) \in Nat /\ IsNode(q.types[x], Len(q.types))
  BY ContractIs DEF IsArena
<1>2. PICK m \in Nat : m = Len(OrderOf(q)) /\ PlaceOf(q) \in [1..Len(q.types) -> 1..m]
  BY OrderPlaces DEF PlacesMatch
<1>3. \A i \in 1..Len(q.types) : PlaceOf(q)[i] \in 1..k
  <2> TAKE i \in 1..Len(q.types)
  <2>1. PlaceOf(q)[i] \in 1..m
    BY <1>2
  <2> QED
    BY <1>2, <2>1
<1> QED
  BY <1>1, <1>3 DEF Fits

LEMMA SameSegments ==
    ASSUME NEW q, NEW s, ActorFirst(q, s), NEW p, NEW u, ActorFirst(p, u),
           NEW E, Mirrors(q.types, p.types, E), Pairs(E, s, u),
           NEW i \in 1..Len(s)
    PROVE  ResultOf(q).types[i] = ResultOf(p).types[i]
<1>1. IsContract(q) /\ IsContract(p) /\ OneToOne(E) /\ Matches(q.types, p.types, E)
  BY DEF ActorFirst, Mirrors
<1>2. i \in 1..Len(u) /\ <<s[i], u[i]>> \in E
  BY DEF Pairs
<1>3. PICK x, y : x = s[i] /\ y = u[i]
  OBVIOUS
<1>4. x \in 1..Len(q.types) /\ y \in 1..Len(p.types)
  BY <1>2, <1>3, PlaceInSegment
<1>5. PICK a, b, f, g : /\ a = q.types[x] /\ b = p.types[y]
                        /\ f = PlaceOf(q) /\ g = PlaceOf(p)
  OBVIOUS
<1>6. ResultOf(q).types[i] = Remap(a, f)
  BY <1>3, <1>5, ReachedKids
<1>7. ResultOf(p).types[i] = Remap(b, g)
  <2>1. LET node == ResultOf(p).types[i]
            old == p.types[u[i]]
        IN  node = Remap(old, PlaceOf(p))
    BY <1>2, ReachedKids
  <2> QED
    BY <1>3, <1>5, <2>1
<1>8. PICK k \in Nat : Len(OrderOf(q)) <= k /\ Len(OrderOf(p)) <= k
  <2>1. Len(OrderOf(q)) \in Nat /\ Len(OrderOf(p)) \in Nat
    BY <1>1, OrderPlaces DEF PlacesMatch
  <2>2. PICK n \in Nat, m \in Nat : n = Len(OrderOf(q)) /\ m = Len(OrderOf(p))
    BY <2>1
  <2>3. n + m \in Nat /\ n <= n + m /\ m <= n + m
    OBVIOUS
  <2> QED
    BY <2>2, <2>3
<1>9. Fits(Len(q.types), a, f, k)
  BY <1>1, <1>4, <1>5, <1>8, WiderFits
<1>10. Fits(Len(p.types), b, g, k)
  BY <1>1, <1>4, <1>5, <1>8, WiderFits
<1>11. /\ Local(q.types, x) = Local(p.types, y)
       /\ \A j \in 1..Degree(q.types, x) : <<Kid(q.types, x, j), Kid(p.types, y, j)>> \in E
  BY <1>1, <1>2, <1>3, <1>4 DEF Matches
<1>12. LocalSignature(a) = LocalSignature(b)
  BY <1>5, <1>11 DEF Local
<1>13. ASSUME NEW j \in 1..Len(a.edges)
       PROVE  f[SortedChildren(a)[j]] = g[SortedChildren(b)[j]]
  <2>1. SortedChildren(a)[j] \in Range(s)
    <3>1. LET node == ResultOf(q).types[i]
              old == q.types[s[i]]
          IN  \A h \in 1..Len(old.edges) : SortedChildren(old)[h] \in Range(s)
      BY ReachedKids
    <3> QED
      BY <1>3, <1>5, <3>1
  <2>2. <<SortedChildren(a)[j], SortedChildren(b)[j]>> \in E
    BY <1>5, <1>11 DEF Degree, Kid
  <2>3. PICK v, w : v = SortedChildren(a)[j] /\ w = SortedChildren(b)[j]
    OBVIOUS
  <2>4. PlaceOf(q)[v] = PlaceOf(p)[w]
    BY <1>1, <2>1, <2>2, <2>3, SamePlaces
  <2> QED
    BY <1>5, <2>3, <2>4
<1>14. SameTargets(a, f, b, g)
  BY <1>13 DEF SameTargets
<1>15. Remap(a, f) = Remap(b, g)
  BY <1>9, <1>10, <1>12, <1>14, RemapSame
<1> QED
  BY <1>6, <1>7, <1>15

LEMMA SamePrefix ==
    ASSUME NEW S, NEW T, NEW s \in Seq(S), NEW t \in Seq(T),
           NEW m \in Nat, m <= Len(s), m <= Len(t), \A i \in 1..m : s[i] = t[i]
    PROVE  SubSeq(s, 1, m) = SubSeq(t, 1, m)
<1>1. SubSeq(s, 1, m) = [i \in 1..m |-> s[i]]
  OBVIOUS
<1>2. SubSeq(t, 1, m) = [i \in 1..m |-> t[i]]
  OBVIOUS
<1> QED
  BY <1>1, <1>2

\* A contract's interface depends on its actor alone.
LEMMA InterfaceSame ==
    ASSUME NEW C, NEW c, NEW R, Canonical(C, c, R),
           NEW D, NEW d, NEW T, Canonical(D, d, T),
           NEW B, SharesActor(C, D, B)
    PROVE  InterfacePayload(R) = InterfacePayload(T)
<1>1. PICK q, p, E : q = Quotient(C, c) /\ p = Quotient(D, d) /\ E = ClassPairs(B, c, d)
  OBVIOUS
<1>2. /\ IsContract(C) /\ Final(C.types, c) /\ R = ResultOf(q)
      /\ IsContract(D) /\ Final(D.types, d) /\ T = ResultOf(p)
  BY <1>1 DEF Canonical
<1>3. IsContract(q) /\ IsContract(p) /\ IsContract(R) /\ IsContract(T)
  BY <1>1, <1>2, CanonicalIs
<1>4. Matches(C.types, D.types, B) /\ <<C.actor, D.actor>> \in B
      /\ C.actor # NoActor /\ D.actor # NoActor
  BY DEF SharesActor
<1>5. Mirrors(q.types, p.types, E)
  BY <1>1, <1>2, <1>4, ClassesMirror
<1>6. q.actor = c[C.actor] /\ p.actor = d[D.actor]
  BY <1>1, <1>4 DEF Quotient, RemapRoots
<1>7. <<q.actor, p.actor>> \in E
  <2>1. PICK e \in B : e = <<C.actor, D.actor>>
    BY <1>4
  <2>2. <<c[e[1]], d[e[2]]>> \in E
    BY <1>1 DEF ClassPairs
  <2> QED
    BY <1>6, <2>1, <2>2
<1>8. q.actor \in 1..Len(q.types) /\ p.actor \in 1..Len(p.types)
  <2>1. E \subseteq (1..Len(q.types)) \X (1..Len(p.types))
    BY <1>5 DEF Mirrors, Matches
  <2> QED
    BY <1>7, <2>1
<1>9. PICK s, u : s = Visit(<<q.actor>>, q.types) /\ u = Visit(<<p.actor>>, p.types)
  OBVIOUS
<1>10. IsArena(q.types) /\ IsArena(p.types)
  BY <1>3, ContractIs
<1>11. Pairs(E, s, u)
  BY <1>5, <1>7, <1>8, <1>9, <1>10, SegmentsPair
<1>12. ActorFirst(q, s) /\ ActorFirst(p, u)
  BY <1>3, <1>8, <1>9 DEF ActorFirst, NoActor
<1>13. Len(u) = Len(s) /\ Len(s) \in Nat
  BY <1>11 DEF Pairs
<1>14. R.actor = 1 /\ Len(s) <= Len(R.types) /\ ReachedPrefix(R) = SubSeq(R.types, 1, Len(s))
  BY <1>2, <1>12, ReachedIs
<1>15. T.actor = 1 /\ Len(s) <= Len(T.types) /\ ReachedPrefix(T) = SubSeq(T.types, 1, Len(s))
  BY <1>2, <1>12, <1>13, ReachedIs
<1>16. \A i \in 1..Len(s) : R.types[i] = T.types[i]
  BY <1>2, <1>5, <1>11, <1>12, SameSegments
<1>17. R.types \in Seq(NodeShape(Len(R.types))) /\ T.types \in Seq(NodeShape(Len(T.types)))
  BY <1>3 DEF IsContract
<1>18. SubSeq(R.types, 1, Len(s)) = SubSeq(T.types, 1, Len(s))
  <2>0. PICK m \in Nat : m = Len(s)
    BY <1>13
  <2>1. PICK x, y : x = R.types /\ y = T.types
    OBVIOUS
  <2>2. PICK V, W : x \in Seq(V) /\ y \in Seq(W)
    BY <1>17, <2>1
  <2>3. m <= Len(x) /\ m <= Len(y) /\ \A i \in 1..m : x[i] = y[i]
    BY <1>14, <1>15, <1>16, <2>0, <2>1
  <2>4. SubSeq(x, 1, m) = SubSeq(y, 1, m)
    BY <2>2, <2>3, SamePrefix
  <2> QED
    BY <2>0, <2>1, <2>4
<1> QED
  BY <1>14, <1>15, <1>18 DEF InterfacePayload
=============================================================================
