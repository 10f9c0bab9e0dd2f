------------------------ MODULE Canonicalizer_proofs -------------------------
(***************************************************************************)
(* For every validated contract: canonicalization refines the abstract     *)
(* partition refinement, gives each type one node, and depends on nothing  *)
(* but what the contract means.  `CanonicalForm_proofs` has the lemmas about *)
(* what it computes.                                                       *)
(***************************************************************************)
EXTENDS CanonicalForm_proofs

-----------------------------------------------------------------------------
\* Other ways to write a contract.

\* A node is one of any arena that has the nodes it refers to.
LEMMA NodeWithin ==
    ASSUME NEW n \in Nat, NEW node, IsNode(node, n), NEW m \in Nat,
           \A i \in DOMAIN node.edges : node.edges[i].ty \in 1..m
    PROVE  IsNode(node, m)
<1>1. node.edges \in Seq(Edge(n)) /\ node = [kind |-> node.kind, detail |-> node.detail,
                                             edges |-> node.edges]
      /\ node.kind \in Range(Kinds) /\ node.detail \in Seq(Nat)
  BY NodeTyped
<1>2. \A i \in DOMAIN node.edges : node.edges[i] \in Edge(m)
  <2>1. \A i \in DOMAIN node.edges : node.edges[i] \in Edge(n)
    BY <1>1, EdgesTyped
  <2> QED
    BY <2>1 DEF Edge
<1>3. node.edges \in Seq(Edge(m))
  <2>1. PICK e : e = node.edges
    OBVIOUS
  <2>2. PICK V : V = Edge(m)
    OBVIOUS
  <2>3. PICK U : e \in Seq(U)
    BY <1>1, <2>1
  <2>4. e \in Seq(V)
    BY <1>2, <2>1, <2>2, <2>3
  <2> QED
    BY <2>1, <2>2, <2>4
<1>4. node \in NodeShape(m)
  BY <1>1, <1>3 DEF NodeShape
<1> QED
  BY <1>4 DEF IsNode

\* A node written with other references, in another order, which stand for the
\* ones it had.
Retargets(a, n, b, m, h) ==
    /\ n \in Nat /\ IsNode(a, n) /\ m \in Nat /\ IsNode(b, m)
    /\ a.kind = b.kind /\ a.detail = b.detail
    /\ \A i \in DOMAIN a.edges : \E j \in DOMAIN b.edges :
          b.edges[j].key = a.edges[i].key /\ b.edges[j].ty = h[a.edges[i].ty]
    /\ \A j \in DOMAIN b.edges : \E i \in DOMAIN a.edges :
          b.edges[j].key = a.edges[i].key /\ b.edges[j].ty = h[a.edges[i].ty]

LEMMA RetargetedIs ==
    ASSUME NEW a, NEW n, NEW b, NEW m, NEW h, Retargets(a, n, b, m, h)
    PROVE  /\ LocalSignature(a) = LocalSignature(b)
           /\ Len(a.edges) = Len(b.edges)
           /\ \A k \in 1..Len(a.edges) : SortedChildren(b)[k] = h[SortedChildren(a)[k]]
<1>1. n \in Nat /\ IsNode(a, n) /\ m \in Nat /\ IsNode(b, m)
      /\ a.kind = b.kind /\ a.detail = b.detail
  BY DEF Retargets
<1>2. PICK q : q = [x \in 1..m |-> x]
  OBVIOUS
<1>3. /\ a.edges \in Seq(Edge(n)) /\ Len(a.edges) \in Nat
      /\ b.edges \in Seq(Edge(m)) /\ Len(b.edges) \in Nat
  BY <1>1, NodeTyped
<1>4. \A e \in Range(b.edges) : q[e.ty] = e.ty
  <2>1. \A j \in DOMAIN b.edges : b.edges[j].ty \in 1..m
    BY <1>1, <1>3, EdgesTyped
  <2> QED
    BY <1>2, <2>1 DEF Range
<1>5. SameRefs(n, a, h, m, b, q)
  <2>1. ASSUME NEW e \in Range(a.edges)
        PROVE  \E f \in Range(b.edges) : e.key = f.key /\ h[e.ty] = q[f.ty]
    <3>1. PICK i \in DOMAIN a.edges : e = a.edges[i]
      BY DEF Range
    <3>2. PICK j \in DOMAIN b.edges :
             b.edges[j].key = e.key /\ b.edges[j].ty = h[e.ty]
      BY <3>1 DEF Retargets
    <3>3. b.edges[j] \in Range(b.edges)
      BY DEF Range
    <3> QED
      BY <1>4, <3>2, <3>3
  <2>2. ASSUME NEW f \in Range(b.edges)
        PROVE  \E e \in Range(a.edges) : e.key = f.key
    <3>1. PICK j \in DOMAIN b.edges : f = b.edges[j]
      BY DEF Range
    <3>2. PICK i \in DOMAIN a.edges : f.key = a.edges[i].key
      BY <3>1 DEF Retargets
    <3>3. a.edges[i] \in Range(a.edges)
      BY DEF Range
    <3> QED
      BY <3>2, <3>3
  <2> QED
    BY <1>1, <2>1, <2>2 DEF SameRefs
<1>6. /\ Len(SortedEdges(a)) = Len(SortedEdges(b))
      /\ \A i \in DOMAIN SortedEdges(a) :
            /\ SortedEdges(a)[i].key = SortedEdges(b)[i].key
            /\ h[SortedEdges(a)[i].ty] = q[SortedEdges(b)[i].ty]
  BY <1>5, SameEdgesSorted
<1>7. Len(SortedEdges(a)) = Len(a.edges) /\ Len(SortedEdges(b)) = Len(b.edges)
      /\ SortedEdges(a) \in Seq(Edge(n))
  BY <1>1, SortedEdgesAre
<1>8. DOMAIN SortedEdges(a) = 1..Len(a.edges)
  BY <1>7, EdgesTyped
<1>9. \A k \in 1..Len(a.edges) :
         SortedChildren(a)[k] = SortedEdges(a)[k].ty
  BY <1>1, ChildrenAre
<1>10. \A k \in 1..Len(b.edges) :
         SortedChildren(b)[k] = SortedEdges(b)[k].ty /\ SortedChildren(b)[k] \in 1..m
  BY <1>1, ChildrenAre
<1>11. SameShape(a, b)
  BY <1>1, <1>6, <1>7, <1>8 DEF SameShape
<1>12. LocalSignature(a) = LocalSignature(b)
  BY <1>1, <1>11, SameShapeSigns
<1> QED
  BY <1>2, <1>6, <1>7, <1>8, <1>9, <1>10, <1>12

\* Positions from 1 to n, rearranged.
Permutes(place, back, n) ==
    /\ place \in [1..n -> 1..n] /\ back \in [1..n -> 1..n]
    /\ \A i \in 1..n : back[place[i]] = i /\ place[back[i]] = i

LEMMA PlacesPermute ==
    ASSUME NEW n \in Nat, NEW place \in Places(n)
    PROVE  \E back : Permutes(place, back, n)
<1>1. CASE \E k \in 0..(n - 1) : place = Shift(n, k)
  <2>1. PICK k \in 0..(n - 1) : place = Shift(n, k)
    BY <1>1
  <2> DEFINE b == [i \in 1..n |-> IF i - k >= 1 THEN i - k ELSE i - k + n]
  <2>2. Permutes(place, b, n)
    BY <2>1 DEF Permutes, Shift
  <2> QED
    BY <2>2
<1>2. CASE place = Mirror(n)
  <2>1. Permutes(place, place, n)
    BY <1>2 DEF Permutes, Mirror
  <2> QED
    BY <2>1
<1> QED
  BY <1>1, <1>2 DEF Places

\* A node renumbered, its fields and methods written backwards.
Moved(node, place) ==
    [node EXCEPT !.edges =
        [i \in 1..Len(node.edges) |->
           [node.edges[IF node.kind \in KeyedKinds THEN Len(node.edges) + 1 - i ELSE i]
              EXCEPT !.ty = place[@]]]]

LEMMA MovedRetargets ==
    ASSUME NEW n \in Nat, NEW node, IsNode(node, n),
           NEW place, NEW back, Permutes(place, back, n)
    PROVE  IsNode(Moved(node, place), n) /\ Retargets(Moved(node, place), n, node, n, back)
<1> DEFINE new == Moved(node, place)
           from(i) == IF node.kind \in KeyedKinds THEN Len(node.edges) + 1 - i ELSE i
<1>1. /\ node.edges \in Seq(Edge(n)) /\ Len(node.edges) \in Nat
      /\ node = [kind |-> node.kind, detail |-> node.detail, edges |-> node.edges]
      /\ node.kind \in Range(Kinds) /\ node.detail \in Seq(Nat)
      /\ Len(node.detail) = DetailLength(node.kind)
  BY NodeTyped
<1>2. PICK l \in Nat : l = Len(node.edges)
  BY <1>1
<1>3. \A i \in 1..l : /\ node.edges[i] \in Edge(n) /\ node.edges[i].key \in Nat
                      /\ node.edges[i].ty \in 1..n
  BY <1>1, <1>2, EdgesTyped
<1>4. \A i \in 1..l : from(i) \in 1..l /\ from(from(i)) = i
  BY <1>2
<1>5. new = [kind |-> node.kind, detail |-> node.detail,
             edges |-> [i \in 1..l |-> [node.edges[from(i)] EXCEPT !.ty = place[@]]]]
  <2>1. \A w : [node EXCEPT !.edges = w]
                  = [kind |-> node.kind, detail |-> node.detail, edges |-> w]
    BY <1>1
  <2>2. PICK w : w = [i \in 1..l |-> [node.edges[from(i)] EXCEPT !.ty = place[@]]]
    OBVIOUS
  <2>3. new = [node EXCEPT !.edges = w]
    BY <1>2, <2>2 DEF Moved
  <2> HIDE DEF new
  <2> QED
    BY <2>1, <2>2, <2>3
<1> HIDE DEF from
<1>6. \A i \in 1..l : [node.edges[from(i)] EXCEPT !.ty = place[@]]
                        = [key |-> node.edges[from(i)].key,
                           ty |-> place[node.edges[from(i)].ty]]
  <2>1. \A e \in Edge(n) : [e EXCEPT !.ty = place[@]] = [key |-> e.key, ty |-> place[e.ty]]
    BY DEF Edge
  <2> QED
    BY <1>3, <1>4, <2>1
<1>7. \A i \in 1..l : new.edges[i] = [key |-> node.edges[from(i)].key,
                                      ty |-> place[node.edges[from(i)].ty]]
  BY <1>5, <1>6
<1>8. DOMAIN new.edges = 1..l /\ DOMAIN node.edges = 1..l
  BY <1>1, <1>2, <1>5, EdgesTyped
<1>9. \A i \in 1..l : new.edges[i].key = node.edges[from(i)].key
                      /\ new.edges[i].ty = place[node.edges[from(i)].ty]
                      /\ new.edges[i] \in Edge(n)
  <2>1. \A i \in 1..l : place[node.edges[from(i)].ty] \in 1..n
    BY <1>3, <1>4 DEF Permutes
  <2>2. \A i \in 1..l : node.edges[from(i)].key \in Nat
    BY <1>3, <1>4
  <2> HIDE DEF new
  <2>3. \A x \in Nat, y \in 1..n : [key |-> x, ty |-> y] \in Edge(n)
    BY DEF Edge
  <2>4. \A i \in 1..l : new.edges[i] \in Edge(n)
    BY <1>7, <2>1, <2>2, <2>3
  <2>5. ASSUME NEW i \in 1..l
        PROVE  new.edges[i].key = node.edges[from(i)].key
               /\ new.edges[i].ty = place[node.edges[from(i)].ty]
    <3>1. PICK x, y : x = node.edges[from(i)].key /\ y = place[node.edges[from(i)].ty]
      OBVIOUS
    <3>2. PICK e : e = new.edges[i]
      OBVIOUS
    <3>3. e = [key |-> x, ty |-> y]
      BY <1>7, <3>1, <3>2
    <3> QED
      BY <3>1, <3>2, <3>3
  <2> QED
    BY <2>4, <2>5
<1>10. new.edges \in Seq(Edge(n)) /\ Len(new.edges) = l
  <2>1. new.edges = [i \in 1..l |-> new.edges[i]]
    BY <1>5
  <2> HIDE DEF new
  <2> QED
    BY <1>9, <2>1
<1>11. new.kind = node.kind /\ new.detail = node.detail
  BY <1>5
<1>12. new \in NodeShape(n)
  <2>1. new = [kind |-> new.kind, detail |-> new.detail, edges |-> new.edges]
    BY <1>5
  <2> HIDE DEF new
  <2> QED
    BY <1>1, <1>10, <1>11, <2>1 DEF NodeShape
<1> HIDE DEF new
<1>13. IsNode(new, n)
  <2>1. CASE node.kind \in KeyedKinds
    <3>1. \A i, j \in 1..l : node.edges[i].key = node.edges[j].key => i = j
      BY <1>8, <2>1 DEF IsNode
    <3>2. \A i, j \in 1..l : from(i) = from(j) => i = j
      BY <1>4
    <3>3. ASSUME NEW i \in 1..l, NEW j \in 1..l, new.edges[i].key = new.edges[j].key
          PROVE  i = j
      <4>1. node.edges[from(i)].key = node.edges[from(j)].key
        BY <1>9, <3>3
      <4> QED
        BY <1>4, <3>1, <3>2, <4>1
    <3> QED
      BY <1>1, <1>8, <1>11, <1>12, <2>1, <3>3 DEF IsNode
  <2>2. CASE node.kind \notin KeyedKinds
    <3>1. \A i \in 1..l : node.edges[i].key = i
      BY <1>8, <2>2 DEF IsNode
    <3>2. \A i \in 1..l : from(i) = i
      BY <2>2 DEF from
    <3>3. \A i \in DOMAIN new.edges : new.edges[i].key = i
      BY <1>8, <1>9, <3>1, <3>2
    <3> QED
      BY <1>1, <1>11, <1>12, <2>2, <3>3 DEF IsNode
  <2> QED
    BY <2>1, <2>2
<1>14. \A i \in 1..l : /\ node.edges[from(i)].key = new.edges[i].key
                       /\ node.edges[from(i)].ty = back[new.edges[i].ty]
  BY <1>3, <1>4, <1>9 DEF Permutes
<1>15. \A i \in DOMAIN new.edges : \E j \in DOMAIN node.edges :
          node.edges[j].key = new.edges[i].key /\ node.edges[j].ty = back[new.edges[i].ty]
  BY <1>4, <1>8, <1>14
<1>16. \A j \in DOMAIN node.edges : \E i \in DOMAIN new.edges :
          node.edges[j].key = new.edges[i].key /\ node.edges[j].ty = back[new.edges[i].ty]
  BY SMTT(30), <1>4, <1>8, <1>14
<1> QED
  BY <1>11, <1>13, <1>15, <1>16 DEF Retargets, new

\* The nodes of a contract renumbered stand for those they were.
LEMMA RenumberedTypes ==
    ASSUME NEW R, IsContract(R), NEW place, NEW back, Permutes(place, back, Len(R.types))
    PROVE  LET D == Renumbered(R, place)
               n == Len(R.types)
           IN  /\ D.types = [i \in 1..n |-> D.types[i]]
               /\ \A i \in 1..n : /\ D.types[i] = Moved(R.types[back[i]], place)
                                  /\ IsNode(D.types[i], n)
               /\ D.declarations = Reverse(RemapRoots(R, place).declarations)
               /\ D.actor = RemapRoots(R, place).actor
<1>1. PICK n : n = Len(R.types)
  OBVIOUS
<1>2. n \in Nat /\ DOMAIN R.types = 1..n /\ \A i \in 1..n : IsNode(R.types[i], n)
  BY <1>1, ContractIs DEF IsArena
<1>3. Permutes(place, back, n)
  BY <1>1
<1>4. DOMAIN place = 1..n
  BY <1>3 DEF Permutes
<1>5. \A i \in 1..n : (CHOOSE x \in DOMAIN place : place[x] = i) = back[i]
  <2> TAKE i \in 1..n
  <2>1. back[i] \in 1..n /\ place[back[i]] = i
    BY <1>3 DEF Permutes
  <2>2. \A x \in DOMAIN place : place[x] = i => x = back[i]
    BY <1>3, <1>4 DEF Permutes
  <2> QED
    BY <1>4, <2>1, <2>2
<1>6. Renumbered(R, place).types = [i \in 1..n |-> Moved(R.types[back[i]], place)]
  <2> DEFINE from(i) == CHOOSE x \in DOMAIN place : place[x] = i
  <2>1. Renumbered(R, place).types = [i \in 1..n |-> Moved(R.types[from(i)], place)]
    BY <1>2 DEF Renumbered, Moved
  <2>2. \A i \in 1..n : from(i) = back[i]
    BY <1>5
  <2> HIDE DEF from
  <2> QED
    BY <2>1, <2>2
<1>7. \A i \in 1..n : back[i] \in 1..n
  BY <1>3 DEF Permutes
<1>8. \A i \in 1..n : IsNode(Moved(R.types[back[i]], place), n)
  BY <1>2, <1>3, <1>7, MovedRetargets
<1>9. /\ Renumbered(R, place).declarations = Reverse(RemapRoots(R, place).declarations)
      /\ Renumbered(R, place).actor = RemapRoots(R, place).actor
  BY DEF Renumbered
<1>10. PICK ty : ty = Renumbered(R, place).types
  OBVIOUS
<1>11. ty = [i \in 1..n |-> ty[i]]
       /\ \A i \in 1..n : ty[i] = Moved(R.types[back[i]], place) /\ IsNode(ty[i], n)
  BY <1>6, <1>8, <1>10
<1> QED
  BY <1>1, <1>9, <1>10, <1>11

LEMMA Reversed ==
    ASSUME NEW S, NEW s \in Seq(S)
    PROVE  /\ Reverse(s) \in Seq(S) /\ Len(Reverse(s)) = Len(s)
           /\ DOMAIN Reverse(s) = 1..Len(s) /\ DOMAIN s = 1..Len(s)
           /\ \A i \in 1..Len(s) : Len(s) + 1 - i \in 1..Len(s)
                                   /\ Reverse(s)[i] = s[Len(s) + 1 - i]
  BY DEF Reverse

\* What nodes, rewritten one by one, stand for.
Rewrites(D, C, h) ==
    /\ h \in [1..Len(D.types) -> 1..Len(C.types)]
    /\ \A b \in 1..Len(C.types) : \E a \in 1..Len(D.types) : h[a] = b
    /\ \A a \in 1..Len(D.types) :
          Retargets(D.types[a], Len(D.types), C.types[h[a]], Len(C.types), h)

LEMMA RewrittenStands ==
    ASSUME NEW D, NEW C, NEW h, IsContract(D), Rewrites(D, C, h),
           DeclaresFor(D.declarations, C.declarations, h),
           C.actor = IF D.actor = NoActor THEN NoActor ELSE h[D.actor]
    PROVE  Stands(D, C, h)
<1>1. ASSUME NEW a \in 1..Len(D.types)
      PROVE  /\ Local(C.types, h[a]) = Local(D.types, a)
             /\ \A k \in 1..Degree(D.types, a) : Kid(C.types, h[a], k) = h[Kid(D.types, a, k)]
  <2>1. Retargets(D.types[a], Len(D.types), C.types[h[a]], Len(C.types), h)
    BY DEF Rewrites
  <2> QED
    BY <2>1, RetargetedIs DEF Local, Kid, Degree
<1> QED
  BY <1>1 DEF Stands, StandsFor, Rewrites

LEMMA RenumberedStands ==
    ASSUME NEW R, IsContract(R), NEW place \in Places(Len(R.types))
    PROVE  /\ IsContract(Renumbered(R, place))
           /\ \E g : Stands(Renumbered(R, place), R, g)
<1>1. PICK n : n = Len(R.types)
  OBVIOUS
<1>2. PICK D : D = Renumbered(R, place)
  OBVIOUS
<1>3. n \in Nat /\ \A i \in 1..n : IsNode(R.types[i], n)
  BY <1>1, ContractIs DEF IsArena
<1>4. PICK back : Permutes(place, back, n)
  BY <1>1, <1>3, PlacesPermute
<1>5. /\ D.types = [i \in 1..n |-> D.types[i]]
      /\ \A i \in 1..n : D.types[i] = Moved(R.types[back[i]], place) /\ IsNode(D.types[i], n)
      /\ D.declarations = Reverse(RemapRoots(R, place).declarations)
      /\ D.actor = RemapRoots(R, place).actor
  <2>1. Permutes(place, back, Len(R.types))
    BY <1>1, <1>4
  <2>2. LET E == Renumbered(R, place)
            m == Len(R.types)
        IN  /\ E.types = [i \in 1..m |-> E.types[i]]
            /\ \A i \in 1..m : /\ E.types[i] = Moved(R.types[back[i]], place)
                               /\ IsNode(E.types[i], m)
            /\ E.declarations = Reverse(RemapRoots(R, place).declarations)
            /\ E.actor = RemapRoots(R, place).actor
    BY <2>1, RenumberedTypes
  <2> QED
    BY <1>1, <1>2, <2>2
<1>6. PICK types : types = D.types
  OBVIOUS
<1>7. types \in Seq(NodeShape(n)) /\ Len(types) = n
  BY <1>3, <1>5, <1>6, ArenaIf
<1>8. RootsFit(R, place, n)
  BY <1>1, <1>3, <1>4 DEF RootsFit, Permutes
<1>9. PICK roots : roots = RemapRoots(R, place)
  OBVIOUS
<1>10. RootsBecome(R, place, n, roots) /\ roots.actor \in {NoActor} \cup 1..n
  <2>1. RootsBecome(R, place, n, roots)
    BY <1>8, <1>9, RootsBecoming
  <2>2. RemapRoots(R, place).actor \in {NoActor} \cup 1..n
    BY <1>8, RootsAre
  <2> QED
    BY <1>9, <2>1, <2>2
<1>11. PICK s : s = roots.declarations
  OBVIOUS
<1>12. PICK r : r = R.declarations
  OBVIOUS
<1>13. /\ s \in Seq(Declaration(n)) /\ DOMAIN s = DOMAIN r
       /\ \A i \in DOMAIN r : s[i] = [name |-> r[i].name, ty |-> place[r[i].ty]]
       /\ \A i, j \in DOMAIN r : s[i].name = s[j].name => i = j
  BY <1>10, <1>11, <1>12 DEF RootsBecome
<1>14. PICK t : t = Reverse(s)
  OBVIOUS
<1>15. PICK l \in Nat : l = Len(s)
  BY <1>13, DeclarationsTyped
<1>16. /\ t \in Seq(Declaration(n)) /\ DOMAIN t = 1..l /\ DOMAIN s = 1..l
       /\ \A i \in 1..l : l + 1 - i \in 1..l /\ t[i] = s[l + 1 - i]
  BY <1>13, <1>14, <1>15, Reversed
<1>17. \A i, j \in DOMAIN t : t[i].name = t[j].name => i = j
  <2> SUFFICES ASSUME NEW i \in 1..l, NEW j \in 1..l, t[i].name = t[j].name PROVE i = j
    BY <1>16
  <2>1. PICK x \in 1..l, y \in 1..l : x = l + 1 - i /\ y = l + 1 - j
    BY <1>16
  <2>2. s[x].name = s[y].name
    BY <1>16, <2>1
  <2>3. x = y
    BY <1>13, <1>16, <2>2
  <2> QED
    BY <2>1, <2>3
<1>18. D = [types |-> types, declarations |-> t, actor |-> roots.actor]
  <2>1. D = [types |-> D.types, declarations |-> D.declarations, actor |-> D.actor]
    BY <1>2 DEF Renumbered
  <2> QED
    BY <1>5, <1>6, <1>9, <1>11, <1>14, <2>1
<1>19. IsContract(D)
  <2>1. \A i \in 1..n : IsNode(types[i], n)
    BY <1>5, <1>6
  <2>2. PICK a : a = roots.actor
    OBVIOUS
  <2>3. IsContract([types |-> types, declarations |-> t, actor |-> a])
    BY <1>3, <1>7, <1>10, <1>16, <1>17, <2>1, <2>2, ContractIf
  <2> QED
    BY <1>18, <2>2, <2>3
<1>20. D.types = types /\ D.declarations = t /\ D.actor = roots.actor
  BY <1>18
<1>21. Rewrites(D, R, back)
  <2>1. back \in [1..n -> 1..n] /\ \A b \in 1..n : \E a \in 1..n : back[a] = b
    <3>1. \A b \in 1..n : place[b] \in 1..n /\ back[place[b]] = b
      BY <1>4 DEF Permutes
    <3> QED
      BY <1>4, <3>1 DEF Permutes
  <2>2. ASSUME NEW a \in 1..n
        PROVE  Retargets(types[a], n, R.types[back[a]], n, back)
    <3>1. back[a] \in 1..n
      BY <2>1
    <3>2. PICK node : node = R.types[back[a]]
      OBVIOUS
    <3>3. IsNode(node, n)
      BY <1>3, <3>1, <3>2
    <3>4. Retargets(Moved(node, place), n, node, n, back)
      BY <1>3, <1>4, <3>3, MovedRetargets
    <3>5. types[a] = Moved(node, place)
      BY <1>5, <1>6, <3>2
    <3> QED
      BY <3>2, <3>4, <3>5
  <2> QED
    BY <1>1, <1>7, <1>20, <2>1, <2>2 DEF Rewrites
<1>22. \A i \in 1..l : /\ s[i].name = r[i].name /\ s[i].ty = place[r[i].ty]
                       /\ r[i].ty \in 1..n /\ r[i].ty = back[s[i].ty]
  <2> TAKE i \in 1..l
  <2>1. r \in Seq(Declaration(n)) /\ i \in DOMAIN r
    BY <1>1, <1>12, <1>13, <1>16, ContractIs
  <2>2. r[i].ty \in 1..n
    BY <2>1, DeclarationsTyped
  <2>3. s[i] = [name |-> r[i].name, ty |-> place[r[i].ty]]
    BY <1>13, <2>1
  <2>4. s[i].name = r[i].name /\ s[i].ty = place[r[i].ty]
    <3>1. PICK x, y : x = r[i].name /\ y = place[r[i].ty]
      OBVIOUS
    <3>2. PICK e : e = s[i]
      OBVIOUS
    <3>3. e = [name |-> x, ty |-> y]
      BY <2>3, <3>1, <3>2
    <3> QED
      BY <3>1, <3>2, <3>3
  <2> QED
    BY <1>4, <2>2, <2>4 DEF Permutes
<1>23. DeclaresFor(t, r, back)
  <2>1. DOMAIN t = 1..l /\ DOMAIN r = 1..l
    BY <1>13, <1>16
  <2>2. \A i \in 1..l : r[l + 1 - i].name = t[i].name /\ r[l + 1 - i].ty = back[t[i].ty]
    BY <1>16, <1>22
  <2>3. \A j \in 1..l : r[j].name = t[l + 1 - j].name /\ r[j].ty = back[t[l + 1 - j].ty]
    <3> TAKE j \in 1..l
    <3>1. PICK i \in 1..l : i = l + 1 - j
      BY <1>16
    <3>2. l + 1 - i = j
      BY <3>1
    <3> QED
      BY <2>2, <3>1, <3>2
  <2> QED
    BY ZenonT(60), <1>16, <2>1, <2>2, <2>3 DEF DeclaresFor
<1>24. R.actor = IF D.actor = NoActor THEN NoActor ELSE back[D.actor]
  <2>1. R.actor \in {NoActor} \cup 1..n
    BY <1>1, ContractIs
  <2>2. D.actor = IF R.actor = NoActor THEN NoActor ELSE place[R.actor]
    BY <1>10, <1>20 DEF RootsBecome
  <2>3. CASE R.actor = NoActor
    BY <2>2, <2>3
  <2>4. CASE R.actor # NoActor
    <3>1. place[R.actor] \in 1..n /\ back[place[R.actor]] = R.actor
      BY <1>4, <2>1, <2>4 DEF Permutes
    <3> QED
      BY <2>2, <2>4, <3>1 DEF NoActor
  <2> QED
    BY <2>3, <2>4
<1>25. Stands(D, R, back)
  BY <1>12, <1>19, <1>20, <1>21, <1>23, <1>24, RewrittenStands
<1> QED
  BY <1>2, <1>19, <1>25

\* A node's references to one node sent to another.
Redirected(node, d, copy) ==
    [node EXCEPT !.edges = [i \in DOMAIN @ |->
        IF @[i].ty = d THEN [@[i] EXCEPT !.ty = copy] ELSE @[i]]]

\* The copy stands for what it is a copy of, and every other node for itself.
Undo(n, d) == [i \in 1..(n + 1) |-> IF i = n + 1 THEN d ELSE i]

LEMMA KeptRetargets ==
    ASSUME NEW n \in Nat, NEW node, IsNode(node, n), NEW d \in 1..n
    PROVE  IsNode(node, n + 1) /\ Retargets(node, n + 1, node, n, Undo(n, d))
<1>1. \A i \in DOMAIN node.edges : node.edges[i].ty \in 1..n
  BY NodeTyped, EdgesTyped
<1>2. IsNode(node, n + 1)
  <2>1. \A i \in DOMAIN node.edges : node.edges[i].ty \in 1..(n + 1)
    BY <1>1
  <2> QED
    BY <2>1, NodeWithin
<1>3. \A x \in 1..n : Undo(n, d)[x] = x
  BY DEF Undo
<1>4. \A i \in DOMAIN node.edges : Undo(n, d)[node.edges[i].ty] = node.edges[i].ty
  BY <1>1, <1>3
<1> QED
  BY <1>2, <1>4 DEF Retargets

LEMMA RedirectedRetargets ==
    ASSUME NEW n \in Nat, NEW node, IsNode(node, n), NEW d \in 1..n
    PROVE  /\ IsNode(Redirected(node, d, n + 1), n + 1)
           /\ Retargets(Redirected(node, d, n + 1), n + 1, node, n, Undo(n, d))
<1> DEFINE new == Redirected(node, d, n + 1)
<1>1. /\ node.edges \in Seq(Edge(n)) /\ Len(node.edges) \in Nat
      /\ node = [kind |-> node.kind, detail |-> node.detail, edges |-> node.edges]
      /\ node.kind \in Range(Kinds) /\ node.detail \in Seq(Nat)
      /\ Len(node.detail) = DetailLength(node.kind)
  BY NodeTyped
<1>2. PICK l \in Nat : l = Len(node.edges)
  BY <1>1
<1>3. /\ DOMAIN node.edges = 1..l
      /\ \A i \in 1..l : /\ node.edges[i] \in Edge(n) /\ node.edges[i].key \in Nat
                         /\ node.edges[i].ty \in 1..n
  BY <1>1, <1>2, EdgesTyped
<1>4. PICK w : w = [i \in 1..l |-> IF node.edges[i].ty = d
                                   THEN [node.edges[i] EXCEPT !.ty = n + 1]
                                   ELSE node.edges[i]]
  OBVIOUS
<1>5. new = [kind |-> node.kind, detail |-> node.detail, edges |-> w]
  <2>1. \A v : [node EXCEPT !.edges = v]
                  = [kind |-> node.kind, detail |-> node.detail, edges |-> v]
    BY <1>1
  <2>2. new = [node EXCEPT !.edges = w]
    BY <1>3, <1>4 DEF Redirected
  <2> HIDE DEF new
  <2> QED
    BY <2>1, <2>2
<1>6. \A i \in 1..l : /\ w[i] \in Edge(n + 1)
                      /\ w[i].key = node.edges[i].key
                      /\ w[i].ty = IF node.edges[i].ty = d THEN n + 1 ELSE node.edges[i].ty
  <2> TAKE i \in 1..l
  <2>1. PICK e : e = node.edges[i]
    OBVIOUS
  <2>2. e \in Edge(n) /\ e.key \in Nat /\ e.ty \in 1..n
    BY <1>3, <2>1
  <2>3. w[i] = IF e.ty = d THEN [e EXCEPT !.ty = n + 1] ELSE e
    BY <1>4, <2>1
  <2> QED
    BY <2>1, <2>2, <2>3 DEF Edge
<1>7. w \in Seq(Edge(n + 1)) /\ Len(w) = l /\ DOMAIN w = 1..l
  <2>1. w = [i \in 1..l |-> w[i]]
    BY <1>4
  <2> QED
    BY <1>6, <2>1
<1>8. new.kind = node.kind /\ new.detail = node.detail /\ new.edges = w
  BY <1>5
<1>9. new \in NodeShape(n + 1)
  <2> HIDE DEF new
  <2> QED
    BY <1>1, <1>5, <1>7 DEF NodeShape
<1> HIDE DEF new
<1>10. IsNode(new, n + 1)
  <2>1. CASE node.kind \in KeyedKinds
    <3>1. \A i, j \in 1..l : node.edges[i].key = node.edges[j].key => i = j
      BY <1>3, <2>1 DEF IsNode
    <3>2. \A i, j \in DOMAIN new.edges : new.edges[i].key = new.edges[j].key => i = j
      BY <1>6, <1>7, <1>8, <3>1
    <3> QED
      BY <1>1, <1>8, <1>9, <2>1, <3>2 DEF IsNode
  <2>2. CASE node.kind \notin KeyedKinds
    <3>1. \A i \in 1..l : node.edges[i].key = i
      BY <1>3, <2>2 DEF IsNode
    <3>2. \A i \in DOMAIN new.edges : new.edges[i].key = i
      BY <1>6, <1>7, <1>8, <3>1
    <3> QED
      BY <1>1, <1>8, <1>9, <2>2, <3>2 DEF IsNode
  <2> QED
    BY <2>1, <2>2
<1>11. \A i \in 1..l : /\ node.edges[i].key = w[i].key
                       /\ node.edges[i].ty = Undo(n, d)[w[i].ty]
  <2> TAKE i \in 1..l
  <2>1. Undo(n, d)[n + 1] = d /\ \A x \in 1..n : Undo(n, d)[x] = x
    BY DEF Undo
  <2> QED
    BY <1>3, <1>6, <2>1
<1>12. \A i \in DOMAIN new.edges : \E j \in DOMAIN node.edges :
          node.edges[j].key = new.edges[i].key
          /\ node.edges[j].ty = Undo(n, d)[new.edges[i].ty]
  BY <1>3, <1>7, <1>8, <1>11
<1>13. \A j \in DOMAIN node.edges : \E i \in DOMAIN new.edges :
          node.edges[j].key = new.edges[i].key
          /\ node.edges[j].ty = Undo(n, d)[new.edges[i].ty]
  BY <1>3, <1>7, <1>8, <1>11
<1> QED
  BY <1>8, <1>10, <1>12, <1>13 DEF Retargets, new

LEMMA DeclarationsKept ==
    ASSUME NEW n \in Nat, NEW s \in Seq(Declaration(n)), NEW m \in Nat, n <= m
    PROVE  s \in Seq(Declaration(m))
<1>1. /\ Len(s) \in Nat /\ DOMAIN s = 1..Len(s)
      /\ \A i \in DOMAIN s : s[i] \in Declaration(n)
  BY DeclarationsTyped
<1>2. \A x \in Declaration(n) : x \in Declaration(m)
  BY DEF Declaration
<1>3. PICK U, V : U = Declaration(n) /\ V = Declaration(m)
  OBVIOUS
<1>4. s \in Seq(U) /\ \A x \in U : x \in V
  BY <1>2, <1>3
<1>5. s \in Seq(V)
  BY <1>4
<1> QED
  BY <1>3, <1>5

LEMMA DuplicatedStands ==
    ASSUME NEW R, IsContract(R), NEW m \in 1..Len(R.types), NEW d \in 1..Len(R.types)
    PROVE  /\ IsContract(Duplicated(R, m, d))
           /\ \E g : Stands(Duplicated(R, m, d), R, g)
<1>1. PICK n : n = Len(R.types)
  OBVIOUS
<1>2. PICK D : D = Duplicated(R, m, d)
  OBVIOUS
<1>3. /\ n \in Nat /\ DOMAIN R.types = 1..n /\ \A i \in 1..n : IsNode(R.types[i], n)
      /\ R.types \in Seq(NodeShape(n))
  BY <1>1, ContractIs DEF IsArena, IsContract
<1>4. PICK h : h = Undo(n, d)
  OBVIOUS
<1>5. PICK types : types = Append([R.types EXCEPT ![m] = Redirected(R.types[m], d, n + 1)],
                                  R.types[d])
  OBVIOUS
<1>6. D = [types |-> types, declarations |-> R.declarations, actor |-> R.actor]
  <2>1. R = [types |-> R.types, declarations |-> R.declarations, actor |-> R.actor]
    BY ContractIs
  <2>2. \A v : [R EXCEPT !.types = v]
                  = [types |-> v, declarations |-> R.declarations, actor |-> R.actor]
    BY <2>1
  <2>3. D = [R EXCEPT !.types = types]
    BY <1>1, <1>2, <1>5 DEF Duplicated, Redirected
  <2> QED
    BY <2>2, <2>3
<1>7. /\ types = [i \in 1..(n + 1) |-> types[i]]
      /\ \A i \in 1..n : types[i] = IF i = m THEN Redirected(R.types[m], d, n + 1)
                                    ELSE R.types[i]
      /\ types[n + 1] = R.types[d]
  <2>1. PICK s, x, y : s = R.types /\ x = Redirected(R.types[m], d, n + 1) /\ y = R.types[d]
    OBVIOUS
  <2>2. PICK N : s \in Seq(N)
    BY <1>3, <2>1
  <2>3. types = Append([s EXCEPT ![m] = x], y) /\ Len(s) = n /\ DOMAIN s = 1..n /\ m \in 1..n
    BY <1>1, <1>3, <1>5, <2>1
  <2>4. PICK u : u = [s EXCEPT ![m] = x]
    OBVIOUS
  <2>5. u = [i \in 1..n |-> IF i = m THEN x ELSE s[i]]
    BY <2>3, <2>4
  <2>6. u \in Seq(N \cup {x}) /\ Len(u) = n
    BY <1>3, <2>2, <2>3, <2>5
  <2>7. types = Append(u, y)
    BY <2>3, <2>4
  <2>8. /\ types = [i \in 1..(n + 1) |-> types[i]]
        /\ \A i \in 1..n : types[i] = u[i]
        /\ types[n + 1] = y
    <3>1. PICK M : M = N \cup {x, y}
      OBVIOUS
    <3>2. u \in Seq(M) /\ y \in M /\ Len(u) = n /\ n \in Nat
      BY <1>3, <2>6, <3>1
    <3>3. /\ types \in Seq(M) /\ Len(types) = n + 1
          /\ \A i \in 1..n : types[i] = u[i]
          /\ types[n + 1] = y
      BY <2>7, <3>2, AppendProperties
    <3>4. types = [i \in 1..(n + 1) |-> types[i]]
      BY <3>2, <3>3
    <3> QED
      BY <3>3, <3>4
  <2> QED
    BY <2>1, <2>5, <2>8
<1>8. PICK back : back = [i \in 1..(n + 1) |-> IF i = n + 1 THEN d ELSE i]
  OBVIOUS
<1>9. h = back /\ m \in 1..n /\ d \in 1..n
  BY <1>1, <1>4, <1>8 DEF Undo
<1>10. ASSUME NEW a \in 1..(n + 1)
       PROVE  IsNode(types[a], n + 1) /\ Retargets(types[a], n + 1, R.types[h[a]], n, h)
  <2>1. CASE a = n + 1
    <3>1. types[a] = R.types[d] /\ h[a] = d
      BY <1>7, <1>8, <1>9, <2>1
    <3>2. PICK node : node = R.types[d]
      OBVIOUS
    <3>3. IsNode(node, n + 1) /\ Retargets(node, n + 1, node, n, h)
      BY <1>3, <1>4, <1>9, <3>2, KeptRetargets
    <3> QED
      BY <3>1, <3>2, <3>3
  <2>2. CASE a \in 1..n /\ a # m
    <3>1. types[a] = R.types[a] /\ h[a] = a
      <4>1. a \in 1..n /\ a # m /\ a # n + 1
        BY <1>3, <2>2
      <4>2. h[a] = a
        BY <1>8, <1>9, <4>1
      <4> QED
        BY <1>7, <4>1, <4>2
    <3>2. PICK node : node = R.types[a]
      OBVIOUS
    <3>3. IsNode(node, n + 1) /\ Retargets(node, n + 1, node, n, h)
      BY <1>3, <1>4, <1>9, <2>2, <3>2, KeptRetargets
    <3> QED
      BY <3>1, <3>2, <3>3
  <2>3. CASE a = m
    <3>1. PICK node : node = R.types[m]
      OBVIOUS
    <3>2. types[a] = Redirected(node, d, n + 1) /\ h[a] = a
      <4>1. a \in 1..n /\ a # n + 1
        BY <1>3, <1>9, <2>3
      <4>2. h[a] = a
        BY <1>8, <1>9, <4>1
      <4> QED
        BY <1>7, <2>3, <3>1, <4>1, <4>2
    <3>3. /\ IsNode(Redirected(node, d, n + 1), n + 1)
          /\ Retargets(Redirected(node, d, n + 1), n + 1, node, n, h)
      BY <1>3, <1>4, <1>9, <3>1, RedirectedRetargets
    <3> QED
      BY <2>3, <3>1, <3>2, <3>3
  <2> QED
    BY <1>3, <2>1, <2>2, <2>3
<1>11. types \in Seq(NodeShape(n + 1)) /\ Len(types) = n + 1
  <2>1. n + 1 \in Nat /\ \A i \in 1..(n + 1) : IsNode(types[i], n + 1)
    BY <1>3, <1>10
  <2> QED
    BY <1>7, <2>1, ArenaIf
<1>12. /\ R.declarations \in Seq(Declaration(n))
       /\ \A i, j \in DOMAIN R.declarations :
             R.declarations[i].name = R.declarations[j].name => i = j
       /\ R.actor \in {NoActor} \cup 1..n
  BY <1>1, ContractIs
<1>13. IsContract(D)
  <2>1. PICK k \in Nat : k = n + 1
    BY <1>3
  <2>2. PICK s, a : s = R.declarations /\ a = R.actor
    OBVIOUS
  <2>3. s \in Seq(Declaration(k)) /\ a \in {NoActor} \cup 1..k
    <3>1. s \in Seq(Declaration(n)) /\ n <= k
      BY <1>3, <1>12, <2>1, <2>2
    <3>2. s \in Seq(Declaration(k))
      BY <1>3, <3>1, DeclarationsKept
    <3> QED
      BY <1>3, <1>12, <2>1, <2>2, <3>2
  <2>4. \A i \in 1..k : IsNode(types[i], k)
    BY <1>10, <2>1
  <2>5. IsContract([types |-> types, declarations |-> s, actor |-> a])
    BY <1>11, <1>12, <2>1, <2>2, <2>3, <2>4, ContractIf
  <2> QED
    BY <1>6, <2>2, <2>5
<1>14. D.types = types /\ D.declarations = R.declarations /\ D.actor = R.actor
  BY <1>6
<1>15. \A x \in 1..n : h[x] = x
  BY <1>3, <1>8, <1>9
<1>16. Rewrites(D, R, h)
  <2>1. h \in [1..(n + 1) -> 1..n]
    BY <1>3, <1>8, <1>9
  <2>2. \A b \in 1..n : \E a \in 1..(n + 1) : h[a] = b
    BY <1>3, <1>15
  <2> QED
    BY <1>1, <1>10, <1>11, <1>14, <2>1, <2>2 DEF Rewrites
<1>17. DeclaresFor(D.declarations, R.declarations, h)
  <2>1. \A i \in DOMAIN R.declarations : R.declarations[i].ty = h[R.declarations[i].ty]
    BY <1>12, <1>15, DeclarationsTyped
  <2> QED
    BY <1>14, <2>1 DEF DeclaresFor
<1>18. R.actor = IF D.actor = NoActor THEN NoActor ELSE h[D.actor]
  BY <1>12, <1>14, <1>15
<1>19. Stands(D, R, h)
  BY <1>13, <1>16, <1>17, <1>18, RewrittenStands
<1> QED
  BY <1>2, <1>13, <1>19

\* Every other way to write a contract that the model tries.
LEMMA SameContractStands ==
    ASSUME NEW R, IsContract(R), NEW D \in SameContract(R)
    PROVE  IsContract(D) /\ \E g : Stands(D, R, g)
<1>1. PICK n : n = Len(R.types)
  OBVIOUS
<1>2. CASE \E place \in Places(n) : D = Renumbered(R, place)
  BY <1>1, <1>2, RenumberedStands
<1>3. CASE \E m \in 1..n : \E d \in {m} \cup Range(SortedChildren(R.types[m])) :
              D = Duplicated(R, m, d)
  <2>1. PICK m \in 1..n : \E d \in {m} \cup Range(SortedChildren(R.types[m])) :
              D = Duplicated(R, m, d)
    BY <1>3
  <2>2. PICK d \in {m} \cup Range(SortedChildren(R.types[m])) : D = Duplicated(R, m, d)
    BY <2>1
  <2>3. d \in 1..n
    <3>1. n \in Nat /\ IsNode(R.types[m], n)
      BY <1>1, ContractIs DEF IsArena
    <3>2. PICK node : node = R.types[m]
      OBVIOUS
    <3>3. Range(SortedChildren(node)) \subseteq 1..n
      BY <3>1, <3>2, ChildrenAre DEF Range
    <3> QED
      BY <2>2, <3>2, <3>3
  <2> QED
    BY <1>1, <2>2, <2>3, DuplicatedStands
<1>4. \/ \E place \in Places(n) : D = Renumbered(R, place)
      \/ \E m \in 1..n : \E d \in {m} \cup Range(SortedChildren(R.types[m])) :
              D = Duplicated(R, m, d)
  BY <1>1 DEF SameContract
<1> QED
  BY <1>2, <1>3, <1>4

\* A name that none of the declarations has.
LEMMA NewNameIsNew ==
    ASSUME NEW R, IsContract(R)
    PROVE  /\ NewName(R) \in Nat
           /\ \A i \in DOMAIN R.declarations : R.declarations[i].name # NewName(R)
<1>1. PICK s : s = R.declarations
  OBVIOUS
<1>2. PICK l \in Nat : l = Len(s) /\ DOMAIN s = 1..l
  BY <1>1, ContractIs, DeclarationsTyped
<1>3. \E k \in 0..l : \A i \in 1..l : s[i].name # k
  <2>1. SUFFICES ASSUME \A k \in 0..l : \E i \in 1..l : s[i].name = k
                 PROVE  FALSE
    OBVIOUS
  <2>2. PICK f : f = [k \in 0..l |-> CHOOSE i \in 1..l : s[i].name = k]
    OBVIOUS
  <2>3. \A k \in 0..l : f[k] \in 1..l /\ s[f[k]].name = k
    BY <2>1, <2>2
  <2>4. f \in [0..l -> 1..l]
    BY <2>2, <2>3
  <2>5. /\ IsFiniteSet(0..l) /\ Cardinality(0..l) = l + 1
        /\ IsFiniteSet(1..l) /\ Cardinality(1..l) = l
    <3>1. IsFiniteSet(0..l) /\ Cardinality(0..l) = IF 0 > l THEN 0 ELSE l - 0 + 1
      <4>1. 0 \in Int /\ l \in Int
        BY <1>2
      <4> QED
        BY <4>1, FS_Interval
    <3>2. IsFiniteSet(1..l) /\ Cardinality(1..l) = IF 1 > l THEN 0 ELSE l - 1 + 1
      <4>1. 1 \in Int /\ l \in Int
        BY <1>2
      <4> QED
        BY <4>1, FS_Interval
    <3> QED
      BY <3>1, <3>2
  <2>6. PICK x \in 0..l, y \in 0..l : x # y /\ f[x] = f[y]
    <3>1. PICK S, T : S = 0..l /\ T = 1..l
      OBVIOUS
    <3>2. IsFiniteSet(S) /\ IsFiniteSet(T) /\ Cardinality(T) < Cardinality(S) /\ f \in [S -> T]
      BY <2>4, <2>5, <3>1
    <3>3. \E x, y \in S : x # y /\ f[x] = f[y]
      BY <3>2, FS_PigeonHole
    <3> QED
      BY <3>1, <3>3
  <2> QED
    BY <2>3, <2>6
<1>4. NewName(R) = CHOOSE k \in 0..l : \A i \in 1..l : s[i].name # k
  BY <1>1, <1>2 DEF NewName
<1>5. NewName(R) \in 0..l /\ \A i \in 1..l : s[i].name # NewName(R)
  BY <1>3, <1>4
<1> QED
  BY <1>1, <1>2, <1>5

\* A contract that begins with the nodes another's actor reaches.
SharesPrefix(R, D, m) ==
    /\ IsContract(R) /\ IsContract(D)
    /\ m \in Nat /\ m <= Len(R.types) /\ m <= Len(D.types)
    /\ \A b \in 1..m : D.types[b] = R.types[b]
    /\ Closed(1..m, R.types)
    /\ R.actor \in 1..m /\ D.actor = R.actor

LEMMA PrefixShared ==
    ASSUME NEW C, NEW R, NEW D, NEW h, NEW m, IsContract(C), C.actor # NoActor,
           Stands(C, R, h), SharesPrefix(R, D, m)
    PROVE  \E B : SharesActor(C, D, B)
<1> DEFINE B == {p \in (1..Len(C.types)) \X (1..m) : h[p[1]] = p[2]}
<1>1. /\ Len(R.types) \in Nat /\ \A b \in 1..Len(R.types) : IsNode(R.types[b], Len(R.types))
      /\ Len(D.types) \in Nat /\ IsArena(C.types)
  BY ContractIs DEF IsArena, SharesPrefix
<1>2. /\ h \in [1..Len(C.types) -> 1..Len(R.types)]
      /\ \A a \in 1..Len(C.types) :
            /\ Local(R.types, h[a]) = Local(C.types, a)
            /\ \A k \in 1..Degree(C.types, a) : Kid(R.types, h[a], k) = h[Kid(C.types, a, k)]
  BY DEF Stands, StandsFor
<1>3. B \subseteq (1..Len(C.types)) \X (1..Len(D.types))
  BY <1>1 DEF SharesPrefix
<1>4. ASSUME NEW a \in 1..Len(C.types), NEW b \in 1..Len(D.types), <<a, b>> \in B
      PROVE  /\ Local(C.types, a) = Local(D.types, b)
             /\ \A k \in 1..Degree(C.types, a) :
                   <<Kid(C.types, a, k), Kid(D.types, b, k)>> \in B
  <2>1. b \in 1..m /\ h[a] = b /\ b \in 1..Len(R.types)
    BY <1>1, <1>4 DEF SharesPrefix
  <2>2. D.types[b] = R.types[b]
    BY <2>1 DEF SharesPrefix
  <2>3. Local(D.types, b) = Local(R.types, b)
        /\ \A k : Kid(D.types, b, k) = Kid(R.types, b, k)
    BY <2>2 DEF Local, Kid
  <2>4. Local(R.types, b) = Local(C.types, a)
    BY <1>2, <2>1
  <2>5. ASSUME NEW k \in 1..Degree(C.types, a)
        PROVE  <<Kid(C.types, a, k), Kid(D.types, b, k)>> \in B
    <3>1. Kid(R.types, b, k) = h[Kid(C.types, a, k)] /\ Kid(C.types, a, k) \in 1..Len(C.types)
      BY <1>1, <1>2, <2>1, ArenaNodes
    <3>2. Kid(R.types, b, k) \in 1..m
      <4>1. PICK node : node = R.types[b]
        OBVIOUS
      <4>2. IsNode(node, Len(R.types))
        BY <1>1, <2>1, <4>1
      <4>3. Degree(C.types, a) = Degree(R.types, b)
        <5>1. IsArena(R.types)
          BY ContractIs DEF SharesPrefix
        <5> QED
          BY <1>1, <2>1, <2>4, <5>1, LocalTellsDegree
      <4>4. k \in 1..Len(node.edges)
        BY <4>1, <4>3 DEF Degree
      <4>5. PICK i \in DOMAIN node.edges : node.edges[i].ty = SortedChildren(node)[k]
        <5>1. SortedChildren(node)[k] = SortedEdges(node)[k].ty
          BY <1>1, <4>2, <4>4, ChildrenAre
        <5>2. SortedEdges(node)[k] \in Range(SortedEdges(node))
          <6>1. SortedEdges(node) \in Seq(Edge(Len(R.types)))
                /\ Len(SortedEdges(node)) = Len(node.edges)
            BY <1>1, <4>2, SortedEdgesAre
          <6>2. DOMAIN SortedEdges(node) = 1..Len(node.edges)
            BY <6>1, EdgesTyped
          <6> QED
            BY <4>4, <6>2 DEF Range
        <5>3. SortedEdges(node)[k] \in Range(node.edges)
          BY <1>1, <4>2, <5>2, SortedEdgesAre
        <5> QED
          BY <5>1, <5>3 DEF Range
      <4>6. node.edges[i].ty \in 1..m
        BY <2>1, <4>1 DEF SharesPrefix, Closed
      <4> QED
        BY <4>1, <4>5, <4>6 DEF Kid
    <3> QED
      BY <2>3, <3>1, <3>2
  <2> QED
    BY <2>3, <2>4, <2>5
<1>5. Matches(C.types, D.types, B)
  <2> HIDE DEF B
  <2> QED
    BY <1>3, <1>4 DEF Matches
<1>6. C.actor \in 1..Len(C.types)
  BY ContractIs
<1>7. h[C.actor] = R.actor /\ R.actor \in 1..m /\ D.actor = R.actor
  BY DEF Stands, SharesPrefix
<1>8. <<C.actor, D.actor>> \in B
  BY <1>6, <1>7
<1>9. D.actor # NoActor
  BY <1>7 DEF NoActor
<1> QED
  BY <1>5, <1>8, <1>9 DEF SharesActor

\* One more declaration, of a type nothing else has.
LEMMA WithMoreShares ==
    ASSUME NEW R, IsContract(R), R.actor # NoActor, NEW n \in 1..Len(R.types)
    PROVE  IsContract(WithMore(R, n)) /\ SharesPrefix(R, WithMore(R, n), Len(R.types))
<1>1. PICK l : l = Len(R.types)
  OBVIOUS
<1>2. PICK D : D = WithMore(R, n)
  OBVIOUS
<1>3. /\ l \in Nat /\ DOMAIN R.types = 1..l /\ \A i \in 1..l : IsNode(R.types[i], l)
      /\ R.types \in Seq(NodeShape(l))
  BY <1>1, ContractIs DEF IsArena, IsContract
<1>4. PICK node : node = [kind |-> "vec", detail |-> << >>, edges |-> <<[key |-> 1, ty |-> n]>>]
  OBVIOUS
<1>5. PICK types, declarations :
         /\ types = Append(R.types, node)
         /\ declarations = Append(R.declarations, [name |-> NewName(R), ty |-> l + 1])
  OBVIOUS
<1>6. D = [types |-> types, declarations |-> declarations, actor |-> R.actor]
  <2>1. R = [types |-> R.types, declarations |-> R.declarations, actor |-> R.actor]
    BY ContractIs
  <2>2. PICK x, y, z : x = R.types /\ y = R.declarations /\ z = R.actor
    OBVIOUS
  <2>3. R = [types |-> x, declarations |-> y, actor |-> z]
    BY <2>1, <2>2
  <2>4. PICK Q : Q = [R EXCEPT !.types = types]
    OBVIOUS
  <2>5. Q = [types |-> types, declarations |-> y, actor |-> z]
    BY <2>3, <2>4
  <2>6. [Q EXCEPT !.declarations = declarations]
           = [types |-> types, declarations |-> declarations, actor |-> z]
    BY <2>5
  <2>7. D = [Q EXCEPT !.declarations = declarations]
    BY <1>1, <1>2, <1>4, <1>5, <2>4 DEF WithMore
  <2> QED
    BY <2>2, <2>6, <2>7
<1>7. IsNode(node, l + 1)
  <2>1. n \in 1..(l + 1) /\ l + 1 \in Nat
    BY <1>1, <1>3
  <2>2. "vec" \in Range(Kinds) /\ "vec" \notin KeyedKinds /\ DetailLength("vec") = 0
    <3>1. Kinds[3] = "vec" /\ 3 \in DOMAIN Kinds
      BY DEF Kinds
    <3>2. "vec" \in Range(Kinds)
      BY <3>1 DEF Range
    <3> QED
      BY <3>2 DEF KeyedKinds, DetailLength
  <2>3. PICK e : e = [key |-> 1, ty |-> n]
    OBVIOUS
  <2>4. e \in Edge(l + 1) /\ e.key = 1
    BY <2>1, <2>3 DEF Edge
  <2>5. PICK V : V = Edge(l + 1)
    OBVIOUS
  <2>6. <<e>> \in Seq(V) /\ DOMAIN <<e>> = {1} /\ <<e>>[1] = e
    BY <2>4, <2>5
  <2>7. << >> \in Seq(Nat) /\ Len(<< >>) = 0
    OBVIOUS
  <2>8. node \in NodeShape(l + 1)
    BY <1>4, <2>2, <2>3, <2>5, <2>6, <2>7 DEF NodeShape
  <2>9. \A i \in DOMAIN node.edges : node.edges[i].key = i
    BY <1>4, <2>3, <2>4, <2>6
  <2> QED
    BY <1>4, <2>2, <2>7, <2>8, <2>9 DEF IsNode
<1>8. /\ types = [i \in 1..(l + 1) |-> types[i]]
      /\ \A i \in 1..l : types[i] = R.types[i]
      /\ types[l + 1] = node
  <2>1. PICK s : s = R.types
    OBVIOUS
  <2>2. PICK N : s \in Seq(N)
    BY <1>3, <2>1
  <2>3. PICK M : M = N \cup {node}
    OBVIOUS
  <2>4. s \in Seq(M) /\ node \in M /\ Len(s) = l
    BY <1>1, <2>1, <2>2, <2>3
  <2>5. types = Append(s, node)
    BY <1>5, <2>1
  <2>6. /\ types \in Seq(M) /\ Len(types) = l + 1
        /\ \A i \in 1..l : types[i] = s[i]
        /\ types[l + 1] = node
    BY <2>4, <2>5, AppendProperties
  <2>7. types = [i \in 1..(l + 1) |-> types[i]]
    BY <1>3, <2>6
  <2> QED
    BY <2>1, <2>6, <2>7
<1>9. \A i \in 1..(l + 1) : IsNode(types[i], l + 1)
  <2> TAKE i \in 1..(l + 1)
  <2>1. CASE i = l + 1
    BY <1>7, <1>8, <2>1
  <2>2. CASE i \in 1..l
    <3>1. PICK x : x = R.types[i]
      OBVIOUS
    <3>2. IsNode(x, l)
      BY <1>3, <2>2, <3>1
    <3>3. IsNode(x, l + 1)
      BY <1>1, <1>3, <3>2, KeptRetargets
    <3> QED
      BY <1>8, <2>2, <3>1, <3>3
  <2> QED
    BY <1>3, <2>1, <2>2
<1>10. PICK k \in Nat : k = l + 1
  BY <1>3
<1>11. types \in Seq(NodeShape(k)) /\ Len(types) = k /\ \A i \in 1..k : IsNode(types[i], k)
  BY <1>8, <1>9, <1>10, ArenaIf
<1>12. /\ R.declarations \in Seq(Declaration(l))
       /\ \A i, j \in DOMAIN R.declarations :
             R.declarations[i].name = R.declarations[j].name => i = j
       /\ R.actor \in 1..l
  BY <1>1, ContractIs
<1>13. /\ declarations \in Seq(Declaration(k))
       /\ \A i, j \in DOMAIN declarations :
             declarations[i].name = declarations[j].name => i = j
  <2>1. PICK s, x : s = R.declarations /\ x = [name |-> NewName(R), ty |-> l + 1]
    OBVIOUS
  <2>2. x \in Declaration(k) /\ x.name = NewName(R)
    BY <1>3, <1>10, <2>1, NewNameIsNew DEF Declaration
  <2>3. s \in Seq(Declaration(k))
    <3>1. s \in Seq(Declaration(l)) /\ l <= k
      BY <1>3, <1>10, <1>12, <2>1
    <3> QED
      BY <1>3, <3>1, DeclarationsKept
  <2>4. PICK V : V = Declaration(k)
    OBVIOUS
  <2>5. s \in Seq(V) /\ x \in V /\ declarations = Append(s, x)
    BY <1>5, <2>1, <2>2, <2>3, <2>4
  <2>6. PICK m \in Nat : m = Len(s) /\ DOMAIN s = 1..m
    BY <2>3, DeclarationsTyped
  <2>7. /\ declarations \in Seq(V) /\ Len(declarations) = m + 1
        /\ \A i \in 1..m : declarations[i] = s[i]
        /\ declarations[m + 1] = x
    BY <2>5, <2>6, AppendProperties
  <2>8. DOMAIN declarations = 1..(m + 1)
    BY <2>6, <2>7
  <2>9. \A i \in 1..m : s[i].name # x.name
    BY <2>1, <2>2, <2>6, NewNameIsNew
  <2>10. \A i, j \in 1..m : s[i].name = s[j].name => i = j
    BY <1>12, <2>1, <2>6
  <2>11. \A i \in 1..(m + 1) : i \in 1..m \/ i = m + 1
    BY <2>6
  <2>12. ASSUME NEW i \in 1..(m + 1), NEW j \in 1..(m + 1),
                declarations[i].name = declarations[j].name
         PROVE  i = j
    BY <2>7, <2>9, <2>10, <2>11, <2>12
  <2> QED
    BY <2>4, <2>7, <2>8, <2>12
<1>14. IsContract(D)
  <2>1. PICK a : a = R.actor
    OBVIOUS
  <2>2. a \in {NoActor} \cup 1..k
    BY <1>3, <1>10, <1>12, <2>1
  <2>3. IsContract([types |-> types, declarations |-> declarations, actor |-> a])
    BY <1>10, <1>11, <1>13, <2>2, ContractIf
  <2> QED
    BY <1>6, <2>1, <2>3
<1>15. SharesPrefix(R, D, l)
  <2>1. D.types = types /\ D.actor = R.actor
    BY <1>6
  <2>2. Closed(1..l, R.types)
    <3> SUFFICES ASSUME NEW x \in 1..l, NEW i \in DOMAIN R.types[x].edges
                 PROVE  R.types[x].edges[i].ty \in 1..l
      BY DEF Closed
    <3>1. PICK y : y = R.types[x]
      OBVIOUS
    <3>2. y.edges \in Seq(Edge(l)) /\ i \in DOMAIN y.edges
      BY <1>3, <3>1, NodeTyped
    <3>3. y.edges[i].ty \in 1..l
      BY <3>2, EdgesTyped
    <3> QED
      BY <3>1, <3>3
  <2> QED
    <3>1. Len(D.types) = l + 1 /\ l <= l + 1 /\ l <= Len(R.types)
      BY <1>1, <1>3, <1>10, <1>11, <2>1
    <3>2. \A b \in 1..l : D.types[b] = R.types[b]
      BY <1>8, <2>1
    <3> QED
      BY <1>3, <1>12, <1>14, <2>1, <2>2, <3>1, <3>2 DEF SharesPrefix
<1> QED
  BY <1>1, <1>2, <1>14, <1>15

\* The actor and what it reaches, alone.
LEMMA ActorOnlyShares ==
    ASSUME NEW q, IsContract(q), q.actor # NoActor
    PROVE  /\ IsContract(ActorOnly(ResultOf(q)))
           /\ \E m : SharesPrefix(ResultOf(q), ActorOnly(ResultOf(q)), m)
<1>1. PICK R : R = ResultOf(q)
  OBVIOUS
<1>2. PICK s : s = Visit(<<q.actor>>, q.types)
  OBVIOUS
<1>3. ActorFirst(q, s)
  BY <1>2 DEF ActorFirst
<1>4. PICK m : m = Len(s)
  OBVIOUS
<1>5. /\ R.actor = 1 /\ m <= Len(R.types) /\ Closed(1..m, R.types)
      /\ ReachedPrefix(R) = SubSeq(R.types, 1, m)
  BY <1>1, <1>3, <1>4, ReachedIs
<1>6. m \in Nat /\ m > 0
  BY <1>3, <1>4, PlaceInSegment
<1>7. IsContract(R)
  BY <1>1, ResultIs
<1>8. PICK l : l = Len(R.types)
  OBVIOUS
<1>9. l \in Nat /\ DOMAIN R.types = 1..l /\ \A i \in 1..l : IsNode(R.types[i], l)
  BY <1>7, <1>8, ContractIs DEF IsArena
<1>10. PICK types : types = SubSeq(R.types, 1, m)
  OBVIOUS
<1>11. types = [i \in 1..m |-> types[i]] /\ \A i \in 1..m : types[i] = R.types[i]
  <2>1. PICK r : r = R.types
    OBVIOUS
  <2>2. SubSeq(r, 1, m) = [i \in 1..m |-> r[i]]
    BY <1>6
  <2> QED
    BY <1>10, <2>1, <2>2
<1>12. \A i \in 1..m : IsNode(types[i], m)
  <2> TAKE i \in 1..m
  <2>1. PICK x : x = R.types[i]
    OBVIOUS
  <2>2. IsNode(x, l) /\ \A k \in DOMAIN x.edges : x.edges[k].ty \in 1..m
    <3>1. i \in 1..l
      BY <1>5, <1>6, <1>8, <1>9
    <3> QED
      BY <1>5, <1>9, <2>1, <3>1 DEF Closed
  <2>3. IsNode(x, m)
    BY <1>6, <1>9, <2>2, NodeWithin
  <2> QED
    BY <1>11, <2>1, <2>3
<1>13. types \in Seq(NodeShape(m)) /\ Len(types) = m
  BY <1>6, <1>11, <1>12, ArenaIf
<1>14. PICK D : D = ActorOnly(R)
  OBVIOUS
<1>15. D = [types |-> types, declarations |-> << >>, actor |-> 1]
  BY <1>5, <1>10, <1>14 DEF ActorOnly
<1>16. IsContract(D)
  <2>1. PICK d : d = << >>
    OBVIOUS
  <2>2. PICK V : V = Declaration(m)
    OBVIOUS
  <2>3. d \in Seq(V) /\ DOMAIN d = {}
    BY <2>1
  <2>4. d \in Seq(Declaration(m)) /\ \A i, j \in DOMAIN d : d[i].name = d[j].name => i = j
    BY <2>2, <2>3
  <2>5. 1 \in {NoActor} \cup 1..m
    BY <1>6
  <2>6. IsContract([types |-> types, declarations |-> d, actor |-> 1])
    BY <1>6, <1>12, <1>13, <2>4, <2>5, ContractIf
  <2> QED
    BY <1>15, <2>1, <2>6
<1>17. SharesPrefix(R, D, m)
  <2>1. D.types = types /\ D.actor = R.actor
    BY <1>5, <1>15
  <2>2. 1 \in 1..m /\ m <= Len(D.types)
    BY <1>6, <1>13, <2>1
  <2> QED
    BY <1>5, <1>6, <1>7, <1>11, <1>16, <2>1, <2>2 DEF SharesPrefix
<1> QED
  BY <1>1, <1>14, <1>16, <1>17

LEMMA NoActorStays ==
    ASSUME NEW C, NEW D, NEW h, IsContract(C), IsContract(D), Stands(C, D, h)
    PROVE  C.actor = NoActor <=> D.actor = NoActor
<1>1. C.actor \in {NoActor} \cup 1..Len(C.types) /\ D.actor \in {NoActor} \cup 1..Len(D.types)
  BY ContractIs
<1>2. h \in [1..Len(C.types) -> 1..Len(D.types)]
  BY DEF Stands, StandsFor
<1>3. D.actor = IF C.actor = NoActor THEN NoActor ELSE h[C.actor]
  BY DEF Stands
<1> QED
  BY <1>1, <1>2, <1>3 DEF NoActor

\* What a contract that keeps the actor of a canonical one has in common with
\* the one that was canonicalized.
LEMMA SameActorShares ==
    ASSUME NEW C, NEW c, NEW R, Canonical(C, c, R), NEW D \in SameActor(R)
    PROVE  IsContract(D) /\ \E B : SharesActor(C, D, B)
<1>1. PICK q : q = Quotient(C, c)
  OBVIOUS
<1>2. PICK h : h = Then(c, PlaceOf(Quotient(C, c)))
  OBVIOUS
<1>3. IsContract(C) /\ Final(C.types, c) /\ R = ResultOf(q)
  BY <1>1 DEF Canonical
<1>4. IsContract(q) /\ IsContract(R) /\ Stands(C, R, h)
  BY <1>1, <1>2, <1>3, CanonicalIs
<1>5. R.actor # NoActor /\ C.actor # NoActor
  <2>1. R.actor # NoActor
    BY DEF SameActor
  <2> QED
    BY <1>3, <1>4, <2>1, NoActorStays
<1>6. q.actor # NoActor
  <2>1. Stands(q, R, PlaceOf(q))
    BY <1>3, <1>4, ResultIs
  <2> QED
    BY <1>4, <1>5, <2>1, NoActorStays
<1>7. CASE D = ActorOnly(R)
  <2>1. IsContract(D) /\ \E m : SharesPrefix(R, D, m)
    BY <1>3, <1>4, <1>6, <1>7, ActorOnlyShares
  <2> QED
    BY <1>3, <1>4, <1>5, <2>1, PrefixShared
<1>8. CASE \E n \in DOMAIN R.types : D = WithMore(R, n)
  <2>1. PICK n \in 1..Len(R.types) : D = WithMore(R, n)
    <3>1. DOMAIN R.types = 1..Len(R.types)
      BY <1>4, ContractIs DEF IsArena
    <3> QED
      BY <1>8, <3>1
  <2>2. IsContract(D) /\ SharesPrefix(R, D, Len(R.types))
    BY <1>4, <1>5, <2>1, WithMoreShares
  <2> QED
    BY <1>3, <1>4, <1>5, <2>2, PrefixShared
<1> QED
  BY <1>5, <1>7, <1>8 DEF SameActor

\* Likewise what is written another way.
LEMMA SameContractAlike ==
    ASSUME NEW C, NEW c, NEW R, Canonical(C, c, R), NEW D \in SameContract(R)
    PROVE  IsContract(D) /\ \E B : Alike(C, D, B)
<1>1. PICK h : h = Then(c, PlaceOf(Quotient(C, c)))
  OBVIOUS
<1>2. IsContract(C) /\ IsContract(R) /\ Stands(C, R, h)
  BY <1>1, CanonicalIs DEF Canonical
<1>3. IsContract(D) /\ \E g : Stands(D, R, g)
  BY <1>2, SameContractStands
<1>4. PICK g : Stands(D, R, g)
  BY <1>3
<1>5. Alike(C, D, Meet(h, g))
  BY <1>2, <1>3, <1>4, MeetAlike
<1> QED
  BY <1>3, <1>5

-----------------------------------------------------------------------------
\* No two nodes of a result mean the same type.

AlikePairs(types) ==
    {p \in (DOMAIN types) \X (DOMAIN types) :
        LocalSignature(types[p[1]]) = LocalSignature(types[p[2]])}

ChildrenIn(types, related, p) ==
    \A i \in DOMAIN SortedChildren(types[p[1]]) :
        <<SortedChildren(types[p[1]])[i], SortedChildren(types[p[2]])[i]>> \in related

\* Those of related pairs whose children are related, and the sets of pairs
\* that are all such.
KeptPairs(types) ==
    [related \in SUBSET AlikePairs(types) |->
        {p \in related : ChildrenIn(types, related, p)}]
ClosedPairs(types) ==
    {related \in SUBSET AlikePairs(types) : KeptPairs(types)[related] = related}
OwnPairs(types) == [related \in SUBSET AlikePairs(types) |-> related]
PairCount(types) == [related \in SUBSET AlikePairs(types) |-> Cardinality(related)]

LEMMA PairsDescend ==
    ASSUME NEW types, IsArena(types)
    PROVE  Descends(SUBSET AlikePairs(types), ClosedPairs(types), KeptPairs(types),
                    PairCount(types))
<1> DEFINE A == AlikePairs(types)
<1>1. IsFiniteSet(A)
  <2>1. PICK N : N = DOMAIN types
    OBVIOUS
  <2>2. IsFiniteSet(N)
    <3>1. 1 \in Int /\ Len(types) \in Int
      BY DEF IsArena
    <3>2. IsFiniteSet(1..Len(types))
      BY <3>1, FS_Interval
    <3> QED
      BY <2>1, <3>2 DEF IsArena
  <2>3. IsFiniteSet(N \X N)
    BY <2>2, FS_Product
  <2>4. A \subseteq N \X N
    BY <2>1 DEF AlikePairs
  <2> HIDE DEF A
  <2> QED
    BY <2>3, <2>4, FS_Subset
<1> HIDE DEF A
<1>2. ASSUME NEW r \in SUBSET A PROVE IsFiniteSet(r) /\ Cardinality(r) \in Nat
  <2>1. IsFiniteSet(r)
    BY <1>1, FS_Subset
  <2> QED
    BY <2>1, FS_CardinalityType
<1>3. PairCount(types) \in [SUBSET A -> Nat]
  BY <1>2 DEF PairCount, A
<1>4. ASSUME NEW r \in SUBSET A, r \notin ClosedPairs(types)
      PROVE  /\ KeptPairs(types)[r] \in SUBSET A
             /\ PairCount(types)[KeptPairs(types)[r]] < PairCount(types)[r]
  <2>1. PICK k : k = KeptPairs(types)[r]
    OBVIOUS
  <2>2. k \subseteq r
    BY <2>1 DEF KeptPairs, A
  <2>3. k # r
    BY <1>4, <2>1 DEF ClosedPairs, A
  <2>4. Cardinality(k) < Cardinality(r)
    <3>1. Cardinality(k) <= Cardinality(r) /\ (Cardinality(k) = Cardinality(r) => k = r)
      BY <1>2, <2>2, FS_Subset
    <3>2. Cardinality(k) \in Nat /\ Cardinality(r) \in Nat
      BY <1>2, <2>2
    <3> QED
      BY <2>3, <3>1, <3>2
  <2>5. k \in SUBSET A
    BY <2>2
  <2>6. PairCount(types)[k] = Cardinality(k) /\ PairCount(types)[r] = Cardinality(r)
    BY <2>5 DEF PairCount, A
  <2> QED
    BY <2>1, <2>4, <2>5, <2>6
<1> QED
  BY <1>3, <1>4 DEF Descends, A

\* The nodes that mean one type are alike and have children that do.
LEMMA MeanTheSameMatches ==
    ASSUME NEW types, IsArena(types)
    PROVE  Matches(types, types, MeanTheSame(types))
<1> DEFINE children == [n \in DOMAIN types |-> SortedChildren(types[n])]
           alike == {p \in (DOMAIN types) \X (DOMAIN types) :
                       LocalSignature(types[p[1]]) = LocalSignature(types[p[2]])}
           kept(r) == {p \in r : \A i \in DOMAIN children[p[1]] :
                          <<children[p[1]][i], children[p[2]][i]>> \in r}
           body(f) == [related \in SUBSET alike |->
                         IF kept(related) = related THEN related ELSE f[kept(related)]]
           largest == CHOOSE f : f = body(f)
<1>1. MeanTheSame(types) = largest[alike]
  BY DEF MeanTheSame
<1>2. alike = AlikePairs(types)
  BY DEF AlikePairs
<1>3. ASSUME NEW r \in SUBSET alike PROVE kept(r) = KeptPairs(types)[r]
  <2>1. \A p \in r : children[p[1]] = SortedChildren(types[p[1]])
                     /\ children[p[2]] = SortedChildren(types[p[2]])
    OBVIOUS
  <2>2. \A p \in r : (\A i \in DOMAIN children[p[1]] :
                         <<children[p[1]][i], children[p[2]][i]>> \in r)
                       <=> ChildrenIn(types, r, p)
    <3> HIDE DEF children
    <3> QED
      BY <2>1 DEF ChildrenIn
  <2>3. kept(r) = {p \in r : ChildrenIn(types, r, p)}
    <3> HIDE DEF children
    <3> QED
      BY <2>2
  <2>4. r \in SUBSET AlikePairs(types)
    BY <1>2
  <2> HIDE DEF kept
  <2> QED
    BY <2>3, <2>4 DEF KeptPairs
<1> DEFINE W == SUBSET AlikePairs(types)
<1>4. \A f : f = body(f) <=> Solves(f, W, ClosedPairs(types), OwnPairs(types), KeptPairs(types))
  <2> TAKE f
  <2> DEFINE g == [w \in W |-> IF w \in ClosedPairs(types) THEN OwnPairs(types)[w]
                              ELSE f[KeptPairs(types)[w]]]
  <2>1. \A w \in W : body(f)[w] = g[w]
    <3> TAKE w \in W
    <3>1. w \in ClosedPairs(types) <=> kept(w) = w
      <4>1. w \in SUBSET alike /\ w \in SUBSET AlikePairs(types)
        BY <1>2
      <4>2. kept(w) = KeptPairs(types)[w]
        BY <1>3, <4>1
      <4> HIDE DEF kept, alike
      <4> QED
        BY <4>1, <4>2 DEF ClosedPairs
    <3>2. OwnPairs(types)[w] = w
      BY DEF OwnPairs
    <3>3. kept(w) = KeptPairs(types)[w] /\ w \in SUBSET alike
      BY <1>2, <1>3
    <3> HIDE DEF kept, alike
    <3> QED
      BY <3>1, <3>2, <3>3
  <2>2. body(f) = [w \in W |-> body(f)[w]] /\ g = [w \in W |-> g[w]]
    BY <1>2
  <2>3. body(f) = g
    <3> HIDE DEF body, g, W
    <3> QED
      BY <2>1, <2>2
  <2> HIDE DEF body
  <2> QED
    BY <2>3 DEF Solves
<1>5. PICK L : L = largest
  OBVIOUS
<1>6. Descends(W, ClosedPairs(types), KeptPairs(types), PairCount(types))
  BY PairsDescend
<1>7. L = body(L)
  <2>1. \E f : Solves(f, W, ClosedPairs(types), OwnPairs(types), KeptPairs(types))
    BY <1>6, SolutionExists
  <2>2. \E f : f = body(f)
    <3> HIDE DEF body, W
    <3> QED
      BY <1>4, <2>1
  <2> HIDE DEF body
  <2> QED
    BY <1>5, <2>2
<1>8. Solves(L, W, ClosedPairs(types), OwnPairs(types), KeptPairs(types))
  <2> HIDE DEF body
  <2> QED
    BY <1>4, <1>7
<1> DEFINE P == {w \in W : L[w] \in ClosedPairs(types)}
<1>9. W \subseteq P
  <2>1. ASSUME NEW w \in W
        PROVE  L[w] = IF w \in ClosedPairs(types) THEN OwnPairs(types)[w]
                      ELSE L[KeptPairs(types)[w]]
    BY <1>8 DEF Solves
  <2>2. W \cap ClosedPairs(types) \subseteq P
    <3> SUFFICES ASSUME NEW w \in W, w \in ClosedPairs(types) PROVE L[w] \in ClosedPairs(types)
      OBVIOUS
    <3>1. L[w] = OwnPairs(types)[w]
      BY <2>1
    <3> QED
      BY <3>1 DEF OwnPairs
  <2>3. \A w \in W : w \notin ClosedPairs(types) /\ KeptPairs(types)[w] \in P => w \in P
    BY <2>1
  <2> HIDE DEF P, W
  <2> QED
    BY <1>6, <2>2, <2>3, DescentCovers
<1>10. PICK B : B = MeanTheSame(types)
  OBVIOUS
<1>11. B \in ClosedPairs(types)
  <2>1. B = L[alike]
    BY <1>1, <1>5, <1>10
  <2>2. alike \in W
    BY <1>2
  <2> QED
    BY <1>9, <2>1, <2>2
<1>12. B \subseteq AlikePairs(types) /\ B = {p \in B : ChildrenIn(types, B, p)}
  BY <1>11 DEF ClosedPairs, KeptPairs
<1>13. ASSUME NEW a \in 1..Len(types), NEW b \in 1..Len(types), <<a, b>> \in B
       PROVE  /\ Local(types, a) = Local(types, b)
              /\ \A k \in 1..Degree(types, a) : <<Kid(types, a, k), Kid(types, b, k)>> \in B
  <2>1. Local(types, a) = Local(types, b)
    BY <1>12, <1>13 DEF AlikePairs, Local
  <2>2. ChildrenIn(types, B, <<a, b>>)
    BY <1>12, <1>13
  <2>3. DOMAIN SortedChildren(types[a]) = 1..Degree(types, a)
    BY ArenaNodes
  <2> QED
    BY <2>1, <2>2, <2>3 DEF ChildrenIn, Kid
<1>14. B \subseteq (1..Len(types)) \X (1..Len(types))
  BY <1>12 DEF AlikePairs, IsArena
<1> QED
  BY <1>10, <1>13, <1>14 DEF Matches

\* Nodes of a canonical contract that mean the same type are one node.
LEMMA OneNodeEach ==
    ASSUME NEW C, NEW c, NEW R, Canonical(C, c, R), NEW pair \in MeanTheSame(R.types)
    PROVE  pair[1] = pair[2]
<1>1. PICK g : g = PlaceOf(Quotient(C, c))
  OBVIOUS
<1>2. PICK h : h = Then(c, g)
  OBVIOUS
<1>3. IsContract(C) /\ Final(C.types, c) /\ IsContract(R) /\ Stands(C, R, h)
  BY <1>1, <1>2, CanonicalIs DEF Canonical
<1>4. PICK s, t : s = C.types /\ t = R.types
  OBVIOUS
<1>5. IsArena(s) /\ IsArena(t) /\ Final(s, c)
  BY <1>3, <1>4, ContractIs
<1>6. /\ h \in [1..Len(s) -> 1..Len(t)]
      /\ \A b \in 1..Len(t) : \E a \in 1..Len(s) : h[a] = b
      /\ \A a \in 1..Len(s) :
            /\ Local(t, h[a]) = Local(s, a)
            /\ \A k \in 1..Degree(s, a) : Kid(t, h[a], k) = h[Kid(s, a, k)]
  BY <1>3, <1>4 DEF Stands, StandsFor
<1>7. PICK B : B = MeanTheSame(t)
  OBVIOUS
<1>8. Matches(t, t, B)
  BY <1>5, <1>7, MeanTheSameMatches
<1> DEFINE E == {p \in (1..Len(s)) \X (1..Len(s)) : <<h[p[1]], h[p[2]]>> \in B}
<1>9. Matches(s, s, E)
  <2>1. ASSUME NEW a \in 1..Len(s), NEW b \in 1..Len(s), <<a, b>> \in E
        PROVE  /\ Local(s, a) = Local(s, b)
               /\ \A k \in 1..Degree(s, a) : <<Kid(s, a, k), Kid(s, b, k)>> \in E
    <3>1. PICK x \in 1..Len(t), y \in 1..Len(t) : x = h[a] /\ y = h[b]
      BY <1>6
    <3>2. <<x, y>> \in B
      BY <2>1, <3>1
    <3>3. Local(t, x) = Local(t, y)
          /\ \A k \in 1..Degree(t, x) : <<Kid(t, x, k), Kid(t, y, k)>> \in B
      BY <1>8, <3>2 DEF Matches
    <3>4. Local(s, a) = Local(s, b)
      BY <1>6, <3>1, <3>3
    <3>5. Degree(s, a) = Degree(s, b)
      BY <1>5, <3>4, LocalTellsDegree
    <3>6. Degree(t, x) = Degree(s, a)
      <4>1. Local(t, x) = Local(s, a)
        BY <1>6, <3>1
      <4> QED
        BY <1>5, <4>1, LocalTellsDegree
    <3>7. ASSUME NEW k \in 1..Degree(s, a)
          PROVE  <<Kid(s, a, k), Kid(s, b, k)>> \in E
      <4>1. Kid(s, a, k) \in 1..Len(s)
        BY <1>5, ArenaNodes
      <4>2. Kid(s, b, k) \in 1..Len(s)
        BY <1>5, <3>5, ArenaNodes
      <4>3. h[Kid(s, a, k)] = Kid(t, x, k) /\ h[Kid(s, b, k)] = Kid(t, y, k)
        BY <1>6, <3>1, <3>5
      <4>4. <<Kid(t, x, k), Kid(t, y, k)>> \in B
        BY <3>3, <3>6
      <4> QED
        BY <4>1, <4>2, <4>3, <4>4
    <3> QED
      BY <3>4, <3>7
  <2>2. E \subseteq (1..Len(s)) \X (1..Len(s))
    OBVIOUS
  <2> HIDE DEF E
  <2> QED
    BY <2>1, <2>2 DEF Matches
<1>10. Agree(c, c, E)
  <2> HIDE DEF E
  <2> QED
    BY <1>5, <1>9, FinalIs
<1>11. B \subseteq (1..Len(t)) \X (1..Len(t)) /\ pair \in B
  BY <1>4, <1>7, <1>8 DEF Matches
<1>12. PICK x \in 1..Len(t), y \in 1..Len(t) : pair = <<x, y>>
  BY <1>11
<1>13. PICK a \in 1..Len(s) : h[a] = x
  BY <1>6
<1>14. PICK b \in 1..Len(s) : h[b] = y
  BY <1>6
<1>15. <<a, b>> \in E
  BY <1>11, <1>12, <1>13, <1>14
<1>16. c[a] = c[b]
  <2> HIDE DEF E
  <2>1. PICK e \in E : e = <<a, b>>
    BY <1>15
  <2>2. c[e[1]] = c[e[2]]
    BY <1>10 DEF Agree
  <2> QED
    BY <2>1, <2>2
<1>17. DOMAIN c = 1..Len(s)
  BY <1>5, FinalIs DEF Numbered, Numbers
<1>18. h[a] = g[c[a]] /\ h[b] = g[c[b]]
  BY <1>2, <1>17 DEF Then
<1> QED
  BY <1>12, <1>13, <1>14, <1>16, <1>18

-----------------------------------------------------------------------------
\* What holds at each phase.

HasClasses == pc \in {"quotient", "index", "contract_id", "interface_id", "finish"} \/ Done
HasQuotient == pc \in {"index", "contract_id", "interface_id", "finish"} \/ Done
HasResult == pc \in {"contract_id", "interface_id", "finish"} \/ Done
HasIdentities == pc = "finish" \/ Done

PhaseInv ==
    /\ pc \in {"start", "refine", "quotient", "index", "contract_id", "interface_id",
               "finish", "stopped"}
    /\ outcome = "running" <=> pc # "stopped"

RoundsInv ==
    /\ pc = "refine" => Reached(input.types, classes)
    /\ HasClasses => Final(input.types, classes)

ResultInv ==
    /\ HasQuotient => quotient = Quotient(input, classes)
    /\ HasResult => result = ResultOf(quotient) /\ oldToNew = Then(classes, PlaceOf(quotient))

\* What the two identities hash of a canonical contract.
IdentitiesOf(R) ==
    [contract |-> R,
     interface |-> IF R.actor = NoActor THEN << >> ELSE InterfacePayload(R)]

IdentityInv ==
    /\ pc = "interface_id" =>
          result.actor # NoActor /\ identities = [contract |-> result, interface |-> << >>]
    /\ HasIdentities => identities = IdentitiesOf(result)

\* What the second pass canonicalizes means what the first one's contract did,
\* or has its actor.
FirstInv ==
    /\ first.keeps = "all" =>
          \E C, c, B : Canonical(C, c, first.result) /\ Alike(C, input, B)
    /\ first.keeps = "actor" =>
          \E C, c, B : Canonical(C, c, first.result) /\ SharesActor(C, input, B)
    /\ first.keeps # "none" => first.identities = IdentitiesOf(first.result)

CanonicalInv ==
    /\ PhaseInv
    /\ IsContract(input)
    /\ RoundsInv
    /\ ResultInv
    /\ IdentityInv
    /\ FirstInv

LEMMA FirstKept ==
    ASSUME FirstInv, UNCHANGED <<input, first>>
    PROVE  FirstInv'
  BY DEF FirstInv

\* A refusal leaves nothing to show.
LEMMA FailKeeps ==
    ASSUME CanonicalInv, NEW code \in {"operation_interrupted", "canonicalization_work"},
           Fail(code)
    PROVE  CanonicalInv'
<1>1. pc' = "stopped" /\ outcome' = code /\ UNCHANGED <<input, first>>
  BY DEF Fail
<1>2. PhaseInv'
  BY <1>1 DEF PhaseInv
<1>3. ~Done'
  BY <1>1 DEF Done
<1>4. ~HasClasses' /\ ~HasQuotient' /\ ~HasResult' /\ ~HasIdentities'
  BY <1>1, <1>3 DEF HasClasses, HasQuotient, HasResult, HasIdentities
<1>5. RoundsInv' /\ ResultInv' /\ IdentityInv'
  BY <1>1, <1>4 DEF RoundsInv, ResultInv, IdentityInv
<1>6. FirstInv' /\ IsContract(input')
  BY <1>1, FirstKept DEF CanonicalInv
<1> QED
  BY <1>2, <1>5, <1>6 DEF CanonicalInv

LEMMA RefuseFails ==
    ASSUME NEW amount, Refuse(amount)
    PROVE  /\ \E code \in {"operation_interrupted", "canonicalization_work"} : Fail(code)
           /\ Refused(amount)
  BY DEF Refuse

LEMMA RefuseKeeps ==
    ASSUME CanonicalInv, NEW amount, Refuse(amount)
    PROVE  CanonicalInv'
  BY RefuseFails, FailKeeps

\* A step that is charged and goes on.
LEMMA ChargeGoesOn ==
    ASSUME CanonicalInv, NEW amount, NEW next,
           next \in {"refine", "quotient", "index", "contract_id", "interface_id", "finish"},
           pc # "stopped", Charge(amount, next)
    PROVE  /\ PhaseInv' /\ pc' = next /\ ~Done' /\ ~Done
           /\ UNCHANGED <<outcome, first>>
  BY DEF CanonicalInv, PhaseInv, Charge, Done

LEMMA FirstPartitionKeeps ==
    ASSUME CanonicalInv, FirstPartition
    PROVE  CanonicalInv'
<1> DEFINE amount == RoundWork(input.types)
<1>1. CASE Refuse(amount)
  BY <1>1, RefuseKeeps
<1>2. CASE /\ Charge(amount, "refine")
           /\ classes' = FirstClasses(input.types)
           /\ UNCHANGED <<input, quotient, result, oldToNew, identities>>
  <2>1. PhaseInv' /\ pc' = "refine" /\ ~Done' /\ UNCHANGED <<input, first>>
    BY <1>2, ChargeGoesOn DEF FirstPartition
  <2>2. ~HasClasses' /\ ~HasQuotient' /\ ~HasResult' /\ ~HasIdentities'
    BY <2>1 DEF HasClasses, HasQuotient, HasResult, HasIdentities
  <2>3. Reached(input.types, FirstClasses(input.types))
    BY ReachedStarts
  <2>4. RoundsInv' /\ ResultInv' /\ IdentityInv'
    BY <1>2, <2>1, <2>2, <2>3 DEF RoundsInv, ResultInv, IdentityInv
  <2>5. FirstInv' /\ IsContract(input')
    BY <2>1, FirstKept DEF CanonicalInv
  <2> QED
    BY <2>1, <2>4, <2>5 DEF CanonicalInv
<1> QED
  BY <1>1, <1>2 DEF FirstPartition, FirstClasses

LEMMA RefineRoundKeeps ==
    ASSUME CanonicalInv, RefineRound
    PROVE  CanonicalInv'
<1> DEFINE amount == RoundWork(input.types)
           next == NextClasses(input.types, classes)
<1>1. CASE Refuse(amount)
  BY <1>1, RefuseKeeps
<1>2. CASE /\ Charge(amount, IF PartitionWasSplit(classes, next) THEN "refine" ELSE "quotient")
           /\ classes' = next
           /\ UNCHANGED <<input, quotient, result, oldToNew, identities>>
  <2>1. /\ PhaseInv' /\ ~Done' /\ UNCHANGED <<input, first>>
        /\ pc' = IF PartitionWasSplit(classes, next) THEN "refine" ELSE "quotient"
    <3> HIDE DEF next, amount
    <3> QED
      BY <1>2, ChargeGoesOn DEF RefineRound
  <2>2. ~HasQuotient' /\ ~HasResult' /\ ~HasIdentities' /\ (HasClasses' <=> pc' = "quotient")
    <3> HIDE DEF next
    <3> QED
      BY <2>1 DEF HasClasses, HasQuotient, HasResult, HasIdentities
  <2>3. Reached(input.types, classes)
    BY DEF CanonicalInv, RoundsInv, RefineRound
  <2>4. IF PartitionWasSplit(classes, next) THEN Reached(input.types, next)
        ELSE Final(input.types, next)
    BY <2>3, ReachedGoesOn
  <2>5. RoundsInv' /\ ResultInv' /\ IdentityInv'
    <3> HIDE DEF next
    <3> QED
      BY <1>2, <2>1, <2>2, <2>4 DEF RoundsInv, ResultInv, IdentityInv
  <2>6. FirstInv' /\ IsContract(input')
    BY <2>1, FirstKept DEF CanonicalInv
  <2> QED
    BY <2>1, <2>5, <2>6 DEF CanonicalInv
<1> QED
  BY <1>1, <1>2 DEF RefineRound, NextClasses

LEMMA TakeQuotientKeeps ==
    ASSUME CanonicalInv, TakeQuotient
    PROVE  CanonicalInv'
<1>1. CASE Refuse(0)
  BY <1>1, RefuseKeeps
<1>2. CASE /\ Charge(0, "index")
           /\ quotient' = Quotient(input, classes)
           /\ UNCHANGED <<input, classes, result, oldToNew, identities>>
  <2>1. PhaseInv' /\ pc' = "index" /\ ~Done' /\ UNCHANGED <<input, first>>
    BY <1>2, ChargeGoesOn DEF TakeQuotient
  <2>2. HasClasses' /\ HasQuotient' /\ ~HasResult' /\ ~HasIdentities'
    BY <2>1 DEF HasClasses, HasQuotient, HasResult, HasIdentities
  <2>3. Final(input.types, classes)
    BY DEF CanonicalInv, RoundsInv, HasClasses, TakeQuotient
  <2>4. RoundsInv' /\ ResultInv' /\ IdentityInv'
    BY <1>2, <2>1, <2>2, <2>3 DEF RoundsInv, ResultInv, IdentityInv
  <2>5. FirstInv' /\ IsContract(input')
    BY <2>1, FirstKept DEF CanonicalInv
  <2> QED
    BY <2>1, <2>4, <2>5 DEF CanonicalInv
<1> QED
  BY <1>1, <1>2 DEF TakeQuotient

LEMMA ReindexKeeps ==
    ASSUME CanonicalInv, Reindex
    PROVE  CanonicalInv'
<1>1. CASE Refuse(ReindexWork(quotient))
  BY <1>1, RefuseKeeps
<1>2. CASE /\ Charge(ReindexWork(quotient), "contract_id")
           /\ result' = ResultOf(quotient)
           /\ oldToNew' = Then(classes, PlaceOf(quotient))
           /\ UNCHANGED <<input, classes, quotient, identities>>
  <2>1. PhaseInv' /\ pc' = "contract_id" /\ ~Done' /\ UNCHANGED <<input, first>>
    BY <1>2, ChargeGoesOn DEF Reindex
  <2>2. HasClasses' /\ HasQuotient' /\ HasResult' /\ ~HasIdentities'
    BY <2>1 DEF HasClasses, HasQuotient, HasResult, HasIdentities
  <2>3. Final(input.types, classes) /\ quotient = Quotient(input, classes)
    BY DEF CanonicalInv, RoundsInv, ResultInv, HasClasses, HasQuotient, Reindex
  <2>4. RoundsInv' /\ ResultInv' /\ IdentityInv'
    BY <1>2, <2>1, <2>2, <2>3 DEF RoundsInv, ResultInv, IdentityInv
  <2>5. FirstInv' /\ IsContract(input')
    BY <2>1, FirstKept DEF CanonicalInv
  <2> QED
    BY <2>1, <2>4, <2>5 DEF CanonicalInv
<1> QED
  BY <1>1, <1>2 DEF Reindex, ResultOf, OrderOf, PlaceOf, Then

LEMMA HashContractKeeps ==
    ASSUME CanonicalInv, HashContract
    PROVE  CanonicalInv'
<1> DEFINE amount == HashWork(result.types, result.declarations)
<1>1. CASE Refuse(amount)
  BY <1>1, RefuseKeeps
<1>2. CASE /\ Charge(amount, IF result.actor = NoActor THEN "finish" ELSE "interface_id")
           /\ identities' = [contract |-> result, interface |-> << >>]
           /\ UNCHANGED <<input, classes, quotient, result, oldToNew>>
  <2>1. /\ PhaseInv' /\ ~Done' /\ UNCHANGED <<input, first>>
        /\ pc' = IF result.actor = NoActor THEN "finish" ELSE "interface_id"
    <3> HIDE DEF amount
    <3> QED
      BY <1>2, ChargeGoesOn DEF HashContract
  <2>2. HasClasses' /\ HasQuotient' /\ HasResult' /\ (HasIdentities' <=> pc' = "finish")
    BY <2>1 DEF HasClasses, HasQuotient, HasResult, HasIdentities
  <2>3. /\ Final(input.types, classes) /\ quotient = Quotient(input, classes)
        /\ result = ResultOf(quotient) /\ oldToNew = Then(classes, PlaceOf(quotient))
    BY DEF CanonicalInv, RoundsInv, ResultInv, HasClasses, HasQuotient, HasResult,
           HashContract
  <2>4. RoundsInv' /\ ResultInv'
    BY <1>2, <2>1, <2>2, <2>3 DEF RoundsInv, ResultInv
  <2>5. IdentityInv'
    BY <1>2, <2>1, <2>2 DEF IdentityInv, IdentitiesOf
  <2>6. FirstInv' /\ IsContract(input')
    BY <2>1, FirstKept DEF CanonicalInv
  <2> QED
    BY <2>1, <2>4, <2>5, <2>6 DEF CanonicalInv
<1> QED
  BY <1>1, <1>2 DEF HashContract

LEMMA HashInterfaceKeeps ==
    ASSUME CanonicalInv, HashInterface
    PROVE  CanonicalInv'
<1> DEFINE payload == InterfacePayload(result)
           amount == HashWork(payload.types, << >>)
<1>1. CASE Refuse(amount)
  BY <1>1, RefuseKeeps
<1>2. CASE /\ Charge(amount, "finish")
           /\ identities' = [identities EXCEPT !.interface = payload]
           /\ UNCHANGED <<input, classes, quotient, result, oldToNew>>
  <2>1. PhaseInv' /\ pc' = "finish" /\ ~Done' /\ UNCHANGED <<input, first>>
    <3> HIDE DEF amount
    <3> QED
      BY <1>2, ChargeGoesOn DEF HashInterface
  <2>2. HasClasses' /\ HasQuotient' /\ HasResult' /\ HasIdentities'
    BY <2>1 DEF HasClasses, HasQuotient, HasResult, HasIdentities
  <2>3. /\ Final(input.types, classes) /\ quotient = Quotient(input, classes)
        /\ result = ResultOf(quotient) /\ oldToNew = Then(classes, PlaceOf(quotient))
    BY DEF CanonicalInv, RoundsInv, ResultInv, HasClasses, HasQuotient, HasResult,
           HashInterface
  <2>4. RoundsInv' /\ ResultInv'
    BY <1>2, <2>1, <2>2, <2>3 DEF RoundsInv, ResultInv
  <2>5. result.actor # NoActor /\ identities = [contract |-> result, interface |-> << >>]
    BY DEF CanonicalInv, IdentityInv, HashInterface
  <2>6. identities' = IdentitiesOf(result)
    <3> HIDE DEF payload
    <3>1. identities' = [contract |-> result, interface |-> payload]
      BY <1>2, <2>5
    <3> QED
      BY <2>5, <3>1 DEF IdentitiesOf, payload
  <2>7. IdentityInv'
    BY <1>2, <2>1, <2>2, <2>6 DEF IdentityInv, IdentitiesOf
  <2>8. FirstInv' /\ IsContract(input')
    BY <2>1, FirstKept DEF CanonicalInv
  <2> QED
    BY <2>1, <2>4, <2>7, <2>8 DEF CanonicalInv
<1> QED
  BY <1>1, <1>2 DEF HashInterface

LEMMA FinishKeeps ==
    ASSUME CanonicalInv, Finish
    PROVE  CanonicalInv'
<1>1. CASE Refuse(0)
  BY <1>1, RefuseKeeps
<1>2. CASE /\ pc' = "stopped" /\ outcome' = "done"
           /\ UNCHANGED <<input, classes, quotient, result, oldToNew, identities, work,
                          interrupted, first>>
  <2>1. pc = "finish" /\ HasClasses /\ HasQuotient /\ HasResult /\ HasIdentities
    BY DEF Finish, HasClasses, HasQuotient, HasResult, HasIdentities
  <2>2. /\ Final(input.types, classes) /\ quotient = Quotient(input, classes)
        /\ result = ResultOf(quotient) /\ oldToNew = Then(classes, PlaceOf(quotient))
        /\ identities = IdentitiesOf(result)
    BY <2>1 DEF CanonicalInv, RoundsInv, ResultInv, IdentityInv
  <2>3. RoundsInv' /\ ResultInv' /\ IdentityInv'
    BY <1>2, <2>2 DEF RoundsInv, ResultInv, IdentityInv
  <2>4. PhaseInv'
    BY <1>2 DEF PhaseInv
  <2>5. FirstInv' /\ IsContract(input')
    BY <1>2, FirstKept DEF CanonicalInv
  <2> QED
    BY <2>3, <2>4, <2>5 DEF CanonicalInv
<1> QED
  BY <1>1, <1>2 DEF Finish

\* A contract whose canonicalization is done.
LEMMA DoneIs ==
    ASSUME CanonicalInv, Done
    PROVE  /\ Canonical(input, classes, result)
           /\ Stands(input, result, oldToNew)
           /\ IsContract(result)
           /\ identities = IdentitiesOf(result)
<1>1. /\ IsContract(input) /\ Final(input.types, classes)
      /\ quotient = Quotient(input, classes)
      /\ result = ResultOf(quotient) /\ oldToNew = Then(classes, PlaceOf(quotient))
      /\ identities = IdentitiesOf(result)
  BY DEF CanonicalInv, RoundsInv, ResultInv, IdentityInv, HasClasses, HasQuotient,
         HasResult, HasIdentities
<1>2. Canonical(input, classes, result)
  BY <1>1 DEF Canonical
<1>3. /\ IsContract(ResultOf(Quotient(input, classes)))
      /\ Stands(input, ResultOf(Quotient(input, classes)),
                Then(classes, PlaceOf(Quotient(input, classes))))
  BY <1>1, CanonicalIs
<1> QED
  BY <1>1, <1>2, <1>3

LEMMA AgainKeeps ==
    ASSUME CanonicalInv, NEW keeps, NEW contract, Again(keeps, contract), IsContract(contract),
           FirstInv'
    PROVE  CanonicalInv'
<1>1. pc' = "start" /\ outcome' = "running" /\ input' = contract
  BY DEF Again, Restarted
<1>2. ~HasClasses' /\ ~HasQuotient' /\ ~HasResult' /\ ~HasIdentities'
  BY <1>1 DEF HasClasses, HasQuotient, HasResult, HasIdentities, Done
<1>3. RoundsInv' /\ ResultInv' /\ IdentityInv' /\ PhaseInv'
  BY <1>1, <1>2 DEF RoundsInv, ResultInv, IdentityInv, PhaseInv
<1> QED
  BY <1>1, <1>3 DEF CanonicalInv

LEMMA RewriteAllKeeps ==
    ASSUME CanonicalInv, RewriteAll
    PROVE  CanonicalInv'
<1>1. PICK contract \in SameContract(result) : Again("all", contract)
  BY DEF RewriteAll
<1>2. Done
  BY DEF RewriteAll, FirstReturned, Done
<1>3. PICK R, I : R = result /\ I = input
  OBVIOUS
<1>4. PICK c : c = classes
  OBVIOUS
<1>5. Canonical(I, c, R) /\ identities = IdentitiesOf(R)
  BY <1>2, <1>3, <1>4, DoneIs
<1>6. IsContract(contract) /\ \E B : Alike(I, contract, B)
  BY <1>1, <1>3, <1>5, SameContractAlike
<1>7. PICK B : Alike(I, contract, B)
  BY <1>6
<1>8. /\ input' = contract
      /\ first' = [keeps |-> "all", result |-> R, identities |-> identities]
  BY <1>1, <1>3 DEF Again, Restarted
<1>9. FirstInv'
  <2>1. /\ first'.keeps = "all" /\ first'.result = R /\ first'.identities = IdentitiesOf(R)
    BY <1>5, <1>8
  <2>2. Canonical(I, c, first'.result) /\ Alike(I, input', B)
    BY <1>5, <1>7, <1>8, <2>1
  <2> QED
    BY <2>1, <2>2 DEF FirstInv
<1> QED
  BY <1>1, <1>6, <1>9, AgainKeeps

LEMMA RewriteActorKeeps ==
    ASSUME CanonicalInv, RewriteActor
    PROVE  CanonicalInv'
<1>1. PICK contract \in SameActor(result) : Again("actor", contract)
  BY DEF RewriteActor
<1>2. Done
  BY DEF RewriteActor, FirstReturned, Done
<1>3. PICK R, I : R = result /\ I = input
  OBVIOUS
<1>4. PICK c : c = classes
  OBVIOUS
<1>5. Canonical(I, c, R) /\ identities = IdentitiesOf(R)
  BY <1>2, <1>3, <1>4, DoneIs
<1>6. IsContract(contract) /\ \E B : SharesActor(I, contract, B)
  BY <1>1, <1>3, <1>5, SameActorShares
<1>7. PICK B : SharesActor(I, contract, B)
  BY <1>6
<1>8. /\ input' = contract
      /\ first' = [keeps |-> "actor", result |-> R, identities |-> identities]
  BY <1>1, <1>3 DEF Again, Restarted
<1>9. FirstInv'
  <2>1. /\ first'.keeps = "actor" /\ first'.result = R /\ first'.identities = IdentitiesOf(R)
    BY <1>5, <1>8
  <2>2. Canonical(I, c, first'.result) /\ SharesActor(I, input', B)
    BY <1>5, <1>7, <1>8, <2>1
  <2> QED
    BY <2>1, <2>2 DEF FirstInv
<1> QED
  BY <1>1, <1>6, <1>9, AgainKeeps

LEMMA OtherwiseKept ==
    ASSUME CanonicalInv,
           UNCHANGED <<input, pc, classes, quotient, result, oldToNew, identities,
                       outcome, first>>
    PROVE  CanonicalInv'
<1>1. Done' = Done
  BY DEF Done
<1>2. HasClasses' = HasClasses /\ HasQuotient' = HasQuotient /\ HasResult' = HasResult
      /\ HasIdentities' = HasIdentities
  BY <1>1 DEF HasClasses, HasQuotient, HasResult, HasIdentities
<1>3. PhaseInv' /\ RoundsInv' /\ ResultInv' /\ IdentityInv' /\ IsContract(input')
  BY <1>2 DEF CanonicalInv, PhaseInv, RoundsInv, ResultInv, IdentityInv
<1> QED
  BY <1>3, FirstKept DEF CanonicalInv

LEMMA CanonicalStarts == Init => CanonicalInv
<1> SUFFICES ASSUME Init PROVE CanonicalInv
  OBVIOUS
<1>1. IsContract(input)
  BY JobsAssumption DEF Init
<1>2. pc = "start" /\ outcome = "running" /\ first.keeps = "none"
  BY DEF Init
<1>3. ~HasClasses /\ ~HasQuotient /\ ~HasResult /\ ~HasIdentities
  BY <1>2 DEF HasClasses, HasQuotient, HasResult, HasIdentities, Done
<1>4. PhaseInv /\ RoundsInv /\ ResultInv /\ IdentityInv /\ FirstInv
  BY <1>2, <1>3 DEF PhaseInv, RoundsInv, ResultInv, IdentityInv, FirstInv
<1> QED
  BY <1>1, <1>4 DEF CanonicalInv

LEMMA CanonicalKept == CanonicalInv /\ [Next]_vars => CanonicalInv'
<1> SUFFICES ASSUME CanonicalInv, [Next]_vars PROVE CanonicalInv'
  OBVIOUS
<1>1. CASE FirstPartition
  BY <1>1, FirstPartitionKeeps
<1>2. CASE RefineRound
  BY <1>2, RefineRoundKeeps
<1>3. CASE TakeQuotient
  BY <1>3, TakeQuotientKeeps
<1>4. CASE Reindex
  BY <1>4, ReindexKeeps
<1>5. CASE HashContract
  BY <1>5, HashContractKeeps
<1>6. CASE HashInterface
  BY <1>6, HashInterfaceKeeps
<1>7. CASE Finish
  BY <1>7, FinishKeeps
<1>8. CASE Interrupt
  <2>1. UNCHANGED <<input, pc, classes, quotient, result, oldToNew, identities, outcome,
                    first>>
    BY <1>8 DEF Interrupt
  <2> QED
    BY <2>1, OtherwiseKept
<1>9. CASE RewriteAll
  BY <1>9, RewriteAllKeeps
<1>10. CASE RewriteActor
  BY <1>10, RewriteActorKeeps
<1>11. CASE UNCHANGED vars
  <2>1. UNCHANGED <<input, pc, classes, quotient, result, oldToNew, identities, outcome,
                    first>>
    BY <1>11 DEF vars
  <2> QED
    BY <2>1, OtherwiseKept
<1> QED
  BY <1>1, <1>2, <1>3, <1>4, <1>5, <1>6, <1>7, <1>8, <1>9, <1>10, <1>11 DEF Next

LEMMA CanonicalAlways == Spec => []CanonicalInv
  BY CanonicalStarts, CanonicalKept, PTL DEF Spec

\* A canonical node stands for each of its input nodes.
LEMMA StandingIs ==
    ASSUME IsContract(input), Stands(input, result, oldToNew), IsContract(result)
    PROVE  StandsForItsNodes
<1>1. PICK s, t : s = input.types /\ t = result.types
  OBVIOUS
<1>2. PICK h : h = oldToNew
  OBVIOUS
<1>3. IsArena(s) /\ IsArena(t)
  BY <1>1, ContractIs
<1>4. /\ h \in [1..Len(s) -> 1..Len(t)]
      /\ \A a \in 1..Len(s) :
            /\ Local(t, h[a]) = Local(s, a)
            /\ \A k \in 1..Degree(s, a) : Kid(t, h[a], k) = h[Kid(s, a, k)]
  BY <1>1, <1>2 DEF Stands, StandsFor
<1>5. ASSUME NEW a \in 1..Len(s)
      PROVE  /\ LocalSignature(t[h[a]]) = LocalSignature(s[a])
             /\ SortedChildren(t[h[a]]) =
                  [i \in DOMAIN SortedChildren(s[a]) |-> h[SortedChildren(s[a])[i]]]
  <2>1. h[a] \in 1..Len(t) /\ Local(t, h[a]) = Local(s, a)
    BY <1>4
  <2>2. Degree(t, h[a]) = Degree(s, a)
    <3>1. PICK b \in 1..Len(t) : b = h[a]
      BY <2>1
    <3>2. Degree(t, b) = Degree(s, a)
      BY <1>3, <2>1, <3>1, LocalTellsDegree
    <3> QED
      BY <3>1, <3>2
  <2>3. PICK x, y : x = SortedChildren(t[h[a]]) /\ y = SortedChildren(s[a])
    OBVIOUS
  <2>4. /\ x \in Seq(1..Len(t)) /\ DOMAIN x = 1..Degree(s, a)
        /\ DOMAIN y = 1..Degree(s, a)
    BY <1>3, <2>1, <2>2, <2>3, ArenaNodes
  <2>5. \A k \in 1..Degree(s, a) : x[k] = h[y[k]]
    BY <1>4, <2>3 DEF Kid
  <2>6. x = [k \in 1..Degree(s, a) |-> x[k]]
    BY <2>4
  <2>7. x = [k \in 1..Degree(s, a) |-> h[y[k]]]
    BY <2>5, <2>6
  <2> QED
    BY <2>1, <2>3, <2>4, <2>7 DEF Local
<1>6. DOMAIN input.types = 1..Len(s)
  BY <1>1, <1>3 DEF IsArena
<1> QED
  BY <1>1, <1>2, <1>5, <1>6 DEF StandsForItsNodes

\* canonicalize_contract_with_budget: a canonical node stands for each of its
\* input nodes, and no two canonical nodes mean the same type, whatever the
\* contract.
THEOREM OneNodeForEachType == Spec => []OneNodeEachType
<1>1. CanonicalInv => OneNodeEachType
  <2> SUFFICES ASSUME CanonicalInv, Done
               PROVE  StandsForItsNodes
                      /\ \A pair \in MeanTheSame(result.types) : pair[1] = pair[2]
    BY DEF OneNodeEachType
  <2>1. Canonical(input, classes, result) /\ Stands(input, result, oldToNew)
        /\ IsContract(result) /\ IsContract(input)
    BY DoneIs DEF CanonicalInv
  <2>2. StandsForItsNodes
    BY <2>1, StandingIs
  <2> QED
    BY <2>1, <2>2, OneNodeEach
<1> QED
  BY <1>1, CanonicalAlways, PTL

\* However a contract is written, canonicalization makes the same contract of
\* it, with the same identities; one that keeps only the actor has the same
\* interface identity.
THEOREM MeaningDecides == Spec => []SameMeaningSameResult
<1>1. CanonicalInv => SameMeaningSameResult
  <2> SUFFICES ASSUME CanonicalInv, Done
               PROVE  /\ first.keeps = "all" =>
                            result = first.result /\ identities = first.identities
                      /\ first.keeps = "actor" =>
                            identities.interface = first.identities.interface
    BY DEF SameMeaningSameResult
  <2>1. PICK R, I, c : R = result /\ I = input /\ c = classes
    OBVIOUS
  <2>2. PICK F : F = first.result
    OBVIOUS
  <2>3. Canonical(I, c, R) /\ identities = IdentitiesOf(R)
    BY <2>1, DoneIs
  <2>4. CASE first.keeps = "all"
    <3>1. PICK C, d, B : Canonical(C, d, F) /\ Alike(C, I, B)
      BY <2>1, <2>2, <2>4 DEF CanonicalInv, FirstInv
    <3>2. F = R
      BY <2>3, <3>1, AlikeSame
    <3>3. first.identities = IdentitiesOf(F)
      BY <2>2, <2>4 DEF CanonicalInv, FirstInv
    <3> QED
      BY <2>1, <2>2, <2>3, <2>4, <3>2, <3>3
  <2>5. CASE first.keeps = "actor"
    <3>1. PICK C, d, B : Canonical(C, d, F) /\ SharesActor(C, I, B)
      BY <2>1, <2>2, <2>5 DEF CanonicalInv, FirstInv
    <3>2. InterfacePayload(F) = InterfacePayload(R)
      BY <2>3, <3>1, InterfaceSame
    <3>3. C.actor # NoActor /\ I.actor # NoActor
      BY <3>1 DEF SharesActor
    <3>4. F.actor # NoActor /\ R.actor # NoActor
      <4>1. F.actor # NoActor
        <5>1. IsContract(C) /\ IsContract(F) /\ \E h : Stands(C, F, h)
          BY <3>1, CanonicalIs DEF Canonical
        <5> QED
          BY <3>3, <5>1, NoActorStays
      <4>2. R.actor # NoActor
        <5>1. IsContract(I) /\ IsContract(R) /\ \E h : Stands(I, R, h)
          BY <2>3, CanonicalIs DEF Canonical
        <5> QED
          BY <3>3, <5>1, NoActorStays
      <4> QED
        BY <4>1, <4>2
    <3>5. first.identities = IdentitiesOf(F)
      BY <2>2, <2>5 DEF CanonicalInv, FirstInv
    <3>6. \A X : X.actor # NoActor => IdentitiesOf(X).interface = InterfacePayload(X)
      BY DEF IdentitiesOf
    <3> QED
      BY <2>3, <2>5, <3>2, <3>4, <3>5, <3>6
  <2> QED
    BY <2>4, <2>5
<1> QED
  BY <1>1, CanonicalAlways, PTL

-----------------------------------------------------------------------------
\* The rounds are those of partition refinement.

LEMMA GraphIs ==
    ASSUME IsContract(input)
    PROVE  /\ Partition!IsGraph(Graph)
           /\ DOMAIN Graph.label = 1..Len(input.types)
           /\ \A a \in 1..Len(input.types) :
                 /\ Graph.label[a] = Local(input.types, a)
                 /\ Len(Graph.kids[a]) = Degree(input.types, a)
                 /\ \A k \in 1..Degree(input.types, a) :
                       Graph.kids[a][k] = Kid(input.types, a, k)
<1>1. PICK s : s = input.types
  OBVIOUS
<1>2. IsArena(s)
  BY <1>1, ContractIs
<1>3. PICK n : n = Len(s)
  OBVIOUS
<1>4. DOMAIN s = 1..n
  BY <1>2, <1>3 DEF IsArena
<1>5. PICK g : g = Graph
  OBVIOUS
<1>6. /\ DOMAIN g.label = 1..n /\ DOMAIN g.kids = 1..n
      /\ \A a \in 1..n : g.label[a] = LocalSignature(s[a]) /\ g.kids[a] = SortedChildren(s[a])
  BY <1>1, <1>4, <1>5 DEF Graph
<1>7. \A a \in 1..n : /\ SortedChildren(s[a]) \in Seq(1..n)
                      /\ Len(SortedChildren(s[a])) = Degree(s, a)
  BY <1>2, <1>3, ArenaNodes
<1>8. \A a \in 1..n : /\ g.label[a] = Local(s, a)
                      /\ g.kids[a] \in Seq(1..n) /\ Len(g.kids[a]) = Degree(s, a)
                      /\ \A k : g.kids[a][k] = Kid(s, a, k)
  BY <1>6, <1>7 DEF Local, Kid
<1>9. Partition!IsGraph(g)
  BY <1>6, <1>8 DEF Partition!IsGraph
<1> QED
  BY <1>1, <1>3, <1>5, <1>6, <1>8, <1>9

LEMMA GraphFits ==
    ASSUME NEW s, IsArena(s), NEW g,
           g = [label |-> [n \in DOMAIN s |-> LocalSignature(s[n])],
                kids |-> [n \in DOMAIN s |-> SortedChildren(s[n])]]
    PROVE  Partition!IsGraph(g)
<1>1. \A a \in DOMAIN s : SortedChildren(s[a]) \in Seq(DOMAIN s)
  BY ArenaNodes DEF IsArena
<1>2. DOMAIN g.label = DOMAIN s /\ DOMAIN g.kids = DOMAIN s
      /\ \A a \in DOMAIN s : g.kids[a] = SortedChildren(s[a])
  OBVIOUS
<1> QED
  BY <1>1, <1>2 DEF Partition!IsGraph

LEMMA SameGraph ==
    ASSUME input' = input
    PROVE  Graph' = Graph
  BY DEF Graph

\* A refusal refuses the refinement; later ones refuse a caller who has only
\* the classes.
LEMMA RefuseRefuses ==
    ASSUME CanonicalInv, NEW amount, Refuse(amount), pc # "stopped"
    PROVE  Partition!Refuse
<1>1. PICK code \in {"operation_interrupted", "canonicalization_work"} : Fail(code)
  BY RefuseFails
<1>2. pc' = "stopped" /\ outcome' = code /\ UNCHANGED <<input, classes>>
  BY <1>1 DEF Fail
<1>3. Graph' = Graph
  BY <1>2, SameGraph
<1>4. Phase' = "refused"
  BY <1>2 DEF Phase, Done
<1>5. Phase \in {"start", "refining", "stopped"}
  BY DEF CanonicalInv, PhaseInv, Phase, Done
<1> QED
  BY <1>2, <1>3, <1>4, <1>5 DEF Partition!Refuse

LEMMA FirstPartitionAssigns ==
    ASSUME CanonicalInv, FirstPartition
    PROVE  Partition!Assign \/ Partition!Refuse
<1>1. CASE Refuse(RoundWork(input.types))
  BY <1>1, RefuseRefuses DEF FirstPartition
<1>2. CASE /\ Charge(RoundWork(input.types), "refine")
           /\ classes' = FirstClasses(input.types)
           /\ UNCHANGED <<input, quotient, result, oldToNew, identities>>
  <2>1. PICK s, g : s = input.types /\ g = Graph
    OBVIOUS
  <2>2. PICK n : n = Len(s)
    OBVIOUS
  <2>3. IsArena(s)
    BY <2>1, ContractIs DEF CanonicalInv
  <2>4. /\ Partition!IsGraph(g) /\ DOMAIN g.label = 1..n
        /\ \A a \in 1..n : g.label[a] = Local(s, a)
    BY <2>1, <2>2, GraphIs DEF CanonicalInv
  <2>5. PICK new : new = FirstClasses(s)
    OBVIOUS
  <2>6. /\ \E k \in Nat : Numbers(new, n, k)
        /\ \A a, b \in 1..n : new[a] = new[b] <=> Local(s, a) = Local(s, b)
    BY <2>2, <2>3, <2>5, FirstClassesAre
  <2>7. new \in [1..n -> Nat]
    BY <2>6 DEF Numbers
  <2>8. classes' = new /\ Graph' = g
    BY <1>2, <2>1, <2>5, SameGraph
  <2>9. Phase = "start" /\ Phase' = "refining"
    BY <1>2 DEF Phase, FirstPartition, Charge
  <2>10. Partition!Assign
    BY <2>1, <2>4, <2>6, <2>7, <2>8, <2>9
       DEF Partition!Assign, Partition!Node, Partition!SameLocal
  <2> QED
    BY <2>10
<1> QED
  BY <1>1, <1>2 DEF FirstPartition, FirstClasses

LEMMA RefineRoundRefines ==
    ASSUME CanonicalInv, RefineRound
    PROVE  Partition!Refine \/ Partition!Refuse
<1> DEFINE amount == RoundWork(input.types)
           next == NextClasses(input.types, classes)
<1>1. CASE Refuse(amount)
  BY <1>1, RefuseRefuses DEF RefineRound
<1>2. CASE /\ Charge(amount, IF PartitionWasSplit(classes, next) THEN "refine" ELSE "quotient")
           /\ classes' = next
           /\ UNCHANGED <<input, quotient, result, oldToNew, identities>>
  <2>1. PICK s, g, c : s = input.types /\ g = Graph /\ c = classes
    OBVIOUS
  <2>2. PICK n : n = Len(s)
    OBVIOUS
  <2>3. IsArena(s) /\ Reached(s, c)
    BY <2>1, ContractIs DEF CanonicalInv, RoundsInv, RefineRound
  <2>4. /\ Partition!IsGraph(g) /\ DOMAIN g.label = 1..n
        /\ \A a \in 1..n : /\ g.label[a] = Local(s, a)
                           /\ Len(g.kids[a]) = Degree(s, a)
                           /\ \A k \in 1..Degree(s, a) : g.kids[a][k] = Kid(s, a, k)
    BY <2>1, <2>2, GraphIs DEF CanonicalInv
  <2>5. PICK k \in Nat : Numbers(c, n, k)
    BY <2>2, <2>3, ReachedNumbers DEF Numbered
  <2>6. PICK new : new = NextClasses(s, c)
    OBVIOUS
  <2>7. c \in [1..n -> 1..k]
    BY <2>5 DEF Numbers
  <2>8. /\ \E m \in Nat : Numbers(new, n, m)
        /\ \A a, b \in 1..n : new[a] = new[b] <=> c[a] = c[b] /\ SameByKids(s, a, c, s, b, c)
    BY <2>2, <2>3, <2>6, <2>7, NextClassesAre
  <2>9. new \in [1..n -> Nat]
    BY <2>8 DEF Numbers
  <2>10. classes' = new /\ Graph' = g
    BY <1>2, <2>1, <2>6, SameGraph
  <2>11. Phase = "refining"
    BY DEF Phase, RefineRound
  <2>12. PartitionWasSplit(c, new) <=> \E a, b \in 1..n : c[a] = c[b] /\ new[a] # new[b]
    BY <2>7 DEF PartitionWasSplit
  <2>13. Phase' = IF PartitionWasSplit(c, new) THEN "refining" ELSE "stopped"
    <3>1. next = new /\ outcome' = outcome /\ outcome = "running"
      BY <1>2, <2>1, <2>6 DEF Charge, RefineRound, CanonicalInv, PhaseInv
    <3>2. pc' = IF PartitionWasSplit(c, new) THEN "refine" ELSE "quotient"
      BY <1>2, <2>1, <3>1 DEF Charge
    <3> QED
      BY <3>1, <3>2 DEF Phase, Done
  <2>14. ASSUME NEW a \in 1..n, NEW b \in 1..n
         PROVE  SameByKids(s, a, c, s, b, c) <=>
                   /\ g.label[a] = g.label[b]
                   /\ Len(g.kids[a]) = Len(g.kids[b])
                   /\ \A i \in 1..Len(g.kids[a]) : c[g.kids[a][i]] = c[g.kids[b][i]]
    <3>1. Local(s, a) = Local(s, b) => Degree(s, a) = Degree(s, b)
      BY <2>2, <2>3, LocalTellsDegree
    <3> QED
      BY <2>4, <3>1 DEF SameByKids
  <2>15. Partition!Refine
    <3>1. \A a, b \in 1..n : new[a] = new[b] <=>
             /\ g.label[a] = g.label[b]
             /\ c[a] = c[b]
             /\ Len(g.kids[a]) = Len(g.kids[b])
             /\ \A i \in 1..Len(g.kids[a]) : c[g.kids[a][i]] = c[g.kids[b][i]]
      BY <2>8, <2>14
    <3>2. Partition!Node = 1..n
      BY <2>1, <2>4 DEF Partition!Node
    <3>3. \A a, b \in 1..n : Partition!SameRefined(a, b) <=> new[a] = new[b]
      BY <2>1, <3>1 DEF Partition!SameRefined, Partition!SameLocal
    <3>4. Partition!Split(new) <=> PartitionWasSplit(c, new)
      BY <2>1, <2>12, <3>2 DEF Partition!Split
    <3> QED
      BY <2>1, <2>9, <2>10, <2>11, <2>13, <3>2, <3>3, <3>4 DEF Partition!Refine
  <2> QED
    BY <2>15
<1> QED
  BY <1>1, <1>2 DEF RefineRound, NextClasses

\* What follows the rounds leaves their result alone.
LEMMA LaterStutters ==
    ASSUME CanonicalInv, TakeQuotient \/ Reindex \/ HashContract \/ HashInterface \/ Finish
    PROVE  Partition!Refuse \/ UNCHANGED Partition!vars
<1>1. pc \in {"quotient", "index", "contract_id", "interface_id", "finish"}
  BY DEF TakeQuotient, Reindex, HashContract, HashInterface, Finish
<1>2. CASE \E amount : Refuse(amount)
  BY <1>1, <1>2, RefuseRefuses
<1>3. CASE ~\E amount : Refuse(amount)
  <2>1. /\ UNCHANGED <<input, classes>>
        /\ pc' \in {"index", "contract_id", "interface_id", "finish", "stopped"}
        /\ pc' = "stopped" => outcome' = "done"
    BY <1>3 DEF TakeQuotient, Reindex, HashContract, HashInterface, Finish, Charge
  <2>2. Graph' = Graph
    BY <2>1, SameGraph
  <2>3. outcome = "running"
    BY <1>1 DEF CanonicalInv, PhaseInv
  <2>4. Phase = "stopped" /\ Phase' = "stopped"
    BY <1>1, <2>1, <2>3 DEF Phase, Done
  <2> QED
    BY <2>1, <2>2, <2>4 DEF Partition!vars
<1> QED
  BY <1>2, <1>3

LEMMA RewriteRestarts ==
    ASSUME CanonicalInv, CanonicalInv', RewriteAll \/ RewriteActor
    PROVE  Partition!Restart
<1>1. /\ pc = "stopped" /\ pc' = "start" /\ classes' = << >>
  BY DEF RewriteAll, RewriteActor, FirstReturned, Again, Restarted
<1>2. Phase \in {"stopped", "refused"} /\ Phase' = "start"
  BY <1>1 DEF Phase
<1>3. IsContract(input)'
  BY DEF CanonicalInv
<1>4. Partition!IsGraph(Graph')
  <2>1. PICK C : C = input'
    OBVIOUS
  <2>2. PICK s, g : s = C.types /\ g = Graph'
    OBVIOUS
  <2>3. IsArena(s)
    BY <1>3, <2>1, <2>2, ContractIs
  <2>4. g = [label |-> [n \in DOMAIN s |-> LocalSignature(s[n])],
             kids |-> [n \in DOMAIN s |-> SortedChildren(s[n])]]
    BY <2>1, <2>2 DEF Graph
  <2>5. Partition!IsGraph(g)
    BY <2>3, <2>4, GraphFits
  <2> QED
    BY <2>2, <2>5
<1> QED
  BY <1>1, <1>2, <1>4 DEF Partition!Restart

\* The rounds of canonicalization are a partition refinement, for every
\* contract: so they end with two nodes in one class exactly when some
\* bisimulation relates them.
THEOREM RoundsRefine == Spec => RefinesPartition
<1>1. Init => Partition!Init
  <2> SUFFICES ASSUME Init PROVE Partition!Init
    OBVIOUS
  <2>1. IsContract(input)
    BY CanonicalStarts DEF CanonicalInv
  <2>2. Partition!IsGraph(Graph)
    BY <2>1, GraphIs
  <2>3. classes = << >> /\ Phase = "start"
    BY DEF Init, Phase
  <2> QED
    BY <2>2, <2>3 DEF Partition!Init
<1>2. CanonicalInv /\ CanonicalInv' /\ [Next]_vars => [Partition!Next]_(Partition!vars)
  <2> SUFFICES ASSUME CanonicalInv, CanonicalInv', [Next]_vars
               PROVE  Partition!Next \/ UNCHANGED Partition!vars
    OBVIOUS
  <2>1. CASE FirstPartition
    BY <2>1, FirstPartitionAssigns DEF Partition!Next
  <2>2. CASE RefineRound
    BY <2>2, RefineRoundRefines DEF Partition!Next
  <2>3. CASE TakeQuotient \/ Reindex \/ HashContract \/ HashInterface \/ Finish
    BY <2>3, LaterStutters DEF Partition!Next
  <2>4. CASE Interrupt \/ UNCHANGED vars
    <3>1. UNCHANGED <<input, classes, pc, outcome>>
      BY <2>4 DEF Interrupt, vars
    <3>2. Graph' = Graph /\ Phase' = Phase
      BY <3>1, SameGraph DEF Phase, Done
    <3> QED
      BY <3>1, <3>2 DEF Partition!vars
  <2>5. CASE RewriteAll \/ RewriteActor
    BY <2>5, RewriteRestarts DEF Partition!Next
  <2> QED
    BY <2>1, <2>2, <2>3, <2>4, <2>5 DEF Next
<1> QED
  BY <1>1, <1>2, CanonicalAlways, PTL DEF Spec, RefinesPartition, Partition!Spec

-----------------------------------------------------------------------------
\* What abstract refinement stops at, here with the code's graph, classes and phase.

LEMMA PartitionTypes == RefinesPartition => []Partition!TypeOK
<1>1. Partition!Init => Partition!TypeOK
  BY DEF Partition!Init, Partition!TypeOK
<1>2. Partition!TypeOK /\ [Partition!Next]_(Partition!vars) => Partition!TypeOK'
  <2> SUFFICES ASSUME Partition!TypeOK, [Partition!Next]_(Partition!vars)
               PROVE  Partition!TypeOK'
    OBVIOUS
  <2>1. CASE Partition!Assign \/ Partition!Refine
    BY <2>1 DEF Partition!TypeOK, Partition!IsGraph, Partition!Assign, Partition!Refine,
                Partition!Node
  <2>2. CASE Partition!Refuse \/ Partition!Restart \/ UNCHANGED Partition!vars
    BY <2>2 DEF Partition!TypeOK, Partition!IsGraph, Partition!Refuse, Partition!Restart,
                Partition!vars, Partition!Node
  <2> QED
    BY <2>1, <2>2 DEF Partition!Next
<1> QED
  BY <1>1, <1>2, PTL DEF RefinesPartition, Partition!Spec

LEMMA KidsAreNodes ==
    ASSUME Partition!TypeOK, NEW a \in Partition!Node, NEW i \in 1..Len(Graph.kids[a])
    PROVE  Graph.kids[a][i] \in Partition!Node
<1>1. Graph.kids[a] \in Seq(Partition!Node)
  BY DEF Partition!TypeOK, Partition!IsGraph, Partition!Node
<1> QED
  BY <1>1

\* No bisimulation is ever cut.
LEMMA PartitionKeepsTogether == RefinesPartition => []Partition!NeverSeparates
<1> DEFINE Node == Partition!Node
<1>1. Partition!Init => Partition!NeverSeparates
  BY DEF Partition!Init, Partition!NeverSeparates
<1>2. /\ Partition!TypeOK /\ Partition!NeverSeparates
      /\ [Partition!Next]_(Partition!vars)
      => Partition!NeverSeparates'
  <2> SUFFICES ASSUME Partition!TypeOK, Partition!NeverSeparates,
                      [Partition!Next]_(Partition!vars)
               PROVE  Partition!NeverSeparates'
    OBVIOUS
  <2>1. CASE Partition!Assign
    <3> SUFFICES ASSUME NEW R \in SUBSET (Node \X Node), Partition!Bisimulation(R),
                        NEW a \in Node, NEW b \in Node, <<a, b>> \in R
                 PROVE  classes'[a] = classes'[b]
      BY <2>1 DEF Partition!Assign, Partition!NeverSeparates, Partition!Bisimulation,
                  Partition!SameClass, Partition!Node, Partition!SameLocal
    <3> QED
      BY <2>1 DEF Partition!Assign, Partition!Bisimulation
  <2>2. CASE Partition!Refine
    <3>1. Graph' = Graph
      BY <2>2 DEF Partition!Refine
    <3>2. \A R : Partition!Bisimulation(R)' <=> Partition!Bisimulation(R)
      BY <3>1 DEF Partition!Bisimulation, Partition!Node, Partition!SameLocal
    <3>3. /\ Partition!Node' = Node
          /\ Partition!SameClass' = {p \in Node \X Node : classes'[p[1]] = classes'[p[2]]}
      BY <3>1 DEF Partition!SameClass, Partition!Node
    <3> SUFFICES ASSUME NEW R \in SUBSET (Node \X Node), Partition!Bisimulation(R),
                        NEW a \in Node, NEW b \in Node, <<a, b>> \in R
                 PROVE  classes'[a] = classes'[b]
      BY <3>2, <3>3 DEF Partition!NeverSeparates
    <3>4. \A x, y \in Node : <<x, y>> \in R => classes[x] = classes[y]
      BY <2>2 DEF Partition!Refine, Partition!NeverSeparates, Partition!SameClass
    <3>5. Partition!SameRefined(a, b)
      <4>1. /\ Partition!SameLocal(a, b) /\ Len(Graph.kids[a]) = Len(Graph.kids[b])
            /\ \A i \in 1..Len(Graph.kids[a]) :
                  <<Graph.kids[a][i], Graph.kids[b][i]>> \in R
        BY DEF Partition!Bisimulation
      <4>2. \A i \in 1..Len(Graph.kids[a]) :
              Graph.kids[a][i] \in Node /\ Graph.kids[b][i] \in Node
        BY <4>1, KidsAreNodes
      <4> QED
        BY <3>4, <4>1, <4>2 DEF Partition!SameRefined
    <3> QED
      BY <2>2, <3>5 DEF Partition!Refine
  <2>3. CASE Partition!Refuse \/ Partition!Restart
    BY <2>3 DEF Partition!Refuse, Partition!Restart, Partition!NeverSeparates
  <2>4. CASE UNCHANGED Partition!vars
    BY <2>4 DEF Partition!vars, Partition!NeverSeparates, Partition!Bisimulation,
                Partition!SameClass, Partition!Node, Partition!SameLocal
  <2> QED
    BY <2>1, <2>2, <2>3, <2>4 DEF Partition!Next
<1> QED
  BY <1>1, <1>2, PartitionTypes, PTL DEF RefinesPartition, Partition!Spec

LEMMA PartitionStops == RefinesPartition => []Partition!StopsAtBisimulation
<1> DEFINE Node == Partition!Node
<1>1. Partition!Init => Partition!StopsAtBisimulation
  BY DEF Partition!Init, Partition!StopsAtBisimulation
<1>2. /\ Partition!TypeOK /\ Partition!StopsAtBisimulation
      /\ [Partition!Next]_(Partition!vars)
      => Partition!StopsAtBisimulation'
  <2> SUFFICES ASSUME Partition!TypeOK, Partition!StopsAtBisimulation,
                      [Partition!Next]_(Partition!vars)
               PROVE  Partition!StopsAtBisimulation'
    OBVIOUS
  <2>1. CASE Partition!Refine
    <3> DEFINE Together == {p \in Node \X Node : classes'[p[1]] = classes'[p[2]]}
    <3>1. Graph' = Graph
      BY <2>1 DEF Partition!Refine
    <3>2. Partition!SameClass' = Together
      BY <3>1 DEF Partition!SameClass, Partition!Node
    <3>3. (Partition!Bisimulation(Partition!SameClass))' <=> Partition!Bisimulation(Together)
      BY <3>1, <3>2 DEF Partition!Bisimulation, Partition!Node, Partition!SameLocal
    <3> SUFFICES ASSUME ~Partition!Split(classes'),
                        NEW a \in Node, NEW b \in Node, classes'[a] = classes'[b]
                 PROVE  /\ Partition!SameLocal(a, b)
                        /\ Len(Graph.kids[a]) = Len(Graph.kids[b])
                        /\ \A i \in 1..Len(Graph.kids[a]) :
                              /\ Graph.kids[a][i] \in Node /\ Graph.kids[b][i] \in Node
                              /\ classes'[Graph.kids[a][i]] = classes'[Graph.kids[b][i]]
      BY <2>1, <3>3 DEF Partition!Refine, Partition!StopsAtBisimulation,
                        Partition!Bisimulation
    <3>4. Partition!SameRefined(a, b)
      BY <2>1 DEF Partition!Refine
    <3>5. \A i \in 1..Len(Graph.kids[a]) :
            Graph.kids[a][i] \in Node /\ Graph.kids[b][i] \in Node
      BY <3>4, KidsAreNodes DEF Partition!SameRefined
    <3>6. \A x, y \in Node : classes[x] = classes[y] => classes'[x] = classes'[y]
      BY DEF Partition!Split
    <3> QED
      BY <3>4, <3>5, <3>6 DEF Partition!SameRefined
  <2>2. CASE Partition!Assign \/ Partition!Refuse \/ Partition!Restart
    BY <2>2 DEF Partition!Assign, Partition!Refuse, Partition!Restart,
                Partition!StopsAtBisimulation
  <2>3. CASE UNCHANGED Partition!vars
    BY <2>3 DEF Partition!vars, Partition!StopsAtBisimulation, Partition!Bisimulation,
                Partition!SameClass, Partition!Node, Partition!SameLocal
  <2> QED
    BY <2>1, <2>2, <2>3 DEF Partition!Next
<1> QED
  BY <1>1, <1>2, PartitionTypes, PTL DEF RefinesPartition, Partition!Spec

\* No round of canonicalization separates two nodes that some bisimulation relates:
\* types equal up to unfolding stay together (canonical.rs:57).
THEOREM BisimilarStayTogether == Spec => []Partition!NeverSeparates
BY RoundsRefine, PartitionKeepsTogether, PTL

\* When a round splits no class, the classes are a bisimulation: nodes of one class
\* can stand for each other in the quotient (canonical.rs, partition_was_split).
THEOREM StopsAtGreatest == Spec => []Partition!StopsAtBisimulation
BY RoundsRefine, PartitionStops, PTL

\* Once the rounds have ended, two nodes of a contract share a class exactly when some
\* bisimulation relates them: the quotient merges all the types that are equal, and only
\* those (canonical.rs, semantic_classes).
THEOREM ClassesAreExact == Spec => []Partition!ClassesAreTypes
<1> DEFINE Node == Partition!Node
<1>1. Partition!NeverSeparates /\ Partition!StopsAtBisimulation => Partition!ClassesAreTypes
  <2> SUFFICES ASSUME Partition!NeverSeparates, Partition!StopsAtBisimulation,
                      Phase = "stopped", NEW a \in Node, NEW b \in Node
               PROVE  classes[a] = classes[b] <=>
                        \E R \in SUBSET (Node \X Node) :
                           Partition!Bisimulation(R) /\ <<a, b>> \in R
    BY DEF Partition!ClassesAreTypes
  <2>1. classes[a] = classes[b] => <<a, b>> \in Partition!SameClass
    BY DEF Partition!SameClass
  <2>2. /\ Partition!SameClass \in SUBSET (Node \X Node)
        /\ Partition!Bisimulation(Partition!SameClass)
    BY DEF Partition!SameClass, Partition!StopsAtBisimulation
  <2>3. ASSUME NEW R \in SUBSET (Node \X Node), Partition!Bisimulation(R), <<a, b>> \in R
        PROVE  classes[a] = classes[b]
    BY <2>3 DEF Partition!NeverSeparates, Partition!SameClass
  <2> QED
    BY <2>1, <2>2, <2>3
<1> QED
  BY <1>1, BisimilarStayTogether, StopsAtGreatest, PTL

-----------------------------------------------------------------------------
\* Sums.

\* The total of the weights w over s, if it is that of any smaller set.
SumStep(w, it) ==
    [s \in SUBSET (DOMAIN w) |->
        IF s = {} THEN 0 ELSE w[CHOOSE x \in s : TRUE] + it[s \ {CHOOSE x \in s : TRUE}]]

LEMMA TotalIs ==
    ASSUME NEW w
    PROVE  Total(w) = (CHOOSE it : it = SumStep(w, it))[DOMAIN w]
  BY DEF Total, FoldFunction, FoldFunctionOnSet, MapThenFoldSet, SumStep

\* The same total with what is left and what was added, one step at a time.
Weighs(w, S) == DOMAIN w = S /\ IsFiniteSet(S) /\ \A x \in S : w[x] \in Nat
Rests(S) == (SUBSET S) \X Nat
NoRest(S) == {r \in Rests(S) : r[1] = {}}
AddedUp(S) == [r \in Rests(S) |-> r[2]]
AddOne(w, S) ==
    [r \in Rests(S) |-> <<r[1] \ {CHOOSE x \in r[1] : TRUE}, r[2] + w[CHOOSE x \in r[1] : TRUE]>>]
RestSize(S) == [r \in Rests(S) |-> Cardinality(r[1])]

LEMMA SubsetsFinite ==
    ASSUME NEW S, IsFiniteSet(S), NEW s \in SUBSET S
    PROVE  IsFiniteSet(s) /\ Cardinality(s) \in Nat
<1>1. IsFiniteSet(s)
  BY FS_Subset
<1> QED
  BY <1>1, FS_CardinalityType

LEMMA Chosen ==
    ASSUME NEW S, IsFiniteSet(S), NEW s \in SUBSET S, s # {}
    PROVE  LET x == CHOOSE y \in s : TRUE
           IN  /\ x \in s /\ x \in S /\ s \ {x} \in SUBSET S
               /\ Cardinality(s \ {x}) \in Nat /\ Cardinality(s \ {x}) < Cardinality(s)
<1>1. PICK x : x = CHOOSE y \in s : TRUE
  OBVIOUS
<1>2. x \in s /\ x \in S /\ s \ {x} \in SUBSET S
  BY <1>1
<1>3. IsFiniteSet(s) /\ Cardinality(s) \in Nat /\ Cardinality(s \ {x}) \in Nat
  BY <1>2, SubsetsFinite
<1>4. Cardinality(s \ {x}) = Cardinality(s) - 1
  BY <1>2, <1>3, FS_RemoveElement
<1> QED
  BY <1>1, <1>2, <1>3, <1>4

Dropped(S) == [s \in SUBSET S |-> s \ {CHOOSE x \in s : TRUE}]
Sizes(S) == [s \in SUBSET S |-> Cardinality(s)]

LEMMA SubsetsDescend ==
    ASSUME NEW S, IsFiniteSet(S)
    PROVE  Descends(SUBSET S, {{}}, Dropped(S), Sizes(S))
<1>1. Sizes(S) \in [SUBSET S -> Nat]
  BY SubsetsFinite DEF Sizes
<1>2. ASSUME NEW s \in SUBSET S, s \notin {{}}
      PROVE  Dropped(S)[s] \in SUBSET S /\ Sizes(S)[Dropped(S)[s]] < Sizes(S)[s]
  <2>1. PICK x : x = CHOOSE y \in s : TRUE
    OBVIOUS
  <2>2. s \ {x} \in SUBSET S /\ Cardinality(s \ {x}) < Cardinality(s)
    BY <1>2, <2>1, Chosen
  <2> QED
    BY <2>1, <2>2 DEF Dropped, Sizes
<1> QED
  BY <1>1, <1>2 DEF Descends

LEMMA RestsDescend ==
    ASSUME NEW w, NEW S, Weighs(w, S)
    PROVE  Descends(Rests(S), NoRest(S), AddOne(w, S), RestSize(S))
<1>1. RestSize(S) \in [Rests(S) -> Nat]
  BY SubsetsFinite DEF Rests, RestSize, Weighs
<1>2. ASSUME NEW r \in Rests(S), r \notin NoRest(S)
      PROVE  /\ AddOne(w, S)[r] \in Rests(S)
             /\ RestSize(S)[AddOne(w, S)[r]] < RestSize(S)[r]
  <2>1. PICK s, a : s = r[1] /\ a = r[2]
    OBVIOUS
  <2>2. s \in SUBSET S /\ a \in Nat /\ s # {}
    BY <1>2, <2>1 DEF Rests, NoRest
  <2>3. PICK x : x = CHOOSE y \in s : TRUE
    OBVIOUS
  <2>4. x \in S /\ s \ {x} \in SUBSET S /\ Cardinality(s \ {x}) < Cardinality(s)
    BY <2>2, <2>3, Chosen DEF Weighs
  <2>5. w[x] \in Nat
    BY <2>4 DEF Weighs
  <2>6. AddOne(w, S)[r] = <<s \ {x}, a + w[x]>>
    BY <2>1, <2>3 DEF AddOne
  <2>7. <<s \ {x}, a + w[x]>> \in Rests(S)
    BY <2>2, <2>4, <2>5 DEF Rests
  <2> QED
    BY <2>1, <2>4, <2>6, <2>7 DEF RestSize
<1> QED
  BY <1>1, <1>2 DEF Descends

\* What the sum of a set is when it is that of the set without one element and
\* that element.
Sums(w, S, it) ==
    /\ it \in [SUBSET S -> Nat]
    /\ it[{}] = 0
    /\ \A s \in SUBSET S : s # {} =>
          it[s] = w[CHOOSE x \in s : TRUE] + it[s \ {CHOOSE x \in s : TRUE}]

LEMMA SumsIs ==
    ASSUME NEW w, NEW S, Weighs(w, S), NEW it
    PROVE  it \in [SUBSET S -> Nat] => (it = SumStep(w, it) <=> Sums(w, S, it))
<1> SUFFICES ASSUME it \in [SUBSET S -> Nat]
             PROVE  it = SumStep(w, it) <=> Sums(w, S, it)
  OBVIOUS
<1>1. DOMAIN w = S
  BY DEF Weighs
<1>2. PICK g : g = SumStep(w, it)
  OBVIOUS
<1>3. /\ g = [s \in SUBSET S |-> g[s]]
      /\ \A s \in SUBSET S :
            g[s] = IF s = {} THEN 0
                   ELSE w[CHOOSE x \in s : TRUE] + it[s \ {CHOOSE x \in s : TRUE}]
  BY <1>1, <1>2 DEF SumStep
<1>4. {} \in SUBSET S
  OBVIOUS
<1>5. it = g => Sums(w, S, it)
  BY <1>3, <1>4 DEF Sums
<1>6. Sums(w, S, it) => it = g
  <2> SUFFICES ASSUME Sums(w, S, it) PROVE it = g
    OBVIOUS
  <2>1. \A s \in SUBSET S : it[s] = g[s]
    BY <1>3 DEF Sums
  <2>2. it = [s \in SUBSET S |-> it[s]]
    OBVIOUS
  <2> QED
    BY <1>3, <2>1, <2>2
<1> QED
  BY <1>2, <1>5, <1>6

LEMMA SumExists ==
    ASSUME NEW w, NEW S, Weighs(w, S)
    PROVE  \E it : Sums(w, S, it)
<1>1. Descends(Rests(S), NoRest(S), AddOne(w, S), RestSize(S))
  BY RestsDescend
<1>2. PICK f : Solves(f, Rests(S), NoRest(S), AddedUp(S), AddOne(w, S))
  BY <1>1, SolutionExists
<1>3. ASSUME NEW s \in SUBSET S, NEW a \in Nat
      PROVE  /\ <<s, a>> \in Rests(S)
             /\ s = {} => f[<<s, a>>] = a
             /\ s # {} => f[<<s, a>>] = f[<<s \ {CHOOSE x \in s : TRUE},
                                            a + w[CHOOSE x \in s : TRUE]>>]
  <2>1. PICK r : r = <<s, a>>
    OBVIOUS
  <2>2. r \in Rests(S) /\ r[1] = s /\ r[2] = a
    BY <2>1 DEF Rests
  <2>3. f[r] = IF r \in NoRest(S) THEN AddedUp(S)[r] ELSE f[AddOne(w, S)[r]]
    BY <1>2, <2>2 DEF Solves
  <2>4. r \in NoRest(S) <=> s = {}
    BY <2>2 DEF NoRest
  <2>5. AddedUp(S)[r] = a
    BY <2>2 DEF AddedUp
  <2>6. AddOne(w, S)[r] = <<s \ {CHOOSE x \in s : TRUE}, a + w[CHOOSE x \in s : TRUE]>>
    BY <2>2 DEF AddOne
  <2> QED
    BY <2>1, <2>2, <2>3, <2>4, <2>5, <2>6
<1> DEFINE Q == {s \in SUBSET S : /\ f[<<s, 0>>] \in Nat
                                  /\ \A a \in Nat : f[<<s, a>>] = a + f[<<s, 0>>]}
<1>4. ASSUME NEW s \in SUBSET S, s # {}, s \ {CHOOSE x \in s : TRUE} \in Q
      PROVE  s \in Q
  <2>1. PICK x : x = CHOOSE y \in s : TRUE
    OBVIOUS
  <2>2. PICK t : t = s \ {x}
    OBVIOUS
  <2>3. t \in Q /\ t \in SUBSET S /\ w[x] \in Nat
    BY <1>4, <2>1, <2>2, Chosen DEF Weighs
  <2>4. \A a \in Nat : f[<<s, a>>] = f[<<t, a + w[x]>>]
    BY <1>3, <1>4, <2>1, <2>2
  <2>5. PICK z \in Nat : z = f[<<t, 0>>]
    BY <2>3
  <2>6. \A a \in Nat : f[<<t, a + w[x]>>] = a + w[x] + z
    BY <2>3, <2>5
  <2>7. \A a \in Nat : f[<<s, a>>] = a + w[x] + z
    BY <2>4, <2>6
  <2>8. f[<<s, 0>>] = w[x] + z
    BY <2>3, <2>5, <2>7
  <2> QED
    BY <2>3, <2>5, <2>7, <2>8
<1>5. {} \in Q
  <2>1. {} \in SUBSET S /\ 0 \in Nat
    OBVIOUS
  <2>2. \A a \in Nat : f[<<{}, a>>] = a
    BY <1>3, <2>1
  <2>3. f[<<{}, 0>>] = 0
    BY <2>1, <2>2
  <2> QED
    BY <2>1, <2>2, <2>3
<1>6. SUBSET S \subseteq Q
  <2>1. Descends(SUBSET S, {{}}, Dropped(S), Sizes(S))
    BY SubsetsDescend DEF Weighs
  <2>2. \A s \in SUBSET S : s \notin {{}} /\ Dropped(S)[s] \in Q => s \in Q
    <3> HIDE DEF Q
    <3> QED
      BY <1>4 DEF Dropped
  <2>3. (SUBSET S) \cap {{}} \subseteq Q
    <3> HIDE DEF Q
    <3> QED
      BY <1>5
  <2> HIDE DEF Q
  <2> QED
    BY <2>1, <2>2, <2>3, DescentCovers
<1> DEFINE it == [s \in SUBSET S |-> f[<<s, 0>>]]
<1>7. it \in [SUBSET S -> Nat] /\ it[{}] = 0
  BY <1>3, <1>6
<1>8. ASSUME NEW s \in SUBSET S, s # {}
      PROVE  it[s] = w[CHOOSE x \in s : TRUE] + it[s \ {CHOOSE x \in s : TRUE}]
  <2>1. PICK x : x = CHOOSE y \in s : TRUE
    OBVIOUS
  <2>2. PICK t : t = s \ {x}
    OBVIOUS
  <2>3. t \in SUBSET S /\ w[x] \in Nat
    BY <1>8, <2>1, <2>2, Chosen DEF Weighs
  <2>4. f[<<s, 0>>] = f[<<t, 0 + w[x]>>]
    BY <1>3, <1>8, <2>1, <2>2
  <2>5. f[<<t, w[x]>>] = w[x] + f[<<t, 0>>]
    BY <1>6, <2>3
  <2>6. 0 + w[x] = w[x]
    BY <2>3
  <2> QED
    BY <2>1, <2>2, <2>3, <2>4, <2>5, <2>6
<1>9. Sums(w, S, it)
  <2> HIDE DEF it
  <2> QED
    BY <1>7, <1>8 DEF Sums
<1> QED
  BY <1>9

LEMMA TotalSums ==
    ASSUME NEW w, NEW S, Weighs(w, S)
    PROVE  \E it : Sums(w, S, it) /\ Total(w) = it[S]
<1>1. PICK it : it = CHOOSE i : i = SumStep(w, i)
  OBVIOUS
<1>2. PICK j : Sums(w, S, j)
  BY SumExists
<1>3. j = SumStep(w, j)
  <2>1. j \in [SUBSET S -> Nat]
    BY <1>2 DEF Sums
  <2>2. j = SumStep(w, j) <=> Sums(w, S, j)
    BY <2>1, SumsIs
  <2> QED
    BY <1>2, <2>2
<1>4. it = SumStep(w, it)
  BY <1>1, <1>3
<1>5. \A s \in SUBSET S :
         it[s] = IF s = {} THEN 0
                 ELSE w[CHOOSE x \in s : TRUE] + it[s \ {CHOOSE x \in s : TRUE}]
  BY <1>4 DEF SumStep, Weighs
<1>6. DOMAIN it = SUBSET S /\ it = [s \in SUBSET S |-> it[s]]
  BY <1>4 DEF SumStep, Weighs
<1>7. Total(w) = it[S]
  BY <1>1, TotalIs DEF Weighs
<1> DEFINE P == {s \in SUBSET S : it[s] \in Nat}
<1>8. Descends(SUBSET S, {{}}, Dropped(S), Sizes(S))
  BY SubsetsDescend DEF Weighs
<1>9. ASSUME NEW s \in SUBSET S, s \notin {{}}, Dropped(S)[s] \in P PROVE s \in P
  <2>1. PICK x : x = CHOOSE y \in s : TRUE
    OBVIOUS
  <2>2. w[x] \in Nat
    BY <1>9, <2>1, Chosen DEF Weighs
  <2>3. it[s \ {x}] \in Nat
    BY <1>9, <2>1 DEF Dropped
  <2>4. it[s] = w[x] + it[s \ {x}]
    BY <1>5, <1>9, <2>1
  <2> QED
    BY <2>2, <2>3, <2>4
<1>10. (SUBSET S) \cap {{}} \subseteq P
  <2>1. {} \in SUBSET S
    OBVIOUS
  <2>2. it[{}] = 0
    BY <1>5, <2>1
  <2> QED
    BY <2>1, <2>2
<1>11. SUBSET S \subseteq P
  <2> HIDE DEF P
  <2> QED
    BY <1>8, <1>9, <1>10, DescentCovers
<1>12. it \in [SUBSET S -> Nat]
  BY <1>6, <1>11
<1>13. Sums(w, S, it)
  BY <1>4, <1>12, SumsIs
<1> QED
  BY <1>7, <1>13

\* What is taken out of a sum first does not matter.
LEMMA SumDrops ==
    ASSUME NEW w, NEW S, Weighs(w, S), NEW it, Sums(w, S, it)
    PROVE  \A s \in SUBSET S : \A x \in s : it[s] = w[x] + it[s \ {x}]
<1> DEFINE Good(s) == \A x \in s : it[s] = w[x] + it[s \ {x}]
           T == {Cardinality(s) : s \in {t \in SUBSET S : ~Good(t)}}
<1>1. ASSUME NEW s \in SUBSET S, \A t \in SUBSET S : Cardinality(t) < Cardinality(s) => Good(t)
      PROVE  Good(s)
  <2> SUFFICES ASSUME NEW x \in s PROVE it[s] = w[x] + it[s \ {x}]
    OBVIOUS
  <2>1. PICK c : c = CHOOSE y \in s : TRUE
    OBVIOUS
  <2>2. c \in s /\ it[s] = w[c] + it[s \ {c}]
    BY <2>1 DEF Sums
  <2>3. CASE x = c
    BY <2>2, <2>3
  <2>4. CASE x # c
    <3>1. PICK a, b, d : a = s \ {c} /\ b = s \ {x} /\ d = s \ {c, x}
      OBVIOUS
    <3>2. /\ a \in SUBSET S /\ b \in SUBSET S /\ d \in SUBSET S
          /\ x \in a /\ c \in b /\ a \ {x} = d /\ b \ {c} = d
      BY <2>2, <2>4, <3>1
    <3>3. Cardinality(a) < Cardinality(s) /\ Cardinality(b) < Cardinality(s)
      <4>1. IsFiniteSet(s) /\ Cardinality(s) \in Nat
        BY SubsetsFinite DEF Weighs
      <4>2. Cardinality(a) = Cardinality(s) - 1 /\ Cardinality(b) = Cardinality(s) - 1
        BY <2>2, <3>1, <4>1, FS_RemoveElement
      <4> QED
        BY <4>1, <4>2
    <3>4. it[a] = w[x] + it[d] /\ it[b] = w[c] + it[d]
      BY <1>1, <3>2, <3>3
    <3>5. w[x] \in Nat /\ w[c] \in Nat /\ it[d] \in Nat
      BY <2>2, <3>2 DEF Weighs, Sums
    <3> QED
      BY <2>2, <3>1, <3>4, <3>5
  <2> QED
    BY <2>3, <2>4
<1>2. T \subseteq Nat
  BY SubsetsFinite DEF Weighs
<1>3. T = {}
  <2> SUFFICES ASSUME T # {} PROVE FALSE
    OBVIOUS
  <2>1. PICK m \in T : \A k \in T : m <= k
    <3> HIDE DEF T
    <3> QED
      BY <1>2, LeastNumber
  <2>2. PICK s \in SUBSET S : ~Good(s) /\ m = Cardinality(s)
    BY <2>1
  <2>3. ASSUME NEW t \in SUBSET S, Cardinality(t) < Cardinality(s), ~Good(t) PROVE FALSE
    <3>1. Cardinality(t) \in T
      BY <2>3
    <3>2. m <= Cardinality(t) /\ m \in Nat /\ Cardinality(t) \in Nat
      <4> HIDE DEF T
      <4> QED
        BY <1>2, <2>1, <3>1
    <3> QED
      BY <2>2, <2>3, <3>2
  <2> HIDE DEF Good
  <2> QED
    BY <1>1, <2>2, <2>3
<1> QED
  BY <1>3

\* Each of the weights v is some weight of w, no less and no other's.
Embeds(e, T, v, S, w) ==
    /\ \A i \in T : e[i] \in S /\ v[i] <= w[e[i]]
    /\ \A i, j \in T : e[i] = e[j] => i = j

\* A total of fewer and smaller weights is not more.
LEMMA TotalWithin ==
    ASSUME NEW v, NEW T, Weighs(v, T), NEW w, NEW S, Weighs(w, S),
           NEW e, Embeds(e, T, v, S, w)
    PROVE  Total(v) \in Nat /\ Total(w) \in Nat /\ Total(v) <= Total(w)
<1>1. PICK it : Sums(v, T, it) /\ Total(v) = it[T]
  BY TotalSums
<1>2. PICK jt : Sums(w, S, jt) /\ Total(w) = jt[S]
  BY TotalSums
<1>3. it \in [SUBSET T -> Nat] /\ jt \in [SUBSET S -> Nat]
  BY <1>1, <1>2 DEF Sums
<1> DEFINE P == {t \in SUBSET T : \A s \in SUBSET S :
                    (\A i \in t : e[i] \in s) => it[t] <= jt[s]}
<1>4. ASSUME NEW t \in SUBSET T, t \notin {{}}, Dropped(T)[t] \in P PROVE t \in P
  <2> SUFFICES ASSUME NEW s \in SUBSET S, \A i \in t : e[i] \in s PROVE it[t] <= jt[s]
    OBVIOUS
  <2>1. PICK x : x = CHOOSE y \in t : TRUE
    OBVIOUS
  <2>2. x \in t /\ it[t] = v[x] + it[t \ {x}]
    BY <1>1, <1>4, <2>1 DEF Sums
  <2>3. PICK y : y = e[x]
    OBVIOUS
  <2>4. y \in s /\ v[x] <= w[y]
    BY <2>2, <2>3 DEF Embeds
  <2>5. jt[s] = w[y] + jt[s \ {y}]
    BY <1>2, <2>4, SumDrops
  <2>6. \A i \in t \ {x} : e[i] \in s \ {y}
    BY <2>2, <2>3 DEF Embeds
  <2>7. s \ {y} \in SUBSET S /\ t \ {x} \in SUBSET T
    OBVIOUS
  <2>8. it[t \ {x}] <= jt[s \ {y}]
    BY <1>4, <2>1, <2>6, <2>7 DEF Dropped
  <2>9. v[x] \in Nat /\ w[y] \in Nat /\ it[t \ {x}] \in Nat /\ jt[s \ {y}] \in Nat
    BY <1>3, <2>2, <2>4, <2>7 DEF Weighs
  <2> QED
    BY <2>2, <2>4, <2>5, <2>8, <2>9
<1>5. (SUBSET T) \cap {{}} \subseteq P
  <2>1. it[{}] = 0 /\ \A s \in SUBSET S : jt[s] \in Nat
    BY <1>1, <1>3 DEF Sums
  <2> QED
    BY <2>1
<1>6. SUBSET T \subseteq P
  <2>1. Descends(SUBSET T, {{}}, Dropped(T), Sizes(T))
    BY SubsetsDescend DEF Weighs
  <2> HIDE DEF P
  <2> QED
    BY <1>4, <1>5, <2>1, DescentCovers
<1>7. it[T] <= jt[S]
  <2>1. T \in SUBSET T /\ S \in SUBSET S /\ \A i \in T : e[i] \in S
    BY DEF Embeds
  <2> QED
    BY <1>6, <2>1
<1> QED
  BY <1>1, <1>2, <1>3, <1>7

-----------------------------------------------------------------------------
\* The work of fewer nodes is not more.

LEMMA SortWorkCounts == \A n \in Nat : SortWork(n) \in Nat
<1> SUFFICES ASSUME NEW n \in Nat PROVE SortWork(n) \in Nat
  OBVIOUS
<1>1. PICK S : S = {k \in 0..n : 2^k < n}
  OBVIOUS
<1>2. S \subseteq 0..n
  BY <1>1
<1>3. IsFiniteSet(0..n)
  <2>1. 0 \in Int /\ n \in Int
    OBVIOUS
  <2> QED
    BY <2>1, FS_Interval
<1>4. Cardinality(S) \in Nat
  BY <1>2, <1>3, FS_Subset, FS_CardinalityType
<1>5. PICK c \in Nat : c = CeilLog2(n)
  BY <1>1, <1>4 DEF CeilLog2
<1>6. SortWork(n) = IF n < 2 THEN 0 ELSE n * c
  BY <1>5 DEF SortWork
<1>7. n * c \in Nat
  OBVIOUS
<1> QED
  BY <1>6, <1>7

\* What of a node its work depends on.
AsBig(a, b) == a.kind = b.kind /\ Len(a.edges) = Len(b.edges) /\ Len(b.edges) \in Nat

LEMMA AsBigWorks ==
    ASSUME NEW a, NEW b, AsBig(a, b)
    PROVE  /\ NodeWork(a) \in Nat /\ NodeWork(b) \in Nat /\ NodeWork(a) = NodeWork(b)
           /\ 1 + Len(a.edges) \in Nat /\ 1 + Len(a.edges) = 1 + Len(b.edges)
<1>1. PICK n, kind, z : n = Len(b.edges) /\ n \in Nat /\ kind = b.kind /\ z = SortWork(n)
  BY DEF AsBig
<1>2. z \in Nat
  BY <1>1, SortWorkCounts
<1>3. PICK x : x = 1 + n + CASE kind = "primitive" -> 2
                            [] kind \in {"opt", "vec"} -> 1
                            [] kind = "func" -> 10
                            [] kind = "class" -> 5
                            [] OTHER -> 4 * n + z
  OBVIOUS
<1>4. NodeWork(a) = x /\ NodeWork(b) = x
  BY <1>1, <1>3 DEF NodeWork, AsBig
<1>5. x \in Nat
  <2>1. CASE kind = "primitive"
    BY <1>1, <1>3, <2>1
  <2>2. CASE kind \in {"opt", "vec"}
    BY <1>1, <1>3, <2>2
  <2>3. CASE kind = "func"
    BY <1>1, <1>3, <2>3
  <2>4. CASE kind = "class"
    BY <1>1, <1>3, <2>4
  <2>5. CASE kind \notin {"primitive", "opt", "vec", "func", "class"}
    <3>1. x = 1 + n + (4 * n + z)
      BY <1>3, <2>5
    <3> QED
      BY <1>1, <1>2, <3>1
  <2> QED
    BY <2>1, <2>2, <2>3, <2>4, <2>5
<1> QED
  BY <1>1, <1>4, <1>5 DEF AsBig

\* The m nodes of t are as big as different ones of the n nodes of s.
NodesWithin(t, m, s, n, e) ==
    /\ m \in Nat /\ n \in Nat /\ DOMAIN t = 1..m /\ DOMAIN s = 1..n
    /\ \A i \in 1..m : e[i] \in 1..n /\ AsBig(t[i], s[e[i]])
    /\ \A i, j \in 1..m : e[i] = e[j] => i = j
    /\ \A i \in 1..n : AsBig(s[i], s[i])

EdgeWork(types) == Total([n \in DOMAIN types |-> 1 + Len(types[n].edges)])

NoMore(x, y) == x \in Nat /\ y \in Nat /\ x <= y

LEMMA FiniteInterval == \A n \in Nat : IsFiniteSet(1..n)
<1> SUFFICES ASSUME NEW n \in Nat PROVE IsFiniteSet(1..n)
  OBVIOUS
<1>1. 1 \in Int /\ n \in Int
  OBVIOUS
<1> QED
  BY <1>1, FS_Interval

LEMMA WithinWorks ==
    ASSUME NEW t, NEW m, NEW s, NEW n, NEW e, NodesWithin(t, m, s, n, e)
    PROVE  NoMore(RoundWork(t), RoundWork(s)) /\ NoMore(EdgeWork(t), EdgeWork(s))
<1>1. PICK T, S : T = 1..m /\ S = 1..n
  OBVIOUS
<1>2. IsFiniteSet(T) /\ IsFiniteSet(S)
  BY <1>1, FiniteInterval DEF NodesWithin
<1>3. /\ DOMAIN t = T /\ DOMAIN s = S
      /\ \A i \in T : e[i] \in S /\ AsBig(t[i], s[e[i]])
      /\ \A i, j \in T : e[i] = e[j] => i = j
      /\ \A i \in S : AsBig(s[i], s[i])
  BY <1>1 DEF NodesWithin
<1>4. NoMore(RoundWork(t), RoundWork(s))
  <2>1. PICK v, w : v = [i \in T |-> NodeWork(t[i])] /\ w = [i \in S |-> NodeWork(s[i])]
    OBVIOUS
  <2>2. Weighs(v, T) /\ Weighs(w, S)
    BY <1>2, <1>3, <2>1, AsBigWorks DEF Weighs
  <2>3. \A i \in T : v[i] = w[e[i]] /\ v[i] \in Nat
    BY <1>3, <2>1, AsBigWorks
  <2>4. Embeds(e, T, v, S, w)
    BY <1>3, <2>3 DEF Embeds
  <2>5. RoundWork(t) = Total(v) /\ RoundWork(s) = Total(w)
    BY <1>3, <2>1 DEF RoundWork
  <2> QED
    BY <2>2, <2>4, <2>5, TotalWithin DEF NoMore
<1>5. NoMore(EdgeWork(t), EdgeWork(s))
  <2>1. PICK v, w : v = [i \in T |-> 1 + Len(t[i].edges)]
                    /\ w = [i \in S |-> 1 + Len(s[i].edges)]
    OBVIOUS
  <2>2. Weighs(v, T) /\ Weighs(w, S)
    BY <1>2, <1>3, <2>1, AsBigWorks DEF Weighs
  <2>3. \A i \in T : v[i] = w[e[i]] /\ v[i] \in Nat
    BY <1>3, <2>1, AsBigWorks
  <2>4. Embeds(e, T, v, S, w)
    BY <1>3, <2>3 DEF Embeds
  <2>5. EdgeWork(t) = Total(v) /\ EdgeWork(s) = Total(w)
    BY <1>3, <2>1 DEF EdgeWork
  <2> QED
    BY <2>2, <2>4, <2>5, TotalWithin DEF NoMore
<1> QED
  BY <1>4, <1>5

\* A re-indexing or a hash of less costs no more.
LEMMA LessToReindex ==
    ASSUME NEW q, NEW C, NoMore(RoundWork(q.types), RoundWork(C.types)),
           Len(q.declarations) = Len(C.declarations), Len(C.declarations) \in Nat
    PROVE  NoMore(ReindexWork(q), ReindexWork(C))
<1>1. PICK x \in Nat, y \in Nat, z \in Nat :
          x = RoundWork(q.types) /\ y = RoundWork(C.types) /\ z = Len(C.declarations)
  BY DEF NoMore
<1>2. PICK l \in Nat : l = SortWork(z)
  BY SortWorkCounts
<1>3. ReindexWork(q) = 2 * x + 2 * z + l /\ ReindexWork(C) = 2 * y + 2 * z + l
  BY <1>1, <1>2 DEF ReindexWork
<1>4. x <= y
  BY <1>1 DEF NoMore
<1>5. /\ 2 * x + 2 * z + l \in Nat /\ 2 * y + 2 * z + l \in Nat
      /\ 2 * x + 2 * z + l <= 2 * y + 2 * z + l
  BY <1>4
<1> QED
  BY <1>3, <1>5 DEF NoMore

LEMMA LessToHash ==
    ASSUME NEW t, NEW s, NoMore(EdgeWork(t), EdgeWork(s)),
           NEW d, NEW f, Len(d) \in Nat, Len(f) \in Nat, Len(d) <= Len(f)
    PROVE  NoMore(HashWork(t, d), HashWork(s, f))
<1>1. PICK x \in Nat, y \in Nat, z \in Nat, l \in Nat :
          x = EdgeWork(t) /\ y = EdgeWork(s) /\ z = Len(d) /\ l = Len(f)
  BY DEF NoMore
<1>2. HashWork(t, d) = 3 * (1 + x + z) /\ HashWork(s, f) = 3 * (1 + y + l)
  BY <1>1 DEF HashWork, EdgeWork
<1> QED
  BY SMTT(30), <1>1, <1>2 DEF NoMore

LEMMA ArenaIsBig ==
    ASSUME NEW s, IsArena(s)
    PROVE  \A i \in 1..Len(s) : AsBig(s[i], s[i])
<1> SUFFICES ASSUME NEW i \in 1..Len(s) PROVE AsBig(s[i], s[i])
  OBVIOUS
<1>1. PICK n, a : n = Len(s) /\ a = s[i]
  OBVIOUS
<1>2. n \in Nat /\ IsNode(a, n)
  BY <1>1 DEF IsArena
<1>3. Len(a.edges) \in Nat
  BY <1>2, NodeTyped
<1> QED
  BY <1>1, <1>3 DEF AsBig

\* Nodes that stand for others are as big, and no more.
LEMMA StandsWithin ==
    ASSUME NEW s, IsArena(s), NEW t, IsArena(t), NEW h, StandsFor(s, t, h)
    PROVE  \E e : NodesWithin(t, Len(t), s, Len(s), e)
<1> DEFINE e == [b \in 1..Len(t) |-> CHOOSE a \in 1..Len(s) : h[a] = b]
<1>1. Len(t) \in Nat /\ Len(s) \in Nat /\ DOMAIN t = 1..Len(t) /\ DOMAIN s = 1..Len(s)
  BY DEF IsArena
<1>2. \A b \in 1..Len(t) : e[b] \in 1..Len(s) /\ h[e[b]] = b
  BY DEF StandsFor
<1> HIDE DEF e
<1>3. ASSUME NEW b \in 1..Len(t) PROVE AsBig(t[b], s[e[b]])
  <2>1. PICK n, m, x, y : n = Len(s) /\ m = Len(t) /\ x = t[b] /\ y = s[e[b]]
    OBVIOUS
  <2>2. n \in Nat /\ m \in Nat /\ IsNode(x, m) /\ IsNode(y, n)
    BY <1>2, <2>1 DEF IsArena
  <2>3. LocalSignature(x) = LocalSignature(y)
    BY <1>2, <2>1 DEF StandsFor, Local
  <2>4. SameShape(x, y)
    BY <2>2, <2>3, SameShapeSigns
  <2>5. Len(y.edges) \in Nat
    BY <2>2, NodeTyped
  <2> QED
    BY <2>1, <2>4, <2>5 DEF SameShape, AsBig
<1>4. \A i, j \in 1..Len(t) : e[i] = e[j] => i = j
  BY <1>2
<1>5. NodesWithin(t, Len(t), s, Len(s), e)
  BY <1>1, <1>2, <1>3, <1>4, ArenaIsBig DEF NodesWithin
<1> QED
  BY <1>5

LEMMA StandingWorks ==
    ASSUME NEW s, IsArena(s), NEW t, IsArena(t), NEW h, StandsFor(s, t, h)
    PROVE  NoMore(RoundWork(t), RoundWork(s)) /\ NoMore(EdgeWork(t), EdgeWork(s))
<1>1. PICK e : NodesWithin(t, Len(t), s, Len(s), e)
  BY StandsWithin
<1> QED
  BY <1>1, WithinWorks

LEMMA PrefixWorks ==
    ASSUME NEW s, IsArena(s), s \in Seq(Range(s)), NEW m \in Nat, m <= Len(s)
    PROVE  NoMore(EdgeWork(SubSeq(s, 1, m)), EdgeWork(s))
<1>1. PICK t : t = SubSeq(s, 1, m)
  OBVIOUS
<1>2. Len(s) \in Nat /\ DOMAIN s = 1..Len(s)
  BY DEF IsArena
<1>3. DOMAIN t = 1..m /\ \A i \in 1..m : t[i] = s[i]
  BY <1>1, <1>2
<1> DEFINE e == [i \in 1..m |-> i]
<1>4. \A i \in 1..m : e[i] \in 1..Len(s) /\ t[i] = s[e[i]] /\ e[i] = i
  BY <1>2, <1>3
<1> HIDE DEF e
<1>5. NodesWithin(t, m, s, Len(s), e)
  BY <1>2, <1>3, <1>4, ArenaIsBig DEF NodesWithin
<1> QED
  BY <1>1, <1>5, WithinWorks

\* No declaration is lost.
LEMMA DeclarationsCounted ==
    ASSUME NEW C, IsContract(C), NEW c, Final(C.types, c), NEW q, q = Quotient(C, c)
    PROVE  /\ Len(C.declarations) \in Nat
           /\ Len(q.declarations) = Len(C.declarations)
           /\ Len(ResultOf(q).declarations) = Len(C.declarations)
<1>1. /\ IsArena(C.types) /\ Len(C.declarations) \in Nat
  BY ContractIs, DeclarationsTyped
<1>2. Stable(C.types, c) /\ \E k \in Nat : Numbers(c, Len(C.types), k)
  BY <1>1, FinalIs DEF Numbered
<1>3. PICK k \in Nat : Numbers(c, Len(C.types), k)
  BY <1>2
<1>4. IsContract(q) /\ q.declarations = RemapRoots(C, c).declarations
  BY <1>2, <1>3, QuotientIs
<1>5. RootsFit(C, c, k)
  BY <1>3 DEF RootsFit, Numbers
<1>6. Len(q.declarations) = Len(C.declarations)
  BY <1>4, <1>5, RootsAre
<1>7. PICK order, place, m : order = OrderOf(q) /\ place = PlaceOf(q) /\ m = Len(order)
  OBVIOUS
<1>8. m \in Nat /\ place \in [1..Len(q.types) -> 1..m]
  BY <1>4, <1>7, OrderPlaces DEF PlacesMatch
<1>9. RootsFit(q, place, m)
  BY <1>4, <1>8 DEF RootsFit
<1>10. PICK old : old = RemapRoots(q, place).declarations
  OBVIOUS
<1>11. /\ old \in Seq(Declaration(m)) /\ Len(old) = Len(q.declarations)
       /\ DOMAIN old = DOMAIN q.declarations
       /\ \A i, j \in DOMAIN q.declarations : old[i].name = old[j].name => i = j
  BY <1>9, <1>10, RootsAre
<1>12. Len(Sorted(old, NameOrder)) = Len(old)
  BY <1>8, <1>11, SortedDeclarationsAre
<1>13. ResultOf(q).declarations = Sorted(old, NameOrder)
  BY <1>7, <1>10 DEF ResultOf
<1> QED
  BY <1>1, <1>6, <1>11, <1>12, <1>13

\* What canonicalization spends after the rounds is no more than the contract
\* itself would cost.
Costs(C, q, R) ==
    /\ NoMore(ReindexWork(q), ReindexWork(C))
    /\ NoMore(HashWork(R.types, R.declarations), HashWork(C.types, C.declarations))
    /\ R.actor # NoActor =>
          NoMore(HashWork(ReachedPrefix(R), << >>), HashWork(C.types, C.declarations))

LEMMA CanonicalCosts ==
    ASSUME NEW C, IsContract(C), NEW c, Final(C.types, c)
    PROVE  Costs(C, Quotient(C, c), ResultOf(Quotient(C, c)))
<1>1. PICK q, R : q = Quotient(C, c) /\ R = ResultOf(q)
  OBVIOUS
<1>2. IsArena(C.types)
  BY ContractIs
<1>3. Stable(C.types, c) /\ \E k \in Nat : Numbers(c, Len(C.types), k)
  BY <1>2, FinalIs DEF Numbered
<1>4. PICK k \in Nat : Numbers(c, Len(C.types), k)
  BY <1>3
<1>5. IsContract(q) /\ Stands(C, q, c)
  BY <1>1, <1>3, <1>4, QuotientStands
<1>6. IsContract(R) /\ Stands(C, R, Then(c, PlaceOf(q)))
  BY <1>1, CanonicalIs
<1>7. IsArena(q.types) /\ IsArena(R.types)
  BY <1>5, <1>6, ContractIs
<1>8. /\ Len(C.declarations) \in Nat /\ Len(q.declarations) = Len(C.declarations)
      /\ Len(R.declarations) = Len(C.declarations)
  BY <1>1, DeclarationsCounted
<1>9. NoMore(RoundWork(q.types), RoundWork(C.types))
  BY <1>2, <1>5, <1>7, StandingWorks DEF Stands
<1>10. NoMore(EdgeWork(R.types), EdgeWork(C.types))
  BY <1>2, <1>6, <1>7, StandingWorks DEF Stands
<1>11. NoMore(ReindexWork(q), ReindexWork(C))
  BY <1>8, <1>9, LessToReindex
<1>12. NoMore(HashWork(R.types, R.declarations), HashWork(C.types, C.declarations))
  BY <1>8, <1>10, LessToHash
<1>13. ASSUME R.actor # NoActor
       PROVE  NoMore(HashWork(ReachedPrefix(R), << >>), HashWork(C.types, C.declarations))
  <2>1. q.actor # NoActor
    <3>1. Stands(q, R, PlaceOf(q))
      BY <1>1, <1>5, ResultIs
    <3> QED
      BY <1>13, <3>1 DEF Stands
  <2>2. PICK s : s = Visit(<<q.actor>>, q.types)
    OBVIOUS
  <2>3. ActorFirst(q, s)
    BY <1>5, <2>1, <2>2 DEF ActorFirst
  <2>4. PICK m : m = Len(s)
    OBVIOUS
  <2>5. m \in Nat
    BY <2>3, <2>4, PlaceInSegment
  <2>6. m <= Len(R.types) /\ ReachedPrefix(R) = SubSeq(R.types, 1, m)
    BY <1>1, <2>3, <2>4, ReachedIs
  <2>7. R.types \in Seq(Range(R.types))
    <3>1. R.types \in Seq(NodeShape(Len(R.types)))
      BY <1>6 DEF IsContract
    <3>2. PICK T, S : T = R.types /\ S = NodeShape(Len(R.types))
      OBVIOUS
    <3>3. T \in Seq(S)
      BY <3>1, <3>2
    <3>4. T \in Seq(Range(T))
      BY <3>3 DEF Range
    <3> QED
      BY <3>2, <3>4
  <2>8. NoMore(EdgeWork(SubSeq(R.types, 1, m)), EdgeWork(R.types))
    BY <1>7, <2>5, <2>6, <2>7, PrefixWorks
  <2>9. NoMore(EdgeWork(ReachedPrefix(R)), EdgeWork(C.types))
    BY <1>10, <2>6, <2>8 DEF NoMore
  <2>10. Len(<< >>) \in Nat /\ Len(<< >>) <= Len(C.declarations)
    BY <1>8
  <2> QED
    BY <1>8, <2>9, <2>10, LessToHash
<1> QED
  BY <1>1, <1>11, <1>12, <1>13 DEF Costs

-----------------------------------------------------------------------------
\* The work charged at each phase.

LEMMA TimesGrows ==
    ASSUME NEW a \in Nat, NEW b \in Nat, NEW w \in Nat
    PROVE  /\ a * w \in Nat /\ (a + 1) * w = a * w + w
           /\ a <= b => a * w <= b * w
<1>1. a * w \in Nat /\ (a + 1) * w = a * w + w
  OBVIOUS
<1>2. ASSUME a <= b PROVE a * w <= b * w
  <2>1. PICK d \in Nat : b = a + d
    <3>1. b - a \in Nat /\ b = a + (b - a)
      BY <1>2
    <3> QED
      BY <3>1
  <2>2. d * w \in Nat /\ (a + d) * w = a * w + d * w
    OBVIOUS
  <2> QED
    BY <1>1, <2>1, <2>2
<1> QED
  BY <1>1, <1>2

\* There are no more classes than nodes.
LEMMA ClassesCounted ==
    ASSUME NEW n \in Nat, NEW k \in Nat, NEW c, Numbers(c, n, k)
    PROVE  k <= n
<1>1. PICK S, T : S = 1..n /\ T = 1..k
  OBVIOUS
<1>2. IsFiniteSet(S) /\ Cardinality(S) = n /\ Cardinality(T) = k
  <2>1. 1 \in Int /\ n \in Int /\ k \in Int
    OBVIOUS
  <2>2. /\ IsFiniteSet(1..n) /\ Cardinality(1..n) = IF 1 > n THEN 0 ELSE n - 1 + 1
        /\ Cardinality(1..k) = IF 1 > k THEN 0 ELSE k - 1 + 1
    BY <2>1, FS_Interval
  <2> QED
    BY <1>1, <2>2
<1>3. c \in Surjection(S, T)
  BY <1>1 DEF Numbers, Surjection
<1> QED
  BY <1>2, <1>3, FS_Surjection

\* A partition that splits a class and joins none has more classes.
Divides(c, d, n) ==
    /\ \A a, b \in 1..n : d[a] = d[b] => c[a] = c[b]
    /\ PartitionWasSplit(c, d)

LEMMA SplitGrows ==
    ASSUME NEW n \in Nat, NEW k \in Nat, NEW c, Numbers(c, n, k),
           NEW m \in Nat, NEW d, Numbers(d, n, m), Divides(c, d, n)
    PROVE  k + 1 <= m
<1>1. PICK S, T : S = 1..m /\ T = 1..k
  OBVIOUS
<1>2. IsFiniteSet(S) /\ Cardinality(S) = m /\ Cardinality(T) = k
  <2>1. 1 \in Int /\ m \in Int /\ k \in Int
    OBVIOUS
  <2>2. /\ IsFiniteSet(1..m) /\ Cardinality(1..m) = IF 1 > m THEN 0 ELSE m - 1 + 1
        /\ Cardinality(1..k) = IF 1 > k THEN 0 ELSE k - 1 + 1
    BY <2>1, FS_Interval
  <2> QED
    BY <1>1, <2>2
<1>3. DOMAIN c = 1..n /\ DOMAIN d = 1..n
  BY DEF Numbers
<1> DEFINE g == [x \in S |-> c[CHOOSE a \in 1..n : d[a] = x]]
<1>4. \A a \in 1..n : c[a] \in T /\ d[a] \in S /\ g[d[a]] = c[a]
  <2> SUFFICES ASSUME NEW a \in 1..n PROVE c[a] \in T /\ d[a] \in S /\ g[d[a]] = c[a]
    OBVIOUS
  <2>1. c[a] \in T /\ d[a] \in S
    BY <1>1 DEF Numbers
  <2>2. PICK z : z = CHOOSE b \in 1..n : d[b] = d[a]
    OBVIOUS
  <2>3. z \in 1..n /\ d[z] = d[a]
    BY <2>2
  <2>4. c[z] = c[a]
    BY <2>3 DEF Divides
  <2> QED
    BY <2>1, <2>2, <2>4
<1>5. \A x \in S : \E a \in 1..n : d[a] = x
  BY <1>1 DEF Numbers
<1>6. \A y \in T : \E a \in 1..n : c[a] = y
  BY <1>1 DEF Numbers
<1>7. DOMAIN g = S /\ g = [x \in S |-> g[x]]
  OBVIOUS
<1> HIDE DEF g
<1>8. g \in [S -> T]
  BY <1>4, <1>5, <1>7
<1>9. g \in Surjection(S, T)
  BY <1>4, <1>6, <1>8 DEF Surjection
<1>10. g \notin Injection(S, T)
  <2>1. PICK a \in 1..n, b \in 1..n : c[a] = c[b] /\ d[a] # d[b]
    BY <1>3 DEF Divides, PartitionWasSplit
  <2>2. PICK x, y : x = d[a] /\ y = d[b]
    OBVIOUS
  <2>3. g[x] = g[y] /\ x \in S /\ y \in S /\ x # y
    BY <1>4, <2>1, <2>2
  <2> QED
    BY <2>3 DEF Injection, IsInjective
<1>11. k <= m /\ k # m
  BY <1>2, <1>9, <1>10, FS_Surjection
<1> QED
  BY <1>11

\* What a contract may cost, as the limit is compared with.
Rounds(C) == (Len(C.types) + 1) * RoundWork(C.types)
WholeHash(C) == HashWork(C.types, C.declarations)
Bound(C) == Rounds(C) + ReindexWork(C) + 2 * WholeHash(C)

LEMMA BoundCounts ==
    ASSUME NEW C, IsContract(C)
    PROVE  /\ Len(C.types) \in Nat /\ RoundWork(C.types) \in Nat
           /\ Rounds(C) \in Nat /\ ReindexWork(C) \in Nat /\ WholeHash(C) \in Nat
           /\ Bound(C) \in Nat
<1>1. IsArena(C.types) /\ Len(C.types) \in Nat
  BY ContractIs DEF IsArena
<1>2. Len(C.declarations) \in Nat
  BY ContractIs, DeclarationsTyped
<1> DEFINE e == [i \in 1..Len(C.types) |-> i]
<1>3. NodesWithin(C.types, Len(C.types), C.types, Len(C.types), e)
  BY <1>1, ArenaIsBig DEF NodesWithin, IsArena
<1>4. NoMore(RoundWork(C.types), RoundWork(C.types)) /\ NoMore(EdgeWork(C.types), EdgeWork(C.types))
  BY <1>3, WithinWorks
<1>5. NoMore(ReindexWork(C), ReindexWork(C))
  BY <1>2, <1>4, LessToReindex
<1>6. NoMore(HashWork(C.types, C.declarations), HashWork(C.types, C.declarations))
  <2>1. Len(C.declarations) <= Len(C.declarations)
    BY <1>2
  <2> QED
    BY <1>2, <1>4, <2>1, LessToHash
<1>7. PICK n \in Nat, w \in Nat : n = Len(C.types) /\ w = RoundWork(C.types)
  BY <1>1, <1>4 DEF NoMore
<1>8. Rounds(C) \in Nat
  <2>1. n + 1 \in Nat
    OBVIOUS
  <2>2. (n + 1) * w \in Nat
    BY <2>1, TimesGrows
  <2> QED
    BY <1>7, <2>2 DEF Rounds
<1>9. PICK x \in Nat, y \in Nat, z \in Nat : x = Rounds(C) /\ y = ReindexWork(C) /\ z = WholeHash(C)
  BY <1>5, <1>6, <1>8 DEF NoMore, WholeHash
<1>10. Bound(C) = x + y + 2 * z /\ x + y + 2 * z \in Nat
  BY <1>9 DEF Bound
<1>11. Rounds(C) \in Nat /\ ReindexWork(C) \in Nat /\ WholeHash(C) \in Nat /\ Bound(C) \in Nat
  BY <1>9, <1>10
<1>12. Len(C.types) \in Nat /\ RoundWork(C.types) \in Nat
  BY <1>7
<1> QED
  BY <1>11, <1>12

LEMMA NothingToRound ==
    ASSUME NEW types, IsArena(types), Len(types) = 0
    PROVE  RoundWork(types) = 0
<1>1. PICK v : v = [n \in DOMAIN types |-> NodeWork(types[n])]
  OBVIOUS
<1>2. DOMAIN types = {}
  BY DEF IsArena
<1>3. Weighs(v, {})
  BY <1>1, <1>2, FS_EmptySet DEF Weighs
<1>4. PICK it : Sums(v, {}, it) /\ Total(v) = it[{}]
  BY <1>3, TotalSums
<1> QED
  BY <1>1, <1>4 DEF RoundWork, Sums

\* What has been charged on the way to each phase.
SpentInv ==
    /\ pc = "start" => work = 0
    /\ pc = "refine" => \E k \in Nat : /\ Numbers(classes, Len(input.types), k)
                                       /\ work <= k * RoundWork(input.types)
    /\ pc \in {"quotient", "index"} => work <= Rounds(input)
    /\ pc = "contract_id" => work <= Rounds(input) + ReindexWork(input)
    /\ pc = "interface_id" => work <= Rounds(input) + ReindexWork(input) + WholeHash(input)

WorkInv ==
    /\ CanonicalInv
    /\ maxWork \in Nat /\ work \in Nat
    /\ SpentInv
    /\ outcome = "canonicalization_work" => maxWork < Bound(input)

\* What a step asks for does not exceed what the contract may cost.
LEMMA RefusalKeepsWork ==
    ASSUME WorkInv, NEW amount, Refuse(amount), ~interrupted => work + amount <= Bound(input),
           CanonicalInv', UNCHANGED maxWork, amount \in Nat
    PROVE  WorkInv'
<1>1. /\ pc' = "stopped" /\ UNCHANGED <<work, input>>
      /\ outcome' = IF interrupted THEN "operation_interrupted" ELSE "canonicalization_work"
      /\ interrupted \/ work + amount > maxWork
  BY DEF Refuse, Refused, Fail
<1>2. SpentInv'
  BY <1>1 DEF SpentInv
<1>3. maxWork \in Nat /\ work \in Nat /\ IsContract(input)
  BY DEF WorkInv, CanonicalInv
<1>4. Bound(input) \in Nat
  BY <1>3, BoundCounts
<1>5. PICK b \in Nat : b = Bound(input)
  BY <1>4
<1>6. ASSUME outcome' = "canonicalization_work" PROVE maxWork < b
  <2>1. ~interrupted
    BY <1>1, <1>6
  <2>2. work + amount > maxWork /\ work + amount <= b
    BY <1>1, <1>5, <2>1
  <2> QED
    BY <1>3, <2>2
<1>7. outcome' = "canonicalization_work" => maxWork' < Bound(input')
  BY <1>1, <1>5, <1>6
<1> QED
  BY <1>1, <1>2, <1>3, <1>7 DEF WorkInv

\* A charge is added.
LEMMA ChargeAddsWork ==
    ASSUME WorkInv, NEW amount \in Nat, NEW next, Charge(amount, next), pc # "stopped",
           CanonicalInv', UNCHANGED <<maxWork, input>>, SpentInv'
    PROVE  WorkInv'
<1>1. work' = work + amount /\ outcome' = outcome
  BY DEF Charge
<1>2. outcome = "running"
  BY DEF WorkInv, CanonicalInv, PhaseInv
<1>3. work' \in Nat /\ maxWork' \in Nat
  BY <1>1 DEF WorkInv
<1> QED
  BY <1>1, <1>2, <1>3 DEF WorkInv

\* The numbers that the bound is made of.
Prices(C, n, w, r, h) ==
    /\ n \in Nat /\ w \in Nat /\ r \in Nat /\ h \in Nat
    /\ n = Len(C.types) /\ w = RoundWork(C.types) /\ r = ReindexWork(C) /\ h = WholeHash(C)
    /\ (n + 1) * w \in Nat /\ Rounds(C) = (n + 1) * w
    /\ Bound(C) = (n + 1) * w + r + 2 * h

LEMMA PricesOf ==
    ASSUME NEW C, IsContract(C)
    PROVE  \E n, w, r, h : Prices(C, n, w, r, h)
<1>1. PICK n, w, r, h : n = Len(C.types) /\ w = RoundWork(C.types) /\ r = ReindexWork(C)
                        /\ h = WholeHash(C)
  OBVIOUS
<1>2. n \in Nat /\ w \in Nat /\ r \in Nat /\ h \in Nat
  BY <1>1, BoundCounts
<1>3. n + 1 \in Nat
  BY <1>2
<1>4. (n + 1) * w \in Nat
  BY <1>2, <1>3, TimesGrows
<1>5. Rounds(C) = (n + 1) * w
  BY <1>1 DEF Rounds
<1>6. Bound(C) = (n + 1) * w + r + 2 * h
  BY <1>1, <1>5 DEF Bound
<1>7. Prices(C, n, w, r, h)
  BY <1>1, <1>2, <1>4, <1>5, <1>6 DEF Prices
<1> QED
  BY <1>7

LEMMA FirstPartitionWorks ==
    ASSUME WorkInv, FirstPartition, UNCHANGED maxWork
    PROVE  WorkInv'
<1>1. CanonicalInv /\ CanonicalInv' /\ pc = "start" /\ work = 0
  BY FirstPartitionKeeps DEF WorkInv, SpentInv, FirstPartition
<1>2. IsContract(input) /\ IsArena(input.types)
  BY <1>1, ContractIs DEF CanonicalInv
<1>3. PICK n, w, r, h : Prices(input, n, w, r, h)
  BY <1>2, PricesOf
<1>4. n \in Nat /\ w \in Nat /\ r \in Nat /\ h \in Nat /\ w = RoundWork(input.types)
      /\ n = Len(input.types) /\ Bound(input) = (n + 1) * w + r + 2 * h
  BY <1>3 DEF Prices
<1>5. CASE Refuse(w)
  <2>1. work + w <= Bound(input)
    <3>1. n * w \in Nat /\ (n + 1) * w = n * w + w
      BY <1>4, TimesGrows
    <3> QED
      BY <1>1, <1>4, <3>1
  <2> QED
    BY <1>1, <1>4, <1>5, <2>1, RefusalKeepsWork
<1>6. CASE Charge(w, "refine") /\ classes' = FirstClasses(input.types) /\ UNCHANGED input
  <2>1. PICK k \in Nat : Numbers(FirstClasses(input.types), n, k)
    BY <1>2, <1>4, FirstClassesAre
  <2>2. w <= k * w
    <3>1. CASE n = 0
      <4>1. w = 0
        BY <1>2, <1>4, <3>1, NothingToRound
      <4> QED
        BY <2>1, <4>1
    <3>2. CASE n # 0
      <4>1. FirstClasses(input.types)[1] \in 1..k
        <5>1. PICK f : f = FirstClasses(input.types)
          OBVIOUS
        <5>2. f \in [1..n -> 1..k] /\ 1 \in 1..n
          BY <1>4, <2>1, <3>2, <5>1 DEF Numbers
        <5>3. f[1] \in 1..k
          BY <5>2
        <5> QED
          BY <5>1, <5>3
      <4>2. 1 <= k
        BY <2>1, <4>1
      <4>3. 1 * w <= k * w
        BY <1>4, <2>1, <4>2, TimesGrows
      <4>4. 1 * w = w
        BY <1>4
      <4> QED
        BY <4>3, <4>4
    <3> QED
      BY <3>1, <3>2
  <2>3. work' = w /\ pc' = "refine"
    BY <1>1, <1>4, <1>6 DEF Charge
  <2>4. SpentInv'
    BY <1>4, <1>6, <2>1, <2>2, <2>3 DEF SpentInv
  <2> QED
    BY <1>1, <1>4, <1>6, <2>4, ChargeAddsWork
<1> QED
  BY <1>4, <1>5, <1>6 DEF FirstPartition, FirstClasses

\* A round that splits a class is paid for by the class it adds.
LEMMA RefineRoundWorks ==
    ASSUME WorkInv, RefineRound, UNCHANGED maxWork
    PROVE  WorkInv'
<1>1. CanonicalInv /\ CanonicalInv' /\ pc = "refine" /\ work \in Nat
  BY RefineRoundKeeps DEF WorkInv, RefineRound
<1>2. IsContract(input) /\ IsArena(input.types)
  BY <1>1, ContractIs DEF CanonicalInv
<1>3. PICK n, w, r, h : Prices(input, n, w, r, h)
  BY <1>2, PricesOf
<1>4. n \in Nat /\ w \in Nat /\ r \in Nat /\ h \in Nat /\ w = RoundWork(input.types)
      /\ n = Len(input.types) /\ Bound(input) = (n + 1) * w + r + 2 * h
      /\ (n + 1) * w \in Nat /\ Rounds(input) = (n + 1) * w
  BY <1>3 DEF Prices
<1>5. PICK k \in Nat : Numbers(classes, n, k) /\ work <= k * w
  BY <1>1, <1>4 DEF WorkInv, SpentInv
<1>6. work + w <= (k + 1) * w /\ (k + 1) * w <= (n + 1) * w
  <2>1. k <= n /\ k + 1 \in Nat /\ n + 1 \in Nat
    BY SMTT(30), <1>4, <1>5, ClassesCounted
  <2>2. k * w \in Nat /\ (k + 1) * w = k * w + w
    BY <1>4, TimesGrows
  <2>3. (k + 1) * w <= (n + 1) * w
    <3>1. k + 1 <= n + 1
      BY <1>4, <2>1
    <3> QED
      BY <1>4, <2>1, <3>1, TimesGrows
  <2> QED
    BY <1>1, <1>4, <1>5, <2>2, <2>3
<1>7. CASE Refuse(w)
  <2>1. work + w <= Bound(input)
    <3>1. (k + 1) * w \in Nat
      <4>1. k + 1 \in Nat
        OBVIOUS
      <4> QED
        BY <1>4, <4>1, TimesGrows
    <3> QED
      BY <1>1, <1>4, <1>6, <3>1
  <2> QED
    BY <1>1, <1>4, <1>7, <2>1, RefusalKeepsWork
<1> DEFINE next == NextClasses(input.types, classes)
<1>8. CASE /\ Charge(w, IF PartitionWasSplit(classes, next) THEN "refine" ELSE "quotient")
           /\ classes' = next
           /\ UNCHANGED input
  <2>1. PICK c, d : c = classes /\ d = next
    OBVIOUS
  <2>2. c \in [1..n -> 1..k]
    BY <1>5, <2>1 DEF Numbers
  <2>3. /\ \E m \in Nat : Numbers(d, n, m)
        /\ \A a, b \in 1..n : d[a] = d[b] => c[a] = c[b]
    <3>1. PICK types : types = input.types
      OBVIOUS
    <3>2. IsArena(types) /\ n = Len(types) /\ d = NextClasses(types, c)
      BY <1>2, <1>4, <2>1, <3>1
    <3>3. c \in [1..Len(types) -> 1..k]
      BY <2>2, <3>2
    <3>4. /\ \E m \in Nat : Numbers(NextClasses(types, c), Len(types), m)
          /\ \A a, b \in 1..Len(types) :
                NextClasses(types, c)[a] = NextClasses(types, c)[b] => c[a] = c[b]
      BY <3>2, <3>3, NextClassesAre
    <3> QED
      BY <3>2, <3>4
  <2>4. PICK m \in Nat : Numbers(d, n, m)
    BY <2>3
  <2>5. work' = work + w /\ pc' = IF PartitionWasSplit(c, d) THEN "refine" ELSE "quotient"
    <3> HIDE DEF next
    <3> QED
      BY <1>8, <2>1 DEF Charge
  <2>6. CASE PartitionWasSplit(c, d)
    <3>1. Divides(c, d, n)
      BY <2>3, <2>6 DEF Divides
    <3>2. k + 1 <= m
      BY <1>4, <1>5, <2>1, <2>4, <3>1, SplitGrows
    <3>3. (k + 1) * w <= m * w /\ m * w \in Nat /\ (k + 1) * w \in Nat
      <4>1. k + 1 \in Nat
        OBVIOUS
      <4> QED
        BY <1>4, <2>4, <3>2, <4>1, TimesGrows
    <3>4. work' <= m * w
      BY <1>1, <1>4, <1>6, <2>5, <3>3
    <3>5. pc' = "refine" /\ classes' = d /\ input' = input
      BY <1>8, <2>1, <2>5, <2>6
    <3>6. SpentInv'
      BY <1>4, <2>4, <3>4, <3>5 DEF SpentInv
    <3> HIDE DEF next
    <3> QED
      BY <1>1, <1>4, <1>8, <3>6, ChargeAddsWork
  <2>7. CASE ~PartitionWasSplit(c, d)
    <3>1. (k + 1) * w \in Nat
      <4>1. k + 1 \in Nat
        OBVIOUS
      <4> QED
        BY <1>4, <4>1, TimesGrows
    <3>2. work' <= (n + 1) * w
      BY <1>1, <1>4, <1>6, <2>5, <3>1
    <3>3. pc' = "quotient" /\ input' = input
      BY <1>8, <2>5, <2>7
    <3>4. SpentInv'
      BY <1>4, <3>2, <3>3 DEF SpentInv
    <3> HIDE DEF next
    <3> QED
      BY <1>1, <1>4, <1>8, <3>4, ChargeAddsWork
  <2> QED
    BY <2>6, <2>7
<1> QED
  BY <1>4, <1>7, <1>8 DEF RefineRound, NextClasses

LEMMA TakeQuotientWorks ==
    ASSUME WorkInv, TakeQuotient, UNCHANGED maxWork
    PROVE  WorkInv'
<1>1. CanonicalInv /\ CanonicalInv' /\ pc = "quotient" /\ work \in Nat
      /\ work <= Rounds(input)
  BY TakeQuotientKeeps DEF WorkInv, SpentInv, TakeQuotient
<1>2. PICK n, w, r, h : Prices(input, n, w, r, h)
  BY <1>1, PricesOf DEF CanonicalInv
<1>3. PICK x \in Nat, b \in Nat : x = Rounds(input) /\ b = Bound(input) /\ x <= b
  <2>1. PICK y : y = (n + 1) * w
    OBVIOUS
  <2>2. y \in Nat /\ r \in Nat /\ h \in Nat /\ Rounds(input) = y /\ Bound(input) = y + r + 2 * h
    BY <1>2, <2>1 DEF Prices
  <2> QED
    BY <2>2
<1>4. 0 \in Nat /\ work + 0 = work /\ work <= b
  BY <1>1, <1>3
<1>5. CASE Refuse(0)
  BY <1>1, <1>3, <1>4, <1>5, RefusalKeepsWork
<1>6. CASE Charge(0, "index") /\ UNCHANGED input
  <2>1. SpentInv'
    BY <1>1, <1>4, <1>6 DEF SpentInv, Charge
  <2> QED
    BY <1>1, <1>4, <1>6, <2>1, ChargeAddsWork
<1> QED
  BY <1>5, <1>6 DEF TakeQuotient

\* What the quotient and the result cost.
LEMMA PhaseCosts ==
    ASSUME CanonicalInv, HasClasses
    PROVE  /\ HasQuotient => NoMore(ReindexWork(quotient), ReindexWork(input))
           /\ HasResult => /\ NoMore(HashWork(result.types, result.declarations), WholeHash(input))
                           /\ result.actor # NoActor =>
                                 NoMore(HashWork(ReachedPrefix(result), << >>), WholeHash(input))
<1>1. IsContract(input) /\ Final(input.types, classes)
  BY DEF CanonicalInv, RoundsInv
<1>2. PICK C, c : C = input /\ c = classes
  OBVIOUS
<1>3. Costs(C, Quotient(C, c), ResultOf(Quotient(C, c)))
  BY <1>1, <1>2, CanonicalCosts
<1>4. HasQuotient => quotient = Quotient(C, c)
  BY <1>2 DEF CanonicalInv, ResultInv
<1>5. HasResult => HasQuotient /\ result = ResultOf(quotient)
  BY DEF CanonicalInv, ResultInv, HasResult, HasQuotient
<1> QED
  BY <1>2, <1>3, <1>4, <1>5 DEF Costs, WholeHash

LEMMA ReindexWorks ==
    ASSUME WorkInv, Reindex, UNCHANGED maxWork
    PROVE  WorkInv'
<1>1. CanonicalInv /\ CanonicalInv' /\ pc = "index" /\ work \in Nat
      /\ work <= Rounds(input)
  BY ReindexKeeps DEF WorkInv, SpentInv, Reindex
<1>2. HasClasses /\ HasQuotient
  BY <1>1 DEF HasClasses, HasQuotient
<1>3. NoMore(ReindexWork(quotient), ReindexWork(input))
  BY <1>1, <1>2, PhaseCosts
<1>4. PICK n, w, r, h : Prices(input, n, w, r, h)
  BY <1>1, PricesOf DEF CanonicalInv
<1>5. PICK y : y = (n + 1) * w
  OBVIOUS
<1>6. y \in Nat /\ r \in Nat /\ h \in Nat /\ Rounds(input) = y /\ Bound(input) = y + r + 2 * h
      /\ r = ReindexWork(input)
  BY <1>4, <1>5 DEF Prices
<1>7. PICK a \in Nat : a = ReindexWork(quotient) /\ a <= r
  BY <1>3, <1>6 DEF NoMore
<1>8. work + a <= Rounds(input) + ReindexWork(input) /\ work + a <= Bound(input)
  BY <1>1, <1>6, <1>7
<1>9. CASE Refuse(a)
  BY <1>1, <1>7, <1>8, <1>9, RefusalKeepsWork
<1>10. CASE Charge(a, "contract_id") /\ UNCHANGED input
  <2>1. SpentInv'
    BY <1>1, <1>8, <1>10 DEF SpentInv, Charge
  <2> QED
    BY <1>1, <1>7, <1>10, <2>1, ChargeAddsWork
<1> QED
  BY <1>7, <1>9, <1>10 DEF Reindex

LEMMA HashContractWorks ==
    ASSUME WorkInv, HashContract, UNCHANGED maxWork
    PROVE  WorkInv'
<1>1. CanonicalInv /\ CanonicalInv' /\ pc = "contract_id" /\ work \in Nat
      /\ work <= Rounds(input) + ReindexWork(input)
  BY HashContractKeeps DEF WorkInv, SpentInv, HashContract
<1>2. HasClasses /\ HasResult
  BY <1>1 DEF HasClasses, HasResult
<1>3. NoMore(HashWork(result.types, result.declarations), WholeHash(input))
  BY <1>1, <1>2, PhaseCosts
<1>4. PICK n, w, r, h : Prices(input, n, w, r, h)
  BY <1>1, PricesOf DEF CanonicalInv
<1>5. PICK y : y = (n + 1) * w
  OBVIOUS
<1>6. y \in Nat /\ r \in Nat /\ h \in Nat /\ Rounds(input) = y /\ Bound(input) = y + r + 2 * h
      /\ r = ReindexWork(input) /\ h = WholeHash(input)
  BY <1>4, <1>5 DEF Prices
<1>7. PICK a \in Nat : a = HashWork(result.types, result.declarations) /\ a <= h
  BY <1>3, <1>6 DEF NoMore
<1>8. /\ work + a <= Rounds(input) + ReindexWork(input) + WholeHash(input)
      /\ work + a <= Bound(input)
  BY <1>1, <1>6, <1>7
<1>9. CASE Refuse(a)
  BY <1>1, <1>7, <1>8, <1>9, RefusalKeepsWork
<1>10. CASE /\ Charge(a, IF result.actor = NoActor THEN "finish" ELSE "interface_id")
            /\ UNCHANGED input
  <2>1. PICK next \in {"finish", "interface_id"} :
            next = IF result.actor = NoActor THEN "finish" ELSE "interface_id"
    OBVIOUS
  <2>2. SpentInv'
    BY <1>1, <1>8, <1>10, <2>1 DEF SpentInv, Charge
  <2> QED
    BY <1>1, <1>7, <1>10, <2>2, ChargeAddsWork
<1> QED
  BY <1>7, <1>9, <1>10 DEF HashContract

LEMMA HashInterfaceWorks ==
    ASSUME WorkInv, HashInterface, UNCHANGED maxWork
    PROVE  WorkInv'
<1>1. CanonicalInv /\ CanonicalInv' /\ pc = "interface_id" /\ work \in Nat
      /\ work <= Rounds(input) + ReindexWork(input) + WholeHash(input)
      /\ result.actor # NoActor
  BY HashInterfaceKeeps DEF WorkInv, SpentInv, HashInterface, CanonicalInv, IdentityInv
<1>2. HasClasses /\ HasResult
  BY <1>1 DEF HasClasses, HasResult
<1>3. NoMore(HashWork(ReachedPrefix(result), << >>), WholeHash(input))
  BY <1>1, <1>2, PhaseCosts
<1>4. PICK n, w, r, h : Prices(input, n, w, r, h)
  BY <1>1, PricesOf DEF CanonicalInv
<1>5. PICK y : y = (n + 1) * w
  OBVIOUS
<1>6. y \in Nat /\ r \in Nat /\ h \in Nat /\ Rounds(input) = y /\ Bound(input) = y + r + 2 * h
      /\ r = ReindexWork(input) /\ h = WholeHash(input)
  BY <1>4, <1>5 DEF Prices
<1>7. PICK a \in Nat : a = HashWork(ReachedPrefix(result), << >>) /\ a <= h
  BY <1>3, <1>6 DEF NoMore
<1>8. work + a <= Bound(input)
  BY <1>1, <1>6, <1>7
<1>9. CASE Refuse(a)
  BY <1>1, <1>7, <1>8, <1>9, RefusalKeepsWork
<1>10. CASE Charge(a, "finish") /\ UNCHANGED input
  <2>1. SpentInv'
    BY <1>10 DEF SpentInv, Charge
  <2> QED
    BY <1>1, <1>7, <1>10, <2>1, ChargeAddsWork
<1>11. InterfacePayload(result).types = ReachedPrefix(result)
  BY DEF InterfacePayload
<1> QED
  BY <1>7, <1>9, <1>10, <1>11 DEF HashInterface

\* What charges nothing.
LEMMA FinishWorks ==
    ASSUME WorkInv, Finish, UNCHANGED maxWork
    PROVE  WorkInv'
<1>1. CanonicalInv'
  BY FinishKeeps DEF WorkInv
<1>2. /\ pc' = "stopped" /\ UNCHANGED <<work, input>>
      /\ outcome' \in {"done", "operation_interrupted"}
  BY DEF Finish, Refuse, Fail
<1>3. SpentInv'
  BY <1>2 DEF SpentInv
<1> QED
  BY <1>1, <1>2, <1>3 DEF WorkInv

LEMMA AgainWorks ==
    ASSUME WorkInv, NEW keeps, NEW contract, Again(keeps, contract), UNCHANGED maxWork,
           CanonicalInv'
    PROVE  WorkInv'
<1>1. pc' = "start" /\ work' = 0 /\ outcome' = "running"
  BY DEF Again, Restarted
<1>2. SpentInv'
  BY <1>1 DEF SpentInv
<1> QED
  BY <1>1, <1>2 DEF WorkInv

LEMMA WorkStarts == Init => WorkInv
<1> SUFFICES ASSUME Init PROVE WorkInv
  OBVIOUS
<1>1. pc = "start" /\ work = 0 /\ outcome = "running" /\ maxWork \in Nat
  BY JobsAssumption DEF Init
<1>2. SpentInv
  BY <1>1 DEF SpentInv
<1> QED
  BY <1>1, <1>2, CanonicalStarts DEF WorkInv

LEMMA WorkKept == WorkInv /\ [Next]_vars => WorkInv'
<1> SUFFICES ASSUME WorkInv, [Next]_vars PROVE WorkInv'
  OBVIOUS
<1>1. CanonicalInv'
  BY CanonicalKept DEF WorkInv
<1>2. maxWork' = maxWork
  BY DEF Next, vars
<1>3. CASE FirstPartition
  BY <1>2, <1>3, FirstPartitionWorks
<1>4. CASE RefineRound
  BY <1>2, <1>4, RefineRoundWorks
<1>5. CASE TakeQuotient
  BY <1>2, <1>5, TakeQuotientWorks
<1>6. CASE Reindex
  BY <1>2, <1>6, ReindexWorks
<1>7. CASE HashContract
  BY <1>2, <1>7, HashContractWorks
<1>8. CASE HashInterface
  BY <1>2, <1>8, HashInterfaceWorks
<1>9. CASE Finish
  BY <1>2, <1>9, FinishWorks
<1>10. CASE Interrupt \/ UNCHANGED vars
  <2>1. UNCHANGED <<input, pc, classes, work, outcome, maxWork>>
    BY <1>2, <1>10 DEF Interrupt, vars
  <2>2. SpentInv'
    BY <2>1 DEF SpentInv, WorkInv
  <2> QED
    BY <1>1, <2>1, <2>2 DEF WorkInv
<1>11. CASE RewriteAll
  <2>1. \E contract : Again("all", contract)
    BY <1>11 DEF RewriteAll
  <2> QED
    BY <1>1, <1>2, <2>1, AgainWorks
<1>12. CASE RewriteActor
  <2>1. \E contract : Again("actor", contract)
    BY <1>12 DEF RewriteActor
  <2> QED
    BY <1>1, <1>2, <2>1, AgainWorks
<1> QED
  BY <1>3, <1>4, <1>5, <1>6, <1>7, <1>8, <1>9, <1>10, <1>11, <1>12 DEF Next

\* Canonicalization refuses a contract for its work only if a round for each
\* node and one more, one re-indexing and two hashes could exceed the limit:
\* every round but the first and the last adds a class, and the quotient and the
\* result have no more nodes than the contract.
THEOREM RefusedForItsWork == Spec => []WorkRefusalIsReal
<1>1. WorkInv => WorkRefusalIsReal
  BY DEF WorkInv, WorkRefusalIsReal, Bound, Rounds, WholeHash
<1> QED
  BY <1>1, WorkStarts, WorkKept, PTL DEF Spec
=============================================================================
