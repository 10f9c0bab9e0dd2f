-------------------------- MODULE RefSubtype_proofs --------------------------
(***************************************************************************)
(* For all arenas, orders of fields, depth limits and numbers of checks:   *)
(* while no check of a run was refused, what is accepted is a subtype; and *)
(* what is refused is none, unless a walk was cut by the limit.            *)
(*                                                                         *)
(* The module states the relation twice: Rule tells by keys what a pair    *)
(* needs of a relation, Obligations lists it in the order of the walk.     *)
(* RulesAreObligations shows that they ask the same, SubtypesAreTheLargest *)
(* that the set reached by dropping pairs from all of them is the largest  *)
(* closed relation.  The walk keeps, as its invariant, that the pairs of   *)
(* the memo carry one another while none of them is false, so that they    *)
(* are part of the largest one, and that a pair on the stack is a subtype  *)
(* only if those above it are, so that one failure refutes them all.       *)
(***************************************************************************)
EXTENDS RefSubtype, FiniteSetTheorems, TLAPS

\* Every obligation of a list is skipped or asks for a pair of R.
Meets(need, R) ==
    \/ need.do = "skip"
    \/ need.do = "visit" /\ <<need.wire, need.node, need.left>> \in R
AllMet(needs, R) == \A i \in DOMAIN needs : Meets(needs[i], R)

\* What the two lists of obligations ask, told by fields.
SchemaHas(wires, schemas, left, mayLack, R) ==
    \A j \in DOMAIN schemas :
        \/ \E i \in DOMAIN wires : /\ wires[i].key = schemas[j].key
                                   /\ <<wires[i].ty, schemas[j].ty, left>> \in R
        \/ /\ mayLack
           /\ \A i \in DOMAIN wires : wires[i].key # schemas[j].key
           /\ OptLikeSchema(schemas[j].ty)
WireHas(wires, schemas, left, mayLack, R) ==
    \A i \in DOMAIN wires :
        \/ \E j \in DOMAIN schemas : /\ wires[i].key = schemas[j].key
                                     /\ <<wires[i].ty, schemas[j].ty, left>> \in R
        \/ /\ mayLack
           /\ \A j \in DOMAIN schemas : wires[i].key # schemas[j].key
           /\ OptLikeWire(wires[i].ty)

\* A key is found at its one field.
LEMMA FieldAt ==
    ASSUME NEW refs, NEW fields, IsFields(fields, refs), NEW i \in DOMAIN fields
    PROVE  At(fields, fields[i].key) = {i} /\ TypeAt(fields, fields[i].key) = fields[i].ty
<1>1. At(fields, fields[i].key) = {i}
  BY DEF IsFields, At
<1> QED
  BY <1>1 DEF TypeAt

\* A list made by looking up each field is met as its fields tell.
LEMMA EachSchemaMet ==
    ASSUME NEW W, NEW N, NEW wires, NEW schemas, IsFields(wires, W), IsFields(schemas, N),
           NEW left, NEW mayLack \in BOOLEAN, NEW R
    PROVE  AllMet(EachSchema(wires, schemas, left, mayLack), R)
              <=> SchemaHas(wires, schemas, left, mayLack, R)
<1> DEFINE each == EachSchema(wires, schemas, left, mayLack)
           has(j) == \/ \E i \in DOMAIN wires : /\ wires[i].key = schemas[j].key
                                                /\ <<wires[i].ty, schemas[j].ty, left>> \in R
                     \/ /\ mayLack
                        /\ \A i \in DOMAIN wires : wires[i].key # schemas[j].key
                        /\ OptLikeSchema(schemas[j].ty)
<1>1. DOMAIN each = DOMAIN schemas
  BY DEF EachSchema
<1>2. ASSUME NEW j \in DOMAIN schemas
      PROVE  Meets(each[j], R) <=> has(j)
  <2>1. CASE At(wires, schemas[j].key) = {}
    <3>1. \A i \in DOMAIN wires : wires[i].key # schemas[j].key
      BY <2>1 DEF At
    <3>2. each[j] = IF mayLack /\ OptLikeSchema(schemas[j].ty) THEN Skip ELSE Lack
      BY <2>1 DEF EachSchema
    <3>3. CASE mayLack /\ OptLikeSchema(schemas[j].ty)
      BY <3>1, <3>2, <3>3 DEF Meets, Skip
    <3>4. CASE ~(mayLack /\ OptLikeSchema(schemas[j].ty))
      <4>1. each[j] = Lack
        BY <3>2, <3>4
      <4>2. ~Meets(each[j], R)
        BY <4>1 DEF Meets, Lack
      <4> QED
        BY <3>1, <3>4, <4>2
    <3> QED
      BY <3>3, <3>4
  <2>2. CASE At(wires, schemas[j].key) # {}
    <3>1. PICK i \in DOMAIN wires : wires[i].key = schemas[j].key
      BY <2>2 DEF At
    <3>2. each[j] = Need(wires[i].ty, schemas[j].ty, left)
      BY <2>2, <3>1, FieldAt DEF EachSchema
    <3>3. \A k \in DOMAIN wires : wires[k].key = schemas[j].key => k = i
      BY <3>1 DEF IsFields
    <3>4. Meets(each[j], R) <=> <<wires[i].ty, schemas[j].ty, left>> \in R
      BY <3>2 DEF Meets, Need
    <3> QED
      BY <3>1, <3>3, <3>4
  <2> QED
    BY <2>1, <2>2
<1> QED
  BY <1>1, <1>2 DEF AllMet, SchemaHas

LEMMA EachWireMet ==
    ASSUME NEW W, NEW N, NEW wires, NEW schemas, IsFields(wires, W), IsFields(schemas, N),
           NEW left, NEW mayLack \in BOOLEAN, NEW R
    PROVE  AllMet(EachWire(wires, schemas, left, mayLack), R)
              <=> WireHas(wires, schemas, left, mayLack, R)
<1> DEFINE each == EachWire(wires, schemas, left, mayLack)
           has(i) == \/ \E j \in DOMAIN schemas : /\ wires[i].key = schemas[j].key
                                                  /\ <<wires[i].ty, schemas[j].ty, left>> \in R
                     \/ /\ mayLack
                        /\ \A j \in DOMAIN schemas : wires[i].key # schemas[j].key
                        /\ OptLikeWire(wires[i].ty)
<1>1. DOMAIN each = DOMAIN wires
  BY DEF EachWire
<1>2. ASSUME NEW i \in DOMAIN wires
      PROVE  Meets(each[i], R) <=> has(i)
  <2>1. CASE At(schemas, wires[i].key) = {}
    <3>1. \A j \in DOMAIN schemas : wires[i].key # schemas[j].key
      BY <2>1 DEF At
    <3>2. each[i] = IF mayLack /\ OptLikeWire(wires[i].ty) THEN Skip ELSE Lack
      BY <2>1 DEF EachWire
    <3>3. CASE mayLack /\ OptLikeWire(wires[i].ty)
      BY <3>1, <3>2, <3>3 DEF Meets, Skip
    <3>4. CASE ~(mayLack /\ OptLikeWire(wires[i].ty))
      <4>1. each[i] = Lack
        BY <3>2, <3>4
      <4>2. ~Meets(each[i], R)
        BY <4>1 DEF Meets, Lack
      <4> QED
        BY <3>1, <3>4, <4>2
    <3> QED
      BY <3>3, <3>4
  <2>2. CASE At(schemas, wires[i].key) # {}
    <3>1. PICK j \in DOMAIN schemas : schemas[j].key = wires[i].key
      BY <2>2 DEF At
    <3>2. each[i] = Need(wires[i].ty, schemas[j].ty, left)
      BY <2>2, <3>1, FieldAt DEF EachWire
    <3>3. \A k \in DOMAIN schemas : schemas[k].key = wires[i].key => k = j
      BY <3>1 DEF IsFields
    <3>4. Meets(each[i], R) <=> <<wires[i].ty, schemas[j].ty, left>> \in R
      BY <3>2 DEF Meets, Need
    <3> QED
      BY <3>1, <3>3, <3>4
  <2> QED
    BY <2>1, <2>2
<1> QED
  BY <1>1, <1>2 DEF AllMet, WireHas

LEMMA ConcatMet ==
    ASSUME NEW S, NEW T, NEW s \in Seq(S), NEW t \in Seq(T), NEW R
    PROVE  AllMet(s \o t, R) <=> AllMet(s, R) /\ AllMet(t, R)
<1>1. /\ DOMAIN (s \o t) = 1..(Len(s) + Len(t))
      /\ \A i \in 1..Len(s) : (s \o t)[i] = s[i]
      /\ \A i \in 1..Len(t) : (s \o t)[Len(s) + i] = t[i]
  OBVIOUS
<1>2. \A i \in 1..(Len(s) + Len(t)) : i \in 1..Len(s) \/ i - Len(s) \in 1..Len(t)
  OBVIOUS
<1>3. ASSUME AllMet(s, R), AllMet(t, R), NEW i \in DOMAIN (s \o t)
      PROVE  Meets((s \o t)[i], R)
  <2>1. CASE i \in 1..Len(s)
    BY <1>1, <1>3, <2>1 DEF AllMet
  <2>2. CASE i - Len(s) \in 1..Len(t)
    <3>1. (s \o t)[Len(s) + (i - Len(s))] = t[i - Len(s)] /\ Len(s) + (i - Len(s)) = i
      BY <1>1, <2>2
    <3>2. Meets(t[i - Len(s)], R)
      BY <1>3, <2>2 DEF AllMet
    <3> QED
      BY <3>1, <3>2
  <2> QED
    BY <1>1, <1>2, <2>1, <2>2
<1>4. ASSUME AllMet(s \o t, R)
      PROVE  AllMet(s, R) /\ AllMet(t, R)
  <2>1. \A i \in 1..Len(s) : i \in DOMAIN (s \o t) /\ (s \o t)[i] = s[i]
    BY <1>1
  <2>2. \A i \in 1..Len(t) : Len(s) + i \in DOMAIN (s \o t) /\ (s \o t)[Len(s) + i] = t[i]
    BY <1>1
  <2>3. DOMAIN s = 1..Len(s) /\ DOMAIN t = 1..Len(t)
    OBVIOUS
  <2> QED
    BY <1>4, <2>1, <2>2, <2>3, Zenon DEF AllMet
<1> QED
  BY <1>3, <1>4 DEF AllMet

-----------------------------------------------------------------------------
\* The arenas of a run.

World == /\ IsWire(world.wire) /\ IsSchema(world.schema)
         /\ world.depth \in Nat

LEMMA WorldHolds == ReferencesInit => World
BY FamiliesAssumption DEF ReferencesInit, World

\* Induction is by the least counterexample.
LEMMA LeastNatural ==
    ASSUME NEW T, T \subseteq Nat, T # {}
    PROVE  \E m \in T : \A k \in T : m <= k
<1> DEFINE Less == {ss \in Nat \X Nat : ss[1] < ss[2]}
<1>1. IsWellFoundedOn(Less, Nat)
  BY NatLessThanWellFounded DEF OpToRel
<1>2. \E m \in T : \A k \in T : <<k, m>> \notin Less
  <2> HIDE DEF Less
  <2> QED
    BY <1>1, WFMin
<1>3. \A k, m \in Nat : <<k, m>> \notin Less => m <= k
  OBVIOUS
<1> HIDE DEF Less
<1> QED
  BY <1>2, <1>3

\* Resolving a node ends at a node or is given up; a node that is no rec is its own body.
LEMMA ResolvedIsNode ==
    ASSUME World, NEW n \in DOMAIN world.schema
    PROVE  /\ Resolved(n) \in DOMAIN world.schema \cup {Unresolved}
           /\ Schema(n).kind # "rec" => Resolved(n) = n
<1> DEFINE D == DOMAIN world.schema
           d == world.depth
           body(f, hops, m) == IF Schema(m).kind # "rec" THEN m
                               ELSE IF hops = 0 THEN Unresolved
                               ELSE f[hops - 1][Schema(m).body]
           step(f, hops) == [m \in D |-> body(f, hops, m)]
           within == CHOOSE f : f = [hops \in 0..d |-> step(f, hops)]
<1>1. Resolved(n) = within[d][n]
  BY Zenon DEF Resolved
<1>2. d \in Nat /\ \A m \in D : Schema(m).kind = "rec" => Schema(m).body \in D
  BY DEF World, IsSchema, IsType, Schema, Primitives
<1>3. \E f : f = [hops \in 0..d |-> step(f, hops)]
  <2> DEFINE some(k) == \E f : f = [hops \in 0..k |-> step(f, hops)]
             T == {k \in 0..d : ~some(k)}
  <2>1. T = {}
    <3> SUFFICES ASSUME T # {} PROVE FALSE
      OBVIOUS
    <3>1. T \subseteq Nat
      BY <1>2
    <3>2. PICK k \in T : \A j \in T : k <= j
      <4> HIDE DEF T
      <4> QED
        BY <3>1, LeastNatural
    <3>3. CASE k = 0
      <4> DEFINE f == [hops \in 0..0 |-> [m \in D |->
                          IF Schema(m).kind # "rec" THEN m ELSE Unresolved]]
      <4>1. f = [hops \in 0..0 |-> step(f, hops)]
        OBVIOUS
      <4> QED
        BY <3>2, <3>3, <4>1
    <3>4. CASE k # 0
      <4>1. k - 1 \in 0..d /\ k \in 1..d
        BY <1>2, <3>2, <3>4
      <4>2. PICK f : f = [hops \in 0..(k - 1) |-> step(f, hops)]
        BY <3>2, <4>1
      <4> DEFINE g == [hops \in 0..k |-> IF hops = k THEN step(f, k) ELSE f[hops]]
      <4>3. ASSUME NEW hops \in 0..k
            PROVE  g[hops] = step(g, hops)
        <5>1. hops # 0 => hops - 1 \in 0..(k - 1) /\ g[hops - 1] = f[hops - 1]
          BY <4>1
        <5>2. \A m \in D : body(g, hops, m) = body(f, hops, m)
          BY <5>1
        <5>3. step(g, hops) = step(f, hops)
          BY <5>2
        <5>4. hops # k => hops \in 0..(k - 1)
          BY <4>1
        <5>5. hops # k => f[hops] = step(f, hops)
          BY <4>2, <5>4
        <5> QED
          BY <5>3, <5>5
      <4>4. g = [hops \in 0..k |-> step(g, hops)]
        BY <4>3
      <4> QED
        BY <3>2, <4>4
    <3> QED
      BY <3>3, <3>4
  <2> QED
    BY <1>2, <2>1
<1>4. \A hops \in 0..d : within[hops] = step(within, hops)
  <2>1. within = [hops \in 0..d |-> step(within, hops)]
    BY <1>3
  <2> HIDE DEF within
  <2> QED
    BY <2>1
<1> HIDE DEF within
<1>5. \A hops \in 0..d : \A m \in D : within[hops][m] = body(within, hops, m)
  <2> TAKE hops \in 0..d
  <2>1. within[hops] = step(within, hops)
    BY <1>4
  <2>2. \A m \in D : step(within, hops)[m] = body(within, hops, m)
    OBVIOUS
  <2> QED
    BY <2>1, <2>2
<1>6. \A hops \in 0..d : \A m \in D : within[hops][m] \in D \cup {Unresolved}
  <2> DEFINE T == {k \in 0..d : \E m \in D : within[k][m] \notin D \cup {Unresolved}}
  <2> SUFFICES ASSUME T # {} PROVE FALSE
    OBVIOUS
  <2>1. PICK k \in T : \A j \in T : k <= j
    <3>1. T \subseteq Nat
      BY <1>2
    <3> HIDE DEF T
    <3> QED
      BY <3>1, LeastNatural
  <2>2. PICK m \in D : within[k][m] \notin D \cup {Unresolved}
    BY <2>1
  <2>3. k # 0 /\ Schema(m).kind = "rec" /\ within[k][m] = within[k - 1][Schema(m).body]
    BY <1>5, <2>1, <2>2
  <2>4. k - 1 \in 0..d
    BY <1>2, <2>1, <2>3
  <2>5. k - 1 \in T
    BY <1>2, <2>2, <2>3, <2>4
  <2> QED
    BY <1>2, <2>1, <2>5
<1> QED
  BY <1>1, <1>2, <1>5, <1>6

-----------------------------------------------------------------------------
\* The obligations of a pair are what the rule of its types asks.

\* Told by keys instead of positions.
LEMMA SchemaHasByKey ==
    ASSUME NEW wires, NEW schemas, NEW left, NEW mayLack, NEW R
    PROVE  SchemaHas(wires, schemas, left, mayLack, R) <=>
              \A key \in Keys(schemas) : \A y \in Under(schemas, key) :
                  \/ \E x \in Under(wires, key) : <<x, y, left>> \in R
                  \/ mayLack /\ key \notin Keys(wires) /\ OptLikeSchema(y)
<1> DEFINE has(key, y) == \/ \E x \in Under(wires, key) : <<x, y, left>> \in R
                          \/ mayLack /\ key \notin Keys(wires) /\ OptLikeSchema(y)
<1>1. SchemaHas(wires, schemas, left, mayLack, R)
        <=> \A j \in DOMAIN schemas : has(schemas[j].key, schemas[j].ty)
  <2>1. ASSUME NEW j \in DOMAIN schemas
        PROVE  /\ (\E i \in DOMAIN wires : /\ wires[i].key = schemas[j].key
                                           /\ <<wires[i].ty, schemas[j].ty, left>> \in R)
                    <=> \E x \in Under(wires, schemas[j].key) : <<x, schemas[j].ty, left>> \in R
               /\ (\A i \in DOMAIN wires : wires[i].key # schemas[j].key)
                    <=> schemas[j].key \notin Keys(wires)
    BY DEF Under, At, Keys
  <2> QED
    BY <2>1, Zenon DEF SchemaHas
<1>2. (\A j \in DOMAIN schemas : has(schemas[j].key, schemas[j].ty))
        <=> \A key \in Keys(schemas) : \A y \in Under(schemas, key) : has(key, y)
  <2> HIDE DEF has
  <2>1. \A j \in DOMAIN schemas : /\ schemas[j].key \in Keys(schemas)
                                  /\ schemas[j].ty \in Under(schemas, schemas[j].key)
    BY DEF Keys, Under, At
  <2>2. \A key \in Keys(schemas) : \A y \in Under(schemas, key) :
            \E j \in DOMAIN schemas : schemas[j].key = key /\ schemas[j].ty = y
    BY DEF Keys, Under, At
  <2> QED
    BY <2>1, <2>2
<1> QED
  BY <1>1, <1>2

LEMMA WireHasByKey ==
    ASSUME NEW wires, NEW schemas, NEW left, NEW mayLack, NEW R
    PROVE  WireHas(wires, schemas, left, mayLack, R) <=>
              \A key \in Keys(wires) : \A x \in Under(wires, key) :
                  \/ \E y \in Under(schemas, key) : <<x, y, left>> \in R
                  \/ mayLack /\ key \notin Keys(schemas) /\ OptLikeWire(x)
<1> DEFINE has(key, x) == \/ \E y \in Under(schemas, key) : <<x, y, left>> \in R
                          \/ mayLack /\ key \notin Keys(schemas) /\ OptLikeWire(x)
<1>1. WireHas(wires, schemas, left, mayLack, R)
        <=> \A i \in DOMAIN wires : has(wires[i].key, wires[i].ty)
  <2>1. ASSUME NEW i \in DOMAIN wires
        PROVE  /\ (\E j \in DOMAIN schemas : /\ wires[i].key = schemas[j].key
                                             /\ <<wires[i].ty, schemas[j].ty, left>> \in R)
                    <=> \E y \in Under(schemas, wires[i].key) : <<wires[i].ty, y, left>> \in R
               /\ (\A j \in DOMAIN schemas : wires[i].key # schemas[j].key)
                    <=> wires[i].key \notin Keys(schemas)
    BY DEF Under, At, Keys
  <2> QED
    BY <2>1, Zenon DEF WireHas
<1>2. (\A i \in DOMAIN wires : has(wires[i].key, wires[i].ty))
        <=> \A key \in Keys(wires) : \A x \in Under(wires, key) : has(key, x)
  <2> HIDE DEF has
  <2>1. \A i \in DOMAIN wires : /\ wires[i].key \in Keys(wires)
                                /\ wires[i].ty \in Under(wires, wires[i].key)
    BY DEF Keys, Under, At
  <2>2. \A key \in Keys(wires) : \A x \in Under(wires, key) :
            \E i \in DOMAIN wires : wires[i].key = key /\ wires[i].ty = x
    BY DEF Keys, Under, At
  <2> QED
    BY <2>1, <2>2
<1> QED
  BY <1>1, <1>2

\* The fields of a record, as RecordRule walks them.
RecordHas(wires, schemas, left, R) ==
    IF left THEN SchemaHas(wires, schemas, left, TRUE, R)
            ELSE WireHas(wires, schemas, left, TRUE, R)

LEMMA RecordRuleMet ==
    ASSUME NEW W, NEW N, NEW wires, NEW schemas, IsFields(wires, W), IsFields(schemas, N),
           NEW left \in BOOLEAN, NEW R
    PROVE  AllMet(RecordRule(wires, schemas, left), R) <=> RecordHas(wires, schemas, left, R)
<1>1. CASE left = TRUE
  <2>1. RecordRule(wires, schemas, left) = EachSchema(wires, schemas, left, TRUE)
    BY <1>1 DEF RecordRule
  <2>2. RecordHas(wires, schemas, left, R) <=> SchemaHas(wires, schemas, left, TRUE, R)
    BY <1>1 DEF RecordHas
  <2>3. AllMet(EachSchema(wires, schemas, left, TRUE), R)
           <=> SchemaHas(wires, schemas, left, TRUE, R)
    BY EachSchemaMet
  <2> QED
    BY <2>1, <2>2, <2>3
<1>2. CASE left = FALSE
  <2>1. RecordRule(wires, schemas, left) = EachWire(wires, schemas, left, TRUE)
    BY <1>2 DEF RecordRule
  <2>2. RecordHas(wires, schemas, left, R) <=> WireHas(wires, schemas, left, TRUE, R)
    BY <1>2 DEF RecordHas
  <2>3. AllMet(EachWire(wires, schemas, left, TRUE), R) <=> WireHas(wires, schemas, left, TRUE, R)
    BY EachWireMet
  <2> QED
    BY <2>1, <2>2, <2>3
<1> QED
  BY <1>1, <1>2

\* What an obligation may be.
NeedSet == [do : {"visit"}, wire : DOMAIN world.wire, node : DOMAIN world.schema, left : BOOLEAN]
             \cup {Skip, Lack}

\* Every list of obligations is a sequence of visits, skips and lacks.
LEMMA FieldsType ==
    ASSUME NEW refs, NEW fields, IsFields(fields, refs)
    PROVE  /\ DOMAIN fields = 1..Len(fields) /\ Len(fields) \in Nat
           /\ \A i \in DOMAIN fields : fields[i].ty \in refs
<1> DEFINE Field == [key : Nat, ty : refs]
<1>1. fields \in Seq(Field)
  BY DEF IsFields
<1>2. \A i \in DOMAIN fields : fields[i] \in Field
  <2> HIDE DEF Field
  <2> QED
    BY <1>1
<1>3. Len(fields) \in Nat /\ DOMAIN fields = 1..Len(fields)
  BY <1>1
<1> QED
  BY <1>2, <1>3

LEMMA EachSchemaType ==
    ASSUME NEW wires, NEW schemas, NEW left \in BOOLEAN, NEW mayLack \in BOOLEAN,
           IsFields(wires, DOMAIN world.wire), IsFields(schemas, DOMAIN world.schema)
    PROVE  EachSchema(wires, schemas, left, mayLack) \in Seq(NeedSet)
<1> DEFINE each == EachSchema(wires, schemas, left, mayLack)
<1>1. /\ DOMAIN schemas = 1..Len(schemas) /\ Len(schemas) \in Nat
      /\ \A i \in DOMAIN schemas : schemas[i].ty \in DOMAIN world.schema
      /\ \A i \in DOMAIN wires : wires[i].ty \in DOMAIN world.wire
  BY FieldsType
<1>2. ASSUME NEW j \in DOMAIN schemas
      PROVE  each[j] \in NeedSet
  <2>1. CASE At(wires, schemas[j].key) = {}
    BY <2>1 DEF EachSchema, NeedSet
  <2>2. CASE At(wires, schemas[j].key) # {}
    <3>1. PICK i \in DOMAIN wires : wires[i].key = schemas[j].key
      BY <2>2 DEF At
    <3>2. each[j] = Need(wires[i].ty, schemas[j].ty, left)
      BY <2>2, <3>1, FieldAt DEF EachSchema
    <3> QED
      BY <1>1, <3>2 DEF Need, NeedSet
  <2> QED
    BY <2>1, <2>2
<1>3. each = [j \in DOMAIN schemas |-> each[j]]
  BY DEF EachSchema
<1> HIDE DEF each
<1>4. each \in [1..Len(schemas) -> NeedSet]
  BY <1>1, <1>2, <1>3
<1> QED
  BY <1>1, <1>4 DEF each

LEMMA EachWireType ==
    ASSUME NEW wires, NEW schemas, NEW left \in BOOLEAN, NEW mayLack \in BOOLEAN,
           IsFields(wires, DOMAIN world.wire), IsFields(schemas, DOMAIN world.schema)
    PROVE  EachWire(wires, schemas, left, mayLack) \in Seq(NeedSet)
<1> DEFINE each == EachWire(wires, schemas, left, mayLack)
<1>1. /\ DOMAIN wires = 1..Len(wires) /\ Len(wires) \in Nat
      /\ \A i \in DOMAIN schemas : schemas[i].ty \in DOMAIN world.schema
      /\ \A i \in DOMAIN wires : wires[i].ty \in DOMAIN world.wire
  BY FieldsType
<1>2. ASSUME NEW i \in DOMAIN wires
      PROVE  each[i] \in NeedSet
  <2>1. CASE At(schemas, wires[i].key) = {}
    BY <2>1 DEF EachWire, NeedSet
  <2>2. CASE At(schemas, wires[i].key) # {}
    <3>1. PICK j \in DOMAIN schemas : schemas[j].key = wires[i].key
      BY <2>2 DEF At
    <3>2. each[i] = Need(wires[i].ty, schemas[j].ty, left)
      BY <2>2, <3>1, FieldAt DEF EachWire
    <3> QED
      BY <1>1, <3>2 DEF Need, NeedSet
  <2> QED
    BY <2>1, <2>2
<1>3. each = [i \in DOMAIN wires |-> each[i]]
  BY DEF EachWire
<1> HIDE DEF each
<1>4. each \in [1..Len(wires) -> NeedSet]
  BY <1>1, <1>2, <1>3
<1> QED
  BY <1>1, <1>4 DEF each

LEMMA RecordRuleType ==
    ASSUME NEW wires, NEW schemas, NEW left \in BOOLEAN,
           IsFields(wires, DOMAIN world.wire), IsFields(schemas, DOMAIN world.schema)
    PROVE  RecordRule(wires, schemas, left) \in Seq(NeedSet)
<1>1. TRUE \in BOOLEAN
  OBVIOUS
<1> QED
  BY <1>1, EachSchemaType, EachWireType DEF RecordRule

LEMMA NeedsType ==
    ASSUME World, NEW w \in DOMAIN world.wire, NEW m \in DOMAIN world.schema,
           NEW left \in BOOLEAN
    PROVE  Obligations(w, m, left) \in Seq(NeedSet)
<1> DEFINE wire == Wire(w)
           node == Schema(m)
           needs == Obligations(w, m, left)
<1>1. IsType(wire, DOMAIN world.wire)
      /\ (IsType(node, DOMAIN world.schema) \/ node.kind = "rec")
  BY DEF World, IsWire, IsSchema, Wire, Schema
<1>2. << >> \in Seq(NeedSet) /\ Never \in Seq(NeedSet)
  BY DEF Never, NeedSet
<1>3. \/ needs \in {<< >>, Never}
      \/ /\ wire.kind = node.kind
         /\ \/ node.kind = "vec" /\ needs = <<Need(wire.inner, node.inner, left)>>
            \/ node.kind = "record" /\ needs = RecordRule(wire.fields, node.fields, left)
            \/ node.kind = "func" /\ needs = FuncRule(wire, node, left)
            \/ /\ node.kind \in {"variant", "service"}
               /\ \/ needs = EachWire(wire.fields, node.fields, left, FALSE)
                  \/ needs = EachSchema(wire.fields, node.fields, left, FALSE)
  <2>1. node.kind \in Primitives \/ wire.kind # node.kind
           \/ node.kind \in {"opt", "vec", "record", "variant", "service", "func"}
    BY <1>1 DEF IsType, Primitives
  <2> QED
    BY <2>1 DEF Obligations
<1>4. /\ node.kind = "vec" /\ wire.kind = "vec" =>
            wire.inner \in DOMAIN world.wire /\ node.inner \in DOMAIN world.schema
      /\ wire.kind = node.kind /\ node.kind \in {"record", "variant", "service"} =>
            IsFields(wire.fields, DOMAIN world.wire) /\ IsFields(node.fields, DOMAIN world.schema)
      /\ wire.kind = "func" /\ node.kind = "func" =>
            /\ IsFields(wire.args, DOMAIN world.wire) /\ IsFields(node.args, DOMAIN world.schema)
            /\ IsFields(wire.results, DOMAIN world.wire)
            /\ IsFields(node.results, DOMAIN world.schema)
  BY <1>1 DEF IsType, Primitives
<1> HIDE DEF wire, node
<1> SUFFICES needs \in Seq(NeedSet)
  OBVIOUS
<1> HIDE DEF needs
<1>5. CASE needs \in {<< >>, Never}
  BY <1>2, <1>5
<1>6. CASE wire.kind = node.kind /\ node.kind = "vec"
             /\ needs = <<Need(wire.inner, node.inner, left)>>
  <2>1. Need(wire.inner, node.inner, left) \in NeedSet
    BY <1>4, <1>6 DEF Need, NeedSet
  <2> QED
    BY <1>6, <2>1
<1>7. CASE wire.kind = node.kind /\ node.kind = "record"
             /\ needs = RecordRule(wire.fields, node.fields, left)
  BY <1>4, <1>7, RecordRuleType
<1>8. CASE wire.kind = node.kind /\ node.kind = "func" /\ needs = FuncRule(wire, node, left)
  <2>1. RecordRule(wire.args, node.args, ~left) \in Seq(NeedSet)
    BY <1>4, <1>8, RecordRuleType
  <2>2. RecordRule(wire.results, node.results, left) \in Seq(NeedSet)
    BY <1>4, <1>8, RecordRuleType
  <2> QED
    BY <1>2, <1>8, <2>1, <2>2 DEF FuncRule
<1>9. CASE wire.kind = node.kind /\ node.kind \in {"variant", "service"}
             /\ (\/ needs = EachWire(wire.fields, node.fields, left, FALSE)
                 \/ needs = EachSchema(wire.fields, node.fields, left, FALSE))
  <2>1. FALSE \in BOOLEAN
    OBVIOUS
  <2> QED
    BY <1>4, <1>9, <2>1, EachSchemaType, EachWireType
<1> QED
  BY <1>3, <1>5, <1>6, <1>7, <1>8, <1>9

\* The two sides of a record, variant or service, whichever side the wire is on.
LEMMA SchemaHasCases ==
    ASSUME NEW wires, NEW schemas, NEW left, NEW R
    PROVE  /\ SchemaHas(wires, schemas, left, TRUE, R) <=>
                 \A key \in Keys(schemas) : \A y \in Under(schemas, key) :
                     \/ \E x \in Under(wires, key) : <<x, y, left>> \in R
                     \/ key \notin Keys(wires) /\ OptLikeSchema(y)
           /\ SchemaHas(wires, schemas, left, FALSE, R) <=>
                 \A key \in Keys(schemas) : \A y \in Under(schemas, key) :
                     \E x \in Under(wires, key) : <<x, y, left>> \in R
<1>1. ASSUME NEW mayLack, mayLack
      PROVE  SchemaHas(wires, schemas, left, mayLack, R) <=>
                 \A key \in Keys(schemas) : \A y \in Under(schemas, key) :
                     \/ \E x \in Under(wires, key) : <<x, y, left>> \in R
                     \/ key \notin Keys(wires) /\ OptLikeSchema(y)
  <2>1. SchemaHas(wires, schemas, left, mayLack, R) <=>
          \A key \in Keys(schemas) : \A y \in Under(schemas, key) :
              \/ \E x \in Under(wires, key) : <<x, y, left>> \in R
              \/ mayLack /\ key \notin Keys(wires) /\ OptLikeSchema(y)
    BY SchemaHasByKey
  <2> QED
    BY <1>1, <2>1, Zenon
<1>2. ASSUME NEW mayLack, ~mayLack
      PROVE  SchemaHas(wires, schemas, left, mayLack, R) <=>
                 \A key \in Keys(schemas) : \A y \in Under(schemas, key) :
                     \E x \in Under(wires, key) : <<x, y, left>> \in R
  <2>1. SchemaHas(wires, schemas, left, mayLack, R) <=>
          \A key \in Keys(schemas) : \A y \in Under(schemas, key) :
              \/ \E x \in Under(wires, key) : <<x, y, left>> \in R
              \/ mayLack /\ key \notin Keys(wires) /\ OptLikeSchema(y)
    BY SchemaHasByKey
  <2> QED
    BY <1>2, <2>1, Zenon
<1> QED
  BY <1>1, <1>2

LEMMA WireHasCases ==
    ASSUME NEW wires, NEW schemas, NEW left, NEW R
    PROVE  /\ WireHas(wires, schemas, left, TRUE, R) <=>
                 \A key \in Keys(wires) : \A x \in Under(wires, key) :
                     \/ \E y \in Under(schemas, key) : <<x, y, left>> \in R
                     \/ key \notin Keys(schemas) /\ OptLikeWire(x)
           /\ WireHas(wires, schemas, left, FALSE, R) <=>
                 \A key \in Keys(wires) : \A x \in Under(wires, key) :
                     \E y \in Under(schemas, key) : <<x, y, left>> \in R
<1>1. ASSUME NEW mayLack, mayLack
      PROVE  WireHas(wires, schemas, left, mayLack, R) <=>
                 \A key \in Keys(wires) : \A x \in Under(wires, key) :
                     \/ \E y \in Under(schemas, key) : <<x, y, left>> \in R
                     \/ key \notin Keys(schemas) /\ OptLikeWire(x)
  <2>1. WireHas(wires, schemas, left, mayLack, R) <=>
          \A key \in Keys(wires) : \A x \in Under(wires, key) :
              \/ \E y \in Under(schemas, key) : <<x, y, left>> \in R
              \/ mayLack /\ key \notin Keys(schemas) /\ OptLikeWire(x)
    BY WireHasByKey
  <2> QED
    BY <1>1, <2>1, Zenon
<1>2. ASSUME NEW mayLack, ~mayLack
      PROVE  WireHas(wires, schemas, left, mayLack, R) <=>
                 \A key \in Keys(wires) : \A x \in Under(wires, key) :
                     \E y \in Under(schemas, key) : <<x, y, left>> \in R
  <2>1. WireHas(wires, schemas, left, mayLack, R) <=>
          \A key \in Keys(wires) : \A x \in Under(wires, key) :
              \/ \E y \in Under(schemas, key) : <<x, y, left>> \in R
              \/ mayLack /\ key \notin Keys(schemas) /\ OptLikeWire(x)
    BY WireHasByKey
  <2> QED
    BY <1>2, <2>1, Zenon
<1> QED
  BY <1>1, <1>2

LEMMA RecordBelowMet ==
    ASSUME NEW sub, NEW sup, NEW left \in BOOLEAN, NEW R
    PROVE  RecordBelow(sub, sup, left, R) <=>
              IF left THEN RecordHas(sub, sup, left, R) ELSE RecordHas(sup, sub, left, R)
<1>1. CASE left = TRUE
  <2>1. SchemaHas(sub, sup, TRUE, TRUE, R) <=>
            \A key \in Keys(sup) : \A y \in Under(sup, key) :
                \/ \E x \in Under(sub, key) : <<x, y, TRUE>> \in R
                \/ key \notin Keys(sub) /\ OptLikeSchema(y)
    BY SchemaHasCases, ZenonT(30)
  <2>2. \A x, y : /\ Below(x, y, left, R) <=> <<x, y, TRUE>> \in R
                  /\ OptLike(y, ~left) <=> OptLikeSchema(y)
    BY <1>1 DEF Below, OptLike
  <2>3. RecordHas(sub, sup, left, R) <=> SchemaHas(sub, sup, TRUE, TRUE, R)
    BY <1>1 DEF RecordHas
  <2> QED
    BY <1>1, <2>1, <2>2, <2>3, Zenon DEF RecordBelow
<1>2. CASE left = FALSE
  <2>1. WireHas(sup, sub, FALSE, TRUE, R) <=>
            \A key \in Keys(sup) : \A x \in Under(sup, key) :
                \/ \E y \in Under(sub, key) : <<x, y, FALSE>> \in R
                \/ key \notin Keys(sub) /\ OptLikeWire(x)
    BY WireHasCases
  <2>2. \A x, y : /\ Below(x, y, left, R) <=> <<y, x, FALSE>> \in R
                  /\ OptLike(y, ~left) <=> OptLikeWire(y)
    BY <1>2 DEF Below, OptLike
  <2>3. RecordHas(sup, sub, left, R) <=> WireHas(sup, sub, FALSE, TRUE, R)
    BY <1>2 DEF RecordHas
  <2> QED
    BY <1>2, <2>1, <2>2, <2>3, Zenon DEF RecordBelow
<1> QED
  BY <1>1, <1>2

LEMMA VariantBelowMet ==
    ASSUME NEW sub, NEW sup, NEW left \in BOOLEAN, NEW R
    PROVE  VariantBelow(sub, sup, left, R) <=>
              IF left THEN WireHas(sub, sup, left, FALSE, R)
                      ELSE SchemaHas(sup, sub, left, FALSE, R)
<1>1. CASE left = TRUE
  <2>1. WireHas(sub, sup, TRUE, FALSE, R) <=>
            \A key \in Keys(sub) : \A x \in Under(sub, key) :
                \E y \in Under(sup, key) : <<x, y, TRUE>> \in R
    BY WireHasCases
  <2>2. \A x, y : Below(x, y, left, R) <=> <<x, y, TRUE>> \in R
    BY <1>1 DEF Below
  <2> QED
    BY <1>1, <2>1, <2>2, Zenon DEF VariantBelow
<1>2. CASE left = FALSE
  <2>1. SchemaHas(sup, sub, FALSE, FALSE, R) <=>
            \A key \in Keys(sub) : \A y \in Under(sub, key) :
                \E x \in Under(sup, key) : <<x, y, FALSE>> \in R
    BY SchemaHasCases, ZenonT(30)
  <2>2. \A x, y : Below(x, y, left, R) <=> <<y, x, FALSE>> \in R
    BY <1>2 DEF Below
  <2> QED
    BY <1>2, <2>1, <2>2, Zenon DEF VariantBelow
<1> QED
  BY <1>1, <1>2

LEMMA ServiceBelowMet ==
    ASSUME NEW sub, NEW sup, NEW left \in BOOLEAN, NEW R
    PROVE  ServiceBelow(sub, sup, left, R) <=>
              IF left THEN SchemaHas(sub, sup, left, FALSE, R)
                      ELSE WireHas(sup, sub, left, FALSE, R)
<1>1. CASE left = TRUE
  <2>1. SchemaHas(sub, sup, TRUE, FALSE, R) <=>
            \A key \in Keys(sup) : \A y \in Under(sup, key) :
                \E x \in Under(sub, key) : <<x, y, TRUE>> \in R
    BY SchemaHasCases
  <2>2. \A x, y : Below(x, y, left, R) <=> <<x, y, TRUE>> \in R
    BY <1>1 DEF Below
  <2> QED
    BY <1>1, <2>1, <2>2, Zenon DEF ServiceBelow
<1>2. CASE left = FALSE
  <2>1. WireHas(sup, sub, FALSE, FALSE, R) <=>
            \A key \in Keys(sup) : \A x \in Under(sup, key) :
                \E y \in Under(sub, key) : <<x, y, FALSE>> \in R
    BY WireHasCases
  <2>2. \A x, y : Below(x, y, left, R) <=> <<y, x, FALSE>> \in R
    BY <1>2 DEF Below
  <2> QED
    BY <1>2, <2>1, <2>2, Zenon DEF ServiceBelow
<1> QED
  BY <1>1, <1>2

\* For all arenas with distinct keys in every node, and whatever the order of the fields: the
\* obligations the decoder walks for a pair (codec.ts, subNext), in both directions, are met by
\* a relation exactly when the subtyping rule of the two types is.
THEOREM RulesAreObligations ==
    ASSUME World, NEW w \in DOMAIN world.wire, NEW n \in DOMAIN world.schema,
           Resolved(n) # Unresolved, NEW left \in BOOLEAN, NEW R
    PROVE  Rule(<<w, n, left>>, R) <=> AllMet(Obligations(w, Resolved(n), left), R)
<1> DEFINE wire == Wire(w)
           node == Schema(Resolved(n))
           needs == Obligations(w, Resolved(n), left)
           rule == Rule(<<w, n, left>>, R)
           W == DOMAIN world.wire
           N == DOMAIN world.schema
           sub == IF left THEN wire ELSE node
           sup == IF left THEN node ELSE wire
<1>1. IsType(wire, W) /\ (IsType(node, N) \/ node.kind = "rec")
  BY ResolvedIsNode DEF World, IsWire, IsSchema, Wire, Schema
<1>2. rule <=> \/ sub.kind = "empty" \/ sup.kind \in {"reserved", "opt"}
               \/ sub.kind = sup.kind /\ sub.kind \in Primitives
               \/ sub.kind = "nat" /\ sup.kind = "int"
               \/ /\ sub.kind = "vec" /\ sup.kind = "vec"
                  /\ Below(sub.inner, sup.inner, left, R)
               \/ /\ sub.kind = "record" /\ sup.kind = "record"
                  /\ RecordBelow(sub.fields, sup.fields, left, R)
               \/ /\ sub.kind = "variant" /\ sup.kind = "variant"
                  /\ VariantBelow(sub.fields, sup.fields, left, R)
               \/ /\ sub.kind = "service" /\ sup.kind = "service"
                  /\ ServiceBelow(sub.fields, sup.fields, left, R)
               \/ /\ sub.kind = "func" /\ sup.kind = "func" /\ sub.mode = sup.mode
                  /\ RecordBelow(sup.args, sub.args, ~left, R)
                  /\ RecordBelow(sub.results, sup.results, left, R)
  <2>1. <<w, n, left>>[1] = w /\ <<w, n, left>>[2] = n /\ <<w, n, left>>[3] = left
    OBVIOUS
  <2> QED
    BY <2>1 DEF Rule
<1>3. AllMet(<< >>, R) /\ ~AllMet(Never, R)
  <2>1. AllMet(<< >>, R)
    BY DEF AllMet
  <2>2. 1 \in DOMAIN Never /\ ~Meets(Never[1], R)
    BY DEF Never, Lack, Meets
  <2> QED
    BY <2>1, <2>2 DEF AllMet
<1>4. Universal(wire, node, left) <=> sub.kind = "empty" \/ sup.kind \in {"reserved", "opt"}
  BY DEF Universal
<1>5. PrimitiveRule(wire, node, left)
        <=> sub.kind = sup.kind \/ (sub.kind = "nat" /\ sup.kind = "int")
  BY DEF PrimitiveRule
<1>6. /\ Universal(wire, node, left) => needs = << >>
      /\ ~Universal(wire, node, left) =>
            /\ node.kind \in Primitives =>
                  needs = IF PrimitiveRule(wire, node, left) THEN << >> ELSE Never
            /\ node.kind \notin Primitives =>
                  /\ wire.kind # node.kind \/ node.kind = "opt" => needs = Never
                  /\ wire.kind = node.kind =>
                        /\ node.kind = "vec" => needs = <<Need(wire.inner, node.inner, left)>>
                        /\ node.kind = "record" =>
                              needs = RecordRule(wire.fields, node.fields, left)
                        /\ node.kind = "func" => needs = FuncRule(wire, node, left)
                        /\ node.kind = "variant" =>
                              needs = IF left THEN EachWire(wire.fields, node.fields, left, FALSE)
                                      ELSE EachSchema(wire.fields, node.fields, left, FALSE)
                        /\ node.kind = "service" =>
                              needs = IF left THEN EachSchema(wire.fields, node.fields, left, FALSE)
                                      ELSE EachWire(wire.fields, node.fields, left, FALSE)
  BY DEF Obligations
<1>7. /\ wire.kind = node.kind => sub.kind = node.kind /\ sup.kind = node.kind
      /\ sub.kind = sup.kind => wire.kind = node.kind
      /\ sub = IF left THEN wire ELSE node
      /\ sup = IF left THEN node ELSE wire
      /\ {sub.kind, sup.kind} = {wire.kind, node.kind}
  OBVIOUS
<1>8. wire.kind = node.kind /\ node.kind \in {"record", "variant", "service"} =>
        IsFields(wire.fields, W) /\ IsFields(node.fields, N)
  BY <1>1 DEF IsType, Primitives
<1>9. wire.kind = node.kind /\ node.kind = "func" =>
        /\ IsFields(wire.args, W) /\ IsFields(node.args, N)
        /\ IsFields(wire.results, W) /\ IsFields(node.results, N)
  BY <1>1 DEF IsType, Primitives
<1>10. node.kind \in Primitives \/ wire.kind # node.kind
         \/ node.kind \in {"opt", "vec", "record", "variant", "service", "func"}
  BY <1>1 DEF IsType, Primitives
<1> SUFFICES rule <=> AllMet(needs, R)
  OBVIOUS
<1> HIDE DEF wire, node, needs, rule, sub, sup
<1>11. CASE Universal(wire, node, left)
  BY <1>2, <1>3, <1>4, <1>6, <1>11
<1>12. CASE ~Universal(wire, node, left) /\ node.kind \in Primitives
  <2>1. rule <=> PrimitiveRule(wire, node, left)
    BY <1>2, <1>4, <1>5, <1>7, <1>12 DEF Primitives
  <2> QED
    BY <1>3, <1>6, <1>12, <2>1
<1>13. CASE ~Universal(wire, node, left) /\ node.kind \notin Primitives
            /\ (wire.kind # node.kind \/ node.kind = "opt")
  <2>1. ~rule
    BY <1>2, <1>4, <1>7, <1>13 DEF Primitives
  <2> QED
    BY <1>3, <1>6, <1>13, <2>1
<1>14. CASE ~Universal(wire, node, left) /\ wire.kind = node.kind /\ node.kind = "vec"
  <2>1. needs = <<Need(wire.inner, node.inner, left)>>
    BY <1>6, <1>14 DEF Primitives
  <2>2. AllMet(needs, R) <=> <<wire.inner, node.inner, left>> \in R
    BY <2>1 DEF AllMet, Meets, Need
  <2>3. rule <=> Below(sub.inner, sup.inner, left, R)
    BY <1>2, <1>4, <1>7, <1>14 DEF Primitives
  <2> QED
    BY <1>7, <2>2, <2>3 DEF Below
<1>15. CASE ~Universal(wire, node, left) /\ wire.kind = node.kind /\ node.kind = "record"
  <2>1. needs = RecordRule(wire.fields, node.fields, left)
    BY <1>6, <1>15 DEF Primitives
  <2>2. rule <=> RecordBelow(sub.fields, sup.fields, left, R)
    BY <1>2, <1>4, <1>7, <1>15 DEF Primitives
  <2>3. RecordBelow(sub.fields, sup.fields, left, R)
          <=> RecordHas(wire.fields, node.fields, left, R)
    BY <1>7, RecordBelowMet
  <2>4. AllMet(RecordRule(wire.fields, node.fields, left), R)
          <=> RecordHas(wire.fields, node.fields, left, R)
    BY <1>8, <1>15, RecordRuleMet
  <2> QED
    BY <2>1, <2>2, <2>3, <2>4
<1>16. CASE ~Universal(wire, node, left) /\ wire.kind = node.kind
             /\ node.kind \in {"variant", "service"}
  <2>1. /\ AllMet(EachWire(wire.fields, node.fields, left, FALSE), R)
             <=> WireHas(wire.fields, node.fields, left, FALSE, R)
        /\ AllMet(EachSchema(wire.fields, node.fields, left, FALSE), R)
             <=> SchemaHas(wire.fields, node.fields, left, FALSE, R)
    <3>1. FALSE \in BOOLEAN /\ IsFields(wire.fields, W) /\ IsFields(node.fields, N)
      BY <1>8, <1>16
    <3> QED
      BY <3>1, EachWireMet, EachSchemaMet
  <2>2. CASE node.kind = "variant"
    <3>1. needs = IF left THEN EachWire(wire.fields, node.fields, left, FALSE)
                          ELSE EachSchema(wire.fields, node.fields, left, FALSE)
      BY <1>6, <1>16, <2>2 DEF Primitives
    <3>2. rule <=> VariantBelow(sub.fields, sup.fields, left, R)
      BY <1>2, <1>4, <1>7, <1>16, <2>2 DEF Primitives
    <3>3. VariantBelow(sub.fields, sup.fields, left, R)
            <=> IF left THEN WireHas(wire.fields, node.fields, left, FALSE, R)
                        ELSE SchemaHas(wire.fields, node.fields, left, FALSE, R)
      BY <1>7, VariantBelowMet
    <3> QED
      BY <2>1, <3>1, <3>2, <3>3
  <2>3. CASE node.kind = "service"
    <3>1. needs = IF left THEN EachSchema(wire.fields, node.fields, left, FALSE)
                          ELSE EachWire(wire.fields, node.fields, left, FALSE)
      BY <1>6, <1>16, <2>3 DEF Primitives
    <3>2. rule <=> ServiceBelow(sub.fields, sup.fields, left, R)
      BY <1>2, <1>4, <1>7, <1>16, <2>3 DEF Primitives
    <3>3. ServiceBelow(sub.fields, sup.fields, left, R)
            <=> IF left THEN SchemaHas(wire.fields, node.fields, left, FALSE, R)
                        ELSE WireHas(wire.fields, node.fields, left, FALSE, R)
      BY <1>7, ServiceBelowMet
    <3> QED
      BY <2>1, <3>1, <3>2, <3>3
  <2> QED
    BY <1>16, <2>2, <2>3
<1>17. CASE ~Universal(wire, node, left) /\ wire.kind = node.kind /\ node.kind = "func"
  <2>1. needs = FuncRule(wire, node, left)
    BY <1>6, <1>17 DEF Primitives
  <2>2. rule <=> /\ sub.mode = sup.mode
                 /\ RecordBelow(sup.args, sub.args, ~left, R)
                 /\ RecordBelow(sub.results, sup.results, left, R)
    BY <1>2, <1>4, <1>7, <1>17 DEF Primitives
  <2>3. RecordBelow(sup.args, sub.args, ~left, R)
          <=> RecordHas(wire.args, node.args, ~left, R)
    <3>1. (~left) \in BOOLEAN
      OBVIOUS
    <3>2. CASE left = TRUE
      BY <1>7, <3>1, <3>2, RecordBelowMet
    <3>3. CASE left = FALSE
      BY <1>7, <3>1, <3>3, RecordBelowMet
    <3> QED
      BY <3>2, <3>3
  <2>4. RecordBelow(sub.results, sup.results, left, R)
          <=> RecordHas(wire.results, node.results, left, R)
    BY <1>7, RecordBelowMet
  <2>5. sub.mode = sup.mode <=> wire.mode = node.mode
    BY <1>7
  <2>6. CASE wire.mode # node.mode
    BY <1>3, <2>1, <2>2, <2>5, <2>6 DEF FuncRule
  <2>7. CASE wire.mode = node.mode
    <3> DEFINE args == RecordRule(wire.args, node.args, ~left)
               results == RecordRule(wire.results, node.results, left)
    <3>1. needs = args \o results
      BY <2>1, <2>7 DEF FuncRule
    <3>2. args \in Seq(NeedSet)
      BY <1>9, <1>17, RecordRuleType
    <3>3. results \in Seq(NeedSet)
      BY <1>9, <1>17, RecordRuleType
    <3>4. AllMet(args, R) <=> RecordHas(wire.args, node.args, ~left, R)
      BY <1>9, <1>17, RecordRuleMet
    <3>5. AllMet(results, R) <=> RecordHas(wire.results, node.results, left, R)
      BY <1>9, <1>17, RecordRuleMet
    <3> HIDE DEF args, results
    <3>6. AllMet(args \o results, R) <=> AllMet(args, R) /\ AllMet(results, R)
      BY <3>2, <3>3, ConcatMet
    <3> QED
      BY <2>2, <2>3, <2>4, <2>5, <2>7, <3>1, <3>4, <3>5, <3>6
  <2> QED
    BY <2>6, <2>7
<1> QED
  BY <1>10, <1>11, <1>12, <1>13, <1>14, <1>15, <1>16, <1>17

-----------------------------------------------------------------------------
\* Subtypes is the largest relation closed under Rule.

\* Peeling ends: among finite sets that fail a condition, one is smallest.
LEMMA SmallestSet ==
    ASSUME NEW S, IsFiniteSet(S), NEW T, T \subseteq SUBSET S, T # {}
    PROVE  \E m \in T : \A k \in T : k \subseteq m => k = m
<1>1. IsWellFoundedOn(StrictSubsetOrdering(S), SUBSET S)
  BY FS_StrictSubsetOrderingWellFounded, FS_FiniteSubsetsOfFinite
<1>2. PICK m \in T : \A k \in T : <<k, m>> \notin StrictSubsetOrdering(S)
  BY <1>1, WFMin
<1> QED
  BY <1>2 DEF StrictSubsetOrdering

LEMMA TriplesFinite ==
    ASSUME NEW A, NEW B, IsFiniteSet(A), IsFiniteSet(B)
    PROVE  IsFiniteSet(A \X B \X BOOLEAN)
<1> DEFINE T == {S \in SUBSET A : ~IsFiniteSet(S \X B \X BOOLEAN)}
<1>1. ASSUME T # {}
      PROVE  FALSE
  <2>1. PICK S \in T : \A U \in T : U \subseteq S => U = S
    <3>1. T \subseteq SUBSET A
      OBVIOUS
    <3> HIDE DEF T
    <3> QED
      BY <1>1, <3>1, SmallestSet
  <2>2. S # {}
    <3>1. ({} \X B \X BOOLEAN) = {}
      OBVIOUS
    <3> QED
      BY <2>1, <3>1, FS_EmptySet
  <2>3. PICK x \in S : TRUE
    BY <2>2
  <2> DEFINE rest == (S \ {x}) \X B \X BOOLEAN
             of(b) == {x} \X B \X {b}
  <2>4. IsFiniteSet(rest)
    <3>1. S \ {x} \in SUBSET A /\ S \ {x} \subseteq S /\ S \ {x} # S
      BY <2>1, <2>3
    <3> QED
      BY <2>1, <3>1
  <2>5. ASSUME NEW b
        PROVE  IsFiniteSet(of(b))
    <3> DEFINE f == [y \in B |-> <<x, y, b>>]
    <3>1. f \in [B -> of(b)]
      OBVIOUS
    <3>2. ASSUME NEW t \in of(b)
          PROVE  \E y \in B : f[y] = t
      <4>1. PICK y \in B : t = <<x, y, b>>
        OBVIOUS
      <4> QED
        BY <4>1
    <3>3. f \in Surjection(B, of(b))
      BY <3>1, <3>2 DEF Surjection
    <3> QED
      BY <3>3, FS_Surjection
  <2>6. S \X B \X BOOLEAN = (rest \cup of(TRUE)) \cup of(FALSE)
    BY <2>3
  <2>7. IsFiniteSet((rest \cup of(TRUE)) \cup of(FALSE))
    <3> HIDE DEF rest, of
    <3>1. IsFiniteSet(rest \cup of(TRUE))
      BY <2>4, <2>5, FS_Union
    <3> QED
      BY <2>5, <3>1, FS_Union
  <2> QED
    BY <2>1, <2>6, <2>7
<1> QED
  BY <1>1

LEMMA PairTriple ==
    ASSUME NEW p \in Pair
    PROVE  /\ p = <<p[1], p[2], p[3]>>
           /\ p[1] \in DOMAIN world.wire /\ p[2] \in DOMAIN world.schema /\ p[3] \in BOOLEAN
BY DEF Pair

\* A rule met by a relation is met by a larger one.
LEMMA RuleGrows ==
    ASSUME World, NEW p \in Resolvable, NEW R, NEW S, R \subseteq S, Rule(p, R)
    PROVE  Rule(p, S)
<1>1. /\ p = <<p[1], p[2], p[3]>> /\ Resolved(p[2]) # Unresolved
      /\ p[1] \in DOMAIN world.wire /\ p[2] \in DOMAIN world.schema /\ p[3] \in BOOLEAN
  BY PairTriple DEF Resolvable
<1> DEFINE needs == Obligations(p[1], Resolved(p[2]), p[3])
<1>2. \A related : Rule(<<p[1], p[2], p[3]>>, related) <=> AllMet(needs, related)
  BY <1>1, RulesAreObligations
<1> HIDE DEF needs
<1>3. AllMet(needs, R) => AllMet(needs, S)
  BY DEF AllMet, Meets
<1> QED
  BY <1>1, <1>2, <1>3

Closed(R) == R \in SUBSET Resolvable /\ \A p \in R : Rule(p, R)

\* The largest closed relation is reached: dropping the pairs whose rule fails until none does
\* leaves a closed relation that contains every other, recursive types included.
THEOREM SubtypesAreTheLargest ==
    ASSUME World
    PROVE  Closed(Subtypes) /\ \A R : Closed(R) => R \subseteq Subtypes
<1> DEFINE kept(r) == {p \in r : Rule(p, r)}
           greatest(r) == UNION {R \in SUBSET r : Closed(R)}
           step(f, r) == IF kept(r) = r THEN r ELSE f[kept(r)]
           largest == CHOOSE f : f = [r \in SUBSET Resolvable |-> step(f, r)]
<1>1. Subtypes = largest[Resolvable]
  BY Zenon DEF Subtypes
<1>2. ASSUME NEW r \in SUBSET Resolvable
      PROVE  Closed(greatest(r))
  <2>1. ASSUME NEW p \in greatest(r)
        PROVE  Rule(p, greatest(r))
    <3>1. PICK R \in SUBSET r : Closed(R) /\ p \in R
      BY <2>1
    <3>2. R \subseteq greatest(r) /\ p \in Resolvable /\ Rule(p, R)
      BY <3>1 DEF Closed
    <3> QED
      BY <3>2, RuleGrows
  <2> QED
    BY <2>1 DEF Closed
<1>3. ASSUME NEW r \in SUBSET Resolvable, kept(r) = r
      PROVE  greatest(r) = r
  <2>1. Closed(r)
    BY <1>3 DEF Closed
  <2> QED
    BY <2>1
<1>4. ASSUME NEW r \in SUBSET Resolvable
      PROVE  kept(r) \in SUBSET Resolvable /\ kept(r) \subseteq r
                /\ greatest(kept(r)) = greatest(r)
  <2>1. ASSUME NEW R \in SUBSET r, Closed(R)
        PROVE  R \subseteq kept(r)
    <3>1. ASSUME NEW p \in R
          PROVE  p \in kept(r)
      <4>1. p \in Resolvable /\ Rule(p, R)
        BY <2>1 DEF Closed
      <4> QED
        BY <4>1, RuleGrows
    <3> QED
      BY <3>1
  <2> QED
    BY <2>1
<1> HIDE DEF greatest, kept
<1>5. \E f : f = [r \in SUBSET Resolvable |-> step(f, r)]
  <2> DEFINE f == [r \in SUBSET Resolvable |-> greatest(r)]
  <2>1. ASSUME NEW r \in SUBSET Resolvable
        PROVE  greatest(r) = step(f, r)
    BY <1>3, <1>4
  <2>2. f = [r \in SUBSET Resolvable |-> step(f, r)]
    BY <2>1
  <2> QED
    BY <2>2
<1>6. largest = [r \in SUBSET Resolvable |-> step(largest, r)]
  BY <1>5
<1>7. \A r \in SUBSET Resolvable : largest[r] = step(largest, r)
  <2> HIDE DEF largest
  <2> QED
    BY <1>6
<1> HIDE DEF largest
<1>8. IsFiniteSet(Resolvable)
  <2>1. IsFiniteSet(Pair)
    BY TriplesFinite DEF World, IsWire, IsSchema, IsArena, Pair
  <2> QED
    BY <2>1, FS_Subset DEF Resolvable
<1>9. \A r \in SUBSET Resolvable : largest[r] = greatest(r)
  <2> DEFINE T == {r \in SUBSET Resolvable : largest[r] # greatest(r)}
  <2> SUFFICES ASSUME T # {} PROVE FALSE
    OBVIOUS
  <2>1. PICK r \in T : \A s \in T : s \subseteq r => s = r
    <3>1. T \subseteq SUBSET Resolvable
      OBVIOUS
    <3> HIDE DEF T
    <3> QED
      BY <1>8, <3>1, SmallestSet
  <2>2. largest[r] = step(largest, r)
    BY <1>7, <2>1
  <2>3. CASE kept(r) = r
    BY <1>3, <2>1, <2>2, <2>3
  <2>4. CASE kept(r) # r
    <3>1. largest[kept(r)] = greatest(kept(r))
      BY <1>4, <2>1, <2>4
    <3> QED
      BY <1>4, <2>1, <2>2, <2>4, <3>1
  <2> QED
    BY <2>3, <2>4
<1>10. Subtypes = greatest(Resolvable)
  BY <1>1, <1>9
<1>11. ASSUME NEW R, Closed(R)
       PROVE  R \subseteq greatest(Resolvable)
  BY <1>11 DEF greatest, Closed
<1> QED
  BY <1>2, <1>10, <1>11

-----------------------------------------------------------------------------
\* The inductive invariant.

PairOf(key) == <<key[1], key[2][1], key[3]>>
AskedPair == <<asked[1], asked[2], TRUE>>
MemoKey == (DOMAIN world.wire) \X ((DOMAIN world.schema) \X Nat) \X BOOLEAN
NeedsOf(f) == Obligations(f.wire, f.node, f.left)

\* A frame is about the pair of its key, resolved.
FrameSet == [key : MemoKey, wire : DOMAIN world.wire, left : BOOLEAN,
             node : DOMAIN world.schema, opening : Nat, done : Nat]
IsFrame(f) == /\ f \in FrameSet
              /\ f.wire = f.key[1] /\ f.left = f.key[3]
              /\ f.node = Resolved(f.key[2][1]) /\ f.node # Unresolved
              /\ f.done <= Len(NeedsOf(f))

TypeOK == /\ World
          /\ opened \in Nat /\ reached \in Nat
          /\ memo \in [DOMAIN memo -> BOOLEAN] /\ DOMAIN memo \subseteq MemoKey
          /\ stack \in Seq(FrameSet)
          /\ \A i \in DOMAIN stack : IsFrame(stack[i])
          /\ answer \in {"none", "testing", "accepted", "refused"}
          /\ answer = "testing" <=> stack # << >>

\* Each frame waits for the pair of the next one, the first for none.
Linked == /\ stack # << >> => PairOf(stack[1].key) = AskedPair
          /\ \A i \in DOMAIN stack : i + 1 \in DOMAIN stack =>
                LET needs == NeedsOf(stack[i])
                    need == needs[stack[i].done + 1]
                IN  /\ stack[i].done < Len(needs) /\ need.do = "visit"
                    /\ PairOf(stack[i + 1].key) = <<need.wire, need.node, need.left>>

\* What waits is assumed.
Assumed == \A i \in DOMAIN stack : stack[i].key \in DOMAIN memo /\ memo[stack[i].key] = TRUE

\* As long as nothing was refused, the pairs in the memo carry one another.
Trusted == {PairOf(key) : key \in DOMAIN memo}
NothingRefused == \A key \in DOMAIN memo : memo[key] = TRUE
Carried(key) == /\ Resolved(key[2][1]) # Unresolved
                /\ AllMet(Obligations(key[1], Resolved(key[2][1]), key[3]), Trusted)
Supported == NothingRefused =>
    /\ \A key \in DOMAIN memo \ Waiting : Carried(key)
    /\ \A i \in DOMAIN stack : \A j \in 1..stack[i].done :
          Meets(NeedsOf(stack[i])[j], Trusted)
    /\ answer = "accepted" => AskedPair \in Trusted

\* As long as no walk was cut, what was refused is no subtype; and a waiting pair is one
\* only if those above it are.
Refuted == reached <= world.depth =>
    /\ \A key \in DOMAIN memo : memo[key] = FALSE => PairOf(key) \notin Subtypes
    /\ answer = "refused" => AskedPair \notin Subtypes
    /\ \A i, j \in DOMAIN stack : i <= j /\ PairOf(stack[i].key) \in Subtypes =>
          PairOf(stack[j].key) \in Subtypes

IInv == TypeOK /\ Linked /\ Assumed /\ Supported /\ Refuted

-----------------------------------------------------------------------------
\* What the steps share.

\* The rule of the pair a memo key stands for.
LEMMA KeyRule ==
    ASSUME World, NEW key \in MemoKey, Resolved(key[2][1]) # Unresolved
    PROVE  /\ PairOf(key) \in Resolvable
           /\ Obligations(key[1], Resolved(key[2][1]), key[3]) \in Seq(NeedSet)
           /\ \A R : Rule(PairOf(key), R)
                        <=> AllMet(Obligations(key[1], Resolved(key[2][1]), key[3]), R)
<1>1. /\ key[1] \in DOMAIN world.wire /\ key[2][1] \in DOMAIN world.schema
      /\ key[3] \in BOOLEAN
  BY DEF MemoKey
<1>2. Resolved(key[2][1]) \in DOMAIN world.schema
  BY <1>1, ResolvedIsNode
<1>3. PairOf(key) \in Resolvable
  BY <1>1 DEF PairOf, Resolvable, Pair
<1>4. \A R : Rule(<<key[1], key[2][1], key[3]>>, R)
                <=> AllMet(Obligations(key[1], Resolved(key[2][1]), key[3]), R)
  BY <1>1, RulesAreObligations
<1> QED
  BY <1>1, <1>2, <1>3, <1>4, NeedsType DEF PairOf

\* A waiting pair, its key and its obligations.
LEMMA FrameFacts ==
    ASSUME World, NEW f, IsFrame(f)
    PROVE  /\ f.key \in MemoKey /\ PairOf(f.key) \in Resolvable
           /\ f.done \in Nat /\ NeedsOf(f) \in Seq(NeedSet)
           /\ NeedsOf(f) = Obligations(f.key[1], Resolved(f.key[2][1]), f.key[3])
           /\ Resolved(f.key[2][1]) # Unresolved
           /\ \A R : Rule(PairOf(f.key), R) <=> AllMet(NeedsOf(f), R)
<1>1. /\ f.key \in MemoKey /\ f.done \in Nat
      /\ f.wire = f.key[1] /\ f.left = f.key[3]
      /\ f.node = Resolved(f.key[2][1]) /\ Resolved(f.key[2][1]) # Unresolved
  BY DEF IsFrame, FrameSet
<1> QED
  BY <1>1, KeyRule DEF NeedsOf

LEMMA TopFacts ==
    ASSUME TypeOK, answer = "testing"
    PROVE  /\ Len(stack) \in DOMAIN stack /\ Len(stack) \in Nat /\ Top = stack[Len(stack)]
           /\ IsFrame(Top) /\ TopNeeds = NeedsOf(Top)
           /\ 1 \in DOMAIN stack
<1>1. stack # << >> /\ stack \in Seq(FrameSet)
  BY DEF TypeOK
<1>2. Len(stack) \in Nat \ {0} /\ DOMAIN stack = 1..Len(stack)
  BY <1>1
<1> QED
  BY <1>2 DEF TypeOK, Top, Last, TopNeeds, NeedsOf

\* The obligation of the top pair that comes next is met by a relation that holds it.
LEMMA TopNeedsMet ==
    ASSUME TypeOK, answer = "testing", Top.done < Len(TopNeeds)
    PROVE  /\ NextNeed \in NeedSet /\ Top.done + 1 \in DOMAIN TopNeeds
           /\ ~Meets(NextNeed, Subtypes) => PairOf(Top.key) \notin Subtypes
<1>1. World /\ IsFrame(Top) /\ TopNeeds = NeedsOf(Top)
  BY TopFacts DEF TypeOK
<1>2. TopNeeds \in Seq(NeedSet) /\ Top.done \in Nat
  BY <1>1, FrameFacts
<1>3. Top.done + 1 \in DOMAIN TopNeeds
  BY <1>2
<1>4. TopNeeds[Top.done + 1] \in NeedSet
  BY <1>2, <1>3
<1>5. PairOf(Top.key) \in Subtypes => AllMet(TopNeeds, Subtypes)
  BY <1>1, FrameFacts, SubtypesAreTheLargest DEF Closed
<1> QED
  BY <1>3, <1>4, <1>5 DEF NextNeed, AllMet

\* The pair a visit asks for, as a key of the memo.
LEMMA ChildFacts ==
    ASSUME TypeOK, Wants("visit")
    PROVE  /\ ChildKey \in MemoKey /\ ChildKey[2] = Child
           /\ PairOf(ChildKey) = <<NextNeed.wire, NextNeed.node, NextNeed.left>>
           /\ \A R : Meets(NextNeed, R) <=> PairOf(ChildKey) \in R
           /\ OpeningOf(Child) \in Nat /\ OpenedBy(Child) \in Nat
<1>1. answer = "testing" /\ NextNeed \in NeedSet /\ NextNeed.do = "visit"
  BY TopNeedsMet DEF Wants
<1>2. NextNeed.do = "visit" /\ NextNeed.wire \in DOMAIN world.wire
      /\ NextNeed.node \in DOMAIN world.schema /\ NextNeed.left \in BOOLEAN
  BY <1>1 DEF NeedSet, Skip, Lack
<1>3. Top.opening \in Nat /\ opened \in Nat
  BY <1>1, TopFacts DEF TypeOK, IsFrame, FrameSet
<1>4. Child[1] = NextNeed.node /\ Child[2] \in Nat
      /\ Child \in (DOMAIN world.schema) \X Nat
  BY <1>2, <1>3 DEF Child, ObjectOf
<1>5. ChildKey = <<NextNeed.wire, Child, NextNeed.left>>
  BY DEF ChildKey, Key
<1>6. ChildKey \in MemoKey /\ ChildKey[2] = Child
      /\ PairOf(ChildKey) = <<NextNeed.wire, NextNeed.node, NextNeed.left>>
  BY <1>2, <1>4, <1>5 DEF MemoKey, PairOf
<1>7. OpeningOf(Child) \in Nat /\ OpenedBy(Child) \in Nat
  BY <1>3, <1>4 DEF OpeningOf, OpenedBy
<1> QED
  BY <1>2, <1>6, <1>7 DEF Meets

\* A step leaves the arenas alone, and with them what they mean.
LEMMA Steady ==
    ASSUME world' = world
    PROVE  /\ World' = World /\ MemoKey' = MemoKey /\ FrameSet' = FrameSet
           /\ Subtypes' = Subtypes
           /\ \A n : Resolved(n)' = Resolved(n)
           /\ \A w, m, left : Obligations(w, m, left)' = Obligations(w, m, left)
<1>1. World' = World /\ MemoKey' = MemoKey /\ FrameSet' = FrameSet
  BY DEF World, MemoKey, FrameSet
<1>2. Subtypes' = Subtypes
  BY DEF Subtypes, Resolvable, Pair, Rule, Resolved, Schema, Wire, RecordBelow, VariantBelow,
         ServiceBelow, Below, OptLike, OptLikeWire, OptLikeSchema, Keys, Under, At
<1>3. ASSUME NEW n
      PROVE  Resolved(n)' = Resolved(n)
  BY DEF Resolved, Schema
<1>4. ASSUME NEW w, NEW m, NEW left
      PROVE  Obligations(w, m, left)' = Obligations(w, m, left)
  BY DEF Obligations, Resolved, Schema, Wire, RecordRule, FuncRule, EachWire, EachSchema,
         OptLikeWire, OptLikeSchema, TypeAt, At, Universal, PrimitiveRule
<1> QED
  BY <1>1, <1>2, <1>3, <1>4

LEMMA SteadyFrames ==
    ASSUME world' = world
    PROVE  \A f : NeedsOf(f)' = NeedsOf(f) /\ IsFrame(f)' = IsFrame(f)
<1> TAKE f
<1>1. NeedsOf(f)' = NeedsOf(f)
  BY Steady DEF NeedsOf
<1> QED
  BY <1>1, Steady DEF IsFrame

-----------------------------------------------------------------------------
\* Every step keeps the invariant.

\* The memo is empty and nothing waits.
LEMMA InitHolds == ReferencesInit => IInv
<1> SUFFICES ASSUME ReferencesInit PROVE IInv
  OBVIOUS
<1>1. World
  BY WorldHolds
<1>2. memo = << >> /\ DOMAIN memo = {} /\ stack = << >> /\ DOMAIN stack = {}
        /\ opened = 0 /\ reached = 0 /\ answer = "none"
  BY DEF ReferencesInit
<1>3. TypeOK
  BY <1>1, <1>2 DEF TypeOK
<1> QED
  BY <1>2, <1>3 DEF IInv, Linked, Assumed, Supported, Refuted

\* A refusal ends every pair that waits; none of them is a subtype.
LEMMA FailsKeeps ==
    ASSUME IInv, answer = "testing", NEW answers, Fails(answers),
           UNCHANGED <<world, asked>>, opened' \in Nat, reached' \in Nat,
           answers \in [DOMAIN answers -> BOOLEAN],
           DOMAIN memo \subseteq DOMAIN answers, DOMAIN answers \subseteq MemoKey,
           \A key \in DOMAIN memo : answers[key] = memo[key],
           reached' <= world.depth =>
              /\ reached <= world.depth /\ PairOf(Top.key) \notin Subtypes
              /\ \A key \in DOMAIN answers \ DOMAIN memo : PairOf(key) \notin Subtypes
    PROVE  IInv'
<1>1. /\ DOMAIN memo' = DOMAIN answers
      /\ \A key \in DOMAIN memo' : memo'[key] = (answers[key] /\ key \notin Waiting)
      /\ stack' = << >> /\ DOMAIN stack' = {} /\ answer' = "refused"
      /\ memo' \in [DOMAIN memo' -> BOOLEAN]
  BY DEF Fails
<1>2. World /\ 1 \in DOMAIN stack /\ Len(stack) \in DOMAIN stack /\ 1 <= Len(stack)
        /\ Top = stack[Len(stack)] /\ DOMAIN stack = 1..Len(stack) /\ Len(stack) \in Nat
  <2>1. stack \in Seq(FrameSet)
    BY DEF IInv, TypeOK
  <2> QED
    BY <2>1, TopFacts DEF IInv, TypeOK
<1>3. World' /\ MemoKey' = MemoKey /\ Subtypes' = Subtypes /\ AskedPair' = AskedPair
        /\ world'.depth = world.depth
  BY <1>2, Steady DEF AskedPair
<1>4. TypeOK'
  BY <1>1, <1>3 DEF TypeOK
<1>5. Linked' /\ Assumed'
  BY <1>1 DEF Linked, Assumed
<1>6. Supported'
  <2>1. stack[1].key \in DOMAIN memo /\ stack[1].key \in Waiting
    BY <1>2 DEF IInv, Assumed, Waiting
  <2>2. stack[1].key \in DOMAIN memo' /\ memo'[stack[1].key] = FALSE
    BY <1>1, <2>1
  <2>3. ~NothingRefused'
    BY <2>2 DEF NothingRefused
  <2> QED
    BY <2>3 DEF Supported
<1>7. Refuted'
  <2> SUFFICES ASSUME reached' <= world.depth
               PROVE  /\ \A key \in DOMAIN memo' : memo'[key] = FALSE => PairOf(key) \notin Subtypes
                      /\ AskedPair \notin Subtypes
    BY <1>1, <1>3 DEF Refuted, PairOf
  <2>1. /\ \A key \in DOMAIN memo : memo[key] = FALSE => PairOf(key) \notin Subtypes
        /\ \A i \in DOMAIN stack : PairOf(stack[i].key) \notin Subtypes
    <3>1. \A i \in DOMAIN stack : i <= Len(stack)
      BY <1>2
    <3> QED
      BY <1>2, <3>1 DEF IInv, Refuted
  <2>2. ASSUME NEW key \in DOMAIN memo', memo'[key] = FALSE
        PROVE  PairOf(key) \notin Subtypes
    <3>1. CASE key \in Waiting
      BY <2>1, <3>1 DEF Waiting
    <3>2. CASE key \notin Waiting
      <4>1. answers[key] = FALSE
        BY <1>1, <2>2, <3>2
      <4> QED
        BY <1>1, <2>1, <4>1
    <3> QED
      BY <3>1, <3>2
  <2>3. AskedPair \notin Subtypes
    BY <1>2, <2>1 DEF IInv, Linked
  <2> QED
    BY <2>2, <2>3
<1> QED
  BY <1>4, <1>5, <1>6, <1>7 DEF IInv

\* The top pair goes on when the obligation is met by what the memo trusts.
LEMMA ProceedsKeeps ==
    ASSUME IInv, answer = "testing", Top.done < Len(TopNeeds), Proceeds,
           UNCHANGED <<world, opened, asked>>, reached' \in Nat, reached' >= reached,
           Meets(NextNeed, Trusted)
    PROVE  IInv'
<1> DEFINE n == Len(stack)
           top == [Top EXCEPT !.done = @ + 1]
<1>1. World /\ stack \in Seq(FrameSet) /\ n \in DOMAIN stack /\ n \in Nat \ {0}
        /\ Top = stack[n] /\ IsFrame(Top) /\ TopNeeds = NeedsOf(Top)
        /\ DOMAIN stack = 1..n
  <2>1. stack \in Seq(FrameSet)
    BY DEF IInv, TypeOK
  <2> QED
    BY <2>1, TopFacts DEF IInv, TypeOK
<1>2. Top.done \in Nat /\ NeedsOf(Top) \in Seq(NeedSet) /\ Top \in FrameSet
  BY <1>1, FrameFacts DEF IsFrame
<1>3. /\ top.key = Top.key /\ top.wire = Top.wire /\ top.left = Top.left
      /\ top.node = Top.node /\ top.done = Top.done + 1 /\ top \in FrameSet
  BY <1>2 DEF FrameSet
<1>4. NeedsOf(top) = NeedsOf(Top)
  BY <1>3 DEF NeedsOf
<1>5. IsFrame(top)
  <2>1. Top.done + 1 <= Len(NeedsOf(Top))
    BY <1>1, <1>2
  <2> QED
    BY <1>1, <1>3, <1>4, <2>1 DEF IsFrame
<1>6. /\ stack' = [stack EXCEPT ![n] = top] /\ stack' \in Seq(FrameSet)
      /\ DOMAIN stack' = DOMAIN stack /\ Len(stack') = n /\ stack'[n] = top
      /\ \A i \in DOMAIN stack : i # n => stack'[i] = stack[i]
      /\ memo' = memo /\ answer' = answer
  <2>1. stack' = [stack EXCEPT ![n] = [stack[n] EXCEPT !.done = @ + 1]]
    BY DEF Proceeds, Advanced
  <2>2. stack' = [stack EXCEPT ![n] = top] /\ memo' = memo /\ answer' = answer
    BY <1>1, <2>1 DEF Proceeds
  <2> HIDE DEF top
  <2> QED
    BY <1>1, <1>3, <2>2
<1>7. World' /\ MemoKey' = MemoKey /\ FrameSet' = FrameSet /\ Subtypes' = Subtypes
        /\ AskedPair' = AskedPair /\ world'.depth = world.depth
  BY <1>1, Steady DEF AskedPair
<1>8. \A f : NeedsOf(f)' = NeedsOf(f) /\ IsFrame(f)' = IsFrame(f)
  BY SteadyFrames
<1> HIDE DEF top, n
<1>9. \A i \in DOMAIN stack : stack'[i].key = stack[i].key
  BY <1>1, <1>3, <1>6
<1>10. Waiting' = Waiting
  BY <1>6, <1>9 DEF Waiting
<1>11. TypeOK'
  <2>1. \A i \in DOMAIN stack' : IsFrame(stack'[i])
    BY <1>5, <1>6 DEF IInv, TypeOK
  <2>2. \A i \in DOMAIN stack' : IsFrame(stack[i])'
    BY <1>8, <2>1
  <2>3. answer' = "testing" /\ stack' # << >>
    BY <1>1, <1>6
  <2> QED
    BY <1>6, <1>7, <2>2, <2>3 DEF IInv, TypeOK
<1>12. Linked'
  <2>1. stack' # << >> /\ PairOf(stack'[1].key) = AskedPair
    BY <1>1, <1>6, <1>9 DEF IInv, Linked
  <2>2. ASSUME NEW i \in DOMAIN stack, i + 1 \in DOMAIN stack
        PROVE  /\ stack'[i] = stack[i] /\ PairOf(stack'[i + 1].key) = PairOf(stack[i + 1].key)
    BY <1>1, <1>6, <1>9, <2>2
  <2> QED
    BY <1>6, <1>7, <1>8, <2>1, <2>2 DEF IInv, Linked, PairOf
<1>13. Assumed'
  BY <1>6, <1>9 DEF IInv, Assumed
<1>14. Supported'
  <2> SUFFICES ASSUME NothingRefused'
               PROVE  /\ \A key \in DOMAIN memo' \ Waiting' : Carried(key)'
                      /\ \A i \in DOMAIN stack' : \A j \in 1..stack'[i].done :
                            Meets(NeedsOf(stack'[i])[j], Trusted)
    <3>1. answer' # "accepted" /\ Trusted' = Trusted
      BY <1>6 DEF Trusted, PairOf
    <3> QED
      BY <1>6, <1>8, <3>1 DEF Supported, Meets
  <2>1. NothingRefused
    BY <1>6 DEF NothingRefused
  <2>2. \A key \in DOMAIN memo' \ Waiting' : Carried(key)'
    <3>1. \A key \in DOMAIN memo \ Waiting : Carried(key)
      BY <2>1 DEF IInv, Supported
    <3>2. Trusted' = Trusted
      BY <1>6 DEF Trusted, PairOf
    <3>3. \A key : Carried(key)' <=> Carried(key)
      BY <3>2, Steady DEF Carried, AllMet, Meets
    <3> QED
      BY <1>6, <1>10, <3>1, <3>3
  <2>3. ASSUME NEW i \in DOMAIN stack, NEW j \in 1..stack'[i].done
        PROVE  Meets(NeedsOf(stack'[i])[j], Trusted)
    <3>1. CASE i # n
      BY <1>6, <2>1, <2>3, <3>1 DEF IInv, Supported
    <3>2. CASE i = n /\ j <= Top.done
      <4>1. j \in 1..stack[n].done
        BY <1>1, <1>2, <1>3, <1>6, <2>3, <3>2
      <4> QED
        BY <1>1, <1>4, <1>6, <2>1, <3>2, <4>1 DEF IInv, Supported
    <3>3. CASE i = n /\ j > Top.done
      <4>1. j = Top.done + 1
        BY <1>2, <1>3, <1>6, <2>3, <3>3
      <4> QED
        BY <1>1, <1>4, <1>6, <3>3, <4>1 DEF NextNeed
    <3>4. j \in Nat
      BY <1>2, <1>3, <1>6, <2>3
    <3> QED
      BY <1>2, <3>1, <3>2, <3>3, <3>4
  <2> QED
    BY <1>6, <2>2, <2>3
<1>15. Refuted'
  <2>1. reached' <= world.depth => reached <= world.depth
    BY <1>1 DEF IInv, TypeOK, World
  <2> QED
    BY <1>6, <1>7, <1>9, <2>1 DEF IInv, Refuted, PairOf
<1> QED
  BY <1>11, <1>12, <1>13, <1>14, <1>15 DEF IInv

\* A new pair is learnt as true: the memo grows by it, and what it trusts grows.
LEMMA Learns ==
    ASSUME TypeOK, NEW key \in MemoKey, memo' = Learn(memo, key, TRUE), world' = world
    PROVE  /\ DOMAIN memo' = DOMAIN memo \cup {key} /\ memo'[key] = TRUE
           /\ \A k \in DOMAIN memo : k # key => memo'[k] = memo[k]
           /\ memo' \in [DOMAIN memo' -> BOOLEAN] /\ DOMAIN memo' \subseteq MemoKey
           /\ Trusted \subseteq Trusted' /\ PairOf(key) \in Trusted'
           /\ \A need : Meets(need, Trusted) => Meets(need, Trusted')
           /\ \A k : Carried(k) => Carried(k)'
<1>1. memo' = [k \in DOMAIN memo \cup {key} |-> IF k = key THEN TRUE ELSE memo[k]]
  BY DEF Learn
<1>2. /\ DOMAIN memo' = DOMAIN memo \cup {key} /\ memo'[key] = TRUE
      /\ \A k \in DOMAIN memo : k # key => memo'[k] = memo[k]
      /\ memo' \in [DOMAIN memo' -> BOOLEAN] /\ DOMAIN memo' \subseteq MemoKey
  BY <1>1 DEF TypeOK
<1>3. Trusted' = {PairOf(k) : k \in DOMAIN memo'}
  BY DEF Trusted, PairOf
<1>4. Trusted \subseteq Trusted' /\ PairOf(key) \in Trusted'
  BY <1>2, <1>3 DEF Trusted
<1>5. \A need : Meets(need, Trusted) => Meets(need, Trusted')
  BY <1>4 DEF Meets
<1>6. ASSUME NEW k, Carried(k)
      PROVE  Carried(k)'
  <2>1. /\ Resolved(k[2][1])' = Resolved(k[2][1])
        /\ Obligations(k[1], Resolved(k[2][1]), k[3])'
             = Obligations(k[1], Resolved(k[2][1]), k[3])
    BY Steady
  <2> QED
    BY <1>5, <1>6, <2>1 DEF Carried, AllMet, Meets
<1> QED
  BY <1>2, <1>4, <1>5, <1>6

\* A pair begins with none of its obligations met.
LEMMA NewFrame ==
    ASSUME World, NEW w \in DOMAIN world.wire, NEW left \in BOOLEAN,
           NEW object \in (DOMAIN world.schema) \X Nat,
           Resolved(object[1]) # Unresolved, OpeningOf(object) \in Nat
    PROVE  /\ IsFrame(Frame(w, object, left)) /\ Key(w, object, left) \in MemoKey
           /\ Frame(w, object, left).key = Key(w, object, left)
           /\ Frame(w, object, left).done = 0
<1> DEFINE frame == Frame(w, object, left)
           key == Key(w, object, left)
<1>1. /\ key \in MemoKey /\ key[1] = w /\ key[2] = object /\ key[3] = left
      /\ object[1] \in DOMAIN world.schema
  BY DEF Key, MemoKey
<1>2. Resolved(object[1]) \in DOMAIN world.schema
  BY <1>1, ResolvedIsNode
<1>3. Obligations(key[1], Resolved(key[2][1]), key[3]) \in Seq(NeedSet)
  <2> HIDE DEF key
  <2> QED
    BY <1>1, KeyRule
<1>4. frame = [key |-> key, wire |-> w, left |-> left, node |-> Resolved(object[1]),
               opening |-> OpeningOf(object), done |-> 0]
  BY DEF Frame
<1> HIDE DEF key, frame
<1>5. /\ frame \in FrameSet /\ frame.key = key /\ frame.wire = w /\ frame.left = left
      /\ frame.node = Resolved(object[1]) /\ frame.done = 0
  BY <1>1, <1>2, <1>4 DEF FrameSet
<1>6. Len(NeedsOf(frame)) \in Nat
  BY <1>1, <1>3, <1>5 DEF NeedsOf
<1>7. IsFrame(frame)
  BY <1>1, <1>5, <1>6 DEF IsFrame
<1> QED
  BY <1>1, <1>5, <1>7 DEF key, frame

\* A reference to check: its pair begins the walk, or was answered before.
LEMMA AskKeeps ==
    ASSUME IInv, NEW w \in DOMAIN world.wire, NEW m \in DOMAIN world.schema,
           NEW minted \in BOOLEAN, Ask(w, m, minted)
    PROVE  IInv'
<1> DEFINE object == <<m, IF minted THEN opened + 1 ELSE 0>>
           key == Key(w, object, TRUE)
           frame == Frame(w, object, TRUE)
<1>1. /\ answer # "testing" /\ world' = world /\ reached' = reached /\ asked' = <<w, m>>
      /\ opened' \in Nat /\ OpeningOf(object) \in Nat
      /\ Wire(w).kind \in Referable /\ Schema(m).kind = Wire(w).kind
  BY DEF Ask, IInv, TypeOK, OpeningOf
<1>2. World /\ stack = << >> /\ DOMAIN stack = {} /\ Waiting = {}
        /\ memo \in [DOMAIN memo -> BOOLEAN]
  BY <1>1 DEF IInv, TypeOK, Waiting
<1>3. object \in (DOMAIN world.schema) \X Nat /\ object[1] = m
  BY DEF IInv, TypeOK
<1>4. /\ key = <<w, object, TRUE>> /\ key \in MemoKey /\ key[2][1] = m
      /\ PairOf(key) = <<w, m, TRUE>>
  BY <1>3 DEF Key, MemoKey, PairOf
<1>5. World' /\ MemoKey' = MemoKey /\ FrameSet' = FrameSet /\ Subtypes' = Subtypes
        /\ AskedPair' = PairOf(key) /\ world'.depth = world.depth
  BY <1>1, <1>2, <1>4, Steady DEF AskedPair
<1>6. CASE key \in DOMAIN memo
  <2>1. /\ memo' = memo /\ stack' = stack
        /\ answer' = (IF memo[key] THEN "accepted" ELSE "refused")
    BY <1>6 DEF Ask
  <2>2. TypeOK' /\ Linked' /\ Assumed'
    <3>1. stack' = << >> /\ DOMAIN stack' = {} /\ answer' \in {"accepted", "refused"}
      BY <1>2, <2>1
    <3> QED
      BY <1>1, <1>5, <2>1, <3>1 DEF IInv, TypeOK, Linked, Assumed
  <2>3. Supported'
    <3>1. Trusted' = Trusted /\ PairOf(key) \in Trusted
      BY <1>6, <2>1 DEF Trusted, PairOf
    <3>2. \A k : Carried(k)' <=> Carried(k)
      BY <1>1, <3>1, Steady DEF Carried, AllMet, Meets
    <3>3. Waiting' = Waiting /\ DOMAIN stack' = {}
      BY <1>2, <2>1 DEF Waiting
    <3> QED
      BY <1>5, <2>1, <3>1, <3>2, <3>3 DEF IInv, Supported, NothingRefused
  <2>4. Refuted'
    <3>1. answer' = "refused" => memo[key] = FALSE
      BY <1>2, <1>6, <2>1
    <3>2. DOMAIN stack' = {}
      BY <1>2, <2>1
    <3> QED
      BY <1>1, <1>5, <1>6, <2>1, <3>1, <3>2 DEF IInv, Refuted, PairOf
  <2> QED
    BY <2>2, <2>3, <2>4 DEF IInv
<1>7. CASE key \notin DOMAIN memo
  <2>1. /\ memo' = Learn(memo, key, TRUE) /\ stack' = <<frame>> /\ answer' = "testing"
    BY <1>7 DEF Ask
  <2>2. Resolved(m) = m
    BY <1>1, <1>2, ResolvedIsNode DEF Referable
  <2>3. IsFrame(frame) /\ frame.key = key /\ frame.done = 0
    <3>1. Resolved(object[1]) # Unresolved
      BY <1>2, <1>3, <2>2 DEF World, IsSchema, IsArena, Unresolved
    <3>2. TRUE \in BOOLEAN
      OBVIOUS
    <3> HIDE DEF object
    <3> QED
      BY <1>1, <1>2, <1>3, <3>1, <3>2, NewFrame
  <2>4. DOMAIN stack' = {1} /\ Len(stack') = 1 /\ stack'[1] = frame /\ stack' # << >>
    BY <2>1
  <2> HIDE DEF key, object, frame
  <2>5. stack' \in Seq(FrameSet)
    BY <2>1, <2>3 DEF IsFrame
  <2>6. /\ DOMAIN memo' = DOMAIN memo \cup {key} /\ memo'[key] = TRUE
        /\ \A k \in DOMAIN memo : k # key => memo'[k] = memo[k]
        /\ memo' \in [DOMAIN memo' -> BOOLEAN] /\ DOMAIN memo' \subseteq MemoKey
        /\ \A k : Carried(k) => Carried(k)'
    BY <1>1, <1>4, <2>1, Learns DEF IInv
  <2>7. Waiting' = {key}
    BY <2>3, <2>4 DEF Waiting
  <2>8. TypeOK'
    <3>1. IsFrame(stack[1])'
      BY <1>1, <2>3, <2>4, SteadyFrames
    <3> QED
      BY <1>1, <1>5, <2>1, <2>4, <2>5, <2>6, <3>1 DEF IInv, TypeOK
  <2>9. Linked' /\ Assumed'
    BY <1>5, <2>3, <2>4, <2>6 DEF Linked, Assumed, PairOf
  <2>10. Supported'
    <3>1. ASSUME NothingRefused'
          PROVE  NothingRefused
      BY <1>7, <2>6, <3>1 DEF NothingRefused
    <3>2. ASSUME NothingRefused', NEW k \in DOMAIN memo' \ Waiting'
          PROVE  Carried(k)'
      BY <1>2, <2>6, <2>7, <3>1, <3>2 DEF IInv, Supported
    <3>3. \A j \in 1..stack'[1].done : FALSE
      BY <2>3, <2>4
    <3> QED
      BY <2>1, <2>4, <3>2, <3>3 DEF Supported
  <2>11. Refuted'
    BY <1>1, <1>5, <2>1, <2>4, <2>6 DEF IInv, Refuted, PairOf
  <2> QED
    BY <2>8, <2>9, <2>10, <2>11 DEF IInv
<1> QED
  BY <1>6, <1>7

\* A new pair is assumed and entered: the pair that waits for it stays as it is.
LEMMA EntersKeeps ==
    ASSUME IInv, Enters
    PROVE  IInv'
<1> DEFINE n == Len(stack)
           frame == Frame(NextNeed.wire, Child, NextNeed.left)
<1>1. /\ answer = "testing" /\ Wants("visit") /\ Top.done < Len(TopNeeds)
      /\ NextNeed.do = "visit" /\ world' = world /\ asked' = asked /\ answer' = answer
      /\ opened' = OpenedBy(Child) /\ ChildKey \notin DOMAIN memo
      /\ memo' = Learn(memo, ChildKey, TRUE) /\ stack' = Append(stack, frame)
      /\ reached' = (IF Len(stack) > reached THEN Len(stack) ELSE reached)
      /\ Resolved(Child[1]) # Unresolved
  BY DEF Enters, Visiting, Wants, Unknown, Deeper
<1>2. World /\ stack \in Seq(FrameSet) /\ n \in DOMAIN stack /\ n \in Nat \ {0}
        /\ Top = stack[n] /\ IsFrame(Top) /\ TopNeeds = NeedsOf(Top)
        /\ DOMAIN stack = 1..n /\ 1 \in DOMAIN stack
  <2>1. stack \in Seq(FrameSet)
    BY DEF IInv, TypeOK
  <2> QED
    BY <1>1, <2>1, TopFacts DEF IInv, TypeOK
<1>3. /\ ChildKey \in MemoKey /\ ChildKey[2] = Child /\ opened' \in Nat
      /\ PairOf(ChildKey) = <<NextNeed.wire, NextNeed.node, NextNeed.left>>
      /\ \A R : Meets(NextNeed, R) <=> PairOf(ChildKey) \in R
      /\ OpeningOf(Child) \in Nat
  BY <1>1, ChildFacts DEF IInv
<1>4. /\ NextNeed.wire \in DOMAIN world.wire /\ NextNeed.left \in BOOLEAN
      /\ Child \in (DOMAIN world.schema) \X Nat
      /\ ChildKey = Key(NextNeed.wire, Child, NextNeed.left)
  BY <1>3 DEF ChildKey, Key, MemoKey
<1>5. IsFrame(frame) /\ frame.key = ChildKey /\ frame.done = 0
  <2> DEFINE w == NextNeed.wire
             left == NextNeed.left
  <2> HIDE DEF w, left
  <2>1. ASSUME w \in DOMAIN world.wire, left \in BOOLEAN
        PROVE  /\ IsFrame(Frame(w, Child, left)) /\ Frame(w, Child, left).done = 0
               /\ Frame(w, Child, left).key = Key(w, Child, left)
    BY <1>1, <1>2, <1>3, <1>4, <2>1, NewFrame
  <2> QED
    BY <1>4, <2>1 DEF w, left
<1>6. World' /\ MemoKey' = MemoKey /\ FrameSet' = FrameSet /\ Subtypes' = Subtypes
        /\ AskedPair' = AskedPair /\ world'.depth = world.depth
  BY <1>1, <1>2, Steady DEF AskedPair
<1>7. \A f : NeedsOf(f)' = NeedsOf(f) /\ IsFrame(f)' = IsFrame(f)
  BY <1>1, SteadyFrames
<1>8. /\ DOMAIN memo' = DOMAIN memo \cup {ChildKey} /\ memo'[ChildKey] = TRUE
      /\ \A k \in DOMAIN memo : memo'[k] = memo[k]
      /\ memo' \in [DOMAIN memo' -> BOOLEAN] /\ DOMAIN memo' \subseteq MemoKey
      /\ \A need : Meets(need, Trusted) => Meets(need, Trusted')
      /\ \A k : Carried(k) => Carried(k)'
  BY <1>1, <1>3, Learns DEF IInv
<1> HIDE DEF frame, n
<1>9. /\ stack' \in Seq(FrameSet) /\ DOMAIN stack' = 1..(n + 1) /\ stack' # << >>
      /\ stack'[n + 1] = frame /\ \A i \in DOMAIN stack : stack'[i] = stack[i]
  BY <1>1, <1>2, <1>5 DEF IsFrame, n
<1>10. \A i \in DOMAIN stack' : i \in DOMAIN stack \/ i = n + 1
  BY <1>2, <1>9
<1>11. Waiting \cup {ChildKey} \subseteq Waiting'
  <2>1. Waiting' = {stack'[i].key : i \in DOMAIN stack'}
    BY DEF Waiting
  <2>2. DOMAIN stack \subseteq DOMAIN stack' /\ n + 1 \in DOMAIN stack'
    BY <1>2, <1>9
  <2>3. ASSUME NEW i \in DOMAIN stack
        PROVE  stack[i].key \in Waiting'
    BY <1>9, <2>1, <2>2
  <2>4. ChildKey \in Waiting'
    BY <1>5, <1>9, <2>1, <2>2
  <2> QED
    BY <2>3, <2>4 DEF Waiting
<1>12. TypeOK'
  <2>1. \A i \in DOMAIN stack' : IsFrame(stack'[i])
    BY <1>5, <1>9, <1>10 DEF IInv, TypeOK
  <2>2. \A i \in DOMAIN stack' : IsFrame(stack[i])'
    BY <1>7, <2>1
  <2>3. reached' \in Nat
    BY <1>1, <1>2 DEF IInv, TypeOK, n
  <2> QED
    BY <1>1, <1>3, <1>6, <1>8, <1>9, <2>2, <2>3 DEF IInv, TypeOK
<1>13. Linked'
  <2>1. PairOf(stack'[1].key) = AskedPair
    BY <1>2, <1>9 DEF IInv, Linked
  <2>2. ASSUME NEW i \in DOMAIN stack', i + 1 \in DOMAIN stack'
        PROVE  /\ stack'[i].done < Len(NeedsOf(stack'[i]))
               /\ NeedsOf(stack'[i])[stack'[i].done + 1].do = "visit"
               /\ PairOf(stack'[i + 1].key) =
                    <<NeedsOf(stack'[i])[stack'[i].done + 1].wire,
                      NeedsOf(stack'[i])[stack'[i].done + 1].node,
                      NeedsOf(stack'[i])[stack'[i].done + 1].left>>
    <3>1. CASE i = n
      BY <1>1, <1>2, <1>3, <1>5, <1>9, <3>1 DEF NextNeed
    <3>2. CASE i # n
      <4>1. i \in DOMAIN stack /\ i + 1 \in DOMAIN stack
        BY <1>2, <1>9, <2>2, <3>2
      <4> QED
        BY <1>9, <4>1 DEF IInv, Linked
    <3> QED
      BY <3>1, <3>2
  <2> QED
    BY <1>6, <1>7, <2>1, <2>2 DEF Linked, PairOf
<1>14. Assumed'
  BY <1>5, <1>8, <1>9, <1>10 DEF IInv, Assumed
<1>15. Supported'
  <2>1. ASSUME NothingRefused'
        PROVE  NothingRefused
    BY <1>8, <2>1 DEF NothingRefused
  <2>2. ASSUME NothingRefused', NEW key \in DOMAIN memo' \ Waiting'
        PROVE  Carried(key)'
    BY <1>8, <1>11, <2>1, <2>2 DEF IInv, Supported
  <2>3. ASSUME NothingRefused', NEW i \in DOMAIN stack', NEW j \in 1..stack'[i].done
        PROVE  Meets(NeedsOf(stack'[i])[j], Trusted')
    <3>1. CASE i = n + 1
      BY <1>5, <1>9, <2>3, <3>1
    <3>2. CASE i # n + 1
      <4>1. i \in DOMAIN stack /\ stack'[i] = stack[i]
        BY <1>9, <1>10, <3>2
      <4>2. Meets(NeedsOf(stack[i])[j], Trusted)
        BY <2>1, <2>3, <4>1 DEF IInv, Supported
      <4> QED
        BY <1>8, <4>1, <4>2
    <3> QED
      BY <3>1, <3>2
  <2> QED
    BY <1>1, <1>7, <2>2, <2>3 DEF Supported, Meets
<1>16. Refuted'
  <2> SUFFICES ASSUME reached' <= world.depth
               PROVE  /\ \A key \in DOMAIN memo' : memo'[key] = FALSE => PairOf(key) \notin Subtypes
                      /\ \A i, j \in DOMAIN stack' : i <= j /\ PairOf(stack'[i].key) \in Subtypes
                            => PairOf(stack'[j].key) \in Subtypes
    BY <1>1, <1>6 DEF Refuted, PairOf
  <2>1. reached <= world.depth
    BY <1>1, <1>2 DEF IInv, TypeOK, World, n
  <2>2. \A key \in DOMAIN memo' : memo'[key] = FALSE => PairOf(key) \notin Subtypes
    BY <1>8, <2>1 DEF IInv, Refuted
  <2>3. ASSUME NEW i \in DOMAIN stack', NEW j \in DOMAIN stack',
               i <= j, PairOf(stack'[i].key) \in Subtypes
        PROVE  PairOf(stack'[j].key) \in Subtypes
    <3>1. CASE j \in DOMAIN stack
      <4>1. i \in DOMAIN stack
        BY <1>2, <1>9, <2>3, <3>1
      <4> QED
        BY <1>9, <2>1, <2>3, <3>1, <4>1 DEF IInv, Refuted
    <3>2. CASE i \in DOMAIN stack /\ j = n + 1
      <4>1. i <= n
        BY <1>2, <3>2
      <4>2. PairOf(Top.key) \in Subtypes
        BY <1>2, <1>9, <2>1, <2>3, <3>2, <4>1 DEF IInv, Refuted
      <4>3. Meets(NextNeed, Subtypes)
        BY <1>1, <4>2, TopNeedsMet DEF IInv
      <4> QED
        BY <1>3, <1>5, <1>9, <3>2, <4>3
    <3>3. CASE i = n + 1 /\ j = n + 1
      BY <2>3, <3>3
    <3> QED
      BY <1>10, <2>3, <3>1, <3>2, <3>3
  <2> QED
    BY <2>2, <2>3
<1> QED
  BY <1>12, <1>13, <1>14, <1>15, <1>16 DEF IInv

\* The top pair is confirmed: all it needs is trusted; the pair that waits for it goes on.
LEMMA ConfirmsKeeps ==
    ASSUME IInv, Confirms
    PROVE  IInv'
<1> DEFINE n == Len(stack)
           m == n - 1
           parent == [stack[m] EXCEPT !.done = @ + 1]
<1>1. /\ answer = "testing" /\ Top.done = Len(TopNeeds) /\ world' = world /\ asked' = asked
      /\ opened' = opened /\ reached' = reached /\ memo' = Learn(memo, Top.key, TRUE)
  BY DEF Confirms
<1>2. World /\ stack \in Seq(FrameSet) /\ n \in DOMAIN stack /\ n \in Nat \ {0}
        /\ Top = stack[n] /\ IsFrame(Top) /\ TopNeeds = NeedsOf(Top)
        /\ DOMAIN stack = 1..n /\ 1 \in DOMAIN stack
  <2>1. stack \in Seq(FrameSet)
    BY DEF IInv, TypeOK
  <2> QED
    BY <1>1, <2>1, TopFacts DEF IInv, TypeOK
<1>3. /\ Top.key \in MemoKey /\ NeedsOf(Top) \in Seq(NeedSet)
      /\ NeedsOf(Top) = Obligations(Top.key[1], Resolved(Top.key[2][1]), Top.key[3])
      /\ Resolved(Top.key[2][1]) # Unresolved
      /\ Top.key \in DOMAIN memo /\ memo[Top.key] = TRUE
  BY <1>2, FrameFacts DEF IInv, Assumed
<1>4. memo' = memo
  BY <1>1, <1>3 DEF Learn, IInv, TypeOK
<1>5. World' /\ MemoKey' = MemoKey /\ FrameSet' = FrameSet /\ Subtypes' = Subtypes
        /\ AskedPair' = AskedPair /\ world'.depth = world.depth /\ Trusted' = Trusted
  BY <1>1, <1>2, <1>4, Steady DEF AskedPair, Trusted, PairOf
<1>6. \A f : NeedsOf(f)' = NeedsOf(f) /\ IsFrame(f)' = IsFrame(f)
  BY <1>1, SteadyFrames
<1>7. \A k : Carried(k)' <=> Carried(k)
  BY <1>1, <1>5, Steady DEF Carried, AllMet, Meets
<1>8. PairOf(Top.key) \in Trusted
  BY <1>3 DEF Trusted
<1>9. NothingRefused => Carried(Top.key)
  <2> SUFFICES ASSUME NothingRefused, NEW i \in DOMAIN NeedsOf(Top)
               PROVE  Meets(NeedsOf(Top)[i], Trusted)
    BY <1>3 DEF Carried, AllMet
  <2>1. i \in 1..stack[n].done
    BY <1>1, <1>2, <1>3
  <2> QED
    BY <1>2, <2>1 DEF IInv, Supported
<1>10. CASE n = 1
  <2>1. stack' = << >> /\ answer' = "accepted" /\ DOMAIN stack' = {}
    BY <1>1, <1>10 DEF Confirms
  <2>2. \A k \in Waiting : k = Top.key
    BY <1>2, <1>10 DEF Waiting
  <2>3. AskedPair \in Trusted
    BY <1>2, <1>8, <1>10, SMTT(30) DEF IInv, Linked
  <2>4. TypeOK'
    <3>1. stack' \in Seq(FrameSet) /\ (answer' = "testing" <=> stack' # << >>)
      BY <2>1
    <3>2. \A i \in DOMAIN stack' : IsFrame(stack[i])'
      BY <2>1
    <3> HIDE DEF n, m, parent
    <3> QED
      BY <1>1, <1>4, <1>5, <2>1, <3>1, <3>2 DEF IInv, TypeOK
  <2>5. Linked' /\ Assumed'
    BY <2>1 DEF Linked, Assumed
  <2>6. Supported'
    <3>1. NothingRefused' => NothingRefused
      BY <1>4 DEF NothingRefused
    <3>2. ASSUME NothingRefused, NEW k \in DOMAIN memo
          PROVE  Carried(k)
      BY <1>9, <2>2, <3>2 DEF IInv, Supported
    <3> QED
      BY <1>4, <1>5, <1>7, <2>1, <2>3, <3>1, <3>2 DEF Supported
  <2>7. Refuted'
    BY <1>1, <1>4, <1>5, <2>1 DEF IInv, Refuted, PairOf
  <2> QED
    BY <2>4, <2>5, <2>6, <2>7 DEF IInv
<1>11. CASE n # 1
  <2>1. m \in DOMAIN stack /\ m + 1 = n /\ m \in Nat \ {0} /\ IsFrame(stack[m])
          /\ DOMAIN stack = 1..(m + 1)
    BY <1>2, <1>11 DEF IInv, TypeOK
  <2>2. /\ stack[m].done < Len(NeedsOf(stack[m]))
        /\ NeedsOf(stack[m])[stack[m].done + 1].do = "visit"
        /\ PairOf(Top.key) = <<NeedsOf(stack[m])[stack[m].done + 1].wire,
                               NeedsOf(stack[m])[stack[m].done + 1].node,
                               NeedsOf(stack[m])[stack[m].done + 1].left>>
    BY <1>2, <2>1 DEF IInv, Linked
  <2>3. stack[m].done \in Nat /\ NeedsOf(stack[m]) \in Seq(NeedSet) /\ stack[m] \in FrameSet
    BY <1>2, <2>1, FrameFacts DEF IsFrame
  <2>4. /\ parent.key = stack[m].key /\ parent.wire = stack[m].wire
        /\ parent.left = stack[m].left /\ parent.node = stack[m].node
        /\ parent.done = stack[m].done + 1 /\ parent \in FrameSet
    BY <2>3 DEF FrameSet
  <2>5. NeedsOf(parent) = NeedsOf(stack[m])
    BY <2>4 DEF NeedsOf
  <2>6. IsFrame(parent)
    <3>1. stack[m].done + 1 <= Len(NeedsOf(stack[m]))
      BY <2>2, <2>3
    <3> QED
      BY <2>1, <2>4, <2>5, <3>1 DEF IsFrame
  <2>7. /\ stack' \in Seq(FrameSet) /\ DOMAIN stack' = 1..m /\ stack'[m] = parent
        /\ \A i \in 1..m : i # m => stack'[i] = stack[i]
        /\ answer' = answer
    <3>1. stack' = Advanced(Front(stack)) /\ answer' = answer
      BY <1>1, <1>11 DEF Confirms
    <3> DEFINE front == SubSeq(stack, 1, m)
    <3>2. /\ front \in Seq(FrameSet) /\ Len(front) = m /\ DOMAIN front = 1..m
          /\ \A i \in 1..m : front[i] = stack[i]
      BY <1>2, <2>1
    <3>3. stack' = [front EXCEPT ![m] = [front[m] EXCEPT !.done = @ + 1]]
      BY <3>1, <3>2 DEF Advanced, Front
    <3>4. m \in 1..m
      BY <2>1
    <3>5. stack' = [front EXCEPT ![m] = parent]
      BY <3>2, <3>3, <3>4
    <3> HIDE DEF front, parent, m
    <3> QED
      BY <2>4, <3>1, <3>2, <3>4, <3>5
  <2> HIDE DEF parent, m, n
  <2>8. \A i \in 1..m : stack'[i].key = stack[i].key /\ i \in DOMAIN stack
    BY <2>1, <2>4, <2>7
  <2>9. DOMAIN stack = 1..m \cup {n}
    BY <2>1
  <2>10. \A k \in Waiting : k \in Waiting' \/ k = Top.key
    <3>1. Waiting' = {stack'[i].key : i \in DOMAIN stack'}
      BY DEF Waiting
    <3>2. ASSUME NEW i \in DOMAIN stack
          PROVE  stack[i].key \in Waiting' \/ stack[i].key = Top.key
      <4>1. CASE i \in 1..m
        BY <2>7, <2>8, <3>1, <4>1
      <4>2. CASE i = n
        BY <1>2, <4>2
      <4> QED
        BY <2>9, <4>1, <4>2
    <3> QED
      BY <3>2 DEF Waiting
  <2>11. TypeOK'
    <3>1. \A i \in DOMAIN stack' : IsFrame(stack'[i])
      BY <2>6, <2>7, <2>8 DEF IInv, TypeOK
    <3>2. \A i \in DOMAIN stack' : IsFrame(stack[i])'
      BY <1>6, <3>1
    <3>3. stack' # << >> /\ answer' = "testing"
      BY <1>1, <2>1, <2>7
    <3> QED
      BY <1>1, <1>4, <1>5, <2>7, <3>2, <3>3 DEF IInv, TypeOK
  <2>12. Linked'
    <3>1. 1 \in 1..m
      BY <2>1
    <3>2. PairOf(stack'[1].key) = AskedPair
      BY <1>2, <2>8, <3>1 DEF IInv, Linked
    <3>3. ASSUME NEW i \in DOMAIN stack', i + 1 \in DOMAIN stack'
          PROVE  /\ stack'[i] = stack[i] /\ stack'[i + 1].key = stack[i + 1].key
                 /\ i \in DOMAIN stack /\ i + 1 \in DOMAIN stack
      BY <2>1, <2>7, <2>8, <3>3
    <3> QED
      BY <1>5, <1>6, <3>2, <3>3 DEF IInv, Linked, PairOf
  <2>13. Assumed'
    BY <1>4, <2>7, <2>8 DEF IInv, Assumed
  <2>14. Supported'
    <3>1. NothingRefused' => NothingRefused
      BY <1>4 DEF NothingRefused
    <3>2. ASSUME NothingRefused, NEW k \in DOMAIN memo \ Waiting'
          PROVE  Carried(k)
      BY <1>9, <2>10, <3>2 DEF IInv, Supported
    <3>3. ASSUME NothingRefused, NEW i \in DOMAIN stack', NEW j \in 1..stack'[i].done
          PROVE  Meets(NeedsOf(stack'[i])[j], Trusted)
      <4>1. CASE i # m
        BY <2>7, <2>8, <3>3, <4>1 DEF IInv, Supported
      <4>2. CASE i = m /\ j <= stack[m].done
        <5>1. j \in 1..stack[m].done
          BY <2>3, <2>4, <2>7, <3>3, <4>2
        <5> QED
          BY <2>1, <2>5, <2>7, <3>3, <4>2, <5>1 DEF IInv, Supported
      <4>3. CASE i = m /\ j > stack[m].done
        <5>1. j = stack[m].done + 1
          BY <2>3, <2>4, <2>7, <3>3, <4>3
        <5> QED
          BY <1>8, <2>2, <2>5, <2>7, <4>3, <5>1 DEF Meets
      <4>4. i = m => j \in Nat
        BY <2>3, <2>4, <2>7, <3>3
      <4> QED
        BY <2>3, <4>1, <4>2, <4>3, <4>4
    <3> QED
      BY <1>1, <1>4, <1>5, <1>6, <1>7, <2>7, <3>1, <3>2, <3>3 DEF Supported, Meets
  <2>15. Refuted'
    BY <1>1, <1>4, <1>5, <2>7, <2>8 DEF IInv, Refuted, PairOf
  <2> QED
    BY <2>11, <2>12, <2>13, <2>14, <2>15 DEF IInv
<1> QED
  BY <1>10, <1>11

\* The top pair cannot have what it needs, so the answers stand as they are and all fails.
LEMMA RefusalKeeps ==
    ASSUME IInv, answer = "testing", Fails(memo), UNCHANGED <<world, opened, asked>>,
           reached' \in Nat,
           reached' <= world.depth => reached <= world.depth /\ PairOf(Top.key) \notin Subtypes
    PROVE  IInv'
<1>1. PICK a : a = memo
  OBVIOUS
<1>2. /\ Fails(a) /\ opened' \in Nat
      /\ a \in [DOMAIN a -> BOOLEAN] /\ DOMAIN memo \subseteq DOMAIN a
      /\ DOMAIN a \subseteq MemoKey /\ \A key \in DOMAIN memo : a[key] = memo[key]
  BY <1>1 DEF IInv, TypeOK
<1>3. UNCHANGED <<world, asked>> /\ \A key \in DOMAIN a \ DOMAIN memo : FALSE
  BY <1>1
<1> QED
  BY <1>2, <1>3, FailsKeeps

LEMMA SkipsKeeps == ASSUME IInv, Skips PROVE IInv'
<1>1. /\ answer = "testing" /\ Top.done < Len(TopNeeds) /\ NextNeed.do = "skip" /\ Proceeds
      /\ UNCHANGED <<world, opened, asked>> /\ reached' = reached
  BY DEF Skips, Wants
<1>2. reached' \in Nat /\ reached' >= reached
  BY <1>1 DEF IInv, TypeOK
<1>3. Meets(NextNeed, Trusted)
  BY <1>1 DEF Meets
<1> QED
  BY <1>1, <1>2, <1>3, ProceedsKeeps

LEMMA LacksKeeps == ASSUME IInv, Lacks PROVE IInv'
<1>1. /\ answer = "testing" /\ Top.done < Len(TopNeeds) /\ NextNeed.do = "lack" /\ Fails(memo)
      /\ UNCHANGED <<world, opened, asked>> /\ reached' = reached
  BY DEF Lacks, Wants
<1>2. reached' \in Nat
  BY <1>1 DEF IInv, TypeOK
<1>3. ~Meets(NextNeed, Subtypes)
  BY <1>1 DEF Meets
<1>4. PairOf(Top.key) \notin Subtypes
  BY <1>1, <1>3, TopNeedsMet DEF IInv
<1> QED
  BY <1>1, <1>2, <1>4, RefusalKeeps

\* What every visit does: the depth it charges, and the pair it asks about.
LEMMA VisitFacts ==
    ASSUME IInv, Visiting
    PROVE  /\ answer = "testing" /\ Top.done < Len(TopNeeds) /\ NextNeed.do = "visit"
           /\ reached' \in Nat /\ reached' >= reached /\ reached' >= Len(stack)
           /\ reached' <= world.depth => reached <= world.depth
           /\ PairOf(ChildKey) \notin Subtypes => PairOf(Top.key) \notin Subtypes
<1>1. /\ answer = "testing" /\ Top.done < Len(TopNeeds) /\ NextNeed.do = "visit"
      /\ Wants("visit")
      /\ reached' = (IF Len(stack) > reached THEN Len(stack) ELSE reached)
  BY DEF Visiting, Wants, Deeper
<1>2. Len(stack) \in Nat /\ reached \in Nat /\ world.depth \in Nat
  BY <1>1, TopFacts DEF IInv, TypeOK, World
<1>3. PairOf(ChildKey) \notin Subtypes => PairOf(Top.key) \notin Subtypes
  BY <1>1, TopNeedsMet, ChildFacts DEF IInv
<1> QED
  BY <1>1, <1>2, <1>3

\* A walk that is cut has gone deeper than the limit.
LEMMA TooDeepKeeps == ASSUME IInv, TooDeep PROVE IInv'
<1>1. /\ Visiting /\ ~WithinDepth /\ Fails(memo) /\ UNCHANGED <<world, opened, asked>>
  BY DEF TooDeep
<1>2. Len(stack) \in Nat /\ world.depth \in Nat
  BY <1>1, VisitFacts, TopFacts DEF IInv, TypeOK, World
<1>3. answer = "testing" /\ reached' \in Nat /\ ~(reached' <= world.depth)
  BY <1>1, <1>2, VisitFacts DEF WithinDepth
<1> QED
  BY <1>1, <1>3, RefusalKeeps

\* An answer remembered is about the pair the visit asks for.
LEMMA KnownKeeps == ASSUME IInv, Known PROVE IInv'
<1>1. /\ Visiting /\ ChildKey \in DOMAIN memo /\ UNCHANGED <<world, opened, asked>>
      /\ IF memo[ChildKey] THEN Proceeds ELSE Fails(memo)
  BY DEF Known
<1>2. memo[ChildKey] \in BOOLEAN
  BY <1>1 DEF IInv, TypeOK
<1>3. Wants("visit")
  BY <1>1 DEF Visiting
<1>4. CASE memo[ChildKey] = TRUE
  <2>1. Proceeds
    BY <1>1, <1>4
  <2>2. PairOf(ChildKey) \in Trusted
    BY <1>1 DEF Trusted
  <2>3. Meets(NextNeed, Trusted)
    BY <1>3, <2>2, ChildFacts DEF IInv
  <2> QED
    BY <1>1, <2>1, <2>3, VisitFacts, ProceedsKeeps
<1>5. CASE memo[ChildKey] = FALSE
  <2>1. Fails(memo)
    BY <1>1, <1>5
  <2>2. reached <= world.depth => PairOf(ChildKey) \notin Subtypes
    BY <1>1, <1>5 DEF IInv, Refuted
  <2> QED
    BY <1>1, <2>1, <2>2, VisitFacts, RefusalKeeps
<1> QED
  BY <1>2, <1>4, <1>5

\* A type without an end is below nothing.
LEMMA UnresolvableKeeps == ASSUME IInv, Unresolvable PROVE IInv'
<1>1. /\ Visiting /\ Unknown /\ Resolved(Child[1]) = Unresolved /\ opened' = OpenedBy(Child)
      /\ Fails(Learn(memo, ChildKey, FALSE)) /\ UNCHANGED <<world, asked>>
  BY DEF Unresolvable
<1>2. Wants("visit")
  BY <1>1 DEF Visiting
<1>3. /\ ChildKey \in MemoKey /\ ChildKey[2] = Child /\ opened' \in Nat
  BY <1>1, <1>2, ChildFacts DEF IInv
<1>4. PairOf(ChildKey) \notin Subtypes
  <2>1. PairOf(ChildKey) \notin Resolvable
    BY <1>1, <1>3 DEF PairOf, Resolvable
  <2> QED
    BY <2>1, SubtypesAreTheLargest DEF Closed, IInv, TypeOK
<1>5. PICK a : a = Learn(memo, ChildKey, FALSE)
  OBVIOUS
<1>6. /\ a = [k \in DOMAIN memo \cup {ChildKey} |-> IF k = ChildKey THEN FALSE ELSE memo[k]]
      /\ ChildKey \notin DOMAIN memo /\ Fails(a)
  BY <1>1, <1>5 DEF Learn, Unknown
<1>7. /\ a \in [DOMAIN a -> BOOLEAN] /\ DOMAIN memo \subseteq DOMAIN a
      /\ DOMAIN a \subseteq MemoKey /\ \A key \in DOMAIN memo : a[key] = memo[key]
      /\ \A key \in DOMAIN a \ DOMAIN memo : PairOf(key) \notin Subtypes
  BY <1>3, <1>4, <1>6 DEF IInv, TypeOK
<1> QED
  BY <1>1, <1>3, <1>4, <1>6, <1>7, VisitFacts, FailsKeeps

LEMMA StutterKeeps == ASSUME IInv, UNCHANGED referenceVars PROVE IInv'
<1>1. /\ world' = world /\ memo' = memo /\ opened' = opened /\ stack' = stack
      /\ reached' = reached /\ asked' = asked /\ answer' = answer
  BY DEF referenceVars
<1>2. /\ World' = World /\ MemoKey' = MemoKey /\ FrameSet' = FrameSet /\ Subtypes' = Subtypes
      /\ AskedPair' = AskedPair /\ Trusted' = Trusted /\ Waiting' = Waiting
      /\ NothingRefused' = NothingRefused
  BY <1>1, Steady DEF AskedPair, Trusted, PairOf, Waiting, NothingRefused
<1>3. \A f : NeedsOf(f)' = NeedsOf(f) /\ IsFrame(f)' = IsFrame(f)
  BY <1>1, SteadyFrames
<1>4. \A k : Carried(k)' <=> Carried(k)
  BY <1>1, <1>2, Steady DEF Carried, AllMet, Meets
<1>5. TypeOK' /\ Linked' /\ Assumed'
  <2>1. \A i \in DOMAIN stack : IsFrame(stack[i])'
    <3>1. \A i \in DOMAIN stack' : IsFrame(stack'[i])
      BY <1>1 DEF IInv, TypeOK
    <3> QED
      BY <1>1, <1>3, <3>1
  <2> QED
    BY <1>1, <1>2, <1>3, <2>1 DEF IInv, TypeOK, Linked, Assumed, PairOf
<1>6. Supported'
  BY <1>1, <1>2, <1>3, <1>4 DEF IInv, Supported, Meets
<1>7. Refuted'
  BY <1>1, <1>2 DEF IInv, Refuted, PairOf
<1> QED
  BY <1>5, <1>6, <1>7 DEF IInv

LEMMA StepKeeps == IInv /\ [ReferencesNext]_referenceVars => IInv'
<1> SUFFICES ASSUME IInv, [ReferencesNext]_referenceVars PROVE IInv'
  OBVIOUS
<1>1. ASSUME NEW w \in DOMAIN world.wire, NEW n \in DOMAIN world.schema,
             NEW minted \in BOOLEAN, Ask(w, n, minted)
      PROVE  IInv'
  BY <1>1, AskKeeps
<1>2. CASE Skips
  BY <1>2, SkipsKeeps
<1>3. CASE Lacks
  BY <1>3, LacksKeeps
<1>4. CASE TooDeep
  BY <1>4, TooDeepKeeps
<1>5. CASE Known
  BY <1>5, KnownKeeps
<1>6. CASE Unresolvable
  BY <1>6, UnresolvableKeeps
<1>7. CASE Enters
  BY <1>7, EntersKeeps
<1>8. CASE Confirms
  BY <1>8, ConfirmsKeeps
<1>9. CASE UNCHANGED referenceVars
  BY <1>9, StutterKeeps
<1> QED
  BY <1>1, <1>2, <1>3, <1>4, <1>5, <1>6, <1>7, <1>8, <1>9 DEF ReferencesNext

LEMMA Invariance == ReferencesSpec => []IInv
BY InitHolds, StepKeeps, PTL DEF ReferencesSpec

-----------------------------------------------------------------------------
\* What the answers are worth.

\* For every arena, order of fields, depth limit and number of checks: as long as no check of
\* the run was refused, a func or service the decoder accepts has a wire type below the
\* expected one (codec.ts, checkReference): the pairs the memo holds, those it assumed
\* included, are closed under the rules, and the subtypes are the largest such set.
THEOREM AcceptedIsRight == ReferencesSpec => []AcceptedBeforeRefusals
<1>1. ASSUME IInv, answer = "accepted", \A key \in DOMAIN memo : memo[key]
      PROVE  AskedHolds
  <2>1. NothingRefused
    BY <1>1 DEF NothingRefused, IInv, TypeOK
  <2>2. stack = << >> /\ Waiting = {}
    BY <1>1 DEF IInv, TypeOK, Waiting
  <2>3. AskedPair \in Trusted /\ \A key \in DOMAIN memo : Carried(key)
    BY <1>1, <2>1, <2>2 DEF IInv, Supported
  <2>4. ASSUME NEW key \in DOMAIN memo
        PROVE  PairOf(key) \in Resolvable /\ Rule(PairOf(key), Trusted)
    BY <1>1, <2>3, <2>4, KeyRule DEF IInv, TypeOK, Carried
  <2>5. Closed(Trusted)
    BY <2>4 DEF Closed, Trusted
  <2>6. Trusted \subseteq Subtypes
    BY <1>1, <2>5, SubtypesAreTheLargest DEF IInv, TypeOK
  <2> QED
    BY <2>3, <2>6 DEF AskedHolds, AskedPair
<1>2. IInv => AcceptedBeforeRefusals
  BY <1>1 DEF AcceptedBeforeRefusals
<1> QED
  BY <1>2, Invariance, PTL

\* For every arena, order of fields, depth limit and number of checks: a reference the decoder
\* refuses has a wire type that is no subtype of the expected one, unless a walk of the run
\* went deeper than the limit: no `false` in the memo is left by another pair's failure.
THEOREM RefusedIsRight == ReferencesSpec => []RefusedIsNoSubtype
<1>1. IInv => RefusedIsNoSubtype
  BY DEF IInv, Refuted, RefusedIsNoSubtype, AskedHolds, AskedPair
<1> QED
  BY <1>1, Invariance, PTL
=============================================================================
