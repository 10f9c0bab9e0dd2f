------------------------------ MODULE RefSubtype ------------------------------
(***************************************************************************)
(* The subtype checks of one run of the TypeScript decoder.  A func or     *)
(* service value is accepted when its wire type is a subtype of the        *)
(* expected schema; pairs are visited on an explicit stack, a pair under   *)
(* test is assumed to hold, and answers are kept in one memo for the whole *)
(* run.  A refusal need not end the run: an enclosing expected `opt`       *)
(* absorbs it, and the next reference is checked with the same memo.       *)
(*                                                                         *)
(* The memo is keyed by the identity of schema objects.  A `rec` is one    *)
(* object, but what it stands for may be built anew whenever it is opened, *)
(* so an object is a node with the number of the opening that built it.    *)
(* Stack index 1 has the code's depth 0.                                   *)
(***************************************************************************)
EXTENDS Integers, Sequences, FiniteSets, SequencesExt

CONSTANTS
    Families,    \* the types a run may meet: arenas of each side, depth limit
    MaxChecks    \* a bound on the references in one message

VARIABLES
    world,       \* [wire, schema: arenas, mints: BOOLEAN, depth: the limit]
    memo,        \* the answers so far, those assumed included
    opened,      \* how many times a rec was resolved to its body
    stack,       \* the pairs in progress
    reached,     \* the deepest depth charged
    asked,       \* the reference under test, or last tested
    answer,      \* "none", "testing", "accepted" or "refused"
    checks       \* how many references were tested

referenceVars == <<world, memo, opened, stack, reached, asked, answer, checks>>

-----------------------------------------------------------------------------
\* The two arenas.

Wire(w) == world.wire[w]
Schema(n) == world.schema[n]
Primitives == {"nat", "int", "text", "null", "reserved", "empty"}

IsFields(fields, refs) ==
    /\ fields \in Seq([key : Nat, ty : refs])
    /\ \A i, j \in DOMAIN fields : fields[i].key = fields[j].key => i = j
IsType(node, refs) ==
    \/ node.kind \in Primitives
    \/ node.kind \in {"opt", "vec"} /\ node.inner \in refs
    \/ node.kind \in {"record", "variant", "service"} /\ IsFields(node.fields, refs)
    \/ node.kind = "func" /\ IsFields(node.args, refs) /\ IsFields(node.results, refs)

IsArena(arena) == IsFiniteSet(DOMAIN arena) /\ DOMAIN arena \subseteq Nat \ {0}
IsWire(arena) == IsArena(arena) /\ \A w \in DOMAIN arena : IsType(arena[w], DOMAIN arena)
IsSchema(arena) ==
    /\ IsArena(arena)
    /\ \A n \in DOMAIN arena :
          \/ IsType(arena[n], DOMAIN arena)
          \/ arena[n].kind = "rec" /\ arena[n].body \in DOMAIN arena

ASSUME FamiliesAssumption ==
    \A family \in Families :
        /\ family.depth \in Nat /\ family.mints \subseteq BOOLEAN
        /\ \A arena \in family.wires : IsWire(arena)
        /\ \A arena \in family.schemas : IsSchema(arena)

\* resolveTypeNode: a chain of recs longer than the limit has no answer.
Unresolved == 0
Resolved(n) ==
    LET within[hops \in 0..world.depth] ==
            [m \in DOMAIN world.schema |->
                IF Schema(m).kind # "rec" THEN m
                ELSE IF hops = 0 THEN Unresolved
                ELSE within[hops - 1][Schema(m).body]]
    IN  within[world.depth][n]

OptLikeKinds == {"opt", "null", "reserved"}
OptLikeWire(w) == Wire(w).kind \in OptLikeKinds
OptLikeSchema(n) == Resolved(n) # Unresolved /\ Schema(Resolved(n)).kind \in OptLikeKinds

-----------------------------------------------------------------------------
\* What a pair needs, in the order subNext walks it.  `left` says that the
\* wire type is the subtype.

Need(w, n, left) == [do |-> "visit", wire |-> w, node |-> n, left |-> left]
Skip == [do |-> "skip"]
Lack == [do |-> "lack"]
Never == <<Lack>>

At(fields, key) == {i \in DOMAIN fields : fields[i].key = key}
TypeAt(fields, key) == fields[CHOOSE i \in At(fields, key) : TRUE].ty

\* Every field of the schema is looked for on the wire, or the other way
\* round; `mayLack` where an absent one may be opt-like instead.
EachSchema(wires, schemas, left, mayLack) ==
    [i \in DOMAIN schemas |->
        IF At(wires, schemas[i].key) # {}
        THEN Need(TypeAt(wires, schemas[i].key), schemas[i].ty, left)
        ELSE IF mayLack /\ OptLikeSchema(schemas[i].ty) THEN Skip ELSE Lack]
EachWire(wires, schemas, left, mayLack) ==
    [i \in DOMAIN wires |->
        IF At(schemas, wires[i].key) # {}
        THEN Need(wires[i].ty, TypeAt(schemas, wires[i].key), left)
        ELSE IF mayLack /\ OptLikeWire(wires[i].ty) THEN Skip ELSE Lack]

\* The fields of a record, and of a func's tuples: what the supertype names.
RecordRule(wires, schemas, left) ==
    IF left THEN EachSchema(wires, schemas, left, TRUE) ELSE EachWire(wires, schemas, left, TRUE)

FuncRule_Covariant(wire, node, left) ==
    IF wire.mode # node.mode THEN Never
    ELSE RecordRule(wire.args, node.args, left) \o RecordRule(wire.results, node.results, left)
\* Arguments contravariant, results covariant.
FuncRule(wire, node, left) ==
    IF wire.mode # node.mode THEN Never
    ELSE RecordRule(wire.args, node.args, ~left) \o RecordRule(wire.results, node.results, left)

\* The universal rules: empty below, reserved or opt above.
Universal(wire, node, left) ==
    LET sub == IF left THEN wire ELSE node
        sup == IF left THEN node ELSE wire
    IN  sub.kind = "empty" \/ sup.kind \in {"reserved", "opt"}

PrimitiveRule(wire, node, left) ==
    \/ wire.kind = node.kind
    \/ IF left THEN wire.kind = "nat" /\ node.kind = "int"
               ELSE node.kind = "nat" /\ wire.kind = "int"

Obligations(w, n, left) ==
    LET wire == Wire(w)
        node == Schema(n)
    IN  IF Universal(wire, node, left) THEN << >>
        ELSE IF node.kind \in Primitives
             THEN IF PrimitiveRule(wire, node, left) THEN << >> ELSE Never
        ELSE IF wire.kind # node.kind \/ node.kind = "opt" THEN Never
        ELSE CASE node.kind = "vec" -> <<Need(wire.inner, node.inner, left)>>
               [] node.kind = "record" -> RecordRule(wire.fields, node.fields, left)
               [] node.kind = "variant" ->
                    IF left THEN EachWire(wire.fields, node.fields, left, FALSE)
                            ELSE EachSchema(wire.fields, node.fields, left, FALSE)
               [] node.kind = "func" -> FuncRule(wire, node, left)
               [] node.kind = "service" ->
                    IF left THEN EachSchema(wire.fields, node.fields, left, FALSE)
                            ELSE EachWire(wire.fields, node.fields, left, FALSE)

-----------------------------------------------------------------------------
\* Schema objects and memo keys.  A rec is stable; other nodes belong to the
\* opening that built them, 0 for those outside every rec.
ObjectOf(n, opening) == <<n, IF Schema(n).kind = "rec" THEN 0 ELSE opening>>
Key(w, object, left) == <<w, object, left>>

\* Resolving a rec builds its body, with a new identity if bodies are minted.
IsRec(object) == Schema(object[1]).kind = "rec"
OpeningOf(object) ==
    IF IsRec(object) /\ world.mints THEN opened + 1 ELSE object[2]
OpenedBy(object) == IF IsRec(object) THEN opened + 1 ELSE opened

Frame(w, object, left) ==
    [key |-> Key(w, object, left), wire |-> w, left |-> left, node |-> Resolved(object[1]),
     opening |-> OpeningOf(object), done |-> 0]

ReferencesInit ==
    /\ \E family \in Families : \E wire \in family.wires, schema \in family.schemas :
          \E mints \in family.mints :
              world = [wire |-> wire, schema |-> schema, mints |-> mints,
                       depth |-> family.depth]
    /\ memo = << >>
    /\ opened = 0
    /\ stack = << >>
    /\ reached = 0
    /\ asked = << >>
    /\ answer = "none"
    /\ checks = 0

-----------------------------------------------------------------------------
Top == Last(stack)
Waiting == {stack[i].key : i \in DOMAIN stack}
TopNeeds == Obligations(Top.wire, Top.node, Top.left)
NextNeed == TopNeeds[Top.done + 1]
Wants(what) ==
    /\ answer = "testing"
    /\ Top.done < Len(TopNeeds)
    /\ NextNeed.do = what
Child == ObjectOf(NextNeed.node, Top.opening)
ChildKey == Key(NextNeed.wire, Child, NextNeed.left)

\* A child's `true` lets its parent go on; a `false` ends every pair that
\* waits, each with that answer.
Advanced(frames) == [frames EXCEPT ![Len(frames)].done = @ + 1]
Fails(answers) ==
    /\ memo' = [k \in DOMAIN answers |-> answers[k] /\ k \notin Waiting]
    /\ stack' = << >>
    /\ answer' = "refused"
Proceeds ==
    /\ stack' = Advanced(stack)
    /\ UNCHANGED <<memo, answer>>

\* subStart: what it does before it asks the memo, and what it then keeps.
Learn_Inductively(answers, key, value) ==
    [k \in DOMAIN answers \cup {key} |->
        IF k = key THEN value /\ key \in Waiting ELSE answers[k]]
Learn(answers, key, value) ==
    [k \in DOMAIN answers \cup {key} |-> IF k = key THEN value ELSE answers[k]]
Deeper(depth) == reached' = IF depth > reached THEN depth ELSE reached
Visiting == Wants("visit") /\ Deeper(Len(stack))
WithinDepth == Len(stack) <= world.depth
Unknown == WithinDepth /\ ChildKey \notin DOMAIN memo

-----------------------------------------------------------------------------
\* referenceAt: the value walk meets a func or service, resolved already.
Referable == {"func", "service"}
Ask(w, n, minted) ==
    LET object == <<n, IF minted THEN opened + 1 ELSE 0>>
        key == Key(w, object, TRUE)
    IN  /\ answer # "testing"
        /\ checks < MaxChecks
        /\ Wire(w).kind \in Referable /\ Schema(n).kind = Wire(w).kind
        /\ minted => world.mints
        /\ IF key \in DOMAIN memo
           THEN /\ answer' = IF memo[key] THEN "accepted" ELSE "refused"
                /\ UNCHANGED <<memo, stack>>
           ELSE /\ memo' = Learn(memo, key, TRUE)
                /\ stack' = <<Frame(w, object, TRUE)>>
                /\ answer' = "testing"
        /\ opened' = IF minted THEN opened + 1 ELSE opened
        /\ asked' = <<w, n>>
        /\ checks' = checks + 1
        /\ UNCHANGED <<world, reached>>

\* subNext: an absent opt-like field, and an obligation that cannot be met.
Skips ==
    /\ Wants("skip")
    /\ Proceeds
    /\ UNCHANGED <<world, opened, reached, asked, checks>>
Lacks ==
    /\ Wants("lack")
    /\ Fails(memo)
    /\ UNCHANGED <<world, opened, reached, asked, checks>>

\* The child pair is too deep, or was answered or is assumed.
TooDeep ==
    /\ Visiting
    /\ ~WithinDepth
    /\ Fails(memo)
    /\ UNCHANGED <<world, opened, asked, checks>>
Known ==
    /\ Visiting
    /\ WithinDepth /\ ChildKey \in DOMAIN memo
    /\ IF memo[ChildKey] THEN Proceeds ELSE Fails(memo)
    /\ UNCHANGED <<world, opened, asked, checks>>

\* The child pair is new: assumed true and entered, or refused if its schema
\* is a chain of recs without an end.
Unresolvable ==
    /\ Visiting
    /\ Unknown
    /\ Resolved(Child[1]) = Unresolved
    /\ Fails(Learn(memo, ChildKey, FALSE))
    /\ opened' = OpenedBy(Child)
    /\ UNCHANGED <<world, asked, checks>>
Enters ==
    /\ Visiting
    /\ Unknown
    /\ Resolved(Child[1]) # Unresolved
    /\ memo' = Learn(memo, ChildKey, TRUE)
    /\ stack' = Append(stack, Frame(NextNeed.wire, Child, NextNeed.left))
    /\ opened' = OpenedBy(Child)
    /\ UNCHANGED <<world, asked, answer, checks>>

\* Every obligation of the top pair is met.
Confirms ==
    /\ answer = "testing"
    /\ Top.done = Len(TopNeeds)
    /\ memo' = Learn(memo, Top.key, TRUE)
    /\ IF Len(stack) = 1
       THEN stack' = << >> /\ answer' = "accepted"
       ELSE stack' = Advanced(Front(stack)) /\ UNCHANGED answer
    /\ UNCHANGED <<world, opened, reached, asked, checks>>

ReferencesNext ==
    \/ \E w \in DOMAIN world.wire, n \in DOMAIN world.schema, minted \in BOOLEAN :
          Ask(w, n, minted)
    \/ Skips \/ Lacks \/ TooDeep \/ Known \/ Unresolvable \/ Enters \/ Confirms

ReferencesSpec == ReferencesInit /\ [][ReferencesNext]_referenceVars

-----------------------------------------------------------------------------
\* What the answers are about: the largest relation closed under the rules,
\* on types and not on objects, whatever the order fields are looked up in.

Pair == (DOMAIN world.wire) \X (DOMAIN world.schema) \X BOOLEAN
Resolvable == {p \in Pair : Resolved(p[2]) # Unresolved}
Keys(fields) == {fields[i].key : i \in DOMAIN fields}
Under(fields, key) == {fields[i].ty : i \in At(fields, key)}

\* The type x of the subtype's side is below y of the other.
Below(x, y, left, related) ==
    IF left THEN <<x, y, TRUE>> \in related ELSE <<y, x, FALSE>> \in related
OptLike(t, onWire) == IF onWire THEN OptLikeWire(t) ELSE OptLikeSchema(t)

RecordBelow(sub, sup, left, related) ==
    \A key \in Keys(sup) : \A y \in Under(sup, key) :
        \/ \E x \in Under(sub, key) : Below(x, y, left, related)
        \/ key \notin Keys(sub) /\ OptLike(y, ~left)
VariantBelow(sub, sup, left, related) ==
    \A key \in Keys(sub) : \A x \in Under(sub, key) :
        \E y \in Under(sup, key) : Below(x, y, left, related)
ServiceBelow(sub, sup, left, related) ==
    \A key \in Keys(sup) : \A y \in Under(sup, key) :
        \E x \in Under(sub, key) : Below(x, y, left, related)

Rule(pair, related) ==
    LET left == pair[3]
        node == Schema(Resolved(pair[2]))
        sub == IF left THEN Wire(pair[1]) ELSE node
        sup == IF left THEN node ELSE Wire(pair[1])
    IN  \/ sub.kind = "empty" \/ sup.kind \in {"reserved", "opt"}
        \/ sub.kind = sup.kind /\ sub.kind \in Primitives
        \/ sub.kind = "nat" /\ sup.kind = "int"
        \/ /\ sub.kind = "vec" /\ sup.kind = "vec"
           /\ Below(sub.inner, sup.inner, left, related)
        \/ /\ sub.kind = "record" /\ sup.kind = "record"
           /\ RecordBelow(sub.fields, sup.fields, left, related)
        \/ /\ sub.kind = "variant" /\ sup.kind = "variant"
           /\ VariantBelow(sub.fields, sup.fields, left, related)
        \/ /\ sub.kind = "service" /\ sup.kind = "service"
           /\ ServiceBelow(sub.fields, sup.fields, left, related)
        \/ /\ sub.kind = "func" /\ sup.kind = "func" /\ sub.mode = sup.mode
           /\ RecordBelow(sup.args, sub.args, ~left, related)
           /\ RecordBelow(sub.results, sup.results, left, related)

Subtypes ==
    LET largest[related \in SUBSET Resolvable] ==
            LET kept == {p \in related : Rule(p, related)}
            IN  IF kept = related THEN related ELSE largest[kept]
    IN  largest[Resolvable]
AskedHolds == <<asked[1], asked[2], TRUE>> \in Subtypes

-----------------------------------------------------------------------------
\* Properties.

\* While no check of the run was refused, a reference is accepted only when
\* its wire type is a subtype of the expected one: the pairs assumed on the
\* way carry one another.
AcceptedBeforeRefusals ==
    (answer = "accepted" /\ \A k \in DOMAIN memo : memo[k]) => AskedHolds

\* A reference is refused only when its type is not a subtype, or a walk of
\* this run was cut by the depth limit: a remembered `false` is never about
\* a pair that failed for another one's sake.
RefusedIsNoSubtype == (answer = "refused" /\ reached <= world.depth) => ~AskedHolds

\* "The wire type must be a structural subtype of the expected type", of
\* every reference a run accepts.
AcceptedIsSubtype == answer = "accepted" => AskedHolds
=============================================================================
