---------------------------- MODULE MCCompatWalk ----------------------------
(***************************************************************************)
(* Instances of CompatWalk, and of PackSubtype over the same types, for    *)
(* TLC: every pair of small arenas whose first two nodes are chosen and    *)
(* whose third is a leaf.                                                  *)
(***************************************************************************)
EXTENDS PackSubtype

Leaf(kind) == [kind |-> kind]
OptOf(n) == [kind |-> "opt", inner |-> n]
Members(x, y) == <<[key |-> 1, ty |-> x], [key |-> 2, ty |-> y]>>
RecordOf(x, y) == [kind |-> "record", members |-> Members(x, y)]
FuncOf(arg, result) ==
    [kind |-> "func", mode |-> "query", args |-> <<arg>>, results |-> <<result>>]

\* Both functions return the first node and the second.
Returning == [mode |-> "query", args |-> << >>, results |-> <<1, 2>>]

Arenas(first, second, leaf) == {<<a, b, Leaf(leaf)>> : a \in first, b \in second}

Family(lives, writtens, live, written, bounds) ==
    [live |-> lives, written |-> writtens, fn |-> [live |-> live, written |-> written],
     bounds |-> bounds]

\* Never met, and met by nested types.
Wide == [depth |-> 20, steps |-> 1000, warnings |-> 100]
Tight == [depth |-> 4, steps |-> 30, warnings |-> 1]

Ref == 1..3
Opts == {OptOf(n) : n \in Ref}
Records == {RecordOf(x, y) : x, y \in Ref}
Funcs == {FuncOf(x, y) : x, y \in Ref}

\* Records and opts over each other, with leaves that fit (nat, int) one way.
MCRecursive ==
    Family(Arenas(Opts \cup Records, Opts \cup Records, "nat"),
           Arenas(Opts \cup Records, Opts \cup {RecordOf(n, 2) : n \in Ref}, "int"),
           Returning, Returning, Wide)

\* The other kinds, both sides of one kind, with a member, an argument and a
\* result that one side lacks.
Taking == [mode |-> "query", args |-> <<2, 2>>, results |-> <<1>>]
TakingOne == [mode |-> "query", args |-> <<2>>, results |-> <<1, 3>>]
VecOf(n) == [kind |-> "vec", inner |-> n]
Keyed(kind) == {[kind |-> kind, members |-> Members(x, y)] : x, y \in Ref}
                 \cup {[kind |-> kind, members |-> <<[key |-> 2, ty |-> n]>>] : n \in Ref}
Cases == {[kind |-> "variant", members |-> Members(3, 3)],
          [kind |-> "variant", members |-> <<[key |-> 2, ty |-> 3]>>]}
Nested == Opts \cup {VecOf(1)}
OfKind == {<<Keyed("record"), Nested>>, <<Keyed("variant"), Nested>>,
           <<Keyed("service"), Nested>>, <<Funcs, Nested>>}

MCShapes ==
    {Family(Arenas(of[1], of[2], "nat"), Arenas(of[1], of[2], "reserved"),
            Taking, TakingOne, Wide) : of \in OfKind}

\* A result that is a function over variants.
Offering == [mode |-> "query", args |-> << >>, results |-> <<1>>]
MCOffered == Family(Arenas(Funcs, Cases, "nat"), Arenas(Funcs, Cases, "nat"),
                    Offering, Offering, Wide)

\* A record of three on the live side; opts, which fail, and records on the
\* written one, so that a probe can warn twice before it fails.
Outer == [mode |-> "query", args |-> << >>, results |-> <<2>>]
TripleOf(x, y, z) ==
    [kind |-> "record", members |-> Append(Members(x, y), [key |-> 3, ty |-> z])]

MCNested ==
    Family(Arenas(Records, {TripleOf(x, y, z) : x, y, z \in Ref}, "nat"),
           Arenas(Opts \cup Records \cup {TripleOf(2, 2, 3)}, Opts, "text"), Outer, Outer, Tight)

\* A pack is matched, as packs are, against the methods of these shapes.
MCModes == {"relaxed"}
MCPackMethods ==
    {[live |-> Taking, written |-> TakingOne], [live |-> Offering, written |-> Offering]}

MCFamilies == {MCRecursive, MCNested, MCOffered} \cup MCShapes
=============================================================================
