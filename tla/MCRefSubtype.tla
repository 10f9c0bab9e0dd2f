---------------------------- MODULE MCRefSubtype ----------------------------
(***************************************************************************)
(* Instances of RefSubtype for TLC.  References to the schema side are by  *)
(* node: nodes 1 and 2 of a schema are recs whose bodies are nodes 3 and 4.*)
(***************************************************************************)
EXTENDS RefSubtype

Keyed(types) == [i \in DOMAIN types |-> [key |-> i, ty |-> types[i]]]
Leaf(kind) == [kind |-> kind]
Rec(n) == [kind |-> "rec", body |-> n]
FuncOf(args, results) ==
    [kind |-> "func", mode |-> "query", args |-> Keyed(args), results |-> Keyed(results)]
Fields(kind, types) == [kind |-> kind, fields |-> Keyed(types)]

Missing(kind, types) == {Fields(kind, types), [kind |-> kind, fields |-> Tail(Keyed(types))]}

\* Wire types end in a leaf that fits one way only; schema bodies likewise.
Wires(first, second) == {<<a, b, Leaf("nat")>> : a \in first, b \in second}
Schemas(first, second, leaf) == {<<Rec(3), Rec(4), a, b, Leaf(leaf)>> : a \in first, b \in second}
Family(wires, schemas, depth) ==
    [wires |-> wires, schemas |-> schemas, mints |-> BOOLEAN, depth |-> depth]

\* Funcs that take and return each other; the limit is never met, then is.
Funcs(leaf) == {FuncOf(<< >>, <<1>>), FuncOf(<<1>>, <<2>>), FuncOf(<< >>, <<2, leaf>>),
                FuncOf(<<2, leaf>>, <<1>>)}
Loops(depth) == Family(Wires(Funcs(3), Funcs(3)), Schemas(Funcs(5), Funcs(5), "int"), depth)

\* A func of every other kind of type, members missing on one side.
Bodies(types) ==
    UNION {Missing(kind, types) : kind \in {"record", "variant", "service"}}
      \cup {[kind |-> kind, inner |-> types[1]] : kind \in {"opt", "vec"}}
Holder == {FuncOf(<< >>, <<2>>), FuncOf(<<2>>, << >>)}
Shapes(leaf) ==
    Family(Wires(Holder, Bodies(<<1, 3>>) \cup Bodies(<<3, 2>>)),
           Schemas(Holder, Bodies(<<1, 5>>) \cup Bodies(<<5, 2>>), leaf), 20)

\* A rec that only ever leads to recs.
Endless ==
    Family(Wires(Holder, Funcs(3)), {<<Rec(3), Rec(2), a, Leaf("int")>> : a \in Holder}, 20)

MCFamilies == {Loops(20), Loops(3), Shapes("int"), Shapes("null"), Endless}

\* The fewest types that show a remembered assumption.
MCLoop ==
    {Family({<<FuncOf(<< >>, <<2, 3>>), FuncOf(<< >>, <<1>>), Leaf("nat")>>},
            {<<Rec(3), Rec(4), FuncOf(<< >>, <<2>>), FuncOf(<< >>, <<2, 5>>), Leaf("int")>>}, 20)}
=============================================================================
