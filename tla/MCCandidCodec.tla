--------------------------- MODULE MCCandidCodec -----------------------------
(***************************************************************************)
(* Instances of CandidCodec: small arenas with every kind of node, all the *)
(* short bodies over a few bytes, and messages with one byte changed.      *)
(***************************************************************************)
EXTENDS ContractCodec

MCRenderings == [id \in 0..3 |-> "_" \o ToString(id) \o "_"]
MCFieldIds == [a |-> 1, b |-> 2, c |-> 0, z |-> 1] @@ [key \in Range(MCRenderings) |->
                  CHOOSE id \in 0..3 : MCRenderings[id] = key]

P(kind) == [kind |-> kind]
In(kind, inner) == [kind |-> kind, inner |-> inner]
F(key, ty) == [key |-> key, ty |-> ty]
Rec(body) == [kind |-> "rec", body |-> body]
Record(fields) == [kind |-> "record", fields |-> fields]
Variant(arms) == [kind |-> "variant", arms |-> arms]

\* Wire entries as the encoder writes them.
W(kind, labels, refs) == [kind |-> kind, labels |-> labels, refs |-> refs]
WOpt(ref) == W("opt", << >>, <<ref>>)
WVec(ref) == W("vec", << >>, <<ref>>)
Written(table, refs) == Encoder!HeaderBytes([table |-> table, roots |-> refs])
O(kind) == OpCode[kind]

\* Bodies: short ones with continued bytes, long ones of tags and counts.
Short == UNION {[1..n -> {0, 1, 2, 5}] : n \in 0..2}
Longer == [1..5 -> {0, 1}]
Long == UNION {[1..n -> {0, 1}] : n \in 0..3} \cup {<<2>> \o b : b \in [1..2 -> {0, 1}]}

Given(bytes, schema, expected, subtypes, depth, limit) ==
    [bytes |-> bytes, sent |-> "given", schema |-> schema, expected |-> expected,
     hosts |-> << >>, mints |-> FALSE, subtypes |-> subtypes, depth |-> depth,
     elements |-> limit, table |-> 4, numeric |-> 3, maxBytes |-> 60]

\* Schemas, by what they exercise.
Plain == [n |-> P("nat"), i |-> P("int"), t |-> P("bool"), u |-> P("null"), r |-> P("reserved"),
          o |-> In("opt", "n"), oo |-> In("opt", "o"), ot |-> In("opt", "t"), or |-> In("opt", "r"),
          e |-> P("empty"), oe |-> In("opt", "e"),
          v |-> In("vec", "n"), vb |-> In("vec", "t"), b |-> P("blob"),
          ob |-> In("opt", "b"), ov |-> In("opt", "vb"),
          q |-> Record(<<F("b", "t"), F("a", "o")>>),
          oq |-> In("opt", "q"),
          w |-> Variant(<<F("b", "u"), F("a", "n")>>), ow |-> In("opt", "w"),
          p |-> [kind |-> "tuple", elements |-> <<"o", "n">>],
          k |-> [kind |-> "unit"], x |-> P("principal"), s |-> P("text"), ox |-> In("opt", "x"),
          os |-> In("opt", "s"), n8 |-> P("nat8"), i8 |-> P("int8"),
          m |-> Record(<<F("a", "o")>>), big |-> Record(<<F("a", "oq"), F("b", "ow")>>)]
Knot == [l |-> Rec("m"), m |-> In("opt", "c"), c |-> Record(<<F("a", "n"), F("b", "l")>>),
         n |-> P("nat"),
         x |-> Rec("y"), y |-> In("opt", "x"), al |-> Rec("l"), loop |-> Rec("loop"),
         ol |-> In("opt", "loop")]
Refs == [f |-> [kind |-> "func", args |-> <<"n">>, results |-> <<>>, mode |-> "query"],
         s |-> [kind |-> "service", methods |-> <<F("a", "f")>>],
         of |-> In("opt", "f"), os |-> In("opt", "s"), n |-> P("nat")]

\* Wire types a peer may send: a table and the argument types.
Leaves ==
    {[t |-> << >>, a |-> <<O(p)>>] :
        p \in {"nat", "int", "bool", "null", "reserved", "text", "principal", "empty", "int8"}}
Peers ==
    {[t |-> <<WOpt(O("nat"))>>, a |-> <<0>>],
     [t |-> <<WOpt(O("empty"))>>, a |-> <<0>>],
     [t |-> <<WOpt(1), WOpt(O("bool"))>>, a |-> <<0>>],
     [t |-> <<WVec(O("nat8"))>>, a |-> <<0>>],
     [t |-> <<WOpt(1), WVec(O("bool"))>>, a |-> <<0>>],
     [t |-> <<W("record", <<0, 1, 2>>, <<O("nat"), 1, O("bool")>>), WOpt(O("int"))>>, a |-> <<0>>],
     [t |-> <<W("record", <<1>>, <<1>>),
             W("variant", <<0, 1, 2>>, <<O("null"), O("nat"), O("null")>>)>>,
      a |-> <<0>>],
     [t |-> <<W("variant", <<1, 2>>, <<O("bool"), 0>>)>>, a |-> <<0>>],
     [t |-> <<W("record", <<1, 2>>, <<1, 2>>), WOpt(3),
             W("variant", <<1, 2>>, <<O("nat"), O("null")>>),
              W("record", <<2>>, <<O("bool")>>)>>, a |-> <<0>>],
     [t |-> <<W("record", <<0>>, <<0>>)>>, a |-> <<O("nat"), 0>>],
     [t |-> << >>, a |-> <<O("bool"), O("nat")>>], [t |-> << >>, a |-> << >>]}
Heads(peers) == {Written(peer.t, peer.a) : peer \in peers}
LeafHeads == Heads(Leaves)
PeerHeads == Heads(Peers)
Wanted == {<<n>> : n \in {"i", "oo", "or", "oe", "v", "b", "ob", "ov", "oq", "ow", "p", "big", "r"}}
          \cup {<<"t", "o">>, << >>}
PlainMessages ==
    {Given(head \o body, Plain, expected, {}, 4, 12) :
        head \in LeafHeads, body \in Short, expected \in Wanted} \cup
    {Given(head \o body, Plain, expected, {}, 4, 12) :
        head \in PeerHeads, body \in Long, expected \in Wanted} \cup
    {Given(head \o body, Plain, <<n>>, {}, 4, 12) :
        head \in PeerHeads, body \in Longer, n \in {"p", "big", "oq", "ow", "ov"}}
TightMessages ==
    {Given(head \o body, Plain, <<n>>, {}, depth, elements_) :
        head \in PeerHeads \cup Heads({[t |-> <<W("record", << >>, << >>)>>, a |-> <<0>>]}),
        body \in {<< >>, <<1, 1, 1, 1, 1>>, <<1, 0, 1, 1, 1>>, <<2, 1, 1>>},
        n \in {"m", "oo", "ov", "ob", "oq", "big", "r"},
        depth \in 0..2, elements_ \in {2, 5}}
KnotHeads ==
    {Written(t, <<0>>) :
        t \in {<<WOpt(1), W("record", <<1, 2>>, <<O("nat"), 0>>)>>,
               <<WOpt(1), W("record", <<1, 2>>, <<O("bool"), 0>>)>>, <<WOpt(0)>>}}
KnotMessages ==
    {Given(head \o body, Knot, <<n>>, {}, 4, 12) :
        head \in KnotHeads, body \in Long \cup Longer, n \in {"l", "x", "al", "ol"}}
RefHeads ==
    {Written(<<W("func", <<1, mode>>, <<O("nat")>>), W("service", <<1>>, <<0>>), WOpt(root)>>,
             <<2>>) :
        mode \in 0..1, root \in 0..1}
RefMessages ==
    {Given(head \o body, Refs, <<n>>, subtypes, 4, 12) :
        head \in RefHeads, n \in {"of", "os"}, subtypes \in {{}, {<<0, "f">>, <<1, "s">>}},
        body \in {<<1, 1, 1, 1, 5, 1, 2>>, <<1, 1, 1, 0, 1, 2>>, <<1, 1, 1, 0, 0>>, <<1, 0>>, <<0>>,
                  <<1, 1, 1, 5>>, <<1, 1, 0>>, <<1, 1, 0, 0, 1, 2>>, <<1, 1, 1, 0, 1, 7>>}}
\* A header with a byte changed, or cut short.
Headers ==
    {Written(<<W("record", <<1, 2>>, <<1, 2>>), WOpt(0),
               W("variant", <<0, 3>>, <<O("null"), 0>>)>>, <<0>>)
        \o <<0, 0>>,
     Written(<<W("func", <<1, 1>>, <<O("nat"), O("bool")>>), W("service", <<1, 2>>, <<0, 0>>)>>,
             <<1, 0>>)
        \o <<1, 0, 1, 1, 0, 1, 2>>}
Changed(bytes) ==
    {[bytes EXCEPT ![k] = v] : k \in DOMAIN bytes, v \in Bytes} \cup
    {SubSeq(bytes, 1, k) : k \in 0..Len(bytes)} \cup
    {SubSeq(bytes, 1, k) \o <<v>> \o SubSeq(bytes, k + 1, Len(bytes)) :
        k \in DOMAIN bytes, v \in Bytes}
AllChanged == UNION {Changed(h) : h \in Headers}
HeaderMessages ==
    {Given(bytes, Plain, expected, {}, 4, 12) :
        bytes \in AllChanged, expected \in {<<"or">>}}

\* Numbers: every run of up to four bytes.
NumberMessages ==
    {Given(bytes, [n |-> P("nat")], << >>, {}, 4, 12) :
        bytes \in UNION {[1..k -> Bytes] : k \in 0..4}}

MCMessages ==
    {PlainMessages, TightMessages, KnotMessages, RefMessages, HeaderMessages, NumberMessages}

-----------------------------------------------------------------------------
\* Host values to encode.

Call(schema, expected, hosts, mints, depth, limit) ==
    [bytes |-> << >>, sent |-> "values", schema |-> schema, expected |-> expected, hosts |-> hosts,
     mints |-> mints, subtypes |-> {0, 1, 2} \X {"f", "s"}, depth |-> depth, elements |-> limit,
     table |-> 5, numeric |-> 3, maxBytes |-> 100]
Some(value) == Object(<<Entry("some", value)>>)
Tagged_(key) == Entry("tag", Tag(key))
AB(a, b) == Object(<<Entry("b", b), Entry("a", a)>>)
Hosts ==
    {Null, Boolean(TRUE), Number(3), Number(-1), Number(9), BigInt(-1), BigInt(7), BigInt(70),
     String(<<>>), String(<<1, 2>>), String(<<MaxByte>>), PrincipalText(<<1>>), BytesOf(<<3, 0>>),
     Array(<< >>), Array(<<BigInt(1)>>), Array(<<Boolean(TRUE), Boolean(FALSE)>>),
     Array(<<Null, BigInt(2)>>), Array(<<BigInt(0), Null>>), Object(<< >>),
     Some(Null), Some(BigInt(2)), Some(Some(Null)), Some(AB(Null, Null)),
     AB(Null, Boolean(TRUE)), AB(BigInt(1), Boolean(FALSE)), AB(BigInt(-1), Null),
     Object(<<Entry("a", Null)>>),
     Object(<<Entry("a", Null), Entry("b", Boolean(TRUE)), Entry("z", Null)>>),
     Object(<<Tagged_("b")>>), Object(<<Tagged_("a"), Entry("value", BigInt(3))>>),
     Object(<<Tagged_("b"), Entry("value", Null)>>), Object(<<Tagged_("a")>>),
     Object(<<Tagged_("c")>>), Object(<<Entry("tag", Null)>>),
     AB(AB(Null, Boolean(TRUE)), Object(<<Tagged_("b")>>)),
     AB(Null, Object(<<Tagged_("a"), Entry("value", BigInt(-1))>>)),
     FuncValue(PrincipalText(<< >>), String(<<2>>)), FuncValue(Null, String(<< >>)),
     Object(<<Entry("method", String(<<MaxByte>>)), Entry("principal", PrincipalText(<< >>))>>)}
Odd == Plain @@ Refs @@
    [clash |-> Record(<<F("a", "n"), F("z", "n")>>), cw |-> Variant(<<F("a", "n"), F("z", "u")>>),
     lr |-> Rec("lr"), wl |-> Variant(<<F("b", "lr"), F("a", "du")>>), du |-> Rec("u"),
     od |-> In("opt", "du"), sv |-> [kind |-> "service", methods |-> <<F("a", "n")>>],
     n16 |-> P("int16")]
HostCalls ==
    {Call(Odd, <<n>>, <<host>>, FALSE, depth, 12) :
        n \in DOMAIN Odd, host \in Hosts, depth \in {1, 4}}
LimitCalls ==
    {Call(Odd, <<n>>, <<host>>, FALSE, depth, limit) :
        n \in {"big", "oq", "oo", "v", "vb", "p", "w", "wl"}, depth \in 0..3,
        limit \in {1, 2, 3, 5, 7},
        host \in {h \in Hosts : h.is \in {"array", "object"}}}

\* Schema graphs, by what two plain nodes and two recs refer to.
Shape(refs) ==
    IF Len(refs) = 1 THEN In("opt", refs[1]) ELSE Record(<<F("b", refs[1]), F("a", refs[2])>>)
RefsTo(nodes) == {<<n>> : n \in nodes} \cup nodes \X nodes
Graphs_ ==
    {[n |-> P("nat"), x |-> Shape(x), y |-> Shape(y), r |-> Rec(r), s |-> Rec(s),
      top |-> In("opt", "y"), also |-> In("opt", "x")] :
        x \in RefsTo({"n", "r", "s"}), y \in RefsTo({"n", "r", "s", "x"}),
        r \in {"x", "y", "s"}, s \in {"x", "r"}}
TypeCalls ==
    {Call(graph, nodes, <<Null, Null>>, TRUE, depth, 12) :
        graph \in Graphs_, depth \in {2, 4}, nodes \in {<<"top", "also">>, <<"s", "top">>}}
\* Without recs, deeper, with what is shared met at several depths.
ChainCalls ==
    {Call([n |-> P("nat"), x |-> Shape(x), y |-> Shape(y), z |-> Shape(z), top |-> In("opt", "z"),
           also |-> In("opt", "x")], nodes, <<Null, Null>>, FALSE, depth, 12) :
        x \in RefsTo({"n"}), y \in RefsTo({"n", "x"}), z \in RefsTo({"n", "x", "y"}),
        depth \in 0..3, nodes \in {<<"top", "also">>, <<"also", "top">>}}

MCCalls == {HostCalls, LimitCalls, TypeCalls, ChainCalls}

-----------------------------------------------------------------------------
\* Documents: arenas of three types, and one good document changed in a place.

MCLabelHash == [a |-> 1, b |-> 2, c |-> 0] @@ ("_3_" :> 2)
MCUnbindable == {"9x"}

Inn(kind, ref) == [kind |-> kind, inner |-> ref]
Prim(name) == [kind |-> "primitive", primitive |-> name]
Field_(id, ref) == [id |-> id, type |-> ref]
Fields_(kind, fields) == [kind |-> kind, fields |-> fields]
Func_(args_, mode) == [kind |-> "func", args |-> args_, results |-> << >>, mode |-> mode]
Serv(methods) == [kind |-> "service", methods |-> methods]
Meth(name, ref) == [name |-> name, id |-> LabelHash[name], function |-> ref]
Class_(init, service) == [kind |-> "class", init |-> init, service |-> service]

Ample == [maxTypeNodes |-> 9, maxFields |-> 9, maxDeclarations |-> 9, maxNames |-> 9]
Base(types, declarations) ==
    [types |-> types,
     declarations |-> [i \in DOMAIN declarations |->
                          [name |-> declarations[i][1], type |-> declarations[i][2]]]]
        @@ Loader!Markers
WithActor(contract, kind, ref) == contract @@ [actor |-> ("kind" :> kind) @@ (kind :> ref)]
FromOutside(document, options, callers) ==
    [bytes |-> << >>, sent |-> "document", document |-> document, options |-> options,
     loaded |-> Loader!Refused({}), callers |-> callers, schema |-> << >>, expected |-> << >>,
     hosts |-> << >>, mints |-> FALSE, subtypes |-> {0, 1, 2} \X {"b0", "b1", "b2", "a"},
     depth |-> 4, elements |-> 12, table |-> 5, numeric |-> 3, maxBytes |-> 100]

Ref_ == 0..2
Leafy == {Prim("nat"), Prim("nat8"), Prim("empty"), Fields_("variant", << >>)}
Wide ==
    {Inn(kind, r) : kind \in {"opt", "vec"}, r \in Ref_} \cup
    {Fields_(kind, <<Field_(i, r), Field_(1, s)>>) :
        kind \in {"record", "variant"}, i \in {0, 2}, r \in Ref_, s \in Ref_} \cup
    {Fields_("record", <<Field_(1, r), Field_(0, s)>>) : r \in Ref_, s \in Ref_} \cup
    {Func_(<<r>>, "query") : r \in Ref_} \cup {Fields_("record", << >>)}
Narrow ==
    Leafy \cup {Inn(kind, r) : kind \in {"opt", "vec"}, r \in Ref_} \cup
    {Fields_(kind, <<Field_(2, r)>>) : kind \in {"record", "variant"}, r \in Ref_}
Arenas ==
    {FromOutside(Base(<<x, y, z>>, declarations), Ample @@ [names |-> [entries |-> entries_]],
                 {Null}) :
        x \in Wide, y \in Narrow, z \in Leafy \cup {Inn("opt", 0)},
        declarations \in {<<<<"A", 0>>, <<"B", 1>>>>, <<<<"9x", 1>>, <<"B", 1>>, <<"C", 0>>>>},
        entries_ \in {<< >>, <<<<1, 2, "_3_">>, <<0, 1, "a">>>>}}

\* Actors, their methods and classes.
Actors ==
    {FromOutside(WithActor(Base(<<x, y, z>>, declarations), kind, ref),
                 Ample @@ [names |-> [entries |-> <<<<2, 2, "_3_">>>>]], {PrincipalText(<<1>>)}) :
        x \in {Serv(<<Meth("a", 1)>>), Serv(<<Meth("a", 1), Meth("b", 2)>>),
               Class_(<<2>>, 1), Class_(<<0>>, 1), Class_(<< >>, 2), Func_(<<1>>, "query")},
        y \in {Func_(<<2>>, "update"), Func_(<<0, 2>>, "oneway"), Serv(<< >>),
               Serv(<<Meth("a", 2)>>),
               Inn("opt", 0), Fields_("record", <<Field_(0, 0)>>)},
        z \in {Prim("text"), Func_(<< >>, "query"), Fields_("variant", <<Field_(2, 2)>>),
               Serv(<< >>)},
        declarations \in {<< >>, <<<<"9x", 2>>, <<"B", 2>>>>, <<<<"actor", 1>>, <<"D", 2>>>>},
        kind \in {"service", "class"}, ref \in 0..3}

\* One good document, with a place of it changed.
Good ==
    WithActor(Base(<<Serv(<<Meth("a", 1)>>), Func_(<<2>>, "oneway"),
                     Fields_("record", <<Field_(1, 3), Field_(2, 3)>>), Prim("nat")>>,
                   <<<<"A", 2>>, <<"B", 3>>>>), "service", 0)
Odds == {-1, 9, 0, 3}
Changes(object, keys, values_) == {[object EXCEPT ![k] = v] : k \in keys, v \in values_}
Without(object, k) == [key \in DOMAIN object \ {k} |-> object[key]]
Cut(object) == {Without(object, k) : k \in DOMAIN object} \cup {object @@ [extra |-> TRUE]}
TypesWith(node, i) == [Good EXCEPT !.types[i] = node]
BadTypes ==
    {TypesWith(node, 1) : node \in Cut(Good.types[1]) \cup {Loader!NotAnObject, Serv(<< >>),
        Serv(<<Meth("a", 1), Meth("a", 1)>>), Serv(<<Meth("a", 2)>>), Serv(<<Loader!NotAnObject>>),
        [kind |-> "future"], [kind |-> "service", methods |-> <<[Meth("a", 1) EXCEPT !.id = 2]>>]}
        \cup {Serv(<<m>>) : m \in Cut(Meth("a", 1)) \cup Changes(Meth("a", 1), {"function"}, Odds)}}
    \cup {TypesWith(node, 2) : node \in Cut(Good.types[2]) \cup
            {[Good.types[2] EXCEPT !.results = <<r>>, !.mode = mode] :
               r \in Odds, mode \in {"query", "oneway", "fast"}}}
    \cup {TypesWith(node, 3) : node \in Cut(Good.types[3]) \cup
            {Fields_(kind, <<f, Field_(1, 3)>>) : kind \in {"record", "variant"},
               f \in Cut(Field_(1, 3)) \cup Changes(Field_(1, 3), {"type"}, Odds)
                      \cup Changes(Field_(1, 3), {"id"}, {-1, 0, 2, 3}) \cup {Loader!NotAnObject, Field_(1, 3)}}}
    \cup {TypesWith(node, 4) : node \in Cut(Prim("nat")) \cup
            {Prim("future"), Inn("opt", 0), Inn("vec", 9), Class_(<<2>>, 0), Class_(<<9>>, 9)}}
BadContracts ==
    Cut(Good) \cup BadTypes \cup {Loader!NotAnObject} \cup
    {[Good EXCEPT !.declarations[2] = d] :
        d \in Cut(Good.declarations[2]) \cup Changes(Good.declarations[2], {"type"}, Odds)
              \cup Changes(Good.declarations[2], {"name"}, {"", "A"}) \cup {Loader!NotAnObject}}
    \cup
    {[Good EXCEPT !.actor = a] : a \in Cut(Good.actor) \cup Changes(Good.actor, {"service"}, Odds)
        \cup {Loader!NotAnObject, [kind |-> "class", class |-> 0], [kind |-> "other"]}} \cup
    Changes(Good, DOMAIN Loader!Markers, {"other"}) \cup {[Good EXCEPT !.declarations = << >>]}
\* The largest index, one entry for it and for others, two for one place.
Tables ==
    {[none |-> TRUE], [entries |-> << >>], [entries |-> <<<<2, 1, "a">>, <<2, 2, "b">>>>],
     [entries |-> <<<<2, 2, "_3_">>, <<2, 2, "b">>, <<9, 1, "a">>>>],
     [entries |-> <<<<2, 2, "b">>, <<2, 2, "_3_">>>>],
     [entries |-> <<<<2, 1, "b">>>>], [entries |-> <<<<-1, 1, "a">>>>], [entries |-> <<<<2, 1>>>>]}
Enveloped(contract, table) == [contract |-> contract, extensions |-> Loader!FieldNames :> table]
AB_ == Object(<<Entry("b", BigInt(2)), Entry("a", BigInt(1))>>)
Capped ==
    {[maxTypeNodes |-> n, maxFields |-> 4, maxDeclarations |-> d, maxNames |-> k] :
        n \in 3..4, d \in 1..2, k \in 1..3}
    \cup {[Ample EXCEPT !.maxFields = f] : f \in 0..4}
Changed_ ==
    {FromOutside(contract, [Ample EXCEPT !.maxFields = f], {AB_}) :
        contract \in BadContracts, f \in {2, 4, 9}}
    \cup {FromOutside(Enveloped(contract, table), Ample, {AB_}) :
            contract \in {Good, TypesWith(Func_(<<9>>, "query"), 2), Loader!NotAnObject},
            table \in Tables}
    \cup {FromOutside(Good, caps @@ [names |-> table], {AB_}) : caps \in Capped, table \in Tables}
    \cup {FromOutside(Enveloped(Good, table) , Ample @@ [names |-> [entries |-> << >>]], {AB_}) :
            table \in Tables}
    \cup {FromOutside(document, Ample, {AB_}) :
            document \in {[contract |-> Good], [contract |-> Good, extra |-> TRUE],
                          [contract |-> Good, extensions |-> Loader!NotAnObject],
                          [contract |-> Good, extensions |-> [future |-> TRUE]]}}

MCDocuments == {Arenas, Actors, Changed_}

\* The fewest documents with an actor that says it is what it is not.
MCNone == {}
MCActorKinds ==
    {{FromOutside([Good EXCEPT !.actor = ("kind" :> kind) @@ (kind :> 0)], Ample, {AB_}) :
        kind \in {"service", "class"}}}
=============================================================================
