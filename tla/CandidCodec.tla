----------------------------- MODULE CandidCodec -----------------------------
(***************************************************************************)
(* The codec as its callers use it: host values are validated and encoded, *)
(* messages are decoded, by this encoder or by a peer with other types.    *)
(* The three walks are one resource model: what one of them charges or     *)
(* refuses, the others do.                                                 *)
(*                                                                         *)
(* A world is a message and the schemas it is read with, or host values,   *)
(* whose message the encoder makes.                                        *)
(***************************************************************************)
EXTENDS CandidDecode

CONSTANTS
    Messages,    \* families of worlds that come with their bytes
    Calls        \* families of host values to encode: schema, nodes, hosts, limits

Encoder == INSTANCE CandidEncode
Validator == INSTANCE CandidValidate

\* The policy of a call, for the walks that take one.
PolicyOf(w, mints, issues) ==
    [schema |-> w.schema, depth |-> w.depth, elements |-> w.elements, issues |-> issues,
     table |-> w.table, numeric |-> w.numeric, mints |-> mints]
Encoded(w) == Encoder!EncodeArgs(PolicyOf(w, w.mints, 1), w.expected, w.hosts)

Init ==
    /\ \/ \E family \in Messages : world \in family
       \/ \E family \in Calls : world \in family
    /\ Begins

\* A caller encodes; its peer has the message, or the call is refused.
Sent(made) ==
    IF made.is = "message"
    THEN /\ world' = [world EXCEPT !.sent = "sent", !.bytes = made.bytes]
         /\ outcome' = IF Len(made.bytes) > world.maxBytes THEN "bytes" ELSE outcome
    ELSE world' = [world EXCEPT !.sent = made.code] /\ UNCHANGED outcome
Send ==
    /\ world.sent = "values"
    /\ Sent(Encoded(world))
    /\ UNCHANGED <<entries, args, argument, offset, elements, stack, call, values>>

\* A message the encoder refused is never sent; the run of a message ends.
Receive == world.sent \in {"given", "sent"} /\ Next
Ended ==
    /\ world.sent # "values"
    /\ outcome \notin {"header", "decoding"} \/ world.sent \notin {"given", "sent"}
Stays == Ended /\ UNCHANGED vars

Spec == Init /\ [][Send \/ Receive \/ Stays]_vars

-----------------------------------------------------------------------------
\* What decoding means, in two passes: the bytes parsed by their types alone,
\* then the trees coerced to the expected schemas.

Limits == {"value_depth", "value_elements", "type_table_entries", "numeric_bytes", "bytes"}
Fuel == world.depth + 3

TypeIn(table, wire) == table[wire + 1]
KindIn(table, wire) == IF wire < 0 THEN "primitive" ELSE TypeIn(table, wire).kind

RECURSIVE Parsed(_, _, _, _), ParsedEach(_, _, _, _)
\* One tree for each of `types`, one after the other.
ParsedEach(table, types, at, fuel) ==
    IF types = << >> THEN Reading(<< >>, at)
    ELSE After(Parsed(table, Head(types), at, fuel), LAMBDA first :
         After(ParsedEach(table, Tail(types), first.at, fuel), LAMBDA rest :
             Reading(<<first.value>> \o rest.value, rest.at)))
ReferenceBytes(kind, at) ==
    IF kind = "service" THEN SkipService(at)
    ELSE After(One(at, Opaque), LAMBDA tag : After(SkipService(tag.at), LAMBDA id :
         After(TextOf(id.at), LAMBDA name : Reading(<<id.value, name.value>>, name.at))))
Parsed(table, wire, at, fuel) ==
    LET kind == KindIn(table, wire)
        type == TypeIn(table, wire)
        Tree(reading) == After(reading, LAMBDA r :
            Reading([wire |-> wire, kind |-> kind, under |-> r.value], r.at))
    IN  IF fuel = 0 THEN Fault("value_depth")
        ELSE Tree(
          CASE kind = "primitive" ->
                 IF wire = OpCode.empty THEN Fault("type_mismatch") ELSE Leaf(wire, at)
            [] kind = "opt" ->
                 After(ReadByte(at), LAMBDA tag :
                     IF tag.value > 1 THEN Fault("invalid_tag_byte")
                     ELSE ParsedEach(table, IF tag.value = 1 THEN <<type.inner>> ELSE << >>,
                                     tag.at, fuel - 1))
            [] kind = "vec" ->
                 After(Count(at), LAMBDA length :
                     ParsedEach(table, [i \in 1..length.value |-> type.inner], length.at, fuel - 1))
            [] kind = "record" ->
                 ParsedEach(table, [i \in DOMAIN type.fields |-> type.fields[i].ty], at, fuel - 1)
            [] kind = "variant" ->
                 After(Count(at), LAMBDA index :
                     IF index.value >= Len(type.fields) THEN Fault("invalid_length")
                     ELSE After(Parsed(table, type.fields[index.value + 1].ty, index.at, fuel - 1),
                        LAMBDA arm :
                            Reading(<<type.fields[index.value + 1].id, arm.value>>, arm.at)))
            [] kind \in {"func", "service"} -> ReferenceBytes(kind, at)
            [] kind = "future" ->
                 After(Count(at), LAMBDA bytes : After(Count(bytes.at), LAMBDA refs :
                 After(ReadRaw(bytes.value, refs.at), LAMBDA raw :
                     IF refs.value > 0 THEN Fault(Opaque) ELSE raw))))

\* Coercion yields a value, a misfit an opt absorbs, or a fault none does.
Fits(value) == [is |-> "fits", value |-> value]
Misfit == [is |-> "misfit"]
Broken == [is |-> "broken"]
Mapped(result, Map(_)) == IF result.is = "fits" THEN Fits(Map(result.value)) ELSE result

RECURSIVE Coerced(_, _, _, _), CoercedEach(_, _, _, _)
CoercedEach(table, trees, nodes, fuel) ==
    IF trees = << >> THEN Fits(<< >>)
    ELSE LET first == Coerced(table, Head(trees), Head(nodes), fuel)
             rest == CoercedEach(table, Tail(trees), Tail(nodes), fuel)
         IN  IF first.is # "fits" THEN first
             ELSE Mapped(rest, LAMBDA values_ : <<first.value>> \o values_)

\* The fields a record has on either side, in the order of their ids, and
\* what each comes to.
FieldTree(table, tree, id) ==
    LET fields == TypeIn(table, tree.wire).fields
        at == {i \in DOMAIN fields : fields[i].id = id}
    IN  IF at = {} THEN << >> ELSE <<tree.under[CHOOSE i \in at : TRUE]>>
FieldsCoerced(table, tree, node, fuel) ==
    LET wanted == Expected(node)
        One_(sofar, want) ==
            LET found == FieldTree(table, tree, want.id)
                result == IF found # << >> THEN Coerced(table, found[1], want.ty, fuel)
                          ELSE IF AdmitsNull(Node(Resolved(want.ty))) THEN Fits(Null) ELSE Misfit
            IN  IF sofar.is # "fits" THEN sofar
                ELSE Mapped(result, LAMBDA v : Append(sofar.value, Entry(want.key, v)))
    IN  FoldLeft(One_, Fits(<< >>), wanted)

Coerced(table, tree, n, fuel) ==
    LET resolved == Resolved(n)
        node == Node(resolved)
        inner == Resolved(node.inner)
        constituent == IF tree.kind = "opt" THEN tree.under ELSE <<tree>>
        some == Coerced(table, constituent[1], inner, fuel - 1)
        nats == [i \in DOMAIN tree.under |-> tree.under[i].under.number]
        arms == {i \in DOMAIN node.arms : FieldId(node.arms[i]) = tree.under[1]}
        arm == node.arms[CHOOSE i \in arms : TRUE]
        payload == Coerced(table, tree.under[2], arm.ty, fuel - 1)
    IN  IF resolved = Unresolved \/ fuel = 0 THEN Broken
        ELSE CASE node.kind = "reserved" -> Fits(Null)
          [] node.kind = "opt" ->
               IF tree.wire \in {OpCode.null, OpCode.reserved} \/ constituent = << >>
               THEN Fits(Null)
               ELSE IF inner = Unresolved \/ some.is = "broken" THEN Broken
               ELSE IF some.is = "misfit" THEN Fits(Null)
               ELSE IF AdmitsNull(Node(inner))
                    THEN Fits(Object(<<Entry("some", some.value)>>)) ELSE some
          [] node.kind \in {"func", "service"} ->
               IF tree.kind # node.kind \/ <<tree.wire, resolved>> \notin world.subtypes THEN Misfit
               ELSE IF node.kind = "service" THEN Fits(PrincipalText(tree.under))
               ELSE IF tree.under[2] = << >> THEN Broken
               ELSE Fits(FuncValue(PrincipalText(tree.under[1]), String(tree.under[2])))
          [] node.kind \in Primitives \ {"reserved", "empty"} ->
               IF \/ tree.wire = OpCode[node.kind]
                  \/ tree.wire = OpCode.nat /\ node.kind = "int"
               THEN Fits(tree.under) ELSE Misfit
          [] node.kind = "blob" ->
               IF tree.kind = "vec" THEN IF TypeIn(table, tree.wire).inner = OpCode.nat8
                                         THEN Fits(BytesOf(nats)) ELSE Misfit
               ELSE Misfit
          [] node.kind = "vec" ->
               IF tree.kind # "vec" THEN Misfit
               ELSE Mapped(CoercedEach(table, tree.under, [i \in DOMAIN tree.under |-> node.inner],
                                       fuel - 1), Array)
          [] node.kind \in {"record", "tuple", "unit"} ->
               IF tree.kind # "record" THEN Misfit
               ELSE IF node.kind = "record" /\ Collides(node.fields) THEN Broken
               ELSE Mapped(FieldsCoerced(table, tree, node, fuel - 1), LAMBDA fields :
                        IF node.kind = "tuple"
                        THEN Array([i \in DOMAIN fields |-> fields[i].value]) ELSE Object(fields))
          [] node.kind = "variant" ->
               IF tree.kind # "variant" \/ arms = {} THEN Misfit
               ELSE Mapped(payload, LAMBDA v :
                        Tagged([tag |-> arm.key, bare |-> Node(Resolved(arm.ty)).kind = "null"], v))
          [] OTHER -> Misfit

\* The whole message: every argument parsed, nothing left, each expected one
\* coerced or, when it is missing, null.
Meaning ==
    After(Header, LAMBDA header :
    After(ParsedEach(header.value.entries, header.value.args, header.at, Fuel), LAMBDA trees :
    IF trees.at # Len(world.bytes) THEN Fault("trailing_bytes")
    ELSE LET table == header.value.entries
             Argument(i) ==
                 IF i <= Len(trees.value)
                 THEN Coerced(table, trees.value[i], world.expected[i], Fuel)
                 ELSE IF AdmitsNull(Node(Resolved(world.expected[i]))) THEN Fits(Null) ELSE Misfit
             results == [i \in DOMAIN world.expected |-> Argument(i)]
         IN  IF \A i \in DOMAIN results : results[i].is = "fits"
             THEN Reading([i \in DOMAIN results |-> results[i].value], trees.at)
             ELSE Fault("type_mismatch")))

-----------------------------------------------------------------------------
\* Properties of the decoder.

CoercesAsSpecified ==
    (world.sent = "given" /\ outcome \notin {"header", "decoding"} \cup Limits) =>
        /\ (outcome = "decoded") = (Meaning.is = "read")
        /\ outcome = "decoded" => values = Meaning.value

DecodedIsValid ==
    outcome = "decoded" =>
        \A i \in DOMAIN values :
            Validator!Valid([PolicyOf(world, FALSE, 1) EXCEPT !.elements = 1000],
                            world.expected[i], values[i])

\* A message is accepted exactly when it is well formed by its own types and
\* every argument coerces, with the values the coercion gives: rewinding and
\* skipping never lets a value be read from the wrong bytes, hides malformed
\* ones or loses a value that fits.  Exhausted limits are the only other end.
\* And "the supplied null never makes a decoded value one that validate refuses
\* on value_depth": with the limit the decoder had, the validator accepts
\* whatever it decoded.
DecodesAsSpecified == CoercesAsSpecified /\ DecodedIsValid

-----------------------------------------------------------------------------
\* Properties of the encoder.

Policy == PolicyOf(world, world.mints, 1)
IsCall == world.sent \notin {"given", "values", "document", "loaded"}

\* A number is accepted in its shortest form and in no other, and both
\* writers of each kind write that form.
Back(form, value) == Reading(value, Len(form))
WritersAgree ==
    \A k \in 0..2^CountBits - 1 :
        /\ ReadCount(WriteLeb[k], 0) = Back(WriteLeb[k], k)
        /\ ReadNat(WriteLeb[k], 0, CountBits) = Back(WriteLeb[k], k)
        /\ \A m \in {k, -k} : ReadInt(WriteSleb[m], 0, CountBits) = Back(WriteSleb[m], m)
NumbersRoundTrip ==
    (outcome = "header" /\ world.expected = << >> /\ ToSet(world.bytes) \subseteq Bytes) =>
        LET bytes == world.bytes
            cap == world.numeric
            n == ReadNat(bytes, 0, cap)
            i == ReadInt(bytes, 0, cap)
            c == ReadCount(bytes, 0)
            Taken(r) == SubSeq(bytes, 1, r.at)
        IN  /\ n.is = "read" => Taken(n) = WriteUnbounded(n.value, FALSE, cap).value
            /\ i.is = "read" => Taken(i) = WriteUnbounded(i.value, TRUE, cap).value
            /\ c.is = "read" => Taken(c) = WriteLeb[c.value] /\ c.value < 2^CountBits
            /\ WritersAgree

\* For the bytes of a blob, the decoder charges a level of depth.
CarriesBlob == \E i \in DOMAIN entries : entries[i] = [kind |-> "vec", inner |-> OpCode.nat8]
MessagesRoundTrip ==
    (world.sent = "sent" /\ outcome \notin {"header", "decoding", "value_elements"}) =>
        \/ CarriesBlob /\ outcome = "value_depth"
        \/ /\ outcome = "decoded"
           /\ Encoder!EncodeArgs(Policy, world.expected, values) =
                  [is |-> "message", bytes |-> world.bytes]
CodecOnly == {"invalid_text", "numeric_bytes", "duplicate_field_id"}
Agrees(written, judged) ==
    \/ written.fault.code \in CodecOnly
    \/ /\ written.elements = judged.elements
       /\ IF judged.issues = << >> THEN written.fault.code = "none"
          ELSE written.fault = judged.issues[1]
\* "The checks mirror validate": the encoder refuses a value with the first
\* issue the validator reports, at its path, and charges what it charges;
\* only text that is no text and numbers too long are the encoder's alone.
EncodesWhatIsValid ==
    (IsCall /\ outcome = "header") =>
        \A i \in DOMAIN world.hosts :
            Agrees(Encoder!Body(Policy, <<world.expected[i]>>, <<world.hosts[i]>>),
                   Validator!Validate(Policy, world.expected[i], world.hosts[i]))

Recs == {n \in DOMAIN world.schema : Node(n).kind = "rec"}
SameOrRefused(anew, once) == anew = once \/ (anew.is = "fault" /\ anew.code \in Limits)
OneKnotEach == IsInjective([r \in Recs |-> Node(r).body])
ThunksAreShared ==
    (IsCall /\ outcome = "header" /\ OneKnotEach) =>
        SameOrRefused(
            Encoder!EncodeArgs(PolicyOf(world, TRUE, 1), world.expected, world.hosts),
            Encoder!EncodeArgs(PolicyOf(world, FALSE, 1), world.expected, world.hosts))

FieldsAlike(entry, fields, Id(_), alike) ==
    /\ Len(entry.fields) = Len(fields)
    /\ \A i \in DOMAIN fields : \E j \in DOMAIN entry.fields :
          entry.fields[j].id = Id(i) /\ <<entry.fields[j].ty, fields[i]>> \in alike
Types(fields) == [i \in DOMAIN fields |-> fields[i].ty]
EachAlike(wires, nodes, alike) ==
    /\ Len(wires) = Len(nodes)
    /\ \A i \in DOMAIN wires : <<wires[i], nodes[i]>> \in alike
AlikeIn(table, pair, alike) ==
    LET wire == pair[1]
        node == Node(Resolved(pair[2]))
        entry == TypeIn(table, wire)
        Numbered(i) == i - 1
    IN  IF wire < 0 THEN node.kind \in Primitives /\ OpCode[node.kind] = wire
        ELSE CASE node.kind \in {"opt", "vec"} ->
                    entry.kind = node.kind /\ <<entry.inner, node.inner>> \in alike
               [] node.kind = "blob" -> entry = [kind |-> "vec", inner |-> OpCode.nat8]
               [] node.kind = "unit" -> entry = [kind |-> "record", fields |-> << >>]
               [] node.kind = "tuple" ->
                    entry.kind = "record" /\ FieldsAlike(entry, node.elements, Numbered, alike)
               [] node.kind = "record" ->
                    entry.kind = "record" /\
                    FieldsAlike(entry, Types(node.fields), LAMBDA i : FieldId(node.fields[i]),
                                alike)
               [] node.kind = "variant" ->
                    entry.kind = "variant" /\
                    FieldsAlike(entry, Types(node.arms), LAMBDA i : FieldId(node.arms[i]), alike)
               [] node.kind = "func" ->
                    /\ entry.kind = "func" /\ entry.mode = Modes[node.mode]
                    /\ EachAlike(entry.args, node.args, alike)
                    /\ EachAlike(entry.results, node.results, alike)
               [] node.kind = "service" ->
                    /\ entry.kind = "service"
                    /\ EachAlike(Types(entry.fields), Types(node.methods), alike)
               [] OTHER -> FALSE
SameTypes(table) ==
    LET wires == {OpCode[p] : p \in Primitives} \cup 0..Len(table) - 1
        largest[alike \in SUBSET (wires \X DOMAIN world.schema)] ==
            LET kept == {pair \in alike : AlikeIn(table, pair, alike)}
            IN  IF kept = alike THEN alike ELSE largest[kept]
    IN  largest[wires \X {n \in DOMAIN world.schema : Resolved(n) # Unresolved}]
TableIsTheTypes ==
    (world.sent = "sent" /\ outcome = "decoding" /\ argument = 1 /\ values = << >>
                         /\ stack = << >> /\ call.do = "value") =>
        \A i \in DOMAIN args : <<args[i], world.expected[i]>> \in SameTypes(entries)

\* decode(encode(v)) is v, told by encoding it again: what was encoded is
\* decoded under the same limits, and nothing is lost.  The decoder charges
\* what the encoder does not: elements to the table and to a blob's bytes, and
\* for the bytes a level of depth.  Each number has one form, so a message has.
\* The table the message carries denotes the types of the schemas: entries that
\* were merged, and the anchors of cycles, are the types they stand for.
RoundTrips == NumbersRoundTrip /\ MessagesRoundTrip /\ TableIsTheTypes

\* How deep the compiler's depth guard goes: every type and reference counts,
\* a recursive name is cut inside itself.  It starts from each declaration.
RECURSIVE Deepest(_, _, _)
Deepest(n, depth, active) ==
    LET node == Node(n)
        kids == Encoder!Children(node)
    IN  IF node.kind = "rec"
        THEN IF n \in active THEN depth ELSE Deepest(node.body, depth, active \cup {n})
        ELSE Max({depth} \cup {Deepest(kids[i], depth + 1, active) : i \in DOMAIN kids})
Compiles ==
    /\ \A n \in Recs : Resolved(n) # Unresolved
    /\ \A n \in {Node(r).body : r \in Recs} \cup ToSet(world.expected) :
          Deepest(n, 0, {}) <= world.depth
\* A generated module names a type by its first declaration: a declaration
\* that is another's alias is only ever an argument.
Generated ==
    \A n \in DOMAIN world.schema \ Recs : \A kid \in ToSet(Encoder!Children(Node(n))) \cap Recs :
        Node(kid).body \notin Recs
\* "Any type the compiler accepts encodes through its generated module", and a
\* schema nested deeper, however it is shared, is refused: the type walk
\* charges copies of cycles, and entries answered by the memo, for the depth
\* the compiler's guard would find.
TypeDepthIsTheCompilers ==
    (IsCall /\ outcome = "header") =>
        LET fault == Encoder!Provisional(Policy, world.expected).fault
        IN  /\ Compiles /\ Generated => fault # "value_depth"
            /\ Recs = {} /\ (\E n \in ToSet(world.expected) : Deepest(n, 0, {}) > world.depth + 1)
               => fault # "none"
=============================================================================
