---------------------------- MODULE CandidDecode -----------------------------
(***************************************************************************)
(* One run of the TypeScript decoder: the header, then each argument       *)
(* decoded at its expected schema on an explicit stack of frames.  A type  *)
(* that does not fit is a mismatch: the nearest expected `opt` that is     *)
(* decoding its constituent absorbs it, rewinds, skips the constituent and *)
(* is null.  Malformed bytes and exhausted limits end the run whatever     *)
(* surrounds them.                                                         *)
(*                                                                         *)
(* `call` is what the walk does next: begin a value, a skip or a missing   *)
(* field, hand one back to the frame on top of the stack, or unwind.       *)
(* Whether a func or service type is a subtype of the expected one is the  *)
(* subject of RefSubtype; here the pairs that are belong to the world.     *)
(***************************************************************************)
EXTENDS CandidTypes

VARIABLES
    world,       \* bytes, schema arena, expected nodes, limits, subtypes
    entries,     \* the type table, 0-based
    args,        \* the wire type of each argument
    argument,    \* the argument in progress
    offset, elements,
    stack,       \* frames of values in progress
    call,        \* the next thing to do
    values,      \* the arguments decoded so far
    outcome      \* "header", "decoding", "decoded" or a failure code

vars == <<world, entries, args, argument, offset, elements, stack, call,
          values, outcome>>
walk == <<offset, elements, stack, call, values, outcome>>

-----------------------------------------------------------------------------
\* Readings of single bytes and of runs of bytes.

ReadByte(at) ==
    IF at >= Len(world.bytes) THEN Fault("truncated")
    ELSE Reading(world.bytes[at + 1], at + 1)
ReadRaw(length, at) ==
    IF at + length > Len(world.bytes) THEN Fault("truncated")
    ELSE Reading(SubSeq(world.bytes, at + 1, at + length), at + length)
Count(at) == ReadCount(world.bytes, at)
Natural(at) == ReadNat(world.bytes, at, world.numeric)
Integer(at) == ReadInt(world.bytes, at, world.numeric)

\* One reading and, unless it fails, what follows from it.
After(reading, Then(_)) == IF reading.is = "fault" THEN reading ELSE Then(reading)
\* A byte that must be 1; 0 has a failure of its own, `onZero`.
One(at, onZero) ==
    After(ReadByte(at), LAMBDA tag :
        IF tag.value = 0 THEN Fault(onZero)
        ELSE IF tag.value # 1 THEN Fault("invalid_tag_byte") ELSE tag)
Counted(at) == After(Count(at), LAMBDA length : ReadRaw(length.value, length.at))
TextOf(at) ==
    After(Counted(at), LAMBDA raw :
        IF WellFormed(raw.value) THEN raw ELSE Fault("invalid_utf8"))
PrincipalBody(at) ==
    After(Count(at), LAMBDA length :
        IF length.value > MaxPrincipal THEN Fault("invalid_principal")
        ELSE ReadRaw(length.value, length.at))
Opaque == "invalid_principal"

-----------------------------------------------------------------------------
\* The header.  `charged` counts elements; a type reference is checked for
\* its range only when the whole table is known.

\* `count` readings in a row, one element each, none of which may fail.
Each(count, at, charged, Item(_, _)) ==
    LET after[i \in 0..count] ==
            IF i = 0 THEN [is |-> "read", value |-> << >>, at |-> at, charged |-> charged]
            ELSE LET sofar == after[i - 1]
                     item == Item(sofar.at, sofar.value)
                 IN  IF sofar.is = "fault" THEN sofar
                     ELSE IF sofar.charged = world.elements THEN Fault("value_elements")
                     ELSE IF item.is = "fault" THEN item
                     ELSE [is |-> "read", value |-> Append(sofar.value, item.value),
                           at |-> item.at, charged |-> sofar.charged + 1]
    IN  after[count]
Malformed == Fault("malformed_type_table")

TypeRef(at) ==
    After(Integer(at), LAMBDA ref :
        IF ref.value >= OpCode.empty \/ ref.value = OpCode.principal THEN ref ELSE Malformed)
Field(at, before) ==
    After(Count(at), LAMBDA id :
        IF before # << >> /\ id.value <= Last(before).id THEN Malformed
        ELSE After(TypeRef(id.at), LAMBDA ty :
            Reading([id |-> id.value, ty |-> ty.value], ty.at)))
BytesBefore(a, b) ==
    \/ \E k \in DOMAIN b : k - 1 <= Len(a) /\ SubSeq(a, 1, k - 1) = SubSeq(b, 1, k - 1)
                          /\ (k > Len(a) \/ a[k] < b[k])
Method(at, before) ==
    After(TextOf(at), LAMBDA name :
        IF before # << >> /\ ~BytesBefore(Last(before).name, name.value) THEN Malformed
        ELSE After(TypeRef(name.at), LAMBDA ty :
            Reading([name |-> name.value, ty |-> ty.value], ty.at)))
Annotation(at) ==
    After(Count(at), LAMBDA count :
        IF count.value > 1 THEN Malformed
        ELSE IF count.value = 0 THEN Reading(0, count.at)
        ELSE After(ReadByte(count.at), LAMBDA mode :
            IF mode.value \in 1..3 THEN mode ELSE Malformed))
FuncEntry(at, charged) ==
    LET Ref(where, before) == TypeRef(where)
    IN  After(Count(at), LAMBDA n : After(Each(n.value, n.at, charged, Ref), LAMBDA params :
        After(Count(params.at), LAMBDA m :
        After(Each(m.value, m.at, params.charged, Ref), LAMBDA results :
        After(Annotation(results.at), LAMBDA mode :
            [is |-> "read", at |-> mode.at, charged |-> results.charged,
             value |-> [kind |-> "func", args |-> params.value, results |-> results.value,
                        mode |-> mode.value]])))))
Listed(kind, at, charged, Item(_, _)) ==
    After(Count(at), LAMBDA n : After(Each(n.value, n.at, charged, Item), LAMBDA items :
        [items EXCEPT !.value = [kind |-> kind, fields |-> items.value]]))
Inner(kind, at, charged) ==
    After(TypeRef(at), LAMBDA ty :
        [is |-> "read", at |-> ty.at, charged |-> charged,
         value |-> [kind |-> kind, inner |-> ty.value]])
Future(at, charged) ==
    After(Counted(at), LAMBDA raw :
        [is |-> "read", at |-> raw.at, charged |-> charged, value |-> [kind |-> "future"]])
TableEntry(at, charged) ==
    After(Integer(at), LAMBDA op :
        IF op.value >= OpCode.empty \/ op.value = OpCode.principal THEN Malformed
        ELSE CASE op.value = OpCode.opt -> Inner("opt", op.at, charged)
               [] op.value = OpCode.vec -> Inner("vec", op.at, charged)
               [] op.value = OpCode.record -> Listed("record", op.at, charged, Field)
               [] op.value = OpCode.variant -> Listed("variant", op.at, charged, Field)
               [] op.value = OpCode.func -> FuncEntry(op.at, charged)
               [] op.value = OpCode.service -> Listed("service", op.at, charged, Method)
               [] OTHER -> Future(op.at, charged))

\* The table, entry by entry; then what its references must satisfy.
TableOf(count, at) ==
    LET after[i \in 0..count] ==
            IF i = 0 THEN [is |-> "read", value |-> << >>, at |-> at, charged |-> 0]
            ELSE After(after[i - 1], LAMBDA sofar :
                     After(TableEntry(sofar.at, sofar.charged), LAMBDA entry :
                         [entry EXCEPT !.value = Append(sofar.value, @)]))
    IN  after[count]
RefsOf(entry) ==
    CASE entry.kind \in {"opt", "vec"} -> {entry.inner}
      [] entry.kind \in {"record", "variant", "service"} ->
           {entry.fields[i].ty : i \in DOMAIN entry.fields}
      [] entry.kind = "func" -> ToSet(entry.args) \cup ToSet(entry.results)
      [] OTHER -> {}
InTable(ref, table) == ref < Len(table)
Sound(entry, table) ==
    /\ \A ref \in RefsOf(entry) : InTable(ref, table)
    /\ entry.kind = "service" =>
         \A ref \in RefsOf(entry) : ref >= 0 /\ table[ref + 1].kind = "func"
ArgsOf(table, at) ==
    LET Ref(where, before) ==
            After(TypeRef(where), LAMBDA ref : IF InTable(ref.value, table) THEN ref ELSE Malformed)
        after(count, from) ==
            LET next[i \in 0..count] ==
                    IF i = 0 THEN Reading(<< >>, from)
                    ELSE After(next[i - 1], LAMBDA sofar : After(Ref(sofar.at, sofar.value),
                             LAMBDA ref : Reading(Append(sofar.value, ref.value), ref.at)))
            IN  next[count]
    IN  After(Count(at), LAMBDA n : after(n.value, n.at))
Magic == <<68, 73, 68, 76>>
Header ==
    After(ReadRaw(4, 0), LAMBDA magic :
    IF magic.value # Magic THEN Fault("invalid_magic")
    ELSE After(Count(4), LAMBDA count :
    IF count.value > world.table THEN Fault("type_table_entries")
    ELSE After(TableOf(count.value, count.at), LAMBDA table :
    IF \E i \in DOMAIN table.value : ~Sound(table.value[i], table.value) THEN Malformed
    ELSE After(ArgsOf(table.value, table.at), LAMBDA refs :
        [is |-> "read", at |-> refs.at, charged |-> table.charged,
         value |-> [entries |-> table.value, args |-> refs.value]]))))

-----------------------------------------------------------------------------
\* What the walk does next.

ValueCall(wire, node, depth) == [do |-> "value", wire |-> wire, node |-> node, depth |-> depth]
MissingCall(node, depth) == [do |-> "missing", node |-> node, depth |-> depth]
SkipCall(wire, depth) == [do |-> "skip", wire |-> wire, depth |-> depth]
Deliver(value) == [do |-> "deliver", value |-> value]
Resume == [do |-> "resume"]
Skipped == [do |-> "skipped"]
Unwind(code) == [do |-> "unwind", code |-> code]
Idle == [do |-> "idle"]

\* Beginning a value ends in a leaf's value, a frame, a mismatch or a fault.
Pushed(frame, at) == [is |-> "frame", frame |-> frame, at |-> at]
Mismatch(code) == [is |-> "mismatch", code |-> code]
TypeOf(wire) == entries[wire + 1]
WireKind(wire) == IF wire < 0 THEN "primitive" ELSE TypeOf(wire).kind
Node(n) == world.schema[n]
Resolved(n) == Resolve(world.schema, n, world.depth)

\* Leaves: what primitiveAt and enterSkip read for a wire primitive.
KindOf(wire) == CHOOSE kind \in DOMAIN OpCode : OpCode[kind] = wire
Leaf(wire, at) ==
    CASE wire \in {OpCode.null, OpCode.reserved} -> Reading(Null, at)
      [] wire = OpCode.bool ->
           After(ReadByte(at), LAMBDA byte :
               IF byte.value > 1 THEN Fault("invalid_tag_byte")
               ELSE Reading(Boolean(byte.value = 1), byte.at))
      [] wire = OpCode.nat -> After(Natural(at), LAMBDA n : Reading(BigInt(n.value), n.at))
      [] wire = OpCode.int -> After(Integer(at), LAMBDA n : Reading(BigInt(n.value), n.at))
      [] KindOf(wire) \in DOMAIN Fixed ->
           After(ReadRaw(Fixed[KindOf(wire)], at), LAMBDA raw :
               Reading(HostOf(KindOf(wire), OfLittleEndian(KindOf(wire), raw.value)), raw.at))
      [] KindOf(wire) \in DOMAIN Floats ->
           After(ReadRaw(Floats[KindOf(wire)], at), LAMBDA raw : Reading(Null, raw.at))
      [] wire = OpCode.text -> After(TextOf(at), LAMBDA raw : Reading(String(raw.value), raw.at))
      [] wire = OpCode.principal ->
           After(One(at, Opaque), LAMBDA tag : After(PrincipalBody(tag.at), LAMBDA id :
               Reading(PrincipalText(id.value), id.at)))
PrimitiveAt(wire, node) ==
    IF node.kind \notin Primitives \/ node.kind = "empty" THEN Mismatch("type_mismatch")
    ELSE IF wire = OpCode[node.kind] \/ (node.kind = "int" /\ wire = OpCode.nat)
         THEN Leaf(wire, offset)
    ELSE Mismatch("type_mismatch")

\* An expected opt.  Wire null and reserved are null; a wire opt says itself
\* whether there is a constituent; any other wire type is one.
OptFrame(wire, inner, depth, at) ==
    [frame |-> "opt", wire |-> wire, node |-> inner, depth |-> depth + 1,
     rewind |-> at, phase |-> "start"]
Constituent(wire, inner, depth, at) ==
    IF inner = Unresolved THEN Fault("value_depth")
    ELSE Pushed(OptFrame(wire, inner, depth, at), at)
OptAt(wire, node, depth) ==
    LET inner == Resolved(node.inner)
    IN  IF wire \in {OpCode.null, OpCode.reserved} THEN Reading(Null, offset)
        ELSE IF WireKind(wire) # "opt" THEN Constituent(wire, inner, depth, offset)
        ELSE After(ReadByte(offset), LAMBDA tag :
            IF tag.value = 0 THEN Reading(Null, tag.at)
            ELSE IF tag.value # 1 THEN Fault("invalid_tag_byte")
            ELSE Constituent(TypeOf(wire).inner, inner, depth, tag.at))

\* A blob costs one element for each byte, all of them present.
BlobAt(length, depth) ==
    After(ReadRaw(length.value, length.at), LAMBDA raw :
        IF length.value > 0 /\ depth + 1 > world.depth THEN Fault("value_depth")
        ELSE IF elements + 1 + length.value > world.elements THEN Fault("value_elements")
        ELSE Reading(BytesOf(raw.value), raw.at))
VecAt(inner, node, depth) ==
    CASE node.kind = "blob" ->
           IF inner # OpCode.nat8 THEN Mismatch("type_mismatch")
           ELSE After(Count(offset), LAMBDA length : BlobAt(length, depth))
      [] node.kind = "vec" ->
           After(Count(offset), LAMBDA length :
               IF inner = OpCode.nat8 /\ length.at + length.value > Len(world.bytes)
               THEN Fault("truncated")
               ELSE Pushed([frame |-> "vec", inner |-> inner, node |-> node.inner,
                            depth |-> depth, left |-> length.value, out |-> << >>], length.at))
      [] OTHER -> Mismatch("type_mismatch")

\* Expected fields sorted by id; a tuple's are numbered.
Expected(node) ==
    CASE node.kind = "record" ->
           [i \in DOMAIN node.fields |->
               LET field == SortedFields(node.fields)[i]
               IN  [key |-> field.key, id |-> FieldId(field), ty |-> field.ty]]
      [] node.kind = "tuple" ->
           [i \in DOMAIN node.elements |-> [key |-> "", id |-> i - 1, ty |-> node.elements[i]]]
      [] node.kind = "unit" -> << >>
RecordAt(entry, node, depth) ==
    IF node.kind \notin {"record", "tuple", "unit"} THEN Mismatch("type_mismatch")
    ELSE IF node.kind = "record" /\ Collides(node.fields) THEN Fault("duplicate_field_id")
    ELSE Pushed([frame |-> "record", fields |-> entry.fields, expected |-> Expected(node),
                 kind |-> node.kind, depth |-> depth, cursor |-> 1, w |-> 1,
                 awaiting |-> "none", out |-> << >>], offset)

\* A wire tag the expected variant lacks is a mismatch, an index out of the
\* wire type a fault.
VariantAt(entry, node, depth) ==
    LET Arms(id) == {i \in DOMAIN node.arms : FieldId(node.arms[i]) = id}
        Arm(id) == node.arms[CHOOSE i \in Arms(id) : TRUE]
        PayloadNode(id) == Resolved(Arm(id).ty)
    IN  IF node.kind # "variant" THEN Mismatch("type_mismatch")
        ELSE After(Count(offset), LAMBDA index :
            IF index.value >= Len(entry.fields) THEN Fault("invalid_length")
            ELSE IF Collides(node.arms) THEN Fault("duplicate_field_id")
            ELSE LET wire == entry.fields[index.value + 1]
                 IN  IF Arms(wire.id) = {} THEN Mismatch("unknown_variant_tag")
                     ELSE IF PayloadNode(wire.id) = Unresolved THEN Fault("value_depth")
                     ELSE Pushed([frame |-> "variant", tag |-> Arm(wire.id).key,
                                  bare |-> Node(PayloadNode(wire.id)).kind = "null",
                                  wire |-> wire.ty, node |-> PayloadNode(wire.id),
                                  depth |-> depth + 1], index.at))

\* A func or service: its type is checked before its bytes are read.
FuncValue(principal, method) ==
    Object(<<Entry("principal", principal), Entry("method", method)>>)
ReferenceAt(wire, n) ==
    LET node == Node(n)
        MethodOf(id) ==
            After(TextOf(id.at), LAMBDA name :
                IF name.value = << >> THEN Fault("invalid_length")
                ELSE Reading(FuncValue(PrincipalText(id.value), String(name.value)), name.at))
    IN  IF WireKind(wire) # node.kind \/ <<wire, n>> \notin world.subtypes
        THEN Mismatch("type_mismatch")
        ELSE After(One(offset, Opaque), LAMBDA tag :
            IF node.kind = "service"
            THEN After(PrincipalBody(tag.at), LAMBDA id :
                     Reading(PrincipalText(id.value), id.at))
            ELSE After(One(tag.at, Opaque), LAMBDA inner :
                     After(PrincipalBody(inner.at), MethodOf)))

\* enterValue, past its charge.
Began(wire, n, depth) ==
    LET node == Node(n)
    IN  CASE node.kind = "reserved" ->
               Pushed([frame |-> "reserved", wire |-> wire, depth |-> depth], offset)
          [] node.kind = "opt" -> OptAt(wire, node, depth)
          [] node.kind \in {"func", "service"} -> ReferenceAt(wire, n)
          [] OTHER ->
               CASE WireKind(wire) = "vec" -> VecAt(TypeOf(wire).inner, node, depth)
                 [] WireKind(wire) = "record" -> RecordAt(TypeOf(wire), node, depth)
                 [] WireKind(wire) = "variant" -> VariantAt(TypeOf(wire), node, depth)
                 [] WireKind(wire) = "primitive" -> PrimitiveAt(wire, node)
                 [] OTHER -> Mismatch("type_mismatch")

\* enterSkip, past its charge: a value skipped whole, one to skip in its
\* place, or a frame.
Instead(wire, at) == [is |-> "instead", wire |-> wire, at |-> at]
SkipFrame(types, depth, at) ==
    Pushed([frame |-> "skip", types |-> types, left |-> Len(types), depth |-> depth + 1], at)
SkipService(at) == After(One(at, Opaque), LAMBDA tag : PrincipalBody(tag.at))
SkipBegan(wire, depth) ==
    LET entry == TypeOf(wire)
    IN  CASE WireKind(wire) = "opt" ->
               After(ReadByte(offset), LAMBDA tag :
                   IF tag.value = 0 THEN tag
                   ELSE IF tag.value = 1 THEN Instead(entry.inner, tag.at)
                   ELSE Fault("invalid_tag_byte"))
          [] WireKind(wire) = "vec" ->
               After(Count(offset), LAMBDA length :
                   IF length.value = 0 THEN length
                   ELSE Pushed([frame |-> "skip", types |-> <<entry.inner>>,
                                left |-> length.value, depth |-> depth + 1], length.at))
          [] WireKind(wire) = "record" ->
               IF entry.fields = << >> THEN Reading(Null, offset)
               ELSE SkipFrame([i \in DOMAIN entry.fields |-> entry.fields[i].ty], depth, offset)
          [] WireKind(wire) = "variant" ->
               After(Count(offset), LAMBDA index :
                   IF index.value >= Len(entry.fields) THEN Fault("invalid_length")
                   ELSE Instead(entry.fields[index.value + 1].ty, index.at))
          [] WireKind(wire) = "func" ->
               After(One(offset, Opaque), LAMBDA tag :
                   After(SkipService(tag.at), LAMBDA id : TextOf(id.at)))
          [] WireKind(wire) = "service" -> SkipService(offset)
          [] WireKind(wire) = "future" ->
               After(Count(offset), LAMBDA bytes : After(Count(bytes.at), LAMBDA refs :
                   After(ReadRaw(bytes.value, refs.at), LAMBDA raw :
                       IF refs.value > 0 THEN Fault(Opaque) ELSE raw)))
          [] WireKind(wire) = "primitive" ->
               IF wire = OpCode.empty THEN Fault("type_mismatch") ELSE Leaf(wire, offset)
-----------------------------------------------------------------------------
\* The walk.

\* A run of the decoder on a world its caller chose.
Begins ==
    /\ entries = << >> /\ args = << >> /\ argument = 0
    /\ offset = 0 /\ elements = 0
    /\ stack = << >> /\ call = Idle /\ values = << >>
    /\ outcome = IF Len(world.bytes) > world.maxBytes THEN "bytes" ELSE "header"

Top == Last(stack)
Below == Front(stack)
Replaced(frame) == Append(Below, frame)
Halt(code) == outcome' = code /\ call' = Idle

\* A missing trailing argument is a missing field, an extra one is skipped.
ArgumentCall(i) ==
    CASE i <= Len(world.expected) /\ i <= Len(args') -> ValueCall(args'[i], world.expected[i], 0)
      [] i <= Len(world.expected) /\ i > Len(args') -> MissingCall(world.expected[i], 0)
      [] i > Len(world.expected) /\ i <= Len(args') -> SkipCall(args'[i], 0)
\* After the last argument nothing may be left.
StartArgument(i) ==
    /\ argument' = i
    /\ IF i <= Len(world.expected) \/ i <= Len(args')
       THEN call' = ArgumentCall(i) /\ outcome' = "decoding"
       ELSE Halt(IF offset' = Len(world.bytes) THEN "decoded" ELSE "trailing_bytes")

HeaderRead(header) ==
    IF header.is = "fault"
    THEN Halt(header.code) /\ UNCHANGED <<entries, args, argument, offset, elements>>
    ELSE /\ entries' = header.value.entries
         /\ args' = header.value.args
         /\ offset' = header.at
         /\ elements' = header.charged
         /\ StartArgument(1)
ReadHeader ==
    /\ outcome = "header"
    /\ HeaderRead(Header)
    /\ UNCHANGED <<world, stack, values>>

\* step: the depth first, then one element.
Overrun(depth) ==
    CASE depth > world.depth -> "value_depth"
      [] depth <= world.depth /\ elements >= world.elements -> "value_elements"
      [] OTHER -> "none"
Refuses(depth) ==
    /\ Overrun(depth) # "none"
    /\ Halt(Overrun(depth))
    /\ UNCHANGED <<world, entries, args, argument, offset, elements, stack, values>>
CostOf(step) == IF step.is = "read" /\ step.value.is = "bytes" THEN Len(step.value.bytes) ELSE 0

\* What beginning a value came to.
Take(step) ==
    CASE step.is = "fault" -> Halt(step.code) /\ UNCHANGED <<offset, stack>>
      [] step.is = "mismatch" -> call' = Unwind(step.code) /\ UNCHANGED <<offset, stack, outcome>>
      [] step.is = "read" ->
           call' = Deliver(step.value) /\ offset' = step.at /\ UNCHANGED <<stack, outcome>>
      [] step.is = "frame" ->
           /\ call' = Resume /\ offset' = step.at
           /\ stack' = Append(stack, step.frame) /\ UNCHANGED outcome

UnresolvedValue ==
    /\ call.do \in {"value", "missing"}
    /\ Resolved(call.node) = Unresolved
    /\ Halt("value_depth")
    /\ UNCHANGED <<world, entries, args, argument, offset, elements, stack, values>>
RefusedValue ==
    /\ call.do = "value"
    /\ Resolved(call.node) # Unresolved
    /\ Refuses(call.depth)
EnterValue ==
    /\ call.do = "value"
    /\ Resolved(call.node) # Unresolved
    /\ Overrun(call.depth) = "none"
    /\ LET step == Began(call.wire, Resolved(call.node), call.depth)
       IN  Take(step) /\ elements' = elements + 1 + CostOf(step)
    /\ UNCHANGED <<world, entries, args, argument, values>>

\* missingValue: an opt-like field the wire lacks is null, and charged.
Missing ==
    /\ call.do = "missing"
    /\ Resolved(call.node) # Unresolved
    /\ IF ~AdmitsNull(Node(Resolved(call.node)))
       THEN call' = Unwind("missing_field") /\ UNCHANGED <<elements, outcome>>
       ELSE /\ Overrun(call.depth) = "none"
            /\ elements' = elements + 1
            /\ call' = Deliver(Null) /\ UNCHANGED outcome
    /\ UNCHANGED <<world, entries, args, argument, offset, stack, values>>
RefusedMissing ==
    /\ call.do = "missing"
    /\ Resolved(call.node) # Unresolved /\ AdmitsNull(Node(Resolved(call.node)))
    /\ Refuses(call.depth)

RefusedSkip == call.do = "skip" /\ Refuses(call.depth)
EnterSkip ==
    /\ call.do = "skip"
    /\ Overrun(call.depth) = "none"
    /\ elements' = elements + 1
    /\ LET step == SkipBegan(call.wire, call.depth)
       IN  CASE step.is = "instead" ->
                  /\ call' = SkipCall(step.wire, call.depth + 1)
                  /\ offset' = step.at /\ UNCHANGED <<stack, outcome>>
             [] step.is = "read" ->
                  call' = Skipped /\ offset' = step.at /\ UNCHANGED <<stack, outcome>>
             [] OTHER -> Take(step)
    /\ UNCHANGED <<world, entries, args, argument, values>>

\* The frames.  Each handles its start and what it called for.
Resumes(kind) ==
    /\ stack # << >> /\ Top.frame = kind
    /\ call.do \in {"resume", "deliver", "skipped"}
    /\ UNCHANGED <<world, entries, args, argument, offset, elements, values, outcome>>
Finish(value) == stack' = Below /\ call' = Deliver(value)

Boxed(frame, value) ==
    IF AdmitsNull(Node(frame.node)) THEN Object(<<Entry("some", value)>>) ELSE value
ResumeOpt ==
    /\ Resumes("opt")
    /\ CASE Top.phase = "start" ->
              /\ stack' = Replaced([Top EXCEPT !.phase = "decoding"])
              /\ call' = ValueCall(Top.wire, Top.node, Top.depth)
         [] Top.phase = "decoding" -> Finish(Boxed(Top, call.value))
         [] Top.phase = "skipping" -> Finish(Null)

ResumeVec ==
    /\ Resumes("vec")
    /\ LET out == IF call.do = "deliver" THEN Append(Top.out, call.value) ELSE Top.out
       IN  IF Top.left = 0 THEN Finish(Array(out))
           ELSE /\ stack' = Replaced([Top EXCEPT !.left = @ - 1, !.out = out])
                /\ call' = ValueCall(Top.inner, Top.node, Top.depth + 1)

\* The field that came back, then the next by id: one only expected, one on
\* both sides, or one only on the wire.
Progressed(frame) ==
    [frame EXCEPT
        !.out = IF call.do = "deliver"
                THEN Append(@, Entry(frame.expected[frame.cursor].key, call.value)) ELSE @,
        !.cursor = IF call.do = "deliver" THEN @ + 1 ELSE @,
        !.w = IF frame.awaiting \in {"field", "skip"} THEN @ + 1 ELSE @,
        !.awaiting = "none"]
RecordValue(frame) ==
    IF frame.kind = "tuple"
    THEN Array([i \in DOMAIN frame.out |-> frame.out[i].value]) ELSE Object(frame.out)
NextField(frame) ==
    LET onWire == frame.w <= Len(frame.fields)
        wanted == frame.cursor <= Len(frame.expected)
        wire == frame.fields[frame.w]
        want == frame.expected[frame.cursor]
    IN  IF wanted /\ (~onWire \/ want.id < wire.id)
        THEN [awaiting |-> "missing", call |-> MissingCall(want.ty, frame.depth + 1)]
        ELSE IF wanted /\ want.id = wire.id
        THEN [awaiting |-> "field", call |-> ValueCall(wire.ty, want.ty, frame.depth + 1)]
        ELSE [awaiting |-> "skip", call |-> SkipCall(wire.ty, frame.depth + 1)]
ResumeRecord ==
    /\ Resumes("record")
    /\ LET frame == Progressed(Top)
           next == NextField(frame)
       IN  IF frame.w > Len(frame.fields) /\ frame.cursor > Len(frame.expected)
           THEN Finish(RecordValue(frame))
           ELSE /\ stack' = Replaced([frame EXCEPT !.awaiting = next.awaiting])
                /\ call' = next.call

Tagged(frame, value) ==
    IF frame.bare THEN Object(<<Entry("tag", Tag(frame.tag))>>)
    ELSE Object(<<Entry("tag", Tag(frame.tag)), Entry("value", value)>>)
ResumeVariant ==
    /\ Resumes("variant")
    /\ IF call.do = "deliver" THEN Finish(Tagged(Top, call.value))
       ELSE call' = ValueCall(Top.wire, Top.node, Top.depth) /\ UNCHANGED stack

ResumeReserved ==
    /\ Resumes("reserved")
    /\ IF call.do = "skipped" THEN Finish(Null)
       ELSE call' = SkipCall(Top.wire, Top.depth) /\ UNCHANGED stack

NextType(frame) ==
    frame.types[IF Len(frame.types) = 1 THEN 1 ELSE Len(frame.types) - frame.left + 1]
ResumeSkip ==
    /\ Resumes("skip")
    /\ IF Top.left = 0 THEN stack' = Below /\ call' = Skipped
       ELSE /\ stack' = Replaced([Top EXCEPT !.left = @ - 1])
            /\ call' = SkipCall(NextType(Top), Top.depth)

\* run: a mismatch unwinds to the nearest opt that is decoding.  The cursor
\* goes back to the constituent, the elements charged do not.
Absorbing == {i \in DOMAIN stack : stack[i].frame = "opt" /\ stack[i].phase = "decoding"}
Absorb_InPlace ==
    /\ call.do = "unwind" /\ Absorbing # {}
    /\ LET frame == stack[Max(Absorbing)]
       IN  /\ stack' = Append(SubSeq(stack, 1, Max(Absorbing) - 1),
                              [frame EXCEPT !.phase = "skipping"])
           /\ call' = SkipCall(frame.wire, frame.depth)
           /\ UNCHANGED offset
    /\ UNCHANGED <<world, entries, args, argument, elements, values, outcome>>
Absorb ==
    /\ call.do = "unwind" /\ Absorbing # {}
    /\ LET frame == stack[Max(Absorbing)]
       IN  /\ stack' = Append(SubSeq(stack, 1, Max(Absorbing) - 1),
                              [frame EXCEPT !.phase = "skipping"])
           /\ offset' = frame.rewind
           /\ call' = SkipCall(frame.wire, frame.depth)
    /\ UNCHANGED <<world, entries, args, argument, elements, values, outcome>>
Unabsorbed ==
    /\ call.do = "unwind" /\ Absorbing = {}
    /\ Halt(call.code)
    /\ UNCHANGED <<world, entries, args, argument, offset, elements, stack, values>>

\* An argument is complete.
FinishArgument ==
    /\ stack = << >>
    /\ call.do \in {"deliver", "skipped"}
    /\ values' = IF call.do = "deliver" THEN Append(values, call.value) ELSE values
    /\ UNCHANGED <<world, entries, args, offset, elements, stack>>
    /\ StartArgument(argument + 1)

Next ==
    \/ ReadHeader
    \/ UnresolvedValue \/ RefusedValue \/ EnterValue
    \/ Missing \/ RefusedMissing \/ RefusedSkip \/ EnterSkip
    \/ ResumeOpt \/ ResumeVec \/ ResumeRecord \/ ResumeVariant
    \/ ResumeReserved \/ ResumeSkip
    \/ Absorb \/ Unabsorbed
    \/ FinishArgument
=============================================================================
