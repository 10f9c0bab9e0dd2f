---------------------------- MODULE CandidEncode -----------------------------
(***************************************************************************)
(* The encoder: the type table of the expected schemas, then each value    *)
(* checked and written in one walk that stops at its first issue.  It      *)
(* repeats the checks of the validator, in the validator's order and with  *)
(* its charges, but reads each property once.                              *)
(*                                                                         *)
(* A walk is the elements charged, the bytes written and the first issue.  *)
(***************************************************************************)
EXTENDS TypeTable

NoFault == [code |-> "none", path |-> << >>]
Start == [elements |-> 0, out |-> << >>, fault |-> NoFault]
Failing(walk) == walk.fault.code # "none"
Fails(walk, code, path) ==
    IF Failing(walk) THEN walk ELSE [walk EXCEPT !.fault = [code |-> code, path |-> path]]
Writes(walk, bytes) == IF Failing(walk) THEN walk ELSE [walk EXCEPT !.out = @ \o bytes]

\* reach and step.
Reach(policy, walk, depth, path) ==
    IF depth > policy.depth THEN Fails(walk, "value_depth", path) ELSE walk
Step(policy, walk, depth, path) ==
    LET within == Reach(policy, walk, depth, path)
    IN  IF Failing(within) THEN within
        ELSE IF within.elements + 1 > policy.elements
             THEN Fails([within EXCEPT !.elements = @ + 1], "value_elements", path)
        ELSE [within EXCEPT !.elements = @ + 1]

OnlyKeys(policy, walk, object, allowed, depth, path) ==
    LET Key(so, field) ==
            LET charged == Step(policy, so, depth, path)
            IN  IF Failing(so) THEN so
                ELSE IF field.key \in allowed THEN charged
                ELSE Fails(charged, "unexpected_field", Append(path, field.key))
    IN  FoldLeft(Key, walk, object.fields)

Principal(walk, value, path) ==
    IF ~IsPrincipal(value) THEN Fails(walk, "invalid_type", path)
    ELSE Writes(walk, WriteLeb[Len(value.units) - 1] \o Tail(value.units))
Text(walk, units, path) ==
    IF WellFormed(units) THEN Writes(walk, WriteLeb[Len(units)] \o units)
    ELSE Fails(walk, "invalid_text", path)
Unbounded(policy, walk, value, signed, path) ==
    LET written == WriteUnbounded(value.bigint, signed, policy.numeric)
    IN  IF value.is # "bigint" THEN Fails(walk, "invalid_type", path)
        ELSE IF ~signed /\ value.bigint < 0 THEN Fails(walk, "out_of_range", path)
        ELSE IF written.is = "fault" THEN Fails(walk, written.code, path)
        ELSE Writes(walk, written.value)
Primitive(policy, walk, kind, value, path) ==
    LET invalid == Fails(walk, "invalid_type", path)
    IN  CASE kind = "null" -> IF value.is = "null" THEN walk ELSE invalid
          [] kind = "reserved" -> walk
          [] kind = "empty" -> Fails(walk, "uninhabited_type", path)
          [] kind = "bool" ->
               IF value.is = "boolean" THEN Writes(walk, IF value.truth THEN <<1>> ELSE <<0>>)
               ELSE invalid
          [] kind \in {"nat", "int"} -> Unbounded(policy, walk, value, kind = "int", path)
          [] kind \in DOMAIN Fixed ->
               IF ~IsHostOf(kind, value) THEN invalid
               ELSE IF NumberOf(value) \in Numbers(kind)
               THEN Writes(walk, LittleEndian(kind, NumberOf(value)))
               ELSE Fails(walk, "out_of_range", path)
          [] kind = "text" -> IF value.is = "string" THEN Text(walk, value.units, path) ELSE invalid
          [] kind = "principal" -> Principal(Writes(walk, <<1>>), value, path)

\* A func is written after its keys were checked.
Func(policy, walk, value, depth, path) ==
    LET id == Append(path, "principal")
        name == Append(path, "method")
        method == ValueAt(value, "method")
        principal == IF HasKey(value, "principal")
                     THEN Principal(Writes(walk, <<1, 1>>), ValueAt(value, "principal"), id)
                     ELSE Fails(walk, "missing_field", id)
        whole == IF ~HasKey(value, "method") THEN Fails(principal, "missing_field", name)
                 ELSE IF method.is = "string"
                      THEN IF method.units = << >> THEN Fails(principal, "invalid_type", name)
                           ELSE Text(principal, method.units, name)
                 ELSE Fails(principal, "invalid_type", name)
    IN  OnlyKeys(policy, whole, value, {"principal", "method"}, depth, path)

RECURSIVE Value(_, _, _, _, _, _)
Elements(policy, walk, NodeOf(_), items, depth, path) ==
    LET after[i \in 0..Len(items)] ==
            IF i = 0 THEN walk
            ELSE LET sofar == after[i - 1]
                 IN  Value(policy, sofar, NodeOf(i), items[i], depth + 1,
                           Append(path, ToString(i - 1)))
    IN  after[Len(items)]

Opt(policy, walk, node, value, depth, path) ==
    LET inner == Resolve(policy.schema, node.inner, policy.depth)
        present == Writes(walk, <<1>>)
        some == Append(path, "some")
    IN  IF value.is = "null" THEN Writes(walk, <<0>>)
        ELSE IF inner = Unresolved THEN Fails(walk, "value_depth", path)
        ELSE IF ~AdmitsNull(policy.schema[inner])
             THEN Value(policy, present, inner, value, depth + 1, path)
        ELSE IF value.is # "object" THEN Fails(walk, "invalid_type", path)
        ELSE IF ~HasKey(value, "some") THEN Fails(walk, "missing_field", some)
        ELSE OnlyKeys(policy,
                 Value(policy, present, inner, ValueAt(value, "some"), depth + 1, some),
                 value, {"some"}, depth, path)

\* Fields are read in declaration order, each into a buffer of its own, and
\* the buffers are written in the order of the ids.
Record_AsRead(policy, walk, node, value, depth, path) ==
    LET Field(sofar, field) ==
            IF Failing(sofar) THEN sofar
            ELSE IF ~HasKey(value, field.key)
                 THEN Fails(sofar, "missing_field", Append(path, field.key))
            ELSE Value(policy, sofar, field.ty, ValueAt(value, field.key), depth + 1,
                       Append(path, field.key))
    IN  OnlyKeys(policy, FoldLeft(Field, walk, node.fields), value,
                 {node.fields[i].key : i \in DOMAIN node.fields}, depth, path)
Ordered(policy, all, out, node, value, depth, path) ==
    LET sorted == SortedFields(node.fields)
        written == [all.walk EXCEPT !.out =
                       out \o Concat([i \in DOMAIN sorted |-> all.buffers[sorted[i].key]])]
    IN  IF Failing(all.walk) THEN all.walk
        ELSE OnlyKeys(policy, written, value,
                 {node.fields[i].key : i \in DOMAIN node.fields}, depth, path)
Buffer(sofar, key, read) == [walk |-> read, buffers |-> (key :> read.out) @@ sofar.buffers]
Record(policy, walk, node, value, depth, path) ==
    LET Buffered(sofar, field) ==
            IF Failing(sofar.walk) THEN sofar
            ELSE IF ~HasKey(value, field.key)
                 THEN [sofar EXCEPT !.walk = Fails(@, "missing_field", Append(path, field.key))]
            ELSE Buffer(sofar, field.key,
                        Value(policy, [sofar.walk EXCEPT !.out = << >>], field.ty,
                              ValueAt(value, field.key), depth + 1, Append(path, field.key)))
    IN  IF Collides(node.fields) THEN Fails(walk, "duplicate_field_id", path)
        ELSE Ordered(policy,
                     FoldLeft(Buffered, [walk |-> walk, buffers |-> << >>], node.fields),
                     walk.out, node, value, depth, path)

Variant(policy, walk, node, value, depth, path) ==
    LET arms == SortedFields(node.arms)
        chosen == {i \in DOMAIN arms : Tag(arms[i].key) = ValueAt(value, "tag")}
        index == CHOOSE i \in chosen : TRUE
        payload == Resolve(policy.schema, arms[index].ty, policy.depth)
        inside == Append(path, "value")
        named == Writes(walk, WriteLeb[index - 1])
    IN  IF value.is # "object" THEN Fails(walk, "invalid_type", path)
        ELSE IF ~HasKey(value, "tag") THEN Fails(walk, "missing_field", Append(path, "tag"))
        ELSE IF ValueAt(value, "tag").is \notin {"tag", "string"}
             THEN Fails(walk, "invalid_type", Append(path, "tag"))
        ELSE IF chosen = {} THEN Fails(walk, "unknown_tag", Append(path, "tag"))
        ELSE IF Collides(node.arms) THEN Fails(walk, "duplicate_field_id", path)
        ELSE IF payload = Unresolved THEN Fails(walk, "value_depth", path)
        ELSE IF policy.schema[payload].kind = "null"
             THEN OnlyKeys(policy, Reach(policy, named, depth + 1, path), value, {"tag"},
                           depth, path)
        ELSE IF ~HasKey(value, "value") THEN Fails(walk, "missing_field", inside)
        ELSE OnlyKeys(policy,
                 Value(policy, named, payload, ValueAt(value, "value"), depth + 1, inside),
                 value, {"tag", "value"}, depth, path)

Composite(policy, walk, node, value, depth, path) ==
    LET invalid == Fails(walk, "invalid_type", path)
    IN  CASE node.kind = "opt" -> Opt(policy, walk, node, value, depth, path)
          [] node.kind = "vec" ->
               IF value.is # "array" THEN invalid
               ELSE Elements(policy, Writes(walk, WriteLeb[Len(value.items)]),
                             LAMBDA i : node.inner, value.items, depth, path)
          [] node.kind = "blob" ->
               IF value.is # "bytes" THEN invalid
               ELSE Writes(walk, WriteLeb[Len(value.bytes)] \o value.bytes)
          [] node.kind = "unit" ->
               IF value.is # "object" THEN invalid
               ELSE OnlyKeys(policy, walk, value, {}, depth, path)
          [] node.kind = "tuple" ->
               IF value.is # "array" THEN invalid
               ELSE IF Len(value.items) # Len(node.elements)
                    THEN Fails(walk, "invalid_length", path)
               ELSE Elements(policy, walk, LAMBDA i : node.elements[i], value.items, depth, path)
          [] node.kind = "record" ->
               IF value.is # "object" THEN invalid
               ELSE Record(policy, walk, node, value, depth, path)
          [] node.kind = "variant" -> Variant(policy, walk, node, value, depth, path)
          [] node.kind = "func" ->
               IF value.is # "object" THEN invalid
               ELSE Func(policy, walk, value, depth, path)
          [] node.kind = "service" -> Principal(Writes(walk, <<1>>), value, path)

Value(policy, walk, n, value, depth, path) ==
    LET resolved == Resolve(policy.schema, n, policy.depth)
        node == policy.schema[resolved]
        charged == Step(policy, walk, depth, path)
    IN  IF Failing(walk) THEN walk
        ELSE IF resolved = Unresolved THEN Fails(walk, "value_depth", path)
        ELSE IF Failing(charged) THEN charged
        ELSE IF node.kind \in Primitives THEN Primitive(policy, charged, node.kind, value, path)
        ELSE Composite(policy, charged, node, value, depth, path)

-----------------------------------------------------------------------------
\* encodeArgs: all the types, then all the values, the table written first.
Body(policy, nodes, hosts) ==
    LET after[i \in 0..Len(nodes)] ==
            IF i = 0 THEN Start
            ELSE Value(policy, after[i - 1], nodes[i], hosts[i], 0, << >>)
    IN  after[Len(nodes)]
Assembled(build, body) ==
    IF build.fault # "none" THEN Fault(build.fault)
    ELSE IF Failing(body) THEN Fault(body.fault.code)
    ELSE [is |-> "message",
          bytes |-> HeaderBytes(CanonicalTypeTable(build.table, build.roots)) \o body.out]
EncodeArgs(policy, nodes, hosts) ==
    IF Len(nodes) # Len(hosts) THEN Fault("invalid_length")
    ELSE Assembled(Provisional(policy, nodes), Body(policy, nodes, hosts))
=============================================================================
