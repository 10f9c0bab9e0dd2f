--------------------------- MODULE CandidValidate ----------------------------
(***************************************************************************)
(* The validator: one walk of a host value against a schema, charging one  *)
(* element for each value and each examined key, collecting issues until   *)
(* there are enough of them or a limit ends the walk.                      *)
(*                                                                         *)
(* `policy` holds the schema arena and the limits; a walk is the elements  *)
(* charged, the issues in order, and whether it is over.                   *)
(***************************************************************************)
EXTENDS CandidTypes

Issue(code, path) == [code |-> code, path |-> path]
Unwalked == [elements |-> 0, issues |-> << >>, halted |-> FALSE]

Reported(policy, walk, code, path) ==
    IF walk.halted THEN walk
    ELSE [walk EXCEPT !.issues = Append(@, Issue(code, path)),
                      !.halted = Len(walk.issues) + 1 >= policy.issues]
Exhausted(walk, resource, path) ==
    IF walk.halted THEN walk
    ELSE [walk EXCEPT !.issues = Append(@, Issue(resource, path)), !.halted = TRUE]
Reached(policy, walk, depth, path) ==
    IF depth > policy.depth THEN Exhausted(walk, "value_depth", path) ELSE walk
Charged(policy, walk, depth, path) ==
    LET within == Reached(policy, walk, depth, path)
        counted == [within EXCEPT !.elements = @ + 1]
    IN  IF depth > policy.depth THEN within
        ELSE IF counted.elements > policy.elements
             THEN Exhausted(counted, "value_elements", path) ELSE counted

\* The keys of an object in their order, each charged; those not allowed are
\* reported.
KeysChecked(policy, walk, object, allowed, depth, path) ==
    LET Key(so, field) ==
            IF so.halted THEN so
            ELSE LET charged == Charged(policy, so, depth, path)
                 IN  IF charged.halted \/ field.key \in allowed THEN charged
                     ELSE Reported(policy, charged, "unexpected_field", Append(path, field.key))
    IN  FoldLeft(Key, walk, object.fields)

PrimitiveIssue(kind, value) ==
    CASE kind = "null" -> IF value.is = "null" THEN "none" ELSE "invalid_type"
      [] kind = "bool" -> IF value.is = "boolean" THEN "none" ELSE "invalid_type"
      [] kind = "text" -> IF value.is = "string" THEN "none" ELSE "invalid_type"
      [] kind \in {"nat", "int"} ->
           IF value.is # "bigint" THEN "invalid_type"
           ELSE IF kind = "nat" /\ value.bigint < 0 THEN "out_of_range" ELSE "none"
      [] kind \in DOMAIN Fixed ->
           IF ~IsHostOf(kind, value) THEN "invalid_type"
           ELSE IF NumberOf(value) \in Numbers(kind) THEN "none" ELSE "out_of_range"
      [] kind = "reserved" -> "none"
      [] kind = "empty" -> "uninhabited_type"
      [] kind = "principal" -> IF IsPrincipal(value) THEN "none" ELSE "invalid_type"
Judged(policy, walk, code, path) ==
    IF code = "none" THEN walk ELSE Reported(policy, walk, code, path)

IsObject(value) == value.is = "object"
FuncChecked(policy, walk, value, depth, path) ==
    LET principal ==
            IF ~HasKey(value, "principal") THEN "missing_field"
            ELSE PrimitiveIssue("principal", ValueAt(value, "principal"))
        method ==
            IF ~HasKey(value, "method") THEN "missing_field"
            ELSE LET name == ValueAt(value, "method")
                 IN  IF name.is = "string"
                     THEN IF name.units = << >> THEN "invalid_type" ELSE "none"
                     ELSE "invalid_type"
        named == Judged(policy, walk, principal, Append(path, "principal"))
    IN  KeysChecked(policy, Judged(policy, named, method, Append(path, "method")),
                    value, {"principal", "method"}, depth, path)

RECURSIVE Visited(_, _, _, _, _, _), Checked(_, _, _, _, _, _)
Visited(policy, walk, node, value, depth, path) ==
    LET resolved == Resolve(policy.schema, node, policy.depth)
        charged == Charged(policy, walk, depth, path)
    IN  IF walk.halted THEN walk
        ELSE IF resolved = Unresolved THEN Exhausted(walk, "value_depth", path)
        ELSE IF charged.halted THEN charged
        ELSE Checked(policy, charged, policy.schema[resolved], value, depth, path)

\* Items in order, each one level down.
Items(policy, walk, NodeOf(_), items, depth, path) ==
    LET after[i \in 0..Len(items)] ==
            IF i = 0 THEN walk
            ELSE LET sofar == after[i - 1]
                 IN  Visited(policy, sofar, NodeOf(i), items[i], depth + 1,
                             Append(path, ToString(i - 1)))
    IN  after[Len(items)]

OptChecked(policy, walk, node, value, depth, path) ==
    LET inner == Resolve(policy.schema, node.inner, policy.depth)
        some == Append(path, "some")
    IN  IF value.is = "null" THEN walk
        ELSE IF inner = Unresolved THEN Exhausted(walk, "value_depth", path)
        ELSE IF ~AdmitsNull(policy.schema[inner])
             THEN Visited(policy, walk, inner, value, depth + 1, path)
        ELSE IF ~IsObject(value) THEN Reported(policy, walk, "invalid_type", path)
        ELSE KeysChecked(policy,
                 IF HasKey(value, "some")
                 THEN Visited(policy, walk, inner, ValueAt(value, "some"), depth + 1, some)
                 ELSE Reported(policy, walk, "missing_field", some),
                 value, {"some"}, depth, path)

RecordChecked(policy, walk, node, value, depth, path) ==
    LET Field(sofar, field) ==
            IF sofar.halted THEN sofar
            ELSE IF ~HasKey(value, field.key)
                 THEN Reported(policy, sofar, "missing_field", Append(path, field.key))
            ELSE Visited(policy, sofar, field.ty, ValueAt(value, field.key), depth + 1,
                         Append(path, field.key))
    IN  KeysChecked(policy, FoldLeft(Field, walk, node.fields), value,
                    {node.fields[i].key : i \in DOMAIN node.fields}, depth, path)

\* A variant: { tag } when the arm's payload is null, { tag, value } otherwise.
VariantChecked_Unreached(policy, walk, node, value, depth, path) ==
    LET arms == {i \in DOMAIN node.arms : Tag(node.arms[i].key) = ValueAt(value, "tag")}
        payload == Resolve(policy.schema, node.arms[CHOOSE i \in arms : TRUE].ty, policy.depth)
        inside == Append(path, "value")
    IN  IF ~IsObject(value) THEN Reported(policy, walk, "invalid_type", path)
        ELSE IF ~HasKey(value, "tag")
             THEN Reported(policy, walk, "missing_field", Append(path, "tag"))
        ELSE IF ValueAt(value, "tag").is \notin {"tag", "string"}
             THEN Reported(policy, walk, "invalid_type", Append(path, "tag"))
        ELSE IF arms = {} THEN Reported(policy, walk, "unknown_tag", Append(path, "tag"))
        ELSE IF payload = Unresolved THEN Exhausted(walk, "value_depth", path)
        ELSE IF policy.schema[payload].kind = "null"
             THEN KeysChecked(policy, walk, value, {"tag"}, depth, path)
        ELSE KeysChecked(policy,
                 IF HasKey(value, "value")
                 THEN Visited(policy, walk, payload, ValueAt(value, "value"), depth + 1, inside)
                 ELSE Reported(policy, walk, "missing_field", inside),
                 value, {"tag", "value"}, depth, path)
VariantChecked(policy, walk, node, value, depth, path) ==
    LET arms == {i \in DOMAIN node.arms : Tag(node.arms[i].key) = ValueAt(value, "tag")}
        payload == Resolve(policy.schema, node.arms[CHOOSE i \in arms : TRUE].ty, policy.depth)
        inside == Append(path, "value")
    IN  IF ~IsObject(value) THEN Reported(policy, walk, "invalid_type", path)
        ELSE IF ~HasKey(value, "tag")
             THEN Reported(policy, walk, "missing_field", Append(path, "tag"))
        ELSE IF ValueAt(value, "tag").is \notin {"tag", "string"}
             THEN Reported(policy, walk, "invalid_type", Append(path, "tag"))
        ELSE IF arms = {} THEN Reported(policy, walk, "unknown_tag", Append(path, "tag"))
        ELSE IF payload = Unresolved THEN Exhausted(walk, "value_depth", path)
        ELSE IF policy.schema[payload].kind = "null"
             THEN KeysChecked(policy, Reached(policy, walk, depth + 1, path), value, {"tag"},
                              depth, path)
        ELSE KeysChecked(policy,
                 IF HasKey(value, "value")
                 THEN Visited(policy, walk, payload, ValueAt(value, "value"), depth + 1, inside)
                 ELSE Reported(policy, walk, "missing_field", inside),
                 value, {"tag", "value"}, depth, path)

Checked(policy, walk, node, value, depth, path) ==
    LET invalid == Reported(policy, walk, "invalid_type", path)
    IN  CASE node.kind \in Primitives ->
               Judged(policy, walk, PrimitiveIssue(node.kind, value), path)
          [] node.kind = "opt" -> OptChecked(policy, walk, node, value, depth, path)
          [] node.kind = "vec" ->
               IF value.is # "array" THEN invalid
               ELSE Items(policy, walk, LAMBDA i : node.inner, value.items, depth, path)
          [] node.kind = "blob" -> IF value.is = "bytes" THEN walk ELSE invalid
          [] node.kind = "unit" ->
               IF IsObject(value) THEN KeysChecked(policy, walk, value, {}, depth, path)
               ELSE invalid
          [] node.kind = "record" ->
               IF IsObject(value) THEN RecordChecked(policy, walk, node, value, depth, path)
               ELSE invalid
          [] node.kind = "tuple" ->
               IF value.is # "array" THEN invalid
               ELSE IF Len(value.items) # Len(node.elements)
                    THEN Reported(policy, walk, "invalid_length", path)
               ELSE Items(policy, walk, LAMBDA i : node.elements[i], value.items, depth, path)
          [] node.kind = "variant" -> VariantChecked(policy, walk, node, value, depth, path)
          [] node.kind = "func" ->
               IF IsObject(value) THEN FuncChecked(policy, walk, value, depth, path)
               ELSE invalid
          [] node.kind = "service" ->
               Judged(policy, walk, PrimitiveIssue("principal", value), path)

Validate(policy, node, value) == Visited(policy, Unwalked, node, value, 0, << >>)
Valid(policy, node, value) == Validate(policy, node, value).issues = << >>
=============================================================================
