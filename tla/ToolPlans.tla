------------------------------- MODULE ToolPlans -------------------------------
(***************************************************************************)
(* Tools from a resolved form: what each method or tagged case becomes, or *)
(* why it becomes no tool; the JSON schema of a tool's inputs; and the     *)
(* class of a reply by the outcome's keys.                                 *)
(*                                                                         *)
(* A method is [mode, tags, args, results].  A relative path is [index,    *)
(* labels], as `(0).Ok` is; an outcome is [keys, default] with each key    *)
(* [path, class].                                                          *)
(***************************************************************************)
EXTENDS ToolInputs, Interfaces

CONSTANT Words   \* the words of a method's name

NoPath == <<-1>>
RelpathIds(path) ==
    IF \/ path.index \notin {NoIndex, 0} \/ path.labels = << >>
       \/ \E i \in DOMAIN path.labels : path.labels[i] = "[]"
    THEN NoPath
    ELSE [i \in DOMAIN path.labels |-> FieldIds[path.labels[i]]]

MemberOf(node, id) == {i \in DOMAIN node.members : FieldIds[node.members[i].key] = id}
NodeAt(node, id) == node.members[CHOOSE i \in MemberOf(node, id) : TRUE].node
Filled == {"null", "reserved"}

ClassifyField(name, node, stamp) ==
    IF Has(node, "default") /\ node.tags.default.value # "null" THEN Skip("default value")
    ELSE IF FieldIds[name] = stamp
         THEN IF /\ Has(node, "timestamp") /\ node.candid = "nat64"
                 /\ node.tags.timestamp.unit = "ns"
              THEN Role("stamp") ELSE Skip("stamp type")
    ELSE IF NestedRole(node) # Role("param") THEN NestedRole(node)
    ELSE IF ReadAs(node) = NotGiven /\ node.candid \in Filled /\ ~node.recursive
         THEN Role("none")
    ELSE IF HasRule(node) THEN Role("param") ELSE Skip("no rule")

\* Why an outcome key cannot be read in a result: its step leaves the cases and
\* fields, it ends on a field, or another key reads another field of a record.
RECURSIVE Follows(_, _, _)
Follows(node, ids, at) ==
    /\ node.candid \in {"variant", "record"} /\ MemberOf(node, ids[at]) # {}
    /\ at = Len(ids) => node.candid = "variant"
    /\ at < Len(ids) => Follows(NodeAt(node, ids[at]), ids, at + 1)
RECURSIVE RecordsOn(_, _, _)
RecordsOn(node, ids, at) ==
    IF at > Len(ids) THEN {}
    ELSE (IF node.candid = "record" THEN {at} ELSE {})
           \cup RecordsOn(NodeAt(node, ids[at]), ids, at + 1)
OneField(result, all) ==
    \A x, y \in all : \A at \in RecordsOn(result, x, 1) :
        at <= Len(y) /\ SubSeq(x, 1, at - 1) = SubSeq(y, 1, at - 1) => x[at] = y[at]
KeysRead_FieldsApart(outcome, result) ==
    LET all == {RelpathIds(outcome.keys[i].path) : i \in DOMAIN outcome.keys}
    IN  NoPath \notin all /\ \A ids \in all : Follows(result, ids, 1)
KeysRead(outcome, result) ==
    LET all == {RelpathIds(outcome.keys[i].path) : i \in DOMAIN outcome.keys}
    IN  /\ NoPath \notin all
        /\ \A ids \in all : Follows(result, ids, 1)
        /\ OneField(result, all)

-----------------------------------------------------------------------------
\* The inputs of an argument: [is, params, fields, shape, stampField].

Field(name, node, role) == [name |-> name, node |-> node, role |-> role]
Param(name, node) == [name |-> name, node |-> node, optional |-> node.optional]
Whole(name, node) ==
    [is |-> "inputs", shape |-> "root", params |-> <<Param(name, node)>>, fields |-> << >>,
     stampField |-> NotGiven]
FromFields(shape, fields, stamp) ==
    LET params == SelectSeq(fields, LAMBDA f : f.role.role = "param")
        stamps == {i \in DOMAIN fields : fields[i].role = Role("stamp")}
    IN  [is |-> "inputs", shape |-> shape,
         params |-> [i \in DOMAIN params |-> Param(params[i].name, params[i].node)],
         fields |-> [i \in DOMAIN fields |->
                        Field(fields[i].name, fields[i].node, fields[i].role.role)],
         stampField |-> IF stamps = {} THEN NotGiven ELSE fields[Max(stamps)].name]
NoStamp == -1
StampOf(idempotency) ==
    LET ids == RelpathIds(idempotency.stamp) IN IF Len(ids) = 1 THEN ids[1] ELSE NoStamp
PlanArgument(root, idempotency) ==
    LET stamped == idempotency.mode # NotGiven
        stamp == IF stamped THEN StampOf(idempotency) ELSE NoStamp
        fields == [i \in DOMAIN root.members |->
                      LET m == root.members[i]
                      IN  Field(m.key, m.node, ClassifyField(m.key, m.node, stamp))]
        read == ReadAs(root)
    IN  IF root.candid = "record" /\ read = NotGiven
        THEN IF stamped /\ stamp = NoStamp THEN Skip("stamp path")
             ELSE IF \E i \in DOMAIN fields : fields[i].name = "canister_id"
                  THEN Skip("canister_id")
             ELSE IF \E i \in DOMAIN fields : fields[i].role.is = "skip" THEN Skip("field")
             ELSE IF stamped /\ \A i \in DOMAIN fields : fields[i].role # Role("stamp")
                  THEN Skip("stamp field")
             ELSE FromFields("record", fields, stamp)
        ELSE IF stamped THEN Skip("stamp path")
        ELSE IF read = NotGiven /\ root.candid \in Filled
             THEN [Whole(NotGiven, root) EXCEPT !.shape = "null", !.params = << >>]
        ELSE IF ~HasRule(root) THEN Skip("no rule")
        ELSE Whole(IF read = NotGiven THEN "arg0" ELSE read, root)
ArgNames == <<"arg0", "arg1", "arg2">>
PlanArguments(args, idempotency) ==
    LET fields == [i \in DOMAIN args |->
                      Field(ArgNames[i], args[i], ClassifyField(ArgNames[i], args[i], NoStamp))]
    IN  IF Len(args) = 1 THEN PlanArgument(args[1], idempotency)
        ELSE IF args # << >> /\ idempotency.mode # NotGiven THEN Skip("stamp path")
        ELSE IF \E i \in DOMAIN fields : fields[i].role.is = "skip" THEN Skip("argument")
        ELSE FromFields(IF args = << >> THEN "none" ELSE "tuple", fields, NoStamp)

-----------------------------------------------------------------------------
\* One tool of a method, for all of its argument or for one case of it.

NoCase == [label |-> NotGiven]
NoIdempotency == [mode |-> NotGiven]
TagOr(tags, tag, other) == IF tag \in DOMAIN tags THEN tags[tag] ELSE other
IsReplicatedRead(mode, effect) ==
    mode = "update" /\ effect.kind = "read" /\ ~effect.irreversible /\ effect.replicated
NoEffect == [kind |-> NotGiven, irreversible |-> TRUE, replicated |-> FALSE]
EffectOf(m, own) == TagOr(own, "effect", TagOr(m.tags, "effect", NoEffect))
NoOutcome == [keys |-> << >>, default |-> NotGiven]
Classes(outcome) ==
    {outcome.keys[i].class : i \in DOMAIN outcome.keys} \cup ({outcome.default} \ {NotGiven})

\* A tool's name, as the words that "_" joins.
ToolName(prepare, method, label) ==
    (IF prepare THEN <<"prepare">> ELSE << >>) \o Words[method]
      \o (IF label = NotGiven THEN << >> ELSE <<label>>)

WhyNoWrite(m, own) ==
    LET outcome == TagOr(m.tags, "outcome", NoOutcome)
        idempotency == TagOr(m.tags, "idempotency", NoIdempotency)
    IN  CASE "intent" \notin DOMAIN own \cup DOMAIN m.tags -> "intent"
          [] "outcome" \notin DOMAIN m.tags -> "outcome"
          [] idempotency.mode \notin {NotGiven, "replay_same_payload"} -> "idempotency mode"
          [] idempotency.mode = NotGiven /\ "retry_new" \in Classes(outcome) -> "retry_new"
          [] outcome.keys # << >> /\ Len(m.results) # 1 -> "results"
          [] outcome.keys # << >> /\ ~KeysRead(outcome, m.results[1]) -> "keys"
          [] outcome.keys = << >> /\ outcome.default = NotGiven -> "no classes"
          [] OTHER -> NotGiven
PlanMethod(name, m, case) ==
    LET own == IF case = NoCase THEN m.tags ELSE case.node.tags
        replicated == IsReplicatedRead(m.mode, EffectOf(m, own))
        read == m.mode \in {"query", "composite_query"} \/ replicated
        idempotency == TagOr(m.tags, "idempotency", NoIdempotency)
        inputs == IF case = NoCase THEN PlanArguments(m.args, idempotency)
                  ELSE PlanArgument(case.node, idempotency)
        why == WhyNoWrite(m, own)
    IN  IF read /\ Len(m.results) > 1 THEN Skip("results")
        ELSE IF replicated /\ idempotency.mode # NotGiven THEN Skip("replicated stamp")
        ELSE IF ~read /\ why # NotGiven THEN Skip(why)
        ELSE IF inputs.is = "skip" THEN inputs
        ELSE inputs @@ [kind |-> IF read THEN "read" ELSE "prepare", method |-> name,
                        tool |-> ToolName(~read, name, case.label),
                        case |-> case, results |-> m.results,
                        outcome |-> TagOr(m.tags, "outcome", NoOutcome)]

TaggedCases(m) ==
    LET root == m.args[1]
    IN  /\ Len(m.args) = 1 /\ root.candid = "variant" /\ ReadAs(root) = NotGiven
        /\ \E i \in DOMAIN root.members :
             Has(root.members[i].node, "intent") \/ Has(root.members[i].node, "effect")
PlanTools(name, m) ==
    LET cases == m.args[1].members
    IN  IF ~TaggedCases(m) THEN {PlanMethod(name, m, NoCase)}
        ELSE IF "idempotency" \in DOMAIN m.tags THEN {Skip("stamp inside a case")}
        ELSE {IF cases[i].numbered THEN Skip("case without a name")
              ELSE PlanMethod(name, m, [label |-> cases[i].key, node |-> cases[i].node]) :
                i \in DOMAIN cases}

\* buildToolPlans: tools of one name, and one named like the commit tool, are
\* all left out.
CommitTool == <<"commit">>
Offered(plans) ==
    {p \in plans : p.tool # CommitTool /\ \A q \in plans : q.tool = p.tool => q = p}
BuildToolPlans(methods) ==
    Offered({p \in UNION {PlanTools(name, methods[name]) : name \in DOMAIN methods} :
               p.is = "inputs"})

\* namesSets: the methods that list a names set.
ListsSet(methods, set) ==
    {name \in DOMAIN methods : /\ "names" \in DOMAIN methods[name].tags
                               /\ methods[name].tags.names.set = set}

-----------------------------------------------------------------------------
\* The JSON schema of an input, as what it lets through.

ReadAsNothing(node) == ReadAs(node) = NotGiven /\ node.candid \in Filled
Takes(node) == node.candid \notin Filled /\ ~ReadAsNothing(node)
OfferedInputs_HiddenToo(node) ==
    {i \in DOMAIN node.members : node.members[i].node.candid \notin Filled}
OfferedInputs(node) == {i \in Inputs(node) : node.members[i].node.candid \notin Filled}
RECURSIVE InputProperty(_)
InputProperty(node) ==
    LET Of(i) == node.members[i]
        offered == OfferedInputs(node)
    IN  CASE ReadAs(node) # NotGiven -> [type |-> "string"]
          [] ReadAs(node) = NotGiven /\ node.candid = "record" ->
               [type |-> "object",
                properties |-> [key \in {Of(i).key : i \in offered} |->
                    InputProperty(Of(CHOOSE i \in offered : Of(i).key = key).node)],
                required |-> {Of(i).key : i \in {j \in offered : ~Of(j).node.optional}}]
          [] ReadAs(node) = NotGiven /\ node.candid = "variant" ->
               [type |-> "oneOf",
                arms |-> {IF Takes(Of(i).node)
                          THEN [tag |-> Of(i).key, takes |-> TRUE,
                                value |-> InputProperty(Of(i).node),
                                required |-> ~Of(i).node.optional]
                          ELSE [tag |-> Of(i).key, takes |-> FALSE] : i \in DOMAIN node.members}]
          [] OTHER ->
               [type |-> "array", max |-> MaxItems,
                nulls |-> Of(1).node.optional \/ ReadAsNothing(Of(1).node),
                items |-> IF ReadAsNothing(Of(1).node) THEN [type |-> "null"]
                          ELSE InputProperty(Of(1).node)]

InputSchema(plan) ==
    LET Of(name) == plan.params[CHOOSE i \in DOMAIN plan.params : plan.params[i].name = name]
        names == {plan.params[i].name : i \in DOMAIN plan.params}
    IN  [type |-> "object", properties |-> [name \in names |-> InputProperty(Of(name).node)],
         required |-> {name \in names : ~Of(name).optional}]

-----------------------------------------------------------------------------
\* classifyReply: the path of the reply through its cases and the fields the
\* keys read; the deepest key on it decides.

\* The field the keys read at a record reached by `ids`: the first such key's.
NextField(keys, ids) ==
    LET beyond == {i \in DOMAIN keys : Len(keys[i].ids) > Len(ids) /\ IsPrefix(ids, keys[i].ids)}
    IN  IF beyond = {} THEN NoIndex ELSE keys[Min(beyond)].ids[Len(ids) + 1]
RECURSIVE PathOf(_, _, _, _)
PathOf(keys, node, value, ids) ==
    LET tag == GivenAt(value, "tag")
        next == NextField(keys, ids)
        field == node.members[CHOOSE i \in MemberOf(node, next) : TRUE]
    IN  IF value.is # "object" THEN ids
        ELSE IF node.candid = "variant" /\ tag.is = "tag"
             THEN PathOf(keys, NodeAt(node, FieldIds[tag.key]), GivenAt(value, "value"),
                         Append(ids, FieldIds[tag.key]))
        ELSE IF /\ node.candid = "record" /\ next # NoIndex /\ MemberOf(node, next) # {}
                /\ HasKey(value, field.key)
             THEN PathOf(keys, field.node, ValueAt(value, field.key), Append(ids, next))
        ELSE ids
ClassifyReply(plan, reply) ==
    LET keys == [i \in DOMAIN plan.outcome.keys |->
                    [ids |-> RelpathIds(plan.outcome.keys[i].path),
                     class |-> plan.outcome.keys[i].class]]
        path == PathOf(keys, plan.results[1], reply, << >>)
        Hits(n) == {i \in DOMAIN keys : keys[i].ids = SubSeq(path, 1, n)}
        hit == {n \in 1..Len(path) : Hits(n) # {}}
    IN  IF hit = {} THEN IF plan.outcome.default = NotGiven THEN "fail" ELSE plan.outcome.default
        ELSE keys[Min(Hits(Max(hit)))].class
=============================================================================
