------------------------------ MODULE ToolInputs ------------------------------
(***************************************************************************)
(* Reading the inputs of a tool call into the Candid argument, and what    *)
(* they add to the identity of the intent.                                 *)
(*                                                                         *)
(* A position of the resolved form is [candid, optional, recursive, tags,  *)
(* members]: `tags` maps a tag's name to its arguments, `members` holds    *)
(* the fields or cases in order, and the element of a vec under "[]".  An  *)
(* input is JSON whose leaves are texts; a key that was not given reads as *)
(* null does.                                                              *)
(***************************************************************************)
EXTENDS Formats, CandidValidate

CONSTANTS
    MaxText,    \* characters of a text without a max_len: 1024
    MaxItems,   \* elements of one vec: 256
    MaxNested   \* values one nested input holds: 4096

ASSUME ToolInputsAssumption == MaxText \in Nat /\ MaxItems \in Nat /\ MaxNested \in Nat

Has(node, tag) == tag \in DOMAIN node.tags
ValueTagsOf(node) == {i \in DOMAIN ValueTags : Has(node, ValueTags[i])}

\* A position without a value tag: an integer needs the words that say what it is.
UntaggedReading(node) ==
    CASE node.candid \in {"principal", "text", "bool"} -> node.candid
      [] node.candid \in Integral /\ Has(node, "describe") -> "integer"
      [] OTHER -> NotGiven
ReadAs(node) ==
    IF ValueTagsOf(node) # {} THEN ValueTags[Min(ValueTagsOf(node))] ELSE UntaggedReading(node)

-----------------------------------------------------------------------------
\* Readers: the formatter of a value tag, or one of these.

Reader(tag, candid, limits) ==
    [is |-> "reader", tag |-> tag, candid |-> candid, limits |-> limits]
Given(args, name) == IF args[name] = NoMaxLen THEN {} ELSE {args[name]}

\* A pattern says whether the layer runs it and what it matches, or NotGiven.
NoPattern == [runs |-> TRUE, matches |-> {}, given |-> FALSE]
TextReader(node) ==
    LET text == IF Has(node, "text") THEN node.tags.text
                ELSE [max_len |-> NoMaxLen, pattern |-> NoPattern]
        range == IF Has(node, "range") THEN node.tags.range
                 ELSE [max_len |-> NoMaxLen, min_len |-> 0]
        limits == Given(text, "max_len") \cup Given(range, "max_len")
    IN  IF ~text.pattern.runs THEN Fault("E_ARG")
        ELSE Reader("text", "text", [max |-> IF limits = {} THEN MaxText ELSE Min(limits),
                                     min |-> range.min_len, pattern |-> text.pattern])
InputReader(node, refs) ==
    LET formatter == FormatterFor(node, refs)
    IN  IF formatter # NoFormatter THEN formatter
        ELSE IF UntaggedReading(node) = "text" THEN TextReader(node)
        ELSE Reader(UntaggedReading(node), node.candid, << >>)

ReadText(limits, text) ==
    IF ~WellFormed(text.units) THEN Fault("E_UTF8")
    ELSE IF Len(text.units) > limits.max THEN Fault("E_MAX_LEN")
    ELSE IF Len(text.units) < limits.min THEN Fault("E_RANGE")
    ELSE IF limits.pattern.given /\ text.units \notin limits.pattern.matches
         THEN Fault("E_SYNTAX")
    ELSE Parsed(text.units)
ReadInteger(candid, text) ==
    LET number == (IF text.parts.negative THEN -1 ELSE 1) * Decimal(text.parts.whole)
    IN  IF ~IsWhole(text) \/ (text.parts.negative /\ number = 0) THEN Fault("E_SYNTAX")
        ELSE Ranged(candid, number)
Read(reader, text, now) ==
    CASE reader.is = "formatter" -> Parse(reader, text, now)
      [] reader.tag = "text" -> ReadText(reader.limits, text)
      [] reader.tag = "integer" -> ReadInteger(reader.candid, text)
      [] reader.tag = "bool" ->
           IF text.form = "bool" THEN Parsed(text.parts.truth) ELSE Fault("E_SYNTAX")
      [] reader.tag = "principal" ->
           IF text.form = "account" /\ text.parts.sub = NoDot /\ text.parts.checksum = NoChecksum
           THEN Parsed(text.parts.owner) ELSE Fault("E_SYNTAX")

\* What was read, as candid-core's value of the position.
AccountValue(account) ==
    Object(<<Entry("owner", PrincipalText(account.owner)),
             Entry("subaccount", IF account.sub = NoSub THEN Null
                                 ELSE BytesOf(account.sub.bytes))>>)
ToCandid(reader, value) ==
    CASE reader.tag = "text" -> String(value)
      [] reader.tag = "bool" -> Boolean(value)
      [] reader.tag = "principal" -> PrincipalText(value)
      [] reader.tag = "account" -> AccountValue(value)
      [] reader.tag \in {"subaccount", "bytes"} -> BytesOf(value)
      [] OTHER -> IF reader.candid \in DOMAIN Fixed THEN HostOf(reader.candid, value)
                  ELSE BigInt(value)

\* What an input adds to the identity: a relative time by its duration, a zero
\* subaccount as none.
NoIdentity == [id |-> "null"]
BytesIdentity(bytes) == [id |-> "bytes", bytes |-> bytes]
IdentityOf_ByValue(reader, text, value) ==
    CASE reader.tag = "account" ->
           LET sub == ValueAt(value, "subaccount")
           IN  [id |-> "account", owner |-> ValueAt(value, "owner").units,
                sub |-> IF sub = Null \/ IsZero(sub.bytes) THEN << >> ELSE sub.bytes]
      [] reader.tag = "subaccount" ->
           IF IsZero(value.bytes) THEN NoIdentity ELSE BytesIdentity(value.bytes)
      [] reader.tag = "bytes" -> BytesIdentity(value.bytes)
      [] reader.tag \in {"text", "principal"} -> [id |-> "text", text |-> value.units]
      [] reader.tag = "bool" -> [id |-> "bool", truth |-> value.truth]
      [] OTHER -> [id |-> "number", number |-> NumberOf(value)]
IdentityOf(reader, text, value) ==
    IF reader.tag = "timestamp" /\ IsRelative(text)
    THEN [id |-> "rel",
          rel |-> ParseDuration([text EXCEPT !.parts.plus = FALSE], reader.args,
                                reader.candid).value]
    ELSE IdentityOf_ByValue(reader, text, value)

-----------------------------------------------------------------------------
\* Names: a value always wins; otherwise the one entry of that name.

NotRead == [is |-> "unread"]
Entries(list) == [is |-> "read", list |-> list]
NormalizeName(text) == IF text.form = "word" THEN [word |-> text.parts.word] ELSE text
Blank == [word |-> ""]
IsValue(reader, text, now) ==
    /\ Read(reader, text, now).is = "parsed"
    /\ reader.tag = "text" => reader.limits.pattern.given
Matching(reader, entries, text, now) ==
    {i \in DOMAIN entries : /\ NormalizeName(entries[i].name) = NormalizeName(text)
                            /\ NormalizeName(entries[i].name) # Blank
                            /\ ~IsValue(reader, entries[i].name, now)}
AsTyped == [is |-> "typed"]
ReadName(reader, named, entries, text, now) ==
    LET found == Matching(reader, entries.list, text, now)
        entry == entries.list[CHOOSE i \in found : TRUE]
    IN  IF IsValue(reader, text, now) THEN AsTyped
        ELSE IF entries = NotRead THEN Fault("E_NAMES_UNREAD")
        ELSE IF found = {}
             THEN IF reader.tag = "text" THEN AsTyped ELSE Fault("E_NAME_NOT_FOUND")
        ELSE IF Cardinality(found) > 1 THEN Fault("E_NAME_AMBIGUOUS")
        ELSE [is |-> "named", value |-> IF named.by = "show" THEN entry.show ELSE entry.value]

\* `world` is what the canister gave: refs, its clock, and the entries of each set.
Leaf(value, identity) == [is |-> "leaf", value |-> value, identity |-> identity]
Identified(reader, text, candid) == Leaf(candid, IdentityOf(reader, text, candid))
ReadTyped(reader, text, read) ==
    IF read.is = "fault" THEN read ELSE Identified(reader, text, ToCandid(reader, read.value))
LeafOf(node, reader, text, name, world) ==
    IF reader.is = "fault" THEN reader
    ELSE IF ~Has(node, "named") THEN ReadTyped(reader, text, Read(reader, text, world.now))
    ELSE IF name.is = "fault" THEN name
    ELSE IF name = AsTyped THEN ReadTyped(reader, text, Read(reader, text, world.now))
    ELSE Identified(reader, Word(""), name.value)
NameOf(node, reader, text, world) ==
    ReadName(reader, node.tags.named, world.names[node.tags.named.set], text, world.now)
ReadBy(node, reader, text, world) ==
    LeafOf(node, reader, text, NameOf(node, reader, text, world), world)
ReadLeaf(node, text, world) == ReadBy(node, InputReader(node, world.refs), text, world)

-----------------------------------------------------------------------------
\* One input at any position.  A reading goes on with the issues so far and the
\* count of values; `done` says whether there is a value.

NoValue == {"null", "reserved"}
Composite == {"record", "variant", "vec"}
Start == [issues |-> << >>, count |-> 0, done |-> FALSE, value |-> Null,
          identity |-> NoIdentity]
Refused(reading, path, code) ==
    [reading EXCEPT !.issues = Append(@, Issue(code, path)), !.done = FALSE]
Done(reading, value, identity) ==
    [reading EXCEPT !.done = TRUE, !.value = value, !.identity = identity]
GivenAt(object, key) == IF HasKey(object, key) THEN ValueAt(object, key) ELSE Null
Keys(object) == {object.fields[i].key : i \in DOMAIN object.fields}
List(items) == [id |-> "list", list |-> items]
Pair(key, identity) == [id |-> "pair", key |-> key, of |-> identity]

\* How a field is filled: an `auto` default and a hidden field are left null.
Role(role) == [is |-> "role", role |-> role]
Skip(why) == [is |-> "skip", why |-> why]
NestedRole_AnyHidden(node) ==
    LET default == node.tags.default
    IN  IF Has(node, "default") /\ default.value # "null" THEN Skip("default value")
        ELSE IF Has(node, "default") /\ default.mode = "auto"
             THEN IF node.optional THEN Role("auto") ELSE Skip("required auto default")
        ELSE IF Has(node, "ui") /\ node.tags.ui.hidden THEN Role("hidden")
        ELSE Role("param")
NestedRole(node) ==
    LET default == node.tags.default
    IN  IF Has(node, "default") /\ default.value # "null" THEN Skip("default value")
        ELSE IF Has(node, "default") /\ default.mode = "auto"
             THEN IF node.optional THEN Role("auto") ELSE Skip("required auto default")
        ELSE IF Has(node, "ui") /\ node.tags.ui.hidden
             THEN IF node.optional THEN Role("hidden") ELSE Skip("required hidden")
        ELSE Role("param")
Inputs(node) == {i \in DOMAIN node.members : NestedRole(node.members[i].node) = Role("param")}

RECURSIVE HasRule(_)
HasRule(node) ==
    IF ReadAs(node) # NotGiven THEN ReadAs(node) = "text" => TextReader(node).is # "fault"
    ELSE /\ ~node.recursive
         /\ node.candid \in NoValue \cup Composite
         /\ node.candid = "variant" => node.members # << >>
         /\ \A i \in DOMAIN node.members :
              LET member == node.members[i]
              IN  /\ ~member.numbered
                  /\ node.candid = "record" => NestedRole(member.node).is = "role"
                  /\ \/ node.candid = "record" /\ i \notin Inputs(node)
                     \/ HasRule(member.node)

LeafRead(leaf, path, reading) ==
    IF leaf.is = "fault" THEN Refused(reading, path, leaf.code)
    ELSE Done(reading, leaf.value, leaf.identity)
TextInput(node, input, path, world, reading) ==
    IF input.is # "string" THEN Refused(reading, path, "E_TYPE")
    ELSE LeafRead(ReadLeaf(node, input, world), path, reading)

Variant(key, arm, value) ==
    IF arm.candid = "null" /\ ~arm.optional THEN Object(<<Entry("tag", Tag(key))>>)
    ELSE Object(<<Entry("tag", Tag(key)), Entry("value", value)>>)

RECURSIVE ReadInput(_, _, _, _, _)
RecordInput(node, input, path, world, reading) ==
    LET inputs == Inputs(node)
        unknown == SelectSeq([i \in DOMAIN input.fields |-> input.fields[i].key],
                             LAMBDA key : \A i \in inputs : node.members[i].key # key)
        refused == FoldLeft(LAMBDA so, key : Refused(so, path, "E_UNKNOWN_PARAM"), reading, unknown)
        Field(so, i) ==
            LET member == node.members[i]
                read == ReadInput(member.node, GivenAt(input, member.key),
                                  Append(path, member.key), world, so.reading)
            IN  IF i \notin inputs
                THEN [so EXCEPT !.fields = Append(@, Entry(member.key, Null))]
                ELSE IF ~read.done THEN [so EXCEPT !.reading = read]
                ELSE [reading |-> read,
                      fields |-> Append(so.fields, Entry(member.key, read.value)),
                      pairs |-> Append(so.pairs, Pair(member.key, read.identity))]
        all == FoldLeft(Field, [reading |-> refused, fields |-> << >>, pairs |-> << >>],
                        [i \in DOMAIN node.members |-> i])
    IN  Done(all.reading, Object(all.fields), List(all.pairs))
VariantInput(node, input, path, world, reading) ==
    LET tag == GivenAt(input, "tag")
        arms == {i \in DOMAIN node.members : tag = Tag(node.members[i].key)}
        arm == node.members[CHOOSE i \in arms : TRUE]
        extra == Keys(input) \ {"tag", "value"}
        read == ReadInput(arm.node, GivenAt(input, "value"), Append(path, arm.key), world, reading)
    IN  IF tag.is \notin {"tag", "string"} THEN Refused(reading, path, "E_TYPE")
        ELSE IF extra # {} THEN Refused(reading, path, "E_UNKNOWN_PARAM")
        ELSE IF arms = {} THEN Refused(reading, path, "E_TYPE")
        ELSE IF ~read.done THEN read
        ELSE Done(read, Variant(arm.key, arm.node, read.value),
                  Pair(arm.key, read.identity))
VecInput(node, input, path, world, reading) ==
    LET Element(so, i) ==
            LET read == ReadInput(node.members[1].node, input.items[i], Append(path, "[]"), world,
                                  so.reading)
            IN  IF ~read.done THEN [so EXCEPT !.reading = read, !.ok = FALSE]
                ELSE [so EXCEPT !.reading = read, !.items = Append(@, read.value),
                                !.ids = Append(@, read.identity)]
        all == FoldLeft(Element, [reading |-> reading, ok |-> TRUE, items |-> << >>, ids |-> << >>],
                        [i \in DOMAIN input.items |-> i])
    IN  IF Len(input.items) > MaxItems THEN Refused(reading, path, "E_TOO_LONG")
        ELSE IF all.ok THEN Done(all.reading, Array(all.items), List(all.ids))
        ELSE [all.reading EXCEPT !.done = FALSE]
ReadInput(node, input, path, world, before) ==
    LET reading == [before EXCEPT !.count = @ + 1, !.done = FALSE]
    IN  IF reading.count > MaxNested
        THEN IF reading.count = MaxNested + 1 THEN Refused(reading, path, "E_TOO_LONG")
             ELSE reading
        ELSE IF input = Null
             THEN IF node.optional \/ node.candid \in NoValue
                  THEN Done(reading, Null, NoIdentity)
                  ELSE Refused(reading, path, "E_MISSING")
        ELSE IF ReadAs(node) # NotGiven THEN TextInput(node, input, path, world, reading)
        ELSE IF node.candid = "record" /\ input.is = "object"
             THEN RecordInput(node, input, path, world, reading)
        ELSE IF node.candid = "variant" /\ input.is = "object"
             THEN VariantInput(node, input, path, world, reading)
        ELSE IF node.candid = "vec" /\ input.is = "array"
             THEN VecInput(node, input, path, world, reading)
        ELSE Refused(reading, path, "E_TYPE")

-----------------------------------------------------------------------------
\* readToolInput: every input of a plan, and the argument they make.

FieldValue(read, field) ==
    IF field.role = "param"
    THEN read.values[CHOOSE i \in DOMAIN read.values : read.values[i].key = field.name].value
    ELSE Null
ArgumentOf(plan, read) ==
    LET fields == [i \in DOMAIN plan.fields |->
                      Entry(plan.fields[i].name, FieldValue(read, plan.fields[i]))]
    IN  CASE plan.shape = "tuple" -> Array([i \in DOMAIN fields |-> fields[i].value])
          [] plan.shape = "root" -> read.values[1].value
          [] plan.shape = "record" -> Object(fields)
          [] OTHER -> Null
ParamRead(so, p, given, read) ==
    IF given = Null
    THEN IF p.optional
         THEN [so EXCEPT !.values = Append(@, Entry(p.name, Null)),
                         !.pairs = Append(@, Pair(p.name, NoIdentity))]
         ELSE [so EXCEPT !.issues = Append(@, Issue("E_MISSING", <<p.name>>))]
    ELSE IF ~read.done THEN [so EXCEPT !.issues = read.issues]
    ELSE [issues |-> read.issues, values |-> Append(so.values, Entry(p.name, read.value)),
          pairs |-> Append(so.pairs, Pair(p.name, read.identity))]
ParamsRead(plan, input, world, unknown) ==
    LET Param(so, p) ==
            ParamRead(so, p, GivenAt(input, p.name),
                      ReadInput(p.node, GivenAt(input, p.name), <<p.name>>, world,
                                [Start EXCEPT !.issues = so.issues]))
    IN  FoldLeft(Param, [issues |-> [i \in DOMAIN unknown |-> Issue("E_UNKNOWN_PARAM", << >>)],
                         values |-> << >>, pairs |-> << >>], plan.params)
InputRead(plan, read) ==
    LET case == plan.case
    IN  IF read.issues # << >> THEN [is |-> "issues", issues |-> read.issues]
        ELSE IF case.label = NotGiven
             THEN [is |-> "read", value |-> ArgumentOf(plan, read), identity |-> List(read.pairs)]
        ELSE [is |-> "read", value |-> Variant(case.label, case.node, ArgumentOf(plan, read)),
              identity |-> List(<<Pair(case.label, List(read.pairs))>>)]
ReadToolInput(plan, input, world) ==
    LET known == {plan.params[i].name : i \in DOMAIN plan.params}
        unknown == SelectSeq([i \in DOMAIN input.fields |-> input.fields[i].key],
                             LAMBDA key : key \notin known)
    IN  IF input.is # "object" THEN [is |-> "issues", issues |-> <<Issue("E_INPUT", << >>)>>]
        ELSE InputRead(plan, ParamsRead(plan, input, world, unknown))
WithStamp(plan, value, stamp) ==
    IF plan.stampField = NotGiven THEN value
    ELSE Object([i \in DOMAIN value.fields |->
                    IF value.fields[i].key = plan.stampField
                    THEN Entry(plan.stampField, BigInt(stamp)) ELSE value.fields[i]])
-----------------------------------------------------------------------------
\* displayValue: what a person is shown of a value.  Beside a named value stands
\* the name of the one entry that has it.

ForFormat(reader, value) ==
    CASE reader.tag = "account" ->
           [owner |-> Tail(ValueAt(value, "owner").units),
            sub |-> IF ValueAt(value, "subaccount") = Null THEN NoSub
                    ELSE Sub(ValueAt(value, "subaccount").bytes)]
      [] reader.tag \in {"subaccount", "bytes"} -> value.bytes
      [] OTHER -> NumberOf(value)
Shown(how, what) == [shown |-> how, what |-> what]
Owners(named, entries, value) ==
    {i \in DOMAIN entries.list :
       /\ (IF named.by = "show" THEN entries.list[i].show ELSE entries.list[i].value) = value
       /\ NormalizeName(entries.list[i].name) # Blank}
ShownLeaf(node, value, refs) ==
    LET formatter == FormatterFor(node, refs)
        text == Display(formatter, ForFormat(formatter, value))
    IN  IF formatter = NoFormatter \/ formatter.is = "fault" \/ text.is = "fault"
        THEN Shown("raw", value) ELSE Shown("text", text.value)
Named(shown, owners, entries) ==
    IF Cardinality(owners) = 1
    THEN shown @@ [name |-> entries.list[CHOOSE i \in owners : TRUE].name] ELSE shown
RECURSIVE DisplayValue(_, _, _, _)
DisplayValue(node, value, refs, names) ==
    LET arm == node.members[CHOOSE i \in DOMAIN node.members :
                              Tag(node.members[i].key) = ValueAt(value, "tag")]
    IN  IF value = Null THEN Shown("null", << >>)
        ELSE IF Has(node, "named") /\ names[node.tags.named.set] # NotRead
             THEN LET entries == names[node.tags.named.set]
                  IN  Named(ShownLeaf(node, value, refs),
                            Owners(node.tags.named, entries, value), entries)
        ELSE IF ValueTagsOf(node) # {} THEN ShownLeaf(node, value, refs)
        ELSE CASE node.candid = "record" ->
                    Shown("record", [i \in DOMAIN node.members |->
                        DisplayValue(node.members[i].node, ValueAt(value, node.members[i].key),
                                     refs, names)])
               [] node.candid = "variant" ->
                    Shown("variant", DisplayValue(arm.node, GivenAt(value, "value"), refs, names))
               [] node.candid = "vec" ->
                    Shown("vec", [i \in DOMAIN value.items |->
                        DisplayValue(node.members[1].node, value.items[i], refs, names)])
               [] OTHER -> Shown("raw", value)
=============================================================================
