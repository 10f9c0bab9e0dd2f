------------------------------ MODULE ProfileTools ------------------------------
(***************************************************************************)
(* From a compiled service and its profiles to a tool call: the envelope   *)
(* is checked and its interface read, the documents resolve into a form,   *)
(* a tool of it is chosen, a call is prepared, prepared once more, and a   *)
(* reply is classified.                                                    *)
(*                                                                         *)
(* A subject is what a host starts from: [envelope, docs, refs, listings]. *)
(* `docs` are the lists of documents it may give, `refs` what the          *)
(* canister answered to the queries that tags name, `listings` the replies *)
(* the methods of names sets may give.  The clock, the inputs and the      *)
(* replies come from outside.                                              *)
(***************************************************************************)
EXTENDS Envelopes, Profiles, ToolPlans

CONSTANTS
    Subjects,
    Clocks,        \* what `now` may answer, in ns
    InputsOf(_),   \* the inputs tried of a plan,
    RepeatsOf(_, _), \* and then after one of them
    RepliesOf(_)   \* the replies tried of a result

VARIABLES
    subject,
    verdict,    \* unread, refining, accepted or refused
    refining,   \* the blocks of nodes and the splitters, while refining
    service,    \* the interface read, and its types as the validator takes them
    resolved,   \* what the resolver answered, to which documents
    plan,       \* the tool chosen
    prepared,   \* the first call prepared
    repeated,   \* a later one
    answer      \* a reply and its class

toolVars == <<subject, verdict, refining, service, resolved, plan, prepared, repeated, answer>>

Nothing == [is |-> "nothing"]
Something(x) == x # Nothing

ToolsInit ==
    /\ subject \in Subjects
    /\ verdict = "unread"
    /\ refining = Nothing /\ service = Nothing /\ resolved = Nothing /\ plan = Nothing
    /\ prepared = Nothing /\ repeated = Nothing /\ answer = Nothing

-----------------------------------------------------------------------------
\* interfaceFromEnvelope.

HeaderReadable(header) ==
    /\ header.format = "candid-core" /\ header.version = 1 /\ header.identified
    /\ header.semantics = "candid-1" /\ header.canonical = "candid-core-canon-1"
    /\ header.named
CheckEnvelope ==
    /\ verdict = "unread"
    /\ IF HeaderReadable(subject.envelope.header) /\ GraphReadable(subject.envelope)
       THEN verdict' = "refining" /\ refining' = FirstRefining(subject.envelope.types)
       ELSE verdict' = "refused" /\ UNCHANGED refining
    /\ UNCHANGED <<subject, service, resolved, plan, prepared, repeated, answer>>
SplitBlocks ==
    /\ verdict = "refining" /\ refining.work # << >>
    /\ refining' = Refined(subject.envelope.types, refining)
    /\ UNCHANGED <<subject, verdict, service, resolved, plan, prepared, repeated, answer>>

\* The validator names its nodes by texts.
Renamed(t) ==
    CASE t.kind \in {"opt", "vec"} -> [t EXCEPT !.inner = ToString(@)]
      [] t.kind = "record" ->
           [t EXCEPT !.fields = [i \in DOMAIN @ |-> [@[i] EXCEPT !.ty = ToString(@)]]]
      [] t.kind = "variant" ->
           [t EXCEPT !.arms = [i \in DOMAIN @ |-> [@[i] EXCEPT !.ty = ToString(@)]]]
      [] OTHER -> t
SchemaOf(types) ==
    [name \in {ToString(r) : r \in DOMAIN types} |->
        Renamed(types[CHOOSE r \in DOMAIN types : ToString(r) = name])]
ReadInterface ==
    /\ verdict = "refining" /\ refining.work = << >>
    /\ IF Interned(refining)
       THEN /\ verdict' = "accepted"
            /\ service' = [iface |-> Iface(subject.envelope),
                           schema |-> SchemaOf(Iface(subject.envelope).types)]
       ELSE verdict' = "refused" /\ UNCHANGED service
    /\ refining' = Nothing
    /\ UNCHANGED <<subject, resolved, plan, prepared, repeated, answer>>

-----------------------------------------------------------------------------
\* resolveService, and buildToolPlans of what it answers.

ResolveService ==
    /\ verdict = "accepted" /\ resolved = Nothing
    /\ \E docs \in subject.docs :
         resolved' = [docs |-> docs, result |-> Resolved(service.iface, docs)]
    /\ UNCHANGED <<subject, verdict, refining, service, plan, prepared, repeated, answer>>
ChooseTool ==
    /\ Something(resolved) /\ plan = Nothing /\ resolved.result.usable
    /\ plan' \in BuildToolPlans(resolved.result.form)
    /\ UNCHANGED <<subject, verdict, refining, service, resolved, prepared, repeated, answer>>

-----------------------------------------------------------------------------
\* runPrepare and runQuery: the clock is read, then the names, then the inputs.

\* The value at a names path, by the labels as they are written.
RECURSIVE NamesWalk(_, _, _)
NamesWalk(node, value, labels) ==
    LET at == {i \in DOMAIN node.members : node.members[i].key = Head(labels)}
        member == node.members[CHOOSE i \in at : TRUE]
    IN  IF labels = << >> THEN [found |-> TRUE, node |-> node, value |-> value]
        ELSE IF value.is # "object" \/ at = {} THEN [found |-> FALSE]
        ELSE IF node.candid = "variant"
             THEN IF ValueAt(value, "tag") # Tag(Head(labels)) THEN [found |-> FALSE]
                  ELSE NamesWalk(member.node, GivenAt(value, "value"), Tail(labels))
        ELSE IF node.candid = "record" /\ HasKey(value, Head(labels))
             THEN NamesWalk(member.node, ValueAt(value, Head(labels)), Tail(labels))
        ELSE [found |-> FALSE]

\* A reply without the list leaves the set unread; an item without a name is
\* left out.
EntriesOf(names, result, reply) ==
    LET items == NamesWalk(result, reply, names.items.labels)
        element == items.node.members[1].node
        Of(item, field) ==
            LET walked == NamesWalk(element, item, names[field].labels)
            IN  IF names[field] # NoRel /\ walked.found THEN walked.value ELSE Null
    IN  IF ~items.found THEN NotRead
        ELSE IF items.value.is # "array" THEN NotRead
        ELSE Entries(SelectSeq([i \in DOMAIN items.value.items |->
                 [name |-> Of(items.value.items[i], "name"),
                  value |-> Of(items.value.items[i], "value"),
                  show |-> Of(items.value.items[i], "show")]], LAMBDA e : e.name.is = "string"))
NotReplied == [is |-> "no reply"]
ReadNames(form, listing) ==
    LET wanted == {p.node.tags.named.set : p \in {q \in ToSet(plan.params) : Has(q.node, "named")}}
        listed == {name \in DOMAIN form : "names" \in DOMAIN form[name].tags}
        Read1(set) ==
            LET by == {name \in listed : form[name].tags.names.set = set}
                name == CHOOSE n \in by : TRUE
            IN  IF set \notin wanted \/ by = {} \/ listing = NotReplied THEN NotRead
                ELSE EntriesOf(form[name].tags.names, form[name].results[1], listing)
    IN  [set \in subject.sets |-> Read1(set)]

ReadAt(input, now, names) ==
    ReadToolInput(plan, input, [refs |-> subject.refs, now |-> [ns |-> now], names |-> names])
\* What is read of an input, whatever the clock says.
Call(input, names) ==
    [input |-> input, names |-> names, reads |-> [now \in Clocks |-> ReadAt(input, now, names)]]
Sendable(call) == \E now \in Clocks : call.reads[now].is = "read"
PrepareCall ==
    /\ Something(plan) /\ prepared = Nothing
    /\ \E input \in InputsOf(plan), listing \in subject.listings :
         prepared' = Call(input, ReadNames(resolved.result.form, listing))
    /\ UNCHANGED <<subject, verdict, refining, service, resolved, plan, repeated, answer>>
PrepareAgain ==
    /\ Something(prepared) /\ repeated = Nothing /\ Sendable(prepared)
    /\ \E input \in RepeatsOf(plan, prepared.input) : repeated' = Call(input, prepared.names)
    /\ Sendable(repeated')
    /\ UNCHANGED <<subject, verdict, refining, service, resolved, plan, prepared, answer>>

\* The argument to encode: the stamp is the clock's reading here.
Sent(call, now) == WithStamp(plan, call.reads[now].value, now)
ShownArguments(call, now) ==
    LET value == Sent(call, now)
        nodes == resolved.result.form[plan.method].args
    IN  IF Len(nodes) = 1 THEN DisplayValue(nodes[1], value, subject.refs, call.names)
        ELSE Shown("vec", [i \in DOMAIN nodes |->
                 DisplayValue(nodes[i], value.items[i], subject.refs, call.names)])

ClassifyAnswer ==
    /\ Something(plan) /\ prepared = Nothing /\ answer = Nothing /\ plan.kind = "prepare"
    /\ \E reply \in RepliesOf(plan.results[1]) :
         answer' = [reply |-> reply, class |-> ClassifyReply(plan, reply)]
    /\ UNCHANGED <<subject, verdict, refining, service, resolved, plan, prepared, repeated>>

ToolsNext ==
    \/ CheckEnvelope \/ SplitBlocks \/ ReadInterface
    \/ ResolveService \/ ChooseTool
    \/ PrepareCall \/ PrepareAgain \/ ClassifyAnswer
ToolsSpec == ToolsInit /\ [][ToolsNext]_toolVars

-----------------------------------------------------------------------------
\* Two nodes are one type: equal apart from their references, and referring to
\* one type by each.
OneType(types) ==
    LET pairs == {p \in (DOMAIN types) \X (DOMAIN types) :
                    p[1] < p[2] /\ LocalKey(types[p[1]]) = LocalKey(types[p[2]])}
        Together(alike, p) ==
            \A j \in DOMAIN ChildrenOf(types[p[1]]) :
                LET r == ChildrenOf(types[p[1]])[j]
                    s == ChildrenOf(types[p[2]])[j]
                IN  r = s \/ <<r, s>> \in alike \/ <<s, r>> \in alike
    IN  FoldLeft(LAMBDA alike, i : {p \in alike : Together(alike, p)}, pairs,
                 [i \in DOMAIN types |-> i])
ReachedIn(env) ==
    FoldLeft(LAMBDA reached, i :
                 reached \cup UNION {ToSet(ChildrenOf(env.types[r])) : r \in reached},
             ToSet(Roots(env)), [i \in DOMAIN env.types |-> i])
OptsOnly(types) ==
    FoldLeft(LAMBDA in, i : {r \in in : types[r].inner \in in},
             {r \in DOMAIN types : types[r].kind = "opt"}, [i \in DOMAIN types |-> i])

\* Of the envelopes whose nodes, names, declarations and actor can be read, those
\* are accepted that hold no type twice, no node nothing reaches and no opt of
\* only itself (duplicateNodes' splitting, smaller halves first, merges no two
\* types and leaves no type in two nodes).
EnvelopeInterned ==
    LET env == subject.envelope
    IN  /\ verdict \in {"accepted", "refused"}
        /\ HeaderReadable(env.header) /\ DeclsReadable(env) /\ ActorReadable(env)
        /\ \A r \in DOMAIN env.types : NodeReadable(env.types, env.types[r])
        /\ ClassesApart(env) /\ NamesReadable(env)
        => (verdict = "accepted" <=>
              /\ OneType(env.types) = {} /\ OptsOnly(env.types) = {}
              /\ ReachedIn(env) = DOMAIN env.types)

-----------------------------------------------------------------------------
\* Of the effects of methods, those the documents gave.
Spoken(form, bare, name) ==
    {tag \in DOMAIN form[name].tags :
        tag # "effect" \/ form[name].tags.effect # bare[name].tags.effect}
RECURSIVE Keeps(_, _)
Keeps(upper, node) ==
    /\ \A tag \in DOMAIN upper.tags : tag \in DOMAIN node.tags /\ node.tags[tag] = upper.tags[tag]
    /\ \A i \in DOMAIN upper.members : Keeps(upper.members[i].node, node.members[i].node)
FormKeeps(upper, form, bare) ==
    \A name \in DOMAIN form :
        /\ \A tag \in Spoken(upper, bare, name) :
             tag \in DOMAIN form[name].tags /\ form[name].tags[tag] = upper[name].tags[tag]
        /\ \A i \in DOMAIN form[name].args : Keeps(upper[name].args[i], form[name].args[i])
        /\ \A i \in DOMAIN form[name].results :
             Keeps(upper[name].results[i], form[name].results[i])

DownTo(layer) == SelectSeq(resolved.docs, LAMBDA d : LayerOf(d.origin) <= layer)
Layered(results, form) ==
    \A layer \in 1..Len(Layers) - 1 :
        LET upper == results[layer] IN upper.usable => FormKeeps(upper.form, form, results[0].form)

\* Documents of lower layers add to the form and never change it: a tag the higher
\* layers alone give some position or method, however far its address is from
\* there, is the tag of that name in the whole form (the layers of LayeredTags, and
\* a pack's entries that are dropped, take nothing of an author's away).
FormIsLayered ==
    Something(resolved) /\ plan = Nothing /\ resolved.result.usable =>
        Layered([layer \in 0..Len(Layers) - 1 |-> Resolved(service.iface, DownTo(layer))],
                resolved.result.form)

-----------------------------------------------------------------------------
\* Reading.  The texts of an input, each with its position and its value.
RECURSIVE Leaves(_, _, _)
Leaves(node, input, value) ==
    LET Below(i) == Leaves(node.members[i].node, GivenAt(input, node.members[i].key),
                           ValueAt(value, node.members[i].key))
        arm == node.members[CHOOSE i \in DOMAIN node.members :
                              Tag(node.members[i].key) = ValueAt(value, "tag")].node
    IN  IF input = Null THEN {}
        ELSE IF ReadAs(node) # NotGiven THEN {[node |-> node, text |-> input, value |-> value]}
        ELSE CASE node.candid = "record" -> UNION {Below(i) : i \in Inputs(node)}
               [] node.candid = "variant" ->
                    Leaves(arm, GivenAt(input, "value"), GivenAt(value, "value"))
               [] node.candid = "vec" ->
                    UNION {Leaves(node.members[1].node, input.items[i], value.items[i]) :
                             i \in DOMAIN input.items}
               [] OTHER -> {}
ValueOf(p, i, read) ==
    LET whole == IF plan.case = NoCase THEN read.value ELSE GivenAt(read.value, "value")
        at == CHOOSE k \in DOMAIN plan.fields : plan.fields[k].name = p.name
    IN  CASE plan.shape = "tuple" -> whole.items[at]
          [] plan.shape = "record" -> ValueAt(whole, p.name)
          [] OTHER -> whole
LeavesOf(call, now) ==
    UNION {Leaves(plan.params[i].node, GivenAt(call.input, plan.params[i].name),
                  ValueOf(plan.params[i], i, call.reads[now])) : i \in DOMAIN plan.params}
\* When a call can be made, and is not yet made again.
Sendings ==
    IF Something(prepared) /\ repeated = Nothing
    THEN {now \in Clocks : prepared.reads[now].is = "read"} ELSE {}

\* Days from 1970-01-01, counted year by year and month by month.
DaysIn(year) == IF IsLeap(year) THEN 366 ELSE 365
DaysTo(year, month, day) ==
    LET Sum(days) == FoldLeft(LAMBDA n, d : n + d, 0, days)
        years == IF year >= 1970 THEN Sum([i \in 1..year - 1970 |-> DaysIn(1969 + i)])
                 ELSE -Sum([i \in 1..1970 - year |-> DaysIn(1970 - i)])
    IN  years + Sum([m \in 1..month - 1 |-> DaysInMonth(year, m)]) + day - 1
SaysInstant(t, ns) ==
    LET zone == (IF t.zone.negative THEN -1 ELSE 1) * (t.zone.hours * Sixty + t.zone.minutes)
        minutes == DaysTo(t.year, t.month, t.day) * Hours * Sixty + t.hour * Sixty + t.minute - zone
        whole == (minutes * Sixty + t.second) * NsPer.s
    IN  (ns - whole) * Ten^Len(t.frac) = Decimal(t.frac) * NsPer.s
SaysDuration(d, ns) ==
    LET Of(name, unit) == (IF d.parts[name] = NoPart THEN 0 ELSE d.parts[name]) * unit
        minute == Sixty * NsPer.s
        day == Hours * Sixty * minute
        whole == Of("weeks", 7 * day) + Of("days", day) + Of("hours", Sixty * minute)
                   + Of("minutes", minute) + Of("seconds", NsPer.s)
    IN  (ns - whole) * Ten^Len(d.frac) = Decimal(d.frac) * NsPer.s
SaysAmount(said, decimals, units) ==
    units * Ten^Len(said.frac)
      = (IF said.negative THEN -1 ELSE 1) * Decimal(said.whole \o said.frac) * Ten^decimals
SaysAccount(t, value) ==
    LET sub == ValueAt(value, "subaccount")
    IN  /\ ValueAt(value, "owner") = PrincipalText(t.owner)
        /\ IF t.sub = NoDot THEN sub = Null
           ELSE /\ Len(sub.bytes) = SubaccountSize
                /\ OfBigEndian(sub.bytes) = OfBigEndian(t.sub.digits)
                /\ t.checksum = Checksum(t.owner, sub.bytes)
Says(leaf, now) ==
    LET reader == InputReader(leaf.node, subject.refs)
        parts == leaf.text.parts
        per == NsPer[reader.args.unit]
        number == NumberOf(leaf.value)
    IN  CASE reader.tag = "amount" -> SaysAmount(parts, reader.args.decimals, number)
          [] reader.tag = "timestamp" /\ ~IsRelative(leaf.text) -> SaysInstant(parts, number * per)
          [] reader.tag = "timestamp" /\ IsRelative(leaf.text) ->
               \E aligned \in now - per + 1..now :
                   aligned % per = 0 /\ SaysDuration(parts, number * per - aligned)
          [] reader.tag = "duration" ->
               SaysDuration(parts, IF parts.negative THEN -number * per ELSE number * per)
          [] reader.tag = "integer" -> SaysAmount(parts, 0, number)
          [] reader.tag = "account" -> SaysAccount(parts, leaf.value)
          [] reader.tag = "principal" -> leaf.value = PrincipalText(parts.owner)
          [] reader.tag = "text" -> leaf.value = String(leaf.text.units)
          [] OTHER -> TRUE

\* A text position without a pattern has no text that is a value.
SaysValue(reader, text, now) ==
    /\ Read(reader, text, [ns |-> now]).is = "parsed"
    /\ reader.tag # "text" \/ reader.limits.pattern.given
EntriesNamed(reader, entries, text, now) ==
    {e \in ToSet(entries.list) : /\ NormalizeName(e.name) = NormalizeName(text)
                                 /\ NormalizeName(e.name) # Blank
                                 /\ ~SaysValue(reader, e.name, now)}
IsNamed(leaf, reader, named, entries, now) ==
    LET found == IF entries = NotRead THEN {}
                 ELSE EntriesNamed(reader, entries, leaf.text, now)
    IN  IF found = {} THEN reader.tag = "text" /\ entries # NotRead /\ Says(leaf, now)
        ELSE \E e \in found : /\ found = {e}
                              /\ leaf.value = IF named.by = "show" THEN e.show ELSE e.value

\* What is read of a text is exactly what it says: an amount in the token's units,
\* an instant of the Gregorian calendar, a duration, nothing rounded; an account's
\* owner and subaccount, a text's characters.  At a position that takes names "a
\* value always wins", even over an entry of that name; a text that is no value is
\* read as the one entry it names, and where it names none only a text position
\* takes it, as it is typed.
TextsAreExact ==
    \A now \in Sendings :
        \A leaf \in LeavesOf(prepared, now) :
            LET reader == InputReader(leaf.node, subject.refs)
                named == leaf.node.tags.named
            IN  IF Has(leaf.node, "named") /\ ~SaysValue(reader, leaf.text, now)
                THEN IsNamed(leaf, reader, named, prepared.names[named.set], now)
                ELSE Says(leaf, now)

RECURSIVE ReadsBack(_, _, _)
ReadsBack(node, value, shown) ==
    LET reader == FormatterFor(node, subject.refs)
        meant == ForFormat(reader, value)
        arm == node.members[CHOOSE i \in DOMAIN node.members :
                              Tag(node.members[i].key) = ValueAt(value, "tag")].node
    IN  CASE shown.shown = "text" /\ shown.what.form # "word" ->
               Parse(reader, shown.what, NoClock)
                 = Parsed(IF reader.tag = "account" /\ meant.sub # NoSub
                          THEN [meant EXCEPT !.sub = IF IsZero(@.bytes) THEN NoSub ELSE @]
                          ELSE meant)
          [] shown.shown = "record" ->
               \A i \in DOMAIN node.members :
                   ReadsBack(node.members[i].node, ValueAt(value, node.members[i].key),
                             shown.what[i])
          [] shown.shown = "variant" -> ReadsBack(arm, GivenAt(value, "value"), shown.what)
          [] shown.shown = "vec" ->
               \A i \in DOMAIN shown.what :
                   ReadsBack(node.members[1].node, value.items[i], shown.what[i])
          [] OTHER -> TRUE

\* What the preview shows of the arguments is what is sent: each shown text that is
\* not a message or a label reads back as the very value (displayArguments against
\* the readers; a zero subaccount is shown, and read, as none).
ShownIsRead ==
    \A now \in Sendings :
        LET nodes == resolved.result.form[plan.method].args
            shown == ShownArguments(prepared, now)
        IN  IF Len(nodes) = 1 THEN ReadsBack(nodes[1], Sent(prepared, now), shown)
            ELSE \A i \in DOMAIN nodes :
                     ReadsBack(nodes[i], Sent(prepared, now).items[i], shown.what[i])

\* What a tool reads of an input, with its stamp, is a value of the method's
\* argument type as the compiler has it: no tag, name, default or hidden field
\* lets another in (readToolInput and withStamp against the validator).
ArgumentIsValid ==
    \A now \in Sendings :
        LET args == service.iface.methods[plan.method].args
            sent == Sent(prepared, now)
            policy == [schema |-> service.schema, depth |-> 20, elements |-> 100, issues |-> 1]
        IN  IF Len(args) = 1 THEN Valid(policy, ToString(args[1]), sent)
            ELSE \A i \in DOMAIN args : Valid(policy, ToString(args[i]), sent.items[i])

-----------------------------------------------------------------------------
\* A call as the ledger sees it: a zero subaccount is none.
RECURSIVE Normal(_, _)
Normal(node, value) ==
    LET OfField(entry) ==
            LET i == CHOOSE k \in DOMAIN node.members : node.members[k].key = entry.key
            IN  Entry(entry.key, Normal(node.members[i].node, entry.value))
        arm == node.members[CHOOSE i \in DOMAIN node.members :
                              Tag(node.members[i].key) = ValueAt(value, "tag")].node
        sub == ValueAt(value, "subaccount")
    IN  IF value = Null THEN Null
        ELSE IF ReadAs(node) = "subaccount" THEN IF IsZero(value.bytes) THEN Null ELSE value
        ELSE IF ReadAs(node) = "account"
             THEN Object(<<Entry("owner", ValueAt(value, "owner")),
                           Entry("subaccount", IF sub = Null \/ IsZero(sub.bytes)
                                               THEN Null ELSE sub)>>)
        ELSE CASE node.candid = "record" /\ ReadAs(node) = NotGiven ->
                    Object([i \in DOMAIN value.fields |-> OfField(value.fields[i])])
               [] node.candid = "variant" /\ HasKey(value, "value") ->
                    Object(<<Entry("tag", ValueAt(value, "tag")),
                             Entry("value", Normal(arm, ValueAt(value, "value")))>>)
               [] node.candid = "vec" ->
                    Array([i \in DOMAIN value.items |->
                              Normal(node.members[1].node, value.items[i])])
               [] OTHER -> value
NormalOf(read) ==
    LET nodes == resolved.result.form[plan.method].args
    IN  IF Len(nodes) = 1 THEN Normal(nodes[1], read.value)
        ELSE [i \in DOMAIN nodes |-> Normal(nodes[i], read.value.items[i])]
SameCall(c, d) ==
    \A now \in Clocks :
        LET x == c.reads[now]
            y == d.reads[now]
        IN  x.is = y.is /\ (x.is = "read" => NormalOf(x) = NormalOf(y))

\* One intent, one identity: what two inputs add to the key of the intent is the
\* same exactly when they ask for the same call whatever the clock says, whenever
\* they were prepared.  So a repeat with a relative time is the intent prepared
\* before, and an instant that only now is that time is another.
OneIntent ==
    Something(repeated) =>
        \A now, later \in Clocks :
            prepared.reads[now].is = "read" /\ repeated.reads[later].is = "read" =>
                (prepared.reads[now].identity = repeated.reads[later].identity
                   <=> SameCall(prepared, repeated))

-----------------------------------------------------------------------------
\* The JSON schema of a tool.
RECURSIVE Conforms(_, _)
Conforms(schema, input) ==
    CASE schema.type = "string" -> input.is = "string"
      [] schema.type = "null" -> input = Null
      [] schema.type = "object" ->
           /\ input.is = "object"
           /\ Keys(input) \subseteq DOMAIN schema.properties
           /\ schema.required \subseteq Keys(input)
           /\ \A key \in Keys(input) : Conforms(schema.properties[key], ValueAt(input, key))
      [] schema.type = "oneOf" ->
           \E arm \in schema.arms :
               /\ input.is = "object" /\ HasKey(input, "tag")
               /\ ValueAt(input, "tag") = Tag(arm.tag)
               /\ Keys(input) \subseteq {"tag"} \cup (IF arm.takes THEN {"value"} ELSE {})
               /\ arm.takes /\ arm.required => HasKey(input, "value")
               /\ HasKey(input, "value") => Conforms(arm.value, ValueAt(input, "value"))
      [] schema.type = "array" ->
           /\ input.is = "array" /\ Len(input.items) <= schema.max
           /\ \A i \in DOMAIN input.items :
                \/ schema.nulls /\ input.items[i] = Null
                \/ Conforms(schema.items, input.items[i])
Structural == {"E_INPUT", "E_TYPE", "E_MISSING", "E_UNKNOWN_PARAM"}
RECURSIVE Nullless(_)
Nullless(input) ==
    /\ input # Null
    /\ input.is = "object" => \A i \in DOMAIN input.fields : Nullless(input.fields[i].value)
    /\ input.is = "array" => \A i \in DOMAIN input.items : Nullless(input.items[i])

\* A tool's schema says what its reader takes: an input of that shape is never
\* refused for its shape, and one that is read, explicit nulls aside, has it
\* (inputSchema against readToolInput).
SchemaIsTheReading ==
    Something(prepared) /\ repeated = Nothing =>
        LET conforms == Conforms(InputSchema(plan), prepared.input)
        IN  \A now \in Clocks :
                LET read == prepared.reads[now]
                IN  IF read.is = "read" THEN Nullless(prepared.input) => conforms
                    ELSE conforms => \A i \in DOMAIN read.issues :
                                         read.issues[i].code \notin Structural

-----------------------------------------------------------------------------
\* A key holds of a reply when each of its steps is the case, or is a field of it.
RECURSIVE HoldsOf(_, _)
HoldsOf(ids, value) ==
    \/ ids = << >>
    \/ /\ value.is = "object"
       /\ LET tag == GivenAt(value, "tag")
              at == {i \in DOMAIN value.fields : FieldIds[value.fields[i].key] = Head(ids)}
          IN  IF tag.is = "tag"
              THEN FieldIds[tag.key] = Head(ids) /\ HoldsOf(Tail(ids), GivenAt(value, "value"))
              ELSE \E i \in at : HoldsOf(Tail(ids), value.fields[i].value)

\* A reply has the class of the most specific outcome key that holds of it, among
\* all the profile's keys, whatever other fields and cases it carries; with none,
\* the default, and without that, failure (classifyReply's one path through the
\* reply misses no key of a plan).
ReplyHasItsClass ==
    Something(answer) =>
        LET keys == plan.outcome.keys
            ids == [i \in DOMAIN keys |-> RelpathIds(keys[i].path)]
            holding == {i \in DOMAIN keys : HoldsOf(ids[i], answer.reply)}
            deepest == {i \in holding : \A k \in holding : Len(ids[k]) <= Len(ids[i])}
        IN  answer.class =
                IF holding # {} THEN keys[Min(deepest)].class
                ELSE IF plan.outcome.default = NotGiven THEN "fail" ELSE plan.outcome.default
=============================================================================
