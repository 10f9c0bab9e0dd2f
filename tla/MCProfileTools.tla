----------------------------- MODULE MCProfileTools -----------------------------
EXTENDS ProfileTools

\* A name's place is its hash; 90 is the id of a field that no name has.
MCNames ==
    <<"owner", "subaccount", "to", "amount", "memo", "fee", "created_at_time", "Ok", "Err",
      "Duplicate", "TooOld", "kind", "why", "A", "B", "name", "account", "command", "Disburse",
      "Follow", "Stop", "list", "topic", "flag", "hidden", "pick", "None", "Some", "Maybe",
      "arg0", "arg1", "arg2", "canister_id",
      "icrc1_transfer", "icrc1_decimals", "icrc1_symbol", "contacts", "manage", "get",
      "at_ns", "at_s", "at_ms", "for_s", "for_ns", "pay", "owe", "note", "hash", "sub", "who",
      "count", "pair", "nested", "nothing", "label", "note_to", "book",
      "deadline">>
MCIdOf ==
    [name \in ToSet(MCNames) |-> CHOOSE i \in DOMAIN MCNames : MCNames[i] = name]
Unnamed == 90
MCFieldIds == MCIdOf @@ ("_90_" :> Unnamed)
MCWords == [name \in DOMAIN MCIdOf |-> <<name>>]

-----------------------------------------------------------------------------
\* Contract graphs.

N(kind) == [kind |-> kind]
Opt(r) == [kind |-> "opt", inner |-> r]
Vec(r) == [kind |-> "vec", inner |-> r]
F(name, r) == [id |-> MCIdOf[name], ty |-> r]
Rec(fields) == [kind |-> "record", fields |-> fields]
Var(arms) == [kind |-> "variant", fields |-> arms]
Fun(mode, args, results) == [kind |-> "func", mode |-> mode, args |-> args, results |-> results]
Method(name, function) == [id |-> MCIdOf[name], name |-> name, function |-> function]
Svc(methods) == [kind |-> "service", methods |-> methods]

Header == [format |-> "candid-core", version |-> 1, identified |-> TRUE,
           semantics |-> "candid-1", canonical |-> "candid-core-canon-1", named |-> TRUE]
NamesOf(types) ==
    LET Row(r, f) == [container |-> r, id |-> f.id, name |-> MCNames[f.id]]
        Rows(r) ==
            IF types[r].kind \notin {"record", "variant"} THEN << >>
            ELSE LET named == SelectSeq(types[r].fields, LAMBDA f : f.id # Unnamed)
                 IN  [i \in DOMAIN named |-> Row(r, named[i])]
    IN  FoldLeft(LAMBDA all, r : all \o Rows(r), << >>, [r \in DOMAIN types |-> r])
Envelope(types, decls) ==
    [header |-> Header, types |-> types, decls |-> decls,
     actor |-> [kind |-> types[Len(types)].kind, of |-> Len(types)], names |-> NamesOf(types)]
Decl(name, r) == [name |-> name, ty |-> r]
Graph(nodes, args) ==
    Envelope(nodes \o <<Fun("query", args, << >>), Svc(<<Method("get", Len(nodes) + 1)>>)>>, << >>)

\* Three nodes of any shape, four in chains, and one whose argument leaves nodes
\* unreached.
Shapes == {N("nat")} \cup {Opt(r) : r \in 1..3} \cup {Vec(r) : r \in 1..3}
            \cup {Rec(<<F("A", r), F("B", s)>>) : r \in 1..3, s \in 1..3}
Chained == {N("nat")} \cup {Vec(r) : r \in 1..4}
Written ==
    {Graph(<<a, b, c>>, <<1, 2, 3>>) : a \in Shapes, b \in Shapes,
       c \in {N("nat"), Opt(1), Opt(3), Vec(2), Rec(<<F("A", 1), F("B", 3)>>)}}
    \cup {Graph(<<a, b, c, d>>, <<1, 2, 3, 4>>) :
            a \in Chained, b \in Chained, c \in Chained, d \in Chained}
    \cup {Graph(<<a, b>>, <<1>>) : a \in {N("nat"), Opt(2), Opt(1)}, b \in {N("text"), Opt(2)}}
Whole1 == Graph(<<N("nat"), Rec(<<F("A", 1)>>)>>, <<2>>)
Classed == [kind |-> "class", init |-> <<2>>, service |-> 4]
Faulty ==
    {[Whole1 EXCEPT !.header[key] = value] :
       key \in {"format", "semantics", "canonical"}, value \in {"candid-core", "candid-2"}}
    \cup {[Whole1 EXCEPT !.header.version = 2], [Whole1 EXCEPT !.header.identified = FALSE],
          [Whole1 EXCEPT !.header.named = FALSE],
          [Whole1 EXCEPT !.types[1] = Vec(9)], [Whole1 EXCEPT !.types[1] = N("future")],
          [Whole1 EXCEPT !.types[2] = Rec(<<F("A", 1), F("A", 1)>>)],
          [Whole1 EXCEPT !.types[3] = Fun("oneway", <<2>>, <<1>>)],
          [Whole1 EXCEPT !.types[4] = Svc(<<Method("get", 1)>>)],
          [Whole1 EXCEPT !.types[4].methods[1].id = Unnamed],
          [Whole1 EXCEPT !.actor.of = 3],
          [Whole1 EXCEPT !.names[1].id = 1], [Whole1 EXCEPT !.names[1].container = 1],
          [Whole1 EXCEPT !.names = @ \o @],
          [Whole1 EXCEPT !.decls = <<Decl("T", 7)>>],
          [Whole1 EXCEPT !.types = Append(@, Classed), !.actor = [kind |-> "class", of |-> 5]],
          [Whole1 EXCEPT !.types = Append(@, Classed), !.decls = <<Decl("T", 5)>>]}

-----------------------------------------------------------------------------
\* Documents.

At(kind, name, labels) == [kind |-> kind, name |-> name, index |-> 0, labels |-> labels]
On(method) == At("method", method, << >>)
Tagged(at, tag, args) == [at |-> at, tag |-> tag, args |-> args]
Doc(name, origin, annotations) ==
    [name |-> name, origin |-> origin, pack |-> origin = "pack", fits |-> "bound",
     annotations |-> annotations]
Is(value) == [from |-> NotGiven, literal |-> value]
From(method) == [from |-> method, literal |-> 0]
Tok == [name |-> "tok", upper |-> TRUE]
AmountTag(decimals) ==
    [decimals |-> decimals, symbol |-> Is(Tok), threshold |-> 6, message |-> "all"]
TimeTag(unit) ==
    [unit |-> unit, threshold |-> NoThreshold, message |-> "", labels |-> << >>]
EffectTag(kind) ==
    [kind |-> kind, irreversible |-> kind # "read", replicated |-> FALSE, grant |-> NoGrant]
Hole(labels) == [path |-> Rel(labels), optional |-> FALSE]
IntentTag(holes) == [balanced |-> TRUE, holes |-> holes]
Key1(labels, class) == [path |-> Rel(labels), class |-> class]
Outcome(keys) == [keys |-> keys, default |-> NotGiven]
Replay == [mode |-> "replay_same_payload", stamp |-> Rel(<<"created_at_time">>)]
Hidden == [hidden |-> TRUE]
NullDefault(mode) == [value |-> "null", mode |-> mode, from |-> NotGiven]
Mark == [marked |-> TRUE]

-----------------------------------------------------------------------------
\* A ledger: a transfer, its decimals and symbol, and a book of contacts.

LedgerTypes ==
    <<N("nat"), N("principal"), N("nat8"), Vec(3), Opt(4), N("nat64"), Opt(6), N("text"),
      Rec(<<F("owner", 2), F("subaccount", 5)>>), Opt(1),
      Rec(<<F("to", 9), F("amount", 1), F("memo", 5), F("fee", 10), F("created_at_time", 7)>>),
      N("null"), Var(<<F("A", 12), F("B", 12)>>), Var(<<F("Duplicate", 12), F("TooOld", 12)>>),
      Rec(<<F("kind", 13), F("why", 14)>>), Var(<<F("Ok", 1), F("Err", 15)>>),
      Rec(<<F("name", 8), F("account", 9)>>), Vec(17),
      Fun("update", <<11>>, <<16>>), Fun("query", << >>, <<3>>), Fun("query", << >>, <<8>>),
      Fun("query", << >>, <<18>>),
      Svc(<<Method("icrc1_transfer", 19), Method("icrc1_decimals", 20),
            Method("icrc1_symbol", 21), Method("contacts", 22)>>)>>
Ledger == Envelope(LedgerTypes, <<Decl("TransferArg", 11), Decl("Account", 9)>>)
\* The same ledger, compiled as a class, and one whose transfers carry no stamp.
LedgerClass ==
    [Envelope(Append(LedgerTypes, [kind |-> "class", init |-> <<8>>, service |-> 23]), << >>)
        EXCEPT !.decls = <<Decl("TransferArg", 11)>>]
OldLedger ==
    Envelope(<<N("nat"), N("principal"), N("nat8"), Vec(3), Opt(4),
               Rec(<<F("owner", 2), F("subaccount", 5)>>),
               Rec(<<F("to", 6), F("amount", 1)>>), N("text"), Var(<<F("Ok", 1), F("Err", 8)>>),
               Fun("update", <<7>>, <<9>>), Fun("query", << >>, <<3>>),
               Svc(<<Method("icrc1_transfer", 10), Method("icrc1_decimals", 11)>>)>>,
             <<Decl("TransferArg", 7)>>)

OnTransfer == On("icrc1_transfer")
Arg(labels) == At("args", "icrc1_transfer", labels)
Pack ==
    Doc("icrc1", "pack",
        <<Tagged(OnTransfer, "effect", EffectTag("transfer")),
          Tagged(OnTransfer, "intent", IntentTag(<<Hole(<<"amount">>),
                                                 [Hole(<<"memo">>) EXCEPT !.optional = TRUE]>>)),
          Tagged(OnTransfer, "idempotency", Replay),
          Tagged(OnTransfer, "outcome", Outcome(<<Key1(<<"Ok">>, "done"), Key1(<<"Err">>, "fail"),
                                                Key1(<<"Err", "kind", "A">>, "retry_same")>>)),
          Tagged(Arg(<<"created_at_time">>), "timestamp", TimeTag("ns")),
          Tagged(Arg(<<"amount">>), "amount",
                 [AmountTag(From("icrc1_decimals")) EXCEPT !.symbol = Is(Tok)]),
          Tagged(Arg(<<"fee">>), "amount", AmountTag(From("icrc1_decimals"))),
          Tagged(Arg(<<"memo">>), "bytes", [encoding |-> "text", max_len |-> 2]),
          Tagged(Arg(<<"to">>), "account", Mark)>>)
Book ==
    [set |-> "book", items |-> Rel(<< >>), name |-> Rel(<<"name">>), value |-> Rel(<<"account">>),
     show |-> NoRel]
Author ==
    Doc("mine", "author",
        <<Tagged(At("type", "TransferArg", <<"amount">>), "amount",
                 [AmountTag(Is(2)) EXCEPT !.threshold = NoThreshold]),
          Tagged(On("contacts"), "names", Book),
          Tagged(Arg(<<"to">>), "named", [set |-> "book", by |-> "value"]),
          Tagged(Arg(<<"fee">>), "ui", Hidden),
          Tagged(OnTransfer, "effect", EffectTag("approve"))>>)
\* An author who reads two fields of an error, one who gives a type a reading the
\* pack gives its place, and one whose profile is of an older interface.
TwoFields ==
    Doc("fields", "author",
        <<Tagged(OnTransfer, "outcome",
                 Outcome(<<Key1(<<"Ok">>, "done"), Key1(<<"Err", "kind", "A">>, "fail"),
                           Key1(<<"Err", "why", "TooOld">>, "retry_same")>>))>>)
Typed1 ==
    Doc("typed", "third_party",
        <<Tagged(At("type", "Account", << >>), "named", [set |-> "book", by |-> "value"]),
          Tagged(On("contacts"), "names", Book),
          Tagged(At("type", "TransferArg", <<"memo">>), "subaccount", Mark),
          Tagged(At("type", "Account", <<"subaccount">>), "subaccount", Mark)>>)
Older ==
    [Doc("older", "author",
         <<Tagged(Arg(<<"deadline">>), "timestamp", TimeTag("ns")),
           Tagged(Arg(<<"amount">>), "amount", AmountTag(Is(0))),
           Tagged(Arg(<<"memo">>), "ui", Hidden)>>) EXCEPT !.fits = "rebound"]
Refused1 == Doc("refused", "author", <<Tagged(Arg(<<"deadline">>), "ui", Hidden)>>)
LedgerDocs ==
    {<<Pack>>, <<Author, Pack>>, <<Pack, TwoFields>>, <<Typed1, Pack>>, <<Older, Pack>>,
     <<Refused1, Pack>>, <<Author>>, <<Typed1, Author, Pack, Pack>>}

Reply(contacts) == Array(contacts)
Contact(name, account) ==
    Object(<<Entry("name", name), Entry("account", AccountValue(account))>>)
Alice == [owner |-> <<1>>, sub |-> NoSub]
Bob == [owner |-> <<2>>, sub |-> Sub(<<0, 1>>)]
Contacts ==
    {NotReplied,
     Reply(<<Contact(Word("alice"), Alice), Contact(Word("bob"), Bob)>>),
     Reply(<<Contact(Styled("alice"), Alice), Contact(Word("alice"), Bob),
             Contact(Account(<<2>>, NoChecksum, NoDot), Alice)>>)}
Started(env, docs) ==
    [envelope |-> env, docs |-> docs, refs |-> [icrc1_decimals |-> 1], sets |-> {"book"},
     listings |-> Contacts]

-----------------------------------------------------------------------------
\* A canister of commands, some of them tools of their own.

Commands ==
    Envelope(<<N("nat"), N("principal"), N("null"), N("text"), Opt(4), Vec(2), N("int32"), Opt(1),
               Rec(<<F("to", 2), F("amount", 8), F("memo", 5)>>),
               Rec(<<F("list", 6), F("topic", 7)>>),
               Var(<<F("Disburse", 9), F("Follow", 10), F("Stop", 3),
                     [id |-> Unnamed, ty |-> 4]>>),
               Var(<<F("Ok", 3), F("Err", 4)>>),
               Fun("update", <<11>>, <<12>>), Svc(<<Method("manage", 13)>>)>>, << >>)
Case(labels) == At("args", "manage", labels)
Manage ==
    <<Tagged(On("manage"), "outcome", Outcome(<<Key1(<<"Ok">>, "done"), Key1(<<"Err">>, "fail")>>)),
      Tagged(On("manage"), "effect", EffectTag("transfer")),
      Tagged(Case(<<"Disburse">>), "intent", IntentTag(<<Hole(<<"Disburse", "to">>)>>)),
      Tagged(Case(<<"Disburse", "amount">>), "amount", AmountTag(Is(1))),
      Tagged(Case(<<"Follow">>), "effect", EffectTag("admin")),
      Tagged(Case(<<"Follow">>), "intent", IntentTag(<< >>)),
      Tagged(Case(<<"Follow", "topic">>), "describe", Mark)>>
CommandDocs ==
    {<<Doc("manage", "author", Manage)>>,
     <<Doc("manage", "author", SubSeq(Manage, 1, 4)),
       Doc("stop", "third_party", <<Tagged(Case(<<"Stop">>), "intent", IntentTag(<< >>)),
                                    Tagged(Case(<<"Follow">>), "intent", IntentTag(<< >>))>>)>>,
     <<Doc("overlap", "author",
           Manage \o <<Tagged(Case(<<"Stop">>), "effect", EffectTag("destroy")),
                       Tagged(Case(<<"Disburse">>), "intent",
                              IntentTag(<<Hole(<<"Follow", "topic">>)>>))>>)>>}

-----------------------------------------------------------------------------
\* A canister with one query for each reading, and a list of labels.

Queries ==
    <<<<"at_ns", <<6>>>>, <<"at_s", <<5>>>>, <<"at_ms", <<7>>>>, <<"for_s", <<5>>>>,
      <<"for_ns", <<7>>>>, <<"pay", <<3>>>>, <<"owe", <<2>>>>, <<"note", <<12>>>>,
      <<"hash", <<11>>>>, <<"sub", <<11>>>>, <<"who", <<13>>>>, <<"count", <<4>>>>,
      <<"pair", <<10, 14>>>>, <<"nested", <<20>>>>, <<"nothing", <<17>>>>, <<"label", <<8>>>>,
      <<"note_to", <<8>>>>>>
ReadTypes ==
    <<N("nat"), N("int"), N("nat8"), N("nat16"), N("nat32"), N("nat64"), N("int64"), N("text"),
      N("principal"), N("bool"), Vec(3), Opt(11), Rec(<<F("owner", 9), F("subaccount", 12)>>),
      Opt(8), Rec(<<F("flag", 10), F("hidden", 14), F("name", 8)>>), Vec(15), N("null"),
      Var(<<F("None", 17), F("Some", 8), F("Maybe", 19)>>), Opt(1),
      Rec(<<F("list", 16), F("pick", 18)>>), Rec(<<F("name", 8), F("account", 8)>>), Vec(21)>>
ReadEnvelope ==
    LET args == FoldLeft(LAMBDA so, q : IF q[2] \in ToSet(so) THEN so ELSE Append(so, q[2]),
                         << >>, Queries)
        At1(i) == CHOOSE k \in DOMAIN args : args[k] = Queries[i][2]
        n == Len(ReadTypes)
    IN  Envelope(ReadTypes \o [k \in DOMAIN args |-> Fun("query", args[k], << >>)]
                   \o <<Fun("query", << >>, <<22>>),
                        Svc([i \in DOMAIN Queries |-> Method(Queries[i][1], n + At1(i))]
                              \o <<Method("book", n + Len(args) + 1)>>)>>, << >>)
Of(method, tag, args) == Tagged(At("args", method, << >>), tag, args)
In(labels, tag, args) == Tagged(At("args", "nested", labels), tag, args)
Labels ==
    [set |-> "labels", items |-> Rel(<< >>), name |-> Rel(<<"name">>), value |-> Rel(<<"name">>),
     show |-> Rel(<<"account">>)]
Readings ==
    <<Of("at_ns", "timestamp", TimeTag("ns")),
      Of("at_s", "timestamp", [TimeTag("s") EXCEPT !.labels = 0 :> "never"]),
      Of("at_ms", "timestamp", [TimeTag("ms") EXCEPT !.threshold = 1000]),
      Of("for_s", "duration", [unit |-> "s"]), Of("for_ns", "duration", [unit |-> "ns"]),
      Of("pay", "amount", AmountTag(Is(1))),
      Of("owe", "amount", [AmountTag(Is(2)) EXCEPT !.threshold = NoThreshold]),
      Of("note", "bytes", [encoding |-> "text", max_len |-> NoMaxLen]),
      Of("hash", "bytes", [encoding |-> "hex", max_len |-> 2]),
      Of("sub", "subaccount", Mark), Of("who", "account", Mark), Of("count", "describe", Mark),
      Of("label", "text", [max_len |-> 2, pattern |-> NoPattern]),
      Of("note_to", "named", [set |-> "labels", by |-> "show"]),
      Tagged(On("book"), "names", Labels)>>
ReadDocs ==
    {<<Doc("readings", "author", Readings)>>,
     <<Doc("fields", "author",
           <<In(<<"list", "[]", "hidden">>, "ui", Hidden),
             In(<<"pick", "Maybe">>, "amount", AmountTag(Is(0))),
             Of("at_ns", "timestamp", TimeTag("ns")), Of("at_ns", "amount", AmountTag(Is(0))),
             Of("label", "text", [max_len |-> NoMaxLen,
                                  pattern |-> [NoPattern EXCEPT !.given = TRUE,
                                                                !.matches = {<<3>>}]]),
             Of("label", "range", [max_len |-> 2, min_len |-> 1])>>)>>,
     <<Doc("more", "third_party",
           <<In(<<"list", "[]", "flag">>, "ui", Hidden),
             In(<<"list", "[]", "hidden">>, "default", NullDefault("auto")),
             In(<<"pick", "Maybe">>, "amount", AmountTag(Is(0))),
             Of("label", "text", [max_len |-> 1, pattern |-> [NoPattern EXCEPT !.runs = FALSE]])>>),
       Doc("readings", "author", Readings)>>,
     <<Doc("units", "author", <<Of("pay", "timestamp", TimeTag("s"))>>)>>,
     <<Doc("auto", "author",
           <<In(<<"list", "[]", "hidden">>, "default", NullDefault("auto")),
             In(<<"pick", "Maybe">>, "amount", AmountTag(Is(0)))>>)>>}
Labelled(name, label) == Object(<<Entry("name", name), Entry("account", label)>>)
Reading1 ==
    [envelope |-> ReadEnvelope, docs |-> ReadDocs, refs |-> << >>, sets |-> {"labels"},
     listings |-> {NotReplied, Reply(<<Labelled(Word("alice"), String(<<3, 3>>))>>)}]

MCSubjects ==
    [envelope : Written \cup Faulty, docs : {{}}, refs : {<< >>}, sets : {{}}, listings : {{}}]
    \cup {Started(Ledger, LedgerDocs), Started(LedgerClass, {<<Author, Pack>>}),
          Started(OldLedger, {<<Pack>>, <<Author, Pack>>}),
          [Started(Ledger, {<<Pack>>}) EXCEPT !.refs = << >>],
          [envelope |-> Commands, docs |-> CommandDocs, refs |-> << >>, sets |-> {},
           listings |-> {NotReplied}],
          Reading1}
MCClocks == {9, 75}

-----------------------------------------------------------------------------
\* Inputs: one that every position takes, and those that differ from it in one.

Unstyled(units) == Text("plain", << >>, units)
Amt(whole, frac) == Amount(FALSE, whole, frac, NoSymbol)
NoParts ==
    [weeks |-> NoPart, days |-> NoPart, hours |-> NoPart, minutes |-> NoPart,
     seconds |-> NoPart]
Lasting(part, n, frac) == Duration(FALSE, FALSE, [NoParts EXCEPT ![part] = n], frac)
OnDay(year, month, day, frac) == Instant(year, month, day, 0, 1, 1, frac, UtcZone)
East == [negative |-> FALSE, hours |-> 0, minutes |-> 1]
Amounts ==
    {Amt(<<1>>, << >>), Amt(<<1>>, <<1>>), Amt(<<0>>, <<0, 1>>), Amt(<<0>>, <<0, 0, 1>>),
     Amt(<<1, 1>>, <<1>>), Amt(<<0>>, << >>), Amt(<<0, 1>>, << >>),
     Amount(TRUE, <<1>>, << >>, NoSymbol), Amount(TRUE, <<0>>, << >>, NoSymbol),
     Amount(FALSE, <<1>>, << >>, [Tok EXCEPT !.upper = FALSE]),
     Amount(FALSE, <<1>>, << >>, [name |-> "other", upper |-> TRUE])}
Times ==
    {OnDay(1970, 1, 1, <<0, 0, 1>>), OnDay(1970, 1, 1, <<0>>), OnDay(1972, 2, 29, << >>),
     OnDay(1900, 2, 29, << >>), OnDay(1970, 1, 1, <<0, 0, 0, 1>>), OnDay(9999, 12, 31, << >>),
     OnDay(1969, 12, 31, <<1>>), OnDay(1970, 2, 31, << >>), OnDay(2000, 3, 1, << >>),
     Instant(1970, 1, 1, 1, 0, 1, <<0, 0, 1>>, East), Instant(1970, 1, 1, 2, 0, 0, << >>, UtcZone),
     Relative(Lasting("minutes", 1, << >>)), Relative(Lasting("seconds", 2, << >>)),
     Relative(Lasting("days", 1, << >>)), Relative(Lasting("seconds", 0, <<0, 0, 1>>)),
     Relative(Duration(TRUE, FALSE, NoParts, << >>))}
Durations ==
    {Lasting("minutes", 1, << >>), Lasting("seconds", 2, << >>), Lasting("weeks", 1, << >>),
     Lasting("hours", 3, << >>), Lasting("seconds", 0, <<0, 0, 1>>), Lasting("seconds", 0, << >>),
     Duration(TRUE, FALSE, [NoParts EXCEPT !.days = 1, !.seconds = 1], <<1>>),
     Duration(FALSE, TRUE, NoParts, << >>), Duration(FALSE, FALSE, NoParts, << >>)}
Byteses ==
    {Unstyled(<<3>>), Unstyled(<<3, 2>>), Unstyled(<<7>>), Unstyled(<<1, 3>>), Unstyled(<< >>),
     Hex(<<3>>, TRUE), Hex(<<1, 3>>, TRUE), Hex(<<7>>, TRUE), Hex(<<3, 3, 3>>, TRUE)}
Subaccounts ==
    {Numbered(0), Numbered(1), Numbered(8), Amt(<<1>>, << >>), Hex(<<0, 1>>, FALSE),
     Hex(<<0, 0>>, FALSE), Hex(<<1, 0>>, FALSE), Hex(<<1>>, FALSE)}
Accounts ==
    {Account(<<1>>, NoChecksum, NoDot), Account(<<2>>, NoChecksum, NoDot),
     Account(<<1>>, Checksum(<<1>>, <<0, 1>>), After(<<1>>)),
     Account(<<1>>, Checksum(<<2>>, <<0, 1>>), After(<<1>>)),
     Account(<<1>>, Checksum(<<1>>, <<0, 1>>), After(<<0, 1>>)),
     Account(<<1>>, NoChecksum, After(<<1>>)),
     Word("alice"), Word("bob"), Word("carol")}
Pool(read) ==
    CASE read = "amount" -> Amounts
      [] read = "timestamp" -> Times
      [] read = "duration" -> Durations
      [] read = "bytes" -> Byteses
      [] read = "subaccount" -> Subaccounts
      [] read \in {"account", "principal"} -> Accounts
      [] read = "integer" -> Amounts
      [] read = "bool" -> {Text("bool", [truth |-> TRUE], <<3>>), Word("maybe")}
      [] read = "text" -> {Unstyled(<<3>>), Unstyled(<<3, 3>>), Unstyled(<<3, 3, 3>>), Unstyled(<<7>>),
                           Unstyled(<< >>), Word("alice")}
Usual(read) ==
    CASE read \in {"amount", "integer"} -> Amt(<<1>>, << >>)
      [] read = "timestamp" -> OnDay(1970, 1, 1, <<0>>)
      [] read = "duration" -> Lasting("seconds", 2, << >>)
      [] read \in {"bytes", "text"} -> Unstyled(<<3>>)
      [] read = "subaccount" -> Numbered(1)
      [] read \in {"account", "principal"} -> Account(<<1>>, NoChecksum, NoDot)
      [] read = "bool" -> Text("bool", [truth |-> TRUE], <<3>>)
TagOnly(key) == Object(<<Entry("tag", Tag(key))>>)
TagWith(key, value) == Object(<<Entry("tag", Tag(key)), Entry("value", value)>>)
RECURSIVE Base(_)
Base(node) ==
    CASE ReadAs(node) # NotGiven -> Usual(ReadAs(node))
      [] ReadAs(node) = NotGiven /\ node.candid = "record" ->
           LET inputs == SelectSeq([i \in DOMAIN node.members |-> i], LAMBDA i : i \in Inputs(node))
           IN  Object([k \in DOMAIN inputs |->
                   Entry(node.members[inputs[k]].key, Base(node.members[inputs[k]].node))])
      [] ReadAs(node) = NotGiven /\ node.candid = "variant" ->
           IF ReadAsNothing(node.members[1].node) THEN TagOnly(node.members[1].key)
           ELSE TagWith(node.members[1].key, Base(node.members[1].node))
      [] ReadAs(node) = NotGiven /\ node.candid = "vec" -> Array(<<Base(node.members[1].node)>>)
      [] OTHER -> Null
Put(object, key, value) ==
    Object([i \in DOMAIN object.fields |->
               IF object.fields[i].key = key THEN Entry(key, value) ELSE object.fields[i]])
Lacking(object, key) == Object(SelectSeq(object.fields, LAMBDA f : f.key # key))
RECURSIVE Tried(_)
Tried(node) ==
    {Base(node), Null, Array(<< >>), Object(<< >>)} \cup
    (CASE ReadAs(node) # NotGiven -> Pool(ReadAs(node))
       [] ReadAs(node) = NotGiven /\ node.candid = "record" ->
            UNION {LET m == node.members[i]
                   IN  {Lacking(Base(node), m.key)}
                       \cup IF HasKey(Base(node), m.key)
                            THEN {Put(Base(node), m.key, v) : v \in Tried(m.node)}
                            ELSE {Object(Append(Base(node).fields, Entry(m.key, Base(m.node))))} :
                     i \in DOMAIN node.members}
       [] ReadAs(node) = NotGiven /\ node.candid = "variant" ->
            {TagOnly(node.members[i].key) : i \in DOMAIN node.members}
            \cup UNION {{TagWith(node.members[i].key, v) : v \in Tried(node.members[i].node)} :
                          i \in DOMAIN node.members}
       [] ReadAs(node) = NotGiven /\ node.candid = "vec" ->
            {Array(<<v>>) : v \in Tried(node.members[1].node)}
            \cup {Array([i \in 1..n |-> Base(node.members[1].node)]) : n \in 2..3}
       [] OTHER -> {Word("x")})
MCInputsOf(p) ==
    LET base == Object([i \in DOMAIN p.params |-> Entry(p.params[i].name, Base(p.params[i].node))])
    IN  {base, Null, Object(Append(base.fields, Entry("other", Null)))}
        \cup UNION {{Put(base, p.params[i].name, v) : v \in Tried(p.params[i].node)}
                      \cup {Lacking(base, p.params[i].name)} : i \in DOMAIN p.params}

\* The inputs that differ from one in no more than one parameter.
MCRepeatsOf(p, input) ==
    {x \in {y \in MCInputsOf(p) : {y.is, input.is} = {"object"}} :
       Cardinality({i \in DOMAIN p.params :
                      GivenAt(x, p.params[i].name) # GivenAt(input, p.params[i].name)}) <= 1}

\* Replies: every case, and of other values one.
RECURSIVE MCRepliesOf(_)
MCRepliesOf(node) ==
    CASE node.candid = "variant" ->
           UNION {IF node.members[i].node.candid = "null" THEN {TagOnly(node.members[i].key)}
                  ELSE {TagWith(node.members[i].key, v) : v \in MCRepliesOf(node.members[i].node)} :
                    i \in DOMAIN node.members}
      [] node.candid = "record" ->
           LET replies == [i \in DOMAIN node.members |-> MCRepliesOf(node.members[i].node)]
           IN  {Object([i \in DOMAIN node.members |-> Entry(node.members[i].key, f[i])]) :
                  f \in {g \in [DOMAIN node.members -> UNION {replies[i] : i \in DOMAIN replies}] :
                           \A i \in DOMAIN replies : g[i] \in replies[i]}}
      [] node.candid = "text" -> {String(<<3>>)}
      [] OTHER -> {BigInt(1)}
=============================================================================
