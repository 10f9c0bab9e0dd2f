------------------------------- MODULE Profiles -------------------------------
(***************************************************************************)
(* The resolver: profiles and packs, checked against an interface and      *)
(* merged into one resolved form.                                          *)
(*                                                                         *)
(* A document is [name, origin, pack, fits, annotations]; `fits` is what   *)
(* its schema, its binding or its match found: invalid, unmatched, bound   *)
(* or rebound.  An annotation is [at, tag, args].  What does not hold of a *)
(* pack applied to this service is dropped; of a profile, an error.        *)
(***************************************************************************)
EXTENDS Interfaces

NoRel == [index |-> -2, labels |-> << >>]
NoGrant == [given |-> FALSE]

CaseTags == {"intent", "effect"}
ConfirmKinds == {"transfer", "approve", "admin", "destroy"}
ConversionTags ==
    {"amount", "timestamp", "duration", "account", "subaccount", "bytes", "named"}
StaleCodes ==
    {"E_ADDR_UNRESOLVED", "E_TYPE_NODE", "E_TAG_NOT_APPLICABLE", "E_REF_UNRESOLVED",
     "E_REF_NOT_QUERY", "E_REF_SHAPE", "E_REF_TYPE", "E_STAMP_UNTAGGED", "E_OUTCOME_NOT_CASE",
     "E_TEMPLATE_PATH", "E_TAG_TARGET", "E_NAMES_MODE", "E_NAMES_SHAPE", "E_NAMES_FIELD",
     "E_NAMED_SET", "E_NAMED_TYPE", "E_CASE_OVERLAP", "E_CASE_EFFECT", "E_GRANT"}

\* The documents used, each once, by layer and then as given.
Usable(docs) ==
    FoldLeft(LAMBDA so, d : IF \/ d.fits \in {"invalid", "unmatched"}
                               \/ \E i \in DOMAIN so : so[i].name = d.name
                            THEN so ELSE Append(so, d),
             << >>, docs)
Ordered(docs) ==
    FoldLeft(LAMBDA so, layer : so \o SelectSeq(Usable(docs), LAMBDA d : d.origin = layer),
             << >>, Layers)

-----------------------------------------------------------------------------
\* The first pass: every address resolved, every tag filed under its key.  In a
\* layer the first of two equal tags stands, and two different ones conflict.

Trimmed(iface, item, a) ==
    IF item.pack /\ a.tag = "outcome"
    THEN [a.args EXCEPT !.keys = SelectSeq(@, LAMBDA key :
             LET walked == RelativeTo(iface, a.at.name, "results", key.path)
             IN  walked.is # "fault" /\ IsCase(iface, walked))]
    ELSE a.args
Refuse(so, i, code) == [so EXCEPT !.diags = @ \cup {[item |-> i, code |-> code]}]
File(iface, items, so, i, a) ==
    LET item == items[i]
        res == Address(iface, a.at)
        same == {j \in DOMAIN so.entries :
                   /\ so.entries[j].origin = item.origin
                   /\ so.entries[j].tag = a.tag /\ so.entries[j].key = res.key}
    IN  IF item.pack /\ a.at.kind = "type" THEN Refuse(so, i, "E_PACK_TYPE_REF")
        ELSE IF res.is = "fault" THEN IF item.pack THEN so ELSE Refuse(so, i, res.code)
        ELSE IF \E j \in same : so.entries[j].args = a.args THEN so
        ELSE IF same # {} THEN Refuse(so, i, "E_CONFLICT")
        ELSE [so EXCEPT !.entries = Append(@,
                 [item |-> i, pack |-> item.pack, origin |-> item.origin, at |-> a.at,
                  tag |-> a.tag, args |-> Trimmed(iface, item, a), key |-> res.key, res |-> res])]
Filed(iface, items) ==
    FoldLeft(LAMBDA all, i : FoldLeft(LAMBDA so, a : File(iface, items, so, i, a),
                                      all, items[i].annotations),
             [entries |-> << >>, diags |-> {}], [i \in DOMAIN items |-> i])

-----------------------------------------------------------------------------
\* The checks of one entry.  `tags` are all the entries, as a set.

Reporting(holds, code) == IF holds THEN {} ELSE {code}
Unaddressed(iface, method, side, rel) ==
    Reporting(RelativeTo(iface, method, side, rel).is # "fault", "E_ADDR_UNRESOLVED")
ModeOf(iface, e) == iface.methods[e.at.name].mode

EffectProblems(mode, effect) ==
    Reporting(/\ mode \in {"update", "oneway"} \/ effect.kind = "read"
              /\ effect.replicated => /\ mode = "update" /\ effect.kind = "read"
                                      /\ ~effect.irreversible,
              "E_EFFECT_MODE")

\* Where two paths of one argument part: the kind of that type, if they do.
RECURSIVE PartAt(_, _, _, _)
PartAt(types, ref, a, b) ==
    IF a = << >> \/ b = << >> THEN NotGiven
    ELSE IF Head(a) # Head(b) THEN types[UnwrapOpt(types, ref)].kind
    ELSE PartAt(types, Walk(types, ref, <<Head(a)>>).ref, Tail(a), Tail(b))
OtherCase(iface, at, rel) ==
    LET index == IF rel.index = NoIndex THEN 0 ELSE rel.index
    IN  /\ index = at.index
        /\ PartAt(iface.types, Tuple(iface, at.name, "args")[index + 1], Ids(at.labels),
                  Ids(rel.labels)) = "variant"
Overlap(iface, a, b) ==
    \/ a.index # b.index
    \/ PartAt(iface.types, Tuple(iface, a.name, "args")[a.index + 1], Ids(a.labels),
              Ids(b.labels)) \notin {NotGiven, "variant"}

\* A placeholder in an optional segment of a pack's template may be absent.
TemplateProblems(iface, e) ==
    LET Holds(hole) ==
            \/ RelativeTo(iface, e.at.name, "args", hole.path).is = "fault"
                 /\ e.pack /\ hole.optional
            \/ /\ RelativeTo(iface, e.at.name, "args", hole.path).is # "fault"
               /\ e.res.is = "position" => ~OtherCase(iface, e.at, hole.path)
    IN  Reporting(e.args.balanced, "E_TEMPLATE")
        \cup Reporting(~e.args.balanced \/ \A i \in DOMAIN e.args.holes : Holds(e.args.holes[i]),
                       "E_TEMPLATE_PATH")

\* An intent or an effect on a value sits on a case of an argument.
IsCaseTarget(iface, e) ==
    /\ e.at.kind = "args"
    /\ \A i \in DOMAIN e.at.labels : e.at.labels[i] # "[]"
    /\ IsCase(iface, e.res)
IsCaseEntry(iface, e) == e.tag \in CaseTags /\ e.res.is = "position" /\ IsCaseTarget(iface, e)
OnCaseProblems(iface, e) ==
    IF ~IsCaseTarget(iface, e) THEN {"E_TAG_TARGET"}
    ELSE IF e.tag = "effect" THEN EffectProblems(ModeOf(iface, e), e.args)
    ELSE TemplateProblems(iface, e)

HasTag(iface, tags, position, tag) == tag \in DOMAIN TagsAt(iface, tags, position)
StampTagged(iface, tags, e) ==
    LET stamp == RelativeTo(iface, e.at.name, "args", e.args.stamp)
    IN  stamp.is # "fault" => HasTag(iface, tags, stamp, "timestamp")
IdempotencyProblems(iface, tags, e) ==
    Reporting(ModeOf(iface, e) = "update", "E_IDEMPOTENCY_MODE")
    \cup Unaddressed(iface, e.at.name, "args", e.args.stamp)
    \cup Reporting(StampTagged(iface, tags, e), "E_STAMP_UNTAGGED")

OutcomeProblems(iface, e) ==
    UNION {LET walked == RelativeTo(iface, e.at.name, "results", e.args.keys[i].path)
           IN  IF walked.is = "fault" THEN {"E_ADDR_UNRESOLVED"}
               ELSE Reporting(IsCase(iface, walked), "E_OUTCOME_NOT_CASE") :
             i \in DOMAIN e.args.keys}

\* A names set: a method without arguments whose answer has a vec of records.
ReplicatedRead(mode, tags, method) ==
    LET own == MethodTags(tags, method)
    IN  /\ mode = "update" /\ "effect" \in DOMAIN own
        /\ own.effect.kind = "read" /\ ~own.effect.irreversible /\ own.effect.replicated
NamesItems(iface, e) == RelativeTo(iface, e.at.name, "results", e.args.items)
ItemsAreRecords(iface, items) ==
    LET vec == iface.types[UnwrapOpt(iface.types, items.ref)]
    IN  vec.kind = "vec" /\ iface.types[UnwrapOpt(iface.types, vec.inner)].kind = "record"
NamesField(iface, e, field) ==
    RelativeTo(iface, e.at.name, "results",
               [index |-> e.args.items.index,
                labels |-> e.args.items.labels \o <<"[]">> \o e.args[field].labels])
NamesGiven(e) == {field \in {"name", "value", "show"} : e.args[field] # NoRel}
IsText(iface, ref) == iface.types[UnwrapOpt(iface.types, ref)].kind = "text"
Declares(iface, e) ==
    LET items == NamesItems(iface, e)
    IN  /\ e.tag = "names" /\ items.is # "fault" /\ ItemsAreRecords(iface, items)
        /\ \A field \in {"name", "value"} : NamesField(iface, e, field).is # "fault"
        /\ IsText(iface, NamesField(iface, e, "name").ref)
NamesProblems(iface, tags, earlier, e) ==
    LET mode == ModeOf(iface, e)
        items == NamesItems(iface, e)
        read == items.is # "fault" /\ ItemsAreRecords(iface, items)
        unread == {field \in NamesGiven(e) : NamesField(iface, e, field).is = "fault"}
    IN  Reporting(\/ mode \in {"query", "composite_query"}
                  \/ ReplicatedRead(mode, tags, e.at.name), "E_NAMES_MODE")
        \cup Reporting(/\ iface.methods[e.at.name].args = << >>
                       /\ items.is = "fault" \/ read, "E_NAMES_SHAPE")
        \cup Reporting(items.is # "fault", "E_ADDR_UNRESOLVED")
        \cup Reporting(~read \/ unread = {}, "E_ADDR_UNRESOLVED")
        \cup Reporting(~read \/ "name" \in unread
                         \/ IsText(iface, NamesField(iface, e, "name").ref), "E_NAMES_FIELD")
        \cup Reporting(~Declares(iface, e)
                         \/ \A d \in earlier : ~(Declares(iface, d) /\ d.args.set = e.args.set),
                       "E_NAMES_SET_DUPLICATE")
SetNamed(iface, entries, set) ==
    {i \in DOMAIN entries : /\ Declares(iface, entries[i]) /\ entries[i].args.set = set}
NamedProblems(iface, entries, e) ==
    LET sets == SetNamed(iface, entries, e.args.set)
        set == entries[Min(sets)]
        field == NamesField(iface, set, e.args.by)
    IN  IF sets = {} THEN {"E_NAMED_SET"}
        ELSE IF e.args.by \notin NamesGiven(set) \/ field.is = "fault" THEN {"E_NAMED_SET"}
        ELSE Reporting(UnwrapOpt(iface.types, e.res.ref) = UnwrapOpt(iface.types, field.ref),
                       "E_NAMED_TYPE")

ListProblems(iface, e) ==
    Unaddressed(iface, e.at.name, "args", e.args.cursor)
    \cup Unaddressed(iface, e.at.name, "results", e.args.next)
    \cup Unaddressed(iface, e.at.name, "results", e.args.items)

Applicable(iface, tag, ref) ==
    LET at == UnwrapOpt(iface.types, ref)
        kind == iface.types[at].kind
    IN  CASE tag = "amount" -> kind \in Integral
          [] tag \in {"timestamp", "duration"} -> kind \in TimeTypes
          [] tag = "account" -> IsAccount(iface.types, at)
          [] tag \in {"subaccount", "bytes"} -> kind = "blob"
          [] tag = "text" -> kind = "text"
          [] tag = "range" -> kind \in Integral \cup {"text", "vec", "blob"}
          [] OTHER -> TRUE
DynamicProblems(iface, arg, want) ==
    LET m == iface.methods[arg.from]
        kind == iface.types[UnwrapOpt(iface.types, m.results[1])].kind
    IN  IF arg.from = NotGiven THEN {}
        ELSE IF arg.from \in {"now", "caller"} THEN Reporting(want = "any", "E_DYNAMIC_KIND")
        ELSE IF arg.from \notin DOMAIN iface.methods THEN {"E_REF_UNRESOLVED"}
        ELSE Reporting(m.mode \in {"query", "composite_query"}, "E_REF_NOT_QUERY")
             \cup IF m.args # << >> \/ Len(m.results) # 1 THEN {"E_REF_SHAPE"}
                  ELSE Reporting(/\ want = "numeric" => kind \in Integral
                                 /\ want = "text" => kind = "text", "E_REF_TYPE")
ValueProblems(iface, entries, e) ==
    Reporting(Applicable(iface, e.tag, e.res.ref), "E_TAG_NOT_APPLICABLE")
    \cup (CASE e.tag = "named" -> NamedProblems(iface, entries, e)
            [] e.tag = "amount" -> DynamicProblems(iface, e.args.decimals, "numeric")
                                     \cup DynamicProblems(iface, e.args.symbol, "text")
            [] e.tag = "default" ->
                 Reporting(e.args.value = "null" => iface.types[e.res.ref].kind = "opt",
                           "E_DEFAULT_NULL")
                 \cup DynamicProblems(iface, e.args, "any")
            [] OTHER -> {})

\* Two cases of a method with one tag exclude each other or nest, and an effect
\* on a case is no stronger than the method's.
CaseProblems(iface, tags, earlier, e) ==
    LET own == MethodTags(tags, e.at.name)
        method == IF "effect" \in DOMAIN own THEN own.effect ELSE DefaultEffect(ModeOf(iface, e))
    IN  Reporting(\A d \in earlier :
                      \/ ~IsCaseEntry(iface, d) \/ d.tag # e.tag \/ d.at.name # e.at.name
                      \/ d.key = e.key \/ ~Overlap(iface, d.at, e.at), "E_CASE_OVERLAP")
        \cup Reporting(\/ e.tag # "effect"
                       \/ /\ e.args.kind \in ConfirmKinds => method.kind \in ConfirmKinds
                          /\ e.args.irreversible => method.irreversible, "E_CASE_EFFECT")

Problems(iface, entries, i) ==
    LET e == entries[i]
        tags == {entries[j] : j \in DOMAIN entries}
        earlier == {entries[j] : j \in 1..i - 1}
    IN  IF e.res.is = "position" /\ e.tag \in CaseTags
        THEN OnCaseProblems(iface, e)
               \cup IF IsCaseEntry(iface, e) THEN CaseProblems(iface, tags, earlier, e) ELSE {}
        ELSE IF e.res.is = "position" THEN ValueProblems(iface, entries, e)
        ELSE CASE e.tag = "effect" -> EffectProblems(ModeOf(iface, e), e.args)
               [] e.tag = "intent" -> TemplateProblems(iface, e)
               [] e.tag = "idempotency" -> IdempotencyProblems(iface, tags, e)
               [] e.tag = "outcome" -> OutcomeProblems(iface, e)
               [] e.tag = "names" -> NamesProblems(iface, tags, earlier, e)
               [] e.tag = "list" -> ListProblems(iface, e)
               [] OTHER -> {}

-----------------------------------------------------------------------------
\* A grant: who may take how much until when, each a value every call holds.

GrantFits(want, kind, has) ==
    CASE want = "party" -> "account" \in has
      [] want = "amount" ->
           kind = "bool" \/ ("amount" \in has /\ kind \in Integral /\ ~IsSigned(kind))
      [] want = "end" -> "timestamp" \in has
GrantValue(iface, tags, method, rel, want) ==
    LET r == RelativeTo(iface, method, "args", rel)
        ids == Ids(rel.labels)
        start == Tuple(iface, method, "args")[(IF rel.index = NoIndex THEN 0 ELSE rel.index) + 1]
        At(n) == Walk(iface.types, start, SubSeq(ids, 1, n)).ref
    IN  /\ r.is # "fault" /\ \A i \in DOMAIN ids : ids[i] # ElementId
        /\ \A n \in 0..Len(ids) - 1 :
             iface.types[UnwrapOpt(iface.types, At(n))].kind # "variant"
        /\ want = "end" \/ \A n \in 0..Len(ids) : iface.types[At(n)].kind # "opt"
        /\ GrantFits(want, iface.types[UnwrapOpt(iface.types, r.ref)].kind,
                     DOMAIN TagsAt(iface, tags, r))
GrantHolds(iface, tags, method, effect) ==
    LET grant == effect.grant
    IN  /\ effect.kind \in {"transfer", "approve"}
        /\ (grant.spender = NoRel) # (grant.to = NoRel)
        /\ effect.kind = "approve" => grant.to = NoRel
        /\ GrantValue(iface, tags, method, IF grant.to = NoRel THEN grant.spender ELSE grant.to,
                      "party")
        /\ GrantValue(iface, tags, method, grant.amount, "amount")
        /\ \A i \in DOMAIN grant.ends :
             GrantValue(iface, tags, method, grant.ends[i], "end")

-----------------------------------------------------------------------------
\* The analysis, and what the resolver answers.

ProblemsOf(iface, entries) == [i \in DOMAIN entries |-> Problems(iface, entries, i)]
Dropped(entries, codes) == {i \in DOMAIN entries : entries[i].pack /\ codes[i] # {}}
Without(entries, dropped) == {entries[j] : j \in DOMAIN entries \ dropped}

\* Grants that do not hold, or no longer once entries were dropped.
Ungranted(iface, entries, dropped) ==
    LET Granted(i, among) == GrantHolds(iface, among, entries[i].at.name, entries[i].args)
    IN  {i \in {j \in DOMAIN entries : entries[j].tag = "effect" /\ entries[j].args.grant.given} :
           IF entries[i].res.is = "position" THEN IsCaseTarget(iface, entries[i])
           ELSE \E gone \in {{}} \cup (IF i \in dropped THEN {} ELSE {dropped}) :
                    ~Granted(i, Without(entries, gone))}
Stampless(iface, entries, dropped) ==
    {i \in DOMAIN entries \ dropped :
       /\ dropped # {} /\ entries[i].pack /\ entries[i].tag = "idempotency"
       /\ ~StampTagged(iface, Without(entries, dropped), entries[i])}
Diags(filed, codes, ungranted) ==
    LET spoken == {j \in DOMAIN filed.entries : ~filed.entries[j].pack}
        Diag(i, code) == [item |-> filed.entries[i].item, code |-> code]
    IN  filed.diags \cup UNION {{Diag(i, code) : code \in codes[i]} : i \in spoken}
          \cup {Diag(i, "E_GRANT") : i \in ungranted \cap spoken}
Stale(items, diags) ==
    {i \in DOMAIN items : /\ items[i].fits = "rebound"
                          /\ \E d \in diags : d.item = i /\ d.code \in StaleCodes}
Analyzed(entries, gone, ungranted, diags, stale) ==
    LET kept == {i \in DOMAIN entries \ gone :
                   ~(entries[i].item \in stale /\ entries[i].tag \in ConversionTags)}
    IN  [ok |-> diags = {}, usable |-> \A d \in diags : d.item \in stale, stale |-> stale,
         entries |-> {IF i \in ungranted /\ entries[i].pack
                      THEN [entries[i] EXCEPT !.args.grant = NoGrant] ELSE entries[i] : i \in kept}]
Drop(iface, items, filed, codes, dropped, ungranted) ==
    LET diags == Diags(filed, codes, ungranted)
    IN  Analyzed(filed.entries, dropped \cup Stampless(iface, filed.entries, dropped), ungranted,
                 diags, Stale(items, diags))
Check(iface, items, filed, codes, dropped) ==
    Drop(iface, items, filed, codes, dropped, Ungranted(iface, filed.entries, dropped))
Judge(iface, items, filed, codes) ==
    Check(iface, items, filed, codes, Dropped(filed.entries, codes))
Analyze(iface, items, filed) == Judge(iface, items, filed, ProblemsOf(iface, filed.entries))
Analysis(iface, items) == Analyze(iface, items, Filed(iface, items))
Answer(iface, docs, items, analysis) ==
    [ok |-> analysis.ok /\ \A i \in DOMAIN docs : docs[i].fits # "invalid",
     usable |-> analysis.usable, stale |-> {items[i].name : i \in analysis.stale},
     form |-> ResolvedForm(iface, analysis.entries)]
Resolved(iface, docs) == Answer(iface, docs, Ordered(docs), Analysis(iface, Ordered(docs)))
=============================================================================
