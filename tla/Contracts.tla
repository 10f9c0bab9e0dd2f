------------------------------ MODULE Contracts ------------------------------
(***************************************************************************)
(* `schemaFromContract`: a Contract document from outside, alone or in an  *)
(* envelope that brings field names, is refused with the codes of what is  *)
(* wrong with it or becomes one schema for each declaration that a         *)
(* generated module could export.                                          *)
(*                                                                         *)
(* A JSON object is a record whose keys are those it has; a value that is  *)
(* no object is NotAnObject, and a key that holds no array where one is    *)
(* due is absent, as is one that holds no number.  References count from   *)
(* 0; -1 stands for the numbers that are none.                             *)
(***************************************************************************)
EXTENDS CandidTypes, TLC

CONSTANTS
    LabelHash,     \* honest names of fields and methods, and their Candid hash
    Renderings,    \* how an id without a name is rendered, `_id_`
    Unbindable     \* declaration names that are not identifier-shaped

NumericShaped == {Renderings[id] : id \in DOMAIN Renderings}

NotAnObject == [scalar |-> TRUE]
IsObject(value) == "scalar" \notin DOMAIN value
Has(object, key) == key \in DOMAIN object
Code(code, wrong) == IF wrong THEN {code} ELSE {}
Strange(object, allowed) == Code("unknown_key", DOMAIN object \ allowed # {})

Invalid == "invalid_contract_document"
Dangling == "dangling_type_ref"
OverLimit == "resource_limit_exceeded"

Markers == [format |-> "candid-core", format_version |-> "1", semantics_profile |-> "candid-1",
            canonicalization_profile |-> "candid-core-canon-1"]
MarkerCode == [format |-> "unsupported_contract_format",
               format_version |-> "unsupported_format_version",
               semantics_profile |-> "unsupported_semantics_profile",
               canonicalization_profile |-> "unsupported_canonicalization_profile"]
ContractKeys == DOMAIN Markers \cup {"identities", "producer", "types", "declarations", "actor"}
NodeKeys == [primitive |-> {"kind", "primitive"}, opt |-> {"kind", "inner"},
             vec |-> {"kind", "inner"}, record |-> {"kind", "fields"},
             variant |-> {"kind", "fields"}, func |-> {"kind", "args", "results", "mode"},
             service |-> {"kind", "methods"}, class |-> {"kind", "init", "service"}]

-----------------------------------------------------------------------------
\* Pass one: each node alone.  `room` is how many more fields, arguments and
\* methods the document may have; below zero, one was met already.

Refs(types) == 0..Len(types) - 1
RefAt(types, object, key) == Has(object, key) /\ object[key] \in Refs(types)

Allowed(list, room) == SubSeq(list, 1, Min({room, Len(list)}))

\* refList, when `before` other references of the node were counted.
ListFaults(types, node, key, room, before) ==
    IF ~Has(node, key) THEN {Invalid}
    ELSE LET seen == Allowed(node[key], room - before)
         IN  Code(Dangling, \E i \in DOMAIN seen : seen[i] \notin Refs(types))
               \cup Code(OverLimit, node[key] # << >> /\ Len(node[key]) > room - before)

IdOf(field) == IF IsObject(field) /\ Has(field, "id") THEN field.id ELSE -1
FieldFault(types, fields, i) ==
    IF IdOf(fields[i]) \notin Nat THEN {Invalid}
    ELSE IF \E j \in 1..i - 1 : IdOf(fields[j]) = IdOf(fields[i]) THEN {"duplicate_field_id"}
    ELSE Code(Dangling, ~RefAt(types, fields[i], "type"))

\* A method's id is the hash of its name; a name may not be used again.
Whole(method) == IsObject(method) /\ {"name", "id", "function"} \subseteq DOMAIN method
Named(method) == Whole(method) /\ method.name # "" /\ LabelHash[method.name] = method.id
MethodFault(types, methods, i) ==
    IF \/ ~Named(methods[i])
       \/ \E j \in 1..i - 1 : Named(methods[j]) /\ methods[j].name = methods[i].name
    THEN {Invalid} ELSE Code(Dangling, methods[i].function \notin Refs(types))

\* What makes a node unsound, and whether it has keys it should not have.
Parsed(faults) == [faults |-> faults, strange |-> {}]
Members(list, Wrong(_), allowed) ==
    [faults |-> UNION {Wrong(i) : i \in DOMAIN list},
     strange |-> UNION {Strange(list[i], allowed) : i \in {i \in DOMAIN list : IsObject(list[i])}}]

FieldsParsed(types, node, room) ==
    IF ~Has(node, "fields") THEN Parsed({Invalid})
    ELSE IF Len(node.fields) > room THEN Parsed({OverLimit})
    ELSE Members(node.fields, LAMBDA i : FieldFault(types, node.fields, i), {"id", "type"})
MethodsParsed(types, node, room) ==
    IF ~Has(node, "methods") THEN Parsed({Invalid})
    ELSE LET seen == Members(Allowed(node.methods, room),
                             LAMBDA i : MethodFault(types, node.methods, i),
                             {"name", "id", "function"})
             over == node.methods # << >> /\ Len(node.methods) > room
         IN  [seen EXCEPT !.faults = @ \cup Code(OverLimit, over)]
LenOf(object, key) == IF Has(object, key) THEN Len(object[key]) ELSE 0
FuncFaults(types, node, room) ==
    ListFaults(types, node, "args", room, 0)
      \cup ListFaults(types, node, "results", room, LenOf(node, "args"))
      \cup Code(Invalid, \/ ~Has(node, "mode")
                         \/ node.mode \notin DOMAIN Modes
                         \/ node.mode = "oneway" /\ LenOf(node, "results") > 0)

PrimitiveNames == Primitives \cup DOMAIN Floats
NodeParsed(types, node, room) ==
    CASE node.kind = "primitive" ->
           Parsed(Code(Invalid, ~Has(node, "primitive") \/ node.primitive \notin PrimitiveNames))
      [] node.kind \in {"opt", "vec"} -> Parsed(Code(Dangling, ~RefAt(types, node, "inner")))
      [] node.kind \in {"record", "variant"} -> FieldsParsed(types, node, room)
      [] node.kind = "func" -> Parsed(FuncFaults(types, node, room))
      [] node.kind = "service" -> MethodsParsed(types, node, room)
      [] node.kind = "class" ->
           Parsed(ListFaults(types, node, "init", room, 0)
                    \cup Code(Dangling, ~RefAt(types, node, "service")))
OfKind(node, kinds) == IsObject(node) /\ Has(node, "kind") /\ node.kind \in kinds
NodeChecked(types, node, room) ==
    IF ~OfKind(node, DOMAIN NodeKeys) THEN Parsed({Invalid})
    ELSE [NodeParsed(types, node, room) EXCEPT
            !.strange = @ \cup Strange(node, NodeKeys[node.kind])]

Charges(node) ==
    IF ~IsObject(node) THEN 0
    ELSE FoldSet(LAMBDA key, sum : sum + LenOf(node, key), 0,
                 {"fields", "args", "results", "methods", "init"})

\* Over the limit a list of references ends; fields and methods end the pass.
PassOne(types, maxFields) ==
    LET parse(sofar, i) ==
            LET parsed == NodeChecked(types, types[i], maxFields - sofar.total)
            IN  IF sofar.over THEN sofar
                ELSE [issues |-> sofar.issues \cup parsed.faults \cup parsed.strange,
                      sound |-> IF parsed.faults = {} THEN sofar.sound \cup {i} ELSE sofar.sound,
                      total |-> sofar.total + Charges(types[i]),
                      over |-> /\ OverLimit \in parsed.faults
                               /\ types[i].kind \in {"record", "variant", "service"}]
    IN  FoldLeft(parse, [issues |-> {}, sound |-> {}, total |-> 0, over |-> FALSE],
                 [i \in DOMAIN types |-> i])

-----------------------------------------------------------------------------
\* Pass two, on sound nodes, and the declarations.

Edges(node) ==
    CASE node.kind = "primitive" -> << >>
      [] node.kind \in {"opt", "vec"} -> <<node.inner>>
      [] node.kind \in {"record", "variant"} -> [i \in DOMAIN node.fields |-> node.fields[i].type]
      [] node.kind = "func" -> node.args \o node.results
      [] node.kind = "service" -> [i \in DOMAIN node.methods |-> node.methods[i].function]
      [] node.kind = "class" -> node.init \o <<node.service>>
KindAt(types, sound, ref) == IF ref + 1 \in sound THEN types[ref + 1].kind ELSE "unsound"
KindsUnder(types, sound, i) == {KindAt(types, sound, ref) : ref \in ToSet(Edges(types[i]))}

\* A class is nested in no opt, vec, record or variant.
Nested(types, sound) ==
    Code("unsupported_construct",
         \E i \in sound : /\ types[i].kind \in {"opt", "vec", "record", "variant"}
                          /\ "class" \in KindsUnder(types, sound, i))

\* A method denotes a func, a class a service.
MisKinded(types, sound) ==
    Code(Invalid, \E i \in sound :
        \/ types[i].kind = "service" /\ ~(KindsUnder(types, sound, i) \subseteq {"func"})
        \/ types[i].kind = "class" /\ KindAt(types, sound, types[i].service) # "service")

NameOf(declaration) ==
    IF IsObject(declaration) /\ Has(declaration, "name") THEN declaration.name ELSE ""
DeclarationFaults(types, declarations, i) ==
    LET declaration == declarations[i]
    IN  (IF IsObject(declaration) THEN Strange(declaration, {"name", "type"}) ELSE {}) \cup
        IF ~IsObject(declaration) \/ ~Has(declaration, "name") THEN {Invalid}
        ELSE IF declaration.name = "" THEN {"empty_declaration_name"}
        ELSE IF \E j \in 1..i - 1 : NameOf(declarations[j]) = declaration.name
        THEN {"duplicate_declaration_name"}
        ELSE Code(Dangling, ~RefAt(types, declaration, "type"))

\* The name table: an entry is a name of its id, and the last one of a place
\* wins.
Honest(entry) ==
    Len(entry) = 3 /\ entry[1] \in Nat /\ entry[2] \in Nat /\ LabelHash[entry[3]] = entry[2]
TableEnds(source, maxNames) ==
    IF ~Has(source, "entries") THEN {"invalid_name_table"}
    ELSE Code(OverLimit, Len(source.entries) > maxNames)
TableFaults(entries) ==
    Code("invalid_name_table", \E i \in DOMAIN entries : ~Honest(entries[i]))
Winners(entries) ==
    FoldLeft(LAMBDA names, e : (<<e[1], e[2]>> :> e[3]) @@ names, << >>, entries)

\* An honest name that looks like a rendering is never a key.
ReservedKeys(winners) == {at \in DOMAIN winners : winners[at] \in NumericShaped}
FieldKey(winners, ref, id) ==
    IF <<ref, id>> \in DOMAIN winners \ ReservedKeys(winners)
    THEN winners[<<ref, id>>] ELSE Renderings[id]

\* The ids are the positions, in order.
TupleShaped_AnyOrder(node) ==
    {node.fields[i].id : i \in DOMAIN node.fields} = 0..Len(node.fields) - 1
TupleShaped(node) == \A i \in DOMAIN node.fields : node.fields[i].id = i - 1
HasKeys(node) ==
    node.kind \in {"record", "variant"} /\ ~(node.kind = "record" /\ TupleShaped(node))
RepeatedKeys(types, winners) ==
    Code("duplicate_field_name",
         \E i \in {i \in DOMAIN types : HasKeys(types[i])} :
             ~IsInjective([k \in DOMAIN types[i].fields |->
                             FieldKey(winners, i - 1, types[i].fields[k].id)]))

-----------------------------------------------------------------------------
\* Of a sound arena: where classes are, the actor, and what no root reaches.

IsClass(types, ref) == types[ref + 1].kind = "class"
ActorClass(contract) ==
    IF Has(contract, "actor") /\ OfKind(contract.actor, {"class"}) /\ Has(contract.actor, "class")
    THEN contract.actor.class ELSE -1
Misplaced(types, contract) ==
    Code(Invalid,
         \/ \E ref \in Refs(types) : IsClass(types, ref) /\ ref # ActorClass(contract)
         \/ \E i \in DOMAIN types : \E ref \in ToSet(Edges(types[i])) : IsClass(types, ref)
         \/ \E i \in DOMAIN contract.declarations : IsClass(types, contract.declarations[i].type))

ActorFaults(types, contract) ==
    LET actor == contract.actor
        target == actor[actor.kind]
        resolved == IF IsClass(types, target) THEN types[target + 1].service ELSE target
    IN  IF ~Has(contract, "actor") THEN {}
        ELSE IF ~OfKind(actor, {"service", "class"}) THEN {Invalid}
        ELSE IF ~Has(actor, actor.kind) THEN {Invalid}
        ELSE IF DOMAIN actor # {"kind", actor.kind} THEN {"unknown_key"}
        ELSE IF target \notin Refs(types) THEN {Dangling}
        ELSE Code(Invalid,
                  \/ actor.kind = "service" /\ types[target + 1].kind \notin {"service", "class"}
                  \/ types[resolved + 1].kind # "service")

Roots(contract) ==
    {contract.declarations[i].type : i \in DOMAIN contract.declarations}
      \cup IF Has(contract, "actor") THEN {contract.actor[contract.actor.kind]} ELSE {}
RefsFrom_Rendered(types, ref) ==
    IF IsClass(types, ref) THEN {types[ref + 1].service} ELSE ToSet(Edges(types[ref + 1]))
RefsFrom(types, ref) == ToSet(Edges(types[ref + 1]))
ReachedFrom(types, roots) ==
    FoldLeft(LAMBDA reached, node : reached \cup UNION {RefsFrom(types, r) : r \in reached},
             roots, types)
Unreached(types, contract) ==
    IF types = << >> THEN {}
    ELSE IF Roots(contract) = {} THEN {"rootless_type_arena"}
    ELSE Code("orphan_type_node", ReachedFrom(types, Roots(contract)) # Refs(types))

-----------------------------------------------------------------------------
\* Construction: every edge is a rec of its own; a node is built once.

Built(types, ref) ==
    LET at == IF IsClass(types, ref) THEN types[ref + 1].service ELSE ref
    IN  "b" \o ToString(at)
Lazy(ref, k) == "l" \o ToString(ref) \o "." \o ToString(k)
Wrap(name) == "d " \o name
RecTo(body) == [kind |-> "rec", body |-> body]

IsBlob(types, node) ==
    LET inner == types[node.inner + 1]
    IN  node.kind = "vec" /\ inner.kind = "primitive" /\ inner.primitive = "nat8"
Build(types, winners, ref, To(_, _)) ==
    LET node == types[ref + 1]
        Keyed(list, Key(_)) == [k \in DOMAIN list |-> [key |-> Key(list[k]), ty |-> To(ref, k)]]
        fields == Keyed(node.fields, LAMBDA f : FieldKey(winners, ref, f.id))
    IN  CASE node.kind = "primitive" -> [kind |-> node.primitive]
          [] IsBlob(types, node) -> [kind |-> "blob"]
          [] node.kind \in {"opt", "vec"} -> [kind |-> node.kind, inner |-> To(ref, 1)]
          [] node.kind = "record" ->
               IF node.fields = << >> THEN [kind |-> "unit"]
               ELSE IF TupleShaped(node)
               THEN [kind |-> "tuple", elements |-> [k \in DOMAIN node.fields |-> To(ref, k)]]
               ELSE [kind |-> "record", fields |-> fields]
          [] node.kind = "variant" -> [kind |-> "variant", arms |-> fields]
          [] node.kind = "func" ->
               [kind |-> "func", mode |-> node.mode,
                args |-> [k \in DOMAIN node.args |-> To(ref, k)],
                results |-> [k \in DOMAIN node.results |-> To(ref, Len(node.args) + k)]]
          [] node.kind = "service" ->
               [kind |-> "service", methods |-> Keyed(node.methods, LAMBDA m : m.name)]

MergedOver(S, F(_)) == FoldSet(LAMBDA x, all : F(x) @@ all, << >>, S)
Arena(types, winners) ==
    MergedOver({ref \in Refs(types) : ~IsClass(types, ref)}, LAMBDA ref :
        (Built(types, ref) :> Build(types, winners, ref, Lazy)) @@
        MergedOver(DOMAIN Edges(types[ref + 1]), LAMBDA k :
            Lazy(ref, k) :> RecTo(Built(types, Edges(types[ref + 1])[k]))))

-----------------------------------------------------------------------------
\* Omission: what a generated module cannot represent, and what references it.

\* Rendered the same at every use, so never by a declaration's name.
RendersStructurally(types, ref) ==
    LET node == types[ref + 1]
    IN  \/ node.kind = "primitive" \/ IsBlob(types, node)
        \/ node.kind \in {"record", "variant"} /\ node.fields = << >>
FirstNames(types, declarations) ==
    LET named == {i \in DOMAIN declarations : ~RendersStructurally(types, declarations[i].type)}
    IN  [ref \in {declarations[i].type : i \in named} |->
            declarations[Min({i \in named : declarations[i].type = ref})].name]

Fine == "none"
NameCause(name) ==
    IF name \in Unbindable THEN "invalid_declaration_name"
    ELSE IF name \in {"actor", "Actor"} THEN "reserved_export_name" ELSE Fine

NeverDomain(node) ==
    \/ node.kind = "primitive" /\ node.primitive = "empty"
    \/ node.kind = "variant" /\ node.fields = << >>
DirectCause(types, first, reserved, ref) ==
    LET node == types[ref + 1]
        taken(f) == <<ref, f.id>> \in reserved
        ambiguous(f) == /\ f.type \in DOMAIN first
                        /\ types[f.type + 1].kind = "opt"
                        /\ NeverDomain(types[types[f.type + 1].inner + 1])
        arms == IF node.kind = "variant"
                THEN SelectSeq(node.fields, LAMBDA f : taken(f) \/ ambiguous(f)) ELSE << >>
    IN  IF node.kind = "record"
        THEN IF HasKeys(node) /\ \E i \in DOMAIN node.fields : taken(node.fields[i])
             THEN "reserved_field_name" ELSE Fine
        ELSE IF arms = << >> THEN Fine
        ELSE IF taken(arms[1]) THEN "reserved_field_name" ELSE "ambiguous_variant_arm"

\* How many edges a node is from a cause; the actor's class has no edges here.
ChildrenOf_Values(node) == IF node.kind \in {"class", "func", "service"} THEN << >> ELSE Edges(node)
ChildrenOf(node) == IF node.kind = "class" THEN << >> ELSE Edges(node)
Distances(types, direct, first) ==
    LET causes == {ref \in Refs(types) : direct[ref] # Fine}
                    \cup {ref \in DOMAIN first : NameCause(first[ref]) # Fine}
        spread(found, k) ==
            found @@ [ref \in {r \in Refs(types) :
                                 ToSet(ChildrenOf(types[r + 1])) \cap DOMAIN found # {}} |-> k]
    IN  FoldLeft(spread, [ref \in causes |-> 0], [i \in DOMAIN types |-> i])

Because(reason) == [reason |-> reason, via |-> Fine]
Via(name) == [reason |-> "references_omitted", via |-> name]
NodeReasons(types, direct, first, distance) ==
    LET reasons[ref \in DOMAIN distance] ==
            LET closer == SelectSeq(ChildrenOf(types[ref + 1]), LAMBDA c :
                              c \in DOMAIN distance /\ distance[c] < distance[ref])[1]
            IN  IF direct[ref] # Fine THEN Because(direct[ref])
                ELSE IF closer \in DOMAIN first THEN Via(first[closer])
                ELSE reasons[closer]
    IN  reasons

\* Declarations and methods left out, each with its reason.
Omitted(kind, name, reason) == [kind |-> kind, name |-> name, because |-> reason]
Omissions(declarations, methods, first, distance, reasons) ==
    LET Declaration(d) ==
            IF NameCause(d.name) # Fine THEN Because(NameCause(d.name))
            ELSE IF d.type \in DOMAIN first /\ first[d.type] # d.name THEN Via(first[d.type])
            ELSE reasons[d.type]
        Method(m) == IF m.function \in DOMAIN first THEN Via(first[m.function])
                     ELSE reasons[m.function]
    IN  {Omitted("declaration", d.name, Declaration(d)) :
           d \in {d \in ToSet(declarations) :
                    NameCause(d.name) # Fine \/ d.type \in DOMAIN distance}} \cup
        {Omitted("method", m.name, Method(m)) :
           m \in {m \in ToSet(methods) : m.function \in DOMAIN distance}}
Spread(types, declarations, methods, first, direct, distance) ==
    Omissions(declarations, methods, first, distance,
              NodeReasons(types, direct, first, distance))
Caused(types, declarations, methods, first, direct) ==
    Spread(types, declarations, methods, first, direct, Distances(types, direct, first))
Analysed(types, declarations, reserved, methods, first) ==
    Caused(types, declarations, methods, first,
           [ref \in Refs(types) |-> DirectCause(types, first, reserved, ref)])
OmissionAnalysis(types, declarations, reserved, methods) ==
    Analysed(types, declarations, reserved, methods, FirstNames(types, declarations))

-----------------------------------------------------------------------------
\* The result: the schemas of what is kept, and the actor without the methods
\* that are left out.

NoActor == "none"
OutOf(omitted, kind) == {o.name : o \in {o \in omitted : o.kind = kind}}
Target(contract) == IF Has(contract, "actor") THEN contract.actor[contract.actor.kind] ELSE -1
ServiceOf(types, target) ==
    IF target # -1 /\ IsClass(types, target) THEN types[target + 1].service ELSE target
ActorNodes(types, target, service, omitted) ==
    LET all == types[service + 1].methods
        left == SelectSeq([k \in DOMAIN all |-> [key |-> all[k].name, ty |-> Lazy(service, k)]],
                          LAMBDA m : m.key \notin OutOf(omitted, "method"))
    IN  IF target = -1 THEN << >>
        ELSE IF OutOf(omitted, "method") = {} THEN "actor" :> RecTo(Built(types, target))
        ELSE "actor" :> RecTo("a") @@ "a" :> [kind |-> "service", methods |-> left]
Exported(contract, winners, service, omitted) ==
    LET kept == {d \in ToSet(contract.declarations) :
                   d.name \notin OutOf(omitted, "declaration")}
    IN  [ok |-> TRUE, issues |-> {}, omitted |-> omitted, winners |-> winners,
         schemas |-> [name \in {d.name : d \in kept} |-> Wrap(name)],
         actor |-> IF service = -1 THEN NoActor ELSE "actor",
         arena |-> Arena(contract.types, winners)
                     @@ MergedOver(kept, LAMBDA d :
                            Wrap(d.name) :> RecTo(Built(contract.types, d.type)))
                     @@ ActorNodes(contract.types, Target(contract), service, omitted)]
Served(contract, winners, service) ==
    Exported(contract, winners, service,
        OmissionAnalysis(contract.types, contract.declarations, ReservedKeys(winners),
            IF service = -1 THEN << >> ELSE contract.types[service + 1].methods))
Accepted(contract, winners) ==
    Served(contract, winners, ServiceOf(contract.types, Target(contract)))

Refused(issues) == [ok |-> FALSE, issues |-> issues]
Unless(issues, later) == IF issues # {} THEN issues ELSE later

\* What is wrong with the arena as a whole ends the load one pass at a time.
Resolved(contract, winners) ==
    LET wrong == Unless(RepeatedKeys(contract.types, winners),
                 Unless(Misplaced(contract.types, contract),
                 Unless(ActorFaults(contract.types, contract),
                        Unreached(contract.types, contract))))
    IN  IF wrong # {} THEN Refused(wrong) ELSE Accepted(contract, winners)
Tabled(contract, options, source, sound, issues) ==
    LET ends == TableEnds(source, options.maxNames)
        all == issues \cup TableFaults(source.entries) \cup MisKinded(contract.types, sound)
    IN  IF ends # {} THEN Refused(issues \cup ends)
        ELSE IF all # {} THEN Refused(all)
        ELSE Resolved(contract, Winners(source.entries))
Checked(contract, options, source, one) ==
    IF one.over THEN Refused(one.issues)
    ELSE Tabled(contract, options, source, one.sound,
             one.issues \cup Nested(contract.types, one.sound)
               \cup UNION {DeclarationFaults(contract.types, contract.declarations, i) :
                             i \in DOMAIN contract.declarations})

Shape(contract) ==
    IF ~IsObject(contract) THEN {Invalid}
    ELSE Strange(contract, ContractKeys)
           \cup {MarkerCode[m] : m \in {m \in DOMAIN Markers :
                   ~Has(contract, m) \/ contract[m] # Markers[m]}}
           \cup Code(Invalid, ~({"types", "declarations"} \subseteq DOMAIN contract))
BuildFromContract(contract, options, source) ==
    IF Shape(contract) # {} THEN Refused(Shape(contract))
    ELSE IF \/ Len(contract.types) > options.maxTypeNodes
            \/ Len(contract.declarations) > options.maxDeclarations
    THEN Refused({OverLimit})
    ELSE Checked(contract, options, source, PassOne(contract.types, options.maxFields))

\* An envelope is closed too; the caller's table of names, if there is one,
\* is read instead of its own.
FieldNames == "org.candid-core.field-names/v1"
ExtensionNames == {FieldNames, "com.example.other/v1"}
BuildFromDocument(document, options) ==
    LET extensions == IF Has(document, "extensions") THEN document.extensions ELSE << >>
        shell == Strange(document, {"contract", "extensions"})
                   \cup IF ~IsObject(extensions) THEN {Invalid}
                        ELSE Code("invalid_extension_name",
                                  DOMAIN extensions \ ExtensionNames # {})
        given == IF Has(options, "names") THEN options.names ELSE [entries |-> << >>]
        source == IF Has(options, "names") \/ ~Has(extensions, FieldNames) THEN given
                  ELSE extensions[FieldNames]
    IN  IF ~Has(document, "contract") THEN BuildFromContract(document, options, given)
        ELSE IF shell # {} THEN Refused(shell)
        ELSE BuildFromContract(document.contract, options, source)
=============================================================================
