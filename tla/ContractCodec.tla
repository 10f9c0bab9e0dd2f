---------------------------- MODULE ContractCodec ----------------------------
(***************************************************************************)
(* The codec over schemas that come from outside: a Contract document is   *)
(* loaded, and what a caller encodes with a schema of its result goes      *)
(* through the codec as with any other schema.                             *)
(***************************************************************************)
EXTENDS CandidCodec

CONSTANTS
    Documents,    \* families of worlds that start with a document
    LabelHash, Renderings, Unbindable

Loader == INSTANCE Contracts

ASSUME LabelsAssumption ==
    /\ \A id \in DOMAIN Renderings : FieldIds[Renderings[id]] = id
    /\ \A name \in DOMAIN LabelHash \ Loader!NumericShaped : FieldIds[name] = LabelHash[name]

ContractInit ==
    \/ Init
    \/ /\ \E family \in Documents : world \in family
       /\ Begins

\* schemaFromContract: a result, refused or not.
Load ==
    /\ world.sent = "document"
    /\ world' = [world EXCEPT !.sent = "loaded",
                              !.loaded = Loader!BuildFromDocument(world.document, world.options)]
    /\ UNCHANGED <<entries, args, argument, offset, elements, stack, call, values, outcome>>

\* A caller encodes with a schema of the result.
Exports(result) == Range(result.schemas) \cup ({result.actor} \ {Loader!NoActor})
Use ==
    /\ world.sent = "loaded" /\ world.loaded.ok
    /\ \E node \in Exports(world.loaded), host \in world.callers :
          world' = [world EXCEPT !.sent = "values", !.schema = world.loaded.arena,
                                 !.expected = <<node>>, !.hosts = <<host>>]
    /\ UNCHANGED <<entries, args, argument, offset, elements, stack, call, values, outcome>>

ContractSpec == ContractInit /\ [][Load \/ Use \/ Send \/ Receive \/ Stays]_vars

-----------------------------------------------------------------------------
\* What a document is, said by its parts and not in the loader's passes.

Loaded == world.sent = "loaded"
Result == world.loaded
Extensions(document) ==
    IF Loader!Has(document, "extensions") THEN document.extensions ELSE << >>
Source(document, options) ==
    IF Loader!Has(options, "names") THEN options.names
    ELSE IF Loader!Has(document, "contract") /\
            Loader!Has(Extensions(document), Loader!FieldNames)
    THEN Extensions(document)[Loader!FieldNames]
    ELSE [entries |-> << >>]

\* Keys that an object has are those it may and must have.
Closed(object, keys) == DOMAIN object = keys
Within(ref, types) == ref \in 0..Len(types) - 1
AllWithin(refs, types) == \A k \in DOMAIN refs : Within(refs[k], types)
Apart(list, Of(_)) == \A i, j \in DOMAIN list : i # j => Of(list[i]) # Of(list[j])

SoundNode(types, node) ==
    LET fields(each) == /\ Closed(each, {"id", "type"})
                        /\ each.id \in Nat /\ Within(each.type, types)
        method(each) == /\ Closed(each, {"name", "id", "function"})
                        /\ each.name # "" /\ each.id = LabelHash[each.name]
                        /\ Within(each.function, types)
                        /\ types[each.function + 1].kind = "func"
    IN  CASE node.kind = "primitive" -> Closed(node, {"kind", "primitive"})
                                        /\ node.primitive \in Loader!PrimitiveNames
          [] node.kind \in {"opt", "vec"} -> Closed(node, {"kind", "inner"})
                                             /\ Within(node.inner, types)
          [] node.kind \in {"record", "variant"} ->
               /\ Closed(node, {"kind", "fields"})
               /\ \A k \in DOMAIN node.fields : fields(node.fields[k])
               /\ Apart(node.fields, LAMBDA f : f.id)
          [] node.kind = "func" ->
               /\ Closed(node, {"kind", "args", "results", "mode"})
               /\ AllWithin(node.args, types) /\ AllWithin(node.results, types)
               /\ node.mode \in DOMAIN Modes
               /\ node.mode = "oneway" => node.results = << >>
          [] node.kind = "service" ->
               /\ Closed(node, {"kind", "methods"})
               /\ \A k \in DOMAIN node.methods : method(node.methods[k])
               /\ Apart(node.methods, LAMBDA m : m.name)
          [] node.kind = "class" ->
               /\ Closed(node, {"kind", "init", "service"})
               /\ AllWithin(node.init, types) /\ Within(node.service, types)
               /\ types[node.service + 1].kind = "service"
SoundTypes(types) ==
    /\ \A i \in DOMAIN types : Loader!OfKind(types[i], DOMAIN Loader!NodeKeys)
    /\ \A i \in DOMAIN types : SoundNode(types, types[i])

\* A class is the actor's and nobody else's, and an actor is a service or a
\* class, as it says it is (`actor_service_not_service`, `actor_class_not_class`).
SoundActor(types, actor) ==
    /\ Loader!OfKind(actor, {"service", "class"})
    /\ Closed(actor, {"kind", actor.kind})
    /\ Within(actor[actor.kind], types)
    /\ types[actor[actor.kind] + 1].kind = actor.kind
ClassesOnlyAsActor(contract) ==
    \A i \in {i \in DOMAIN contract.types : contract.types[i].kind = "class"} :
        /\ Loader!Has(contract, "actor") /\ contract.actor = [kind |-> "class", class |-> i - 1]
        /\ \A j \in DOMAIN contract.types : i - 1 \notin ToSet(Loader!Edges(contract.types[j]))
        /\ \A j \in DOMAIN contract.declarations : contract.declarations[j].type # i - 1

\* The types are those the declarations and the actor need, and no others.
ClosedUnder(types, refs) == \A r \in refs : ToSet(Loader!Edges(types[r + 1])) \subseteq refs
AllNeeded(contract) ==
    LET all == 0..Len(contract.types) - 1
    IN  \A refs \in SUBSET all :
            Loader!Roots(contract) \subseteq refs /\ ClosedUnder(contract.types, refs) => refs = all

WithinCaps(contract, options, entries_) ==
    /\ Len(contract.types) <= options.maxTypeNodes
    /\ Len(contract.declarations) <= options.maxDeclarations
    /\ FoldLeft(LAMBDA sum, node : sum + Loader!Charges(node), 0, contract.types)
         <= options.maxFields
    /\ Len(entries_) <= options.maxNames
SoundDeclarations(contract) ==
    /\ \A i \in DOMAIN contract.declarations :
          LET declaration == contract.declarations[i]
          IN  /\ Closed(declaration, {"name", "type"}) /\ declaration.name # ""
              /\ Within(declaration.type, contract.types)
    /\ Apart(contract.declarations, LAMBDA d : d.name)

SoundContract(contract, options, entries_) ==
    /\ DOMAIN contract \subseteq Loader!ContractKeys
    /\ \A m \in DOMAIN Loader!Markers :
          Loader!Has(contract, m) /\ contract[m] = Loader!Markers[m]
    /\ Loader!Has(contract, "types") /\ Loader!Has(contract, "declarations")
    /\ WithinCaps(contract, options, entries_)
    /\ SoundTypes(contract.types) /\ SoundDeclarations(contract)
    /\ \A i \in DOMAIN entries_ : Loader!Honest(entries_[i])
    /\ Loader!Has(contract, "actor") => SoundActor(contract.types, contract.actor)
    /\ ClassesOnlyAsActor(contract) /\ AllNeeded(contract)
SoundDocument(document, options) ==
    LET source == Source(document, options)
        entries_ == source.entries
    IN  /\ Loader!Has(source, "entries")
        /\ IF ~Loader!Has(document, "contract")
           THEN Loader!IsObject(document) /\ SoundContract(document, options, entries_)
           ELSE /\ DOMAIN document \subseteq {"contract", "extensions"}
                /\ Loader!IsObject(Extensions(document))
                /\ DOMAIN Extensions(document) \subseteq Loader!ExtensionNames
                /\ Loader!IsObject(document.contract)
                /\ SoundContract(document.contract, options, entries_)

Contract ==
    IF Loader!Has(world.document, "contract") THEN world.document.contract ELSE world.document

\* "Fail closed on any shape the canonical format does not produce": what is
\* accepted is sound.
AcceptedIsSound == (Loaded /\ Result.ok) => SoundDocument(world.document, world.options)

\* It is not when an actor that says it is a class names a service.  Of every
\* other document, whatever order the passes stop in: it is accepted exactly
\* when all of it is sound and within the limits, every node reached from a
\* root.
ClassActorNamesService ==
    /\ Loader!Has(Contract, "types")
    /\ Within(Loader!ActorClass(Contract), Contract.types)
    /\ Loader!OfKind(Contract.types[Loader!ActorClass(Contract) + 1], {"service"})
AcceptedIffSound ==
    (Loaded /\ ~ClassActorNamesService) =>
        (Result.ok <=> SoundDocument(world.document, world.options))

-----------------------------------------------------------------------------
\* Of an accepted document.

Arena == Result.arena
At(node) == Arena[Resolve(Arena, node, world.depth)]

\* The schema of a node is of its kind, and its entries have the ids of the
\* node's fields, each of a schema of the field's type.
EntriesOf(node) ==
    CASE node.kind = "unit" -> {}
      [] node.kind = "tuple" -> {<<k - 1, node.elements[k]>> : k \in DOMAIN node.elements}
      [] node.kind = "record" -> {<<FieldId(f), f.ty>> : f \in ToSet(node.fields)}
      [] node.kind = "variant" -> {<<FieldId(f), f.ty>> : f \in ToSet(node.arms)}
SameEntries(fields, node, alike) ==
    /\ Cardinality(EntriesOf(node)) = Len(fields)
    /\ \A k \in DOMAIN fields : \E e \in EntriesOf(node) :
          e[1] = fields[k].id /\ <<fields[k].type, e[2]>> \in alike
SameList(refs, nodes, alike) ==
    Len(refs) = Len(nodes) /\ \A k \in DOMAIN refs : <<refs[k], nodes[k]>> \in alike
Says(ref, n, alike) ==
    LET type == Contract.types[ref + 1]
        node == At(n)
    IN  CASE type.kind = "primitive" -> node.kind = type.primitive
          [] type.kind \in {"opt", "vec"} ->
               \/ node.kind = type.kind /\ <<type.inner, node.inner>> \in alike
               \/ /\ type.kind = "vec" /\ node.kind = "blob"
                  /\ Contract.types[type.inner + 1] = [kind |-> "primitive", primitive |-> "nat8"]
          [] type.kind = "record" ->
               node.kind \in {"unit", "tuple", "record"} /\ SameEntries(type.fields, node, alike)
          [] type.kind = "variant" ->
               node.kind = "variant" /\ SameEntries(type.fields, node, alike)
          [] type.kind = "func" ->
               /\ node.kind = "func" /\ node.mode = type.mode
               /\ SameList(type.args, node.args, alike)
               /\ SameList(type.results, node.results, alike)
          [] type.kind = "service" ->
               /\ node.kind = "service"
               /\ SameList([k \in DOMAIN type.methods |-> type.methods[k].function],
                           [k \in DOMAIN node.methods |-> node.methods[k].ty], alike)
               /\ \A k \in DOMAIN type.methods : type.methods[k].name = node.methods[k].key
          [] type.kind = "class" -> <<type.service, n>> \in alike
Denoted ==
    LET refs == 0..Len(Contract.types) - 1
        largest[alike \in SUBSET (refs \X DOMAIN Arena)] ==
            LET kept == {pair \in alike : Says(pair[1], pair[2], alike)}
            IN  IF kept = alike THEN alike ELSE largest[kept]
    IN  largest[refs \X DOMAIN Arena]

\* The service of the actor, a class unwrapped.
ActorService ==
    LET node == Contract.types[Contract.actor[Contract.actor.kind] + 1]
    IN  IF node.kind = "class" THEN Contract.types[node.service + 1] ELSE node
ActorMethods == IF Loader!Has(Contract, "actor") THEN ActorService.methods ELSE << >>
OmittedMethods == Loader!OutOf(Result.omitted, "method")
ActorDenotesItsService ==
    LET kept == SelectSeq(ActorMethods, LAMBDA m : m.name \notin OmittedMethods)
        built == At(Result.actor).methods
    IN  IF ~Loader!Has(Contract, "actor") THEN Result.actor = Loader!NoActor
        ELSE /\ At(Result.actor).kind = "service"
             /\ [k \in DOMAIN built |-> built[k].key] = [k \in DOMAIN kept |-> kept[k].name]
             /\ SameList([k \in DOMAIN kept |-> kept[k].function],
                         [k \in DOMAIN built |-> built[k].ty], Denoted)

\* Every exported schema denotes the type of its declaration, under the keys
\* the document gives its fields.  The actor is a service whose methods are
\* those of the document's service, a class unwrapped, that are not left out:
\* under their names, in their order, each denoting the method's type.
LoadedDenotesItsTypes ==
    (Loaded /\ Result.ok) =>
        /\ ActorDenotesItsService
        /\ \A d \in ToSet(Contract.declarations) :
              d.name \in DOMAIN Result.schemas => <<d.type, Result.schemas[d.name]>> \in Denoted
        /\ \A n \in DOMAIN Arena : Arena[n].kind = "record" => ~Collides(Arena[n].fields)
        /\ \A at \in DOMAIN Result.winners \cap (0..Len(Contract.types) - 1) \X (0..9) :
              LET n == Loader!Built(Contract.types, at[1])
              IN  (/\ Arena[n].kind = "record" /\ Result.winners[at] \notin Loader!NumericShaped
                   /\ at[2] \in {f.id : f \in ToSet(Contract.types[at[1] + 1].fields)})
                     => Result.winners[at] \in {f.key : f \in ToSet(Arena[n].fields)}

\* The module generated for the document: a constant for each declaration, a
\* thunk that builds its body anew, in which a type is written out unless a
\* declaration names it.
ConstantOf(name) == "c " \o name
WrittenOut(ref) == "w" \o ToString(ref)
Firsts == Loader!FirstNames(Contract.types, Contract.declarations)
Mention(ref) == IF ref \in DOMAIN Firsts THEN ConstantOf(Firsts[ref]) ELSE WrittenOut(ref)
EdgeOf(ref, k) == Mention(Loader!Edges(Contract.types[ref + 1])[k])
PlainTypes == {ref \in 0..Len(Contract.types) - 1 : ~Loader!IsClass(Contract.types, ref)}
GeneratedModule ==
    Loader!MergedOver(PlainTypes, LAMBDA ref :
        WrittenOut(ref) :> Loader!Build(Contract.types, Result.winners, ref, EdgeOf))
    @@ Loader!MergedOver(ToSet(Contract.declarations), LAMBDA d :
        ConstantOf(d.name) :>
            Loader!RecTo(IF d.type \in DOMAIN Firsts /\ Firsts[d.type] # d.name
                         THEN Mention(d.type) ELSE WrittenOut(d.type)))
\* No module is generated when a cycle passes through no declaration.
NamedCycles ==
    \A refs \in SUBSET (PlainTypes \ DOMAIN Firsts) : refs # {} =>
        \E ref \in refs : ToSet(Loader!Edges(Contract.types[ref + 1])) \cap refs = {}
HeaderOf(schema, mints, n) ==
    Encoder!Assembled(
        Encoder!Provisional(PolicyOf([world EXCEPT !.schema = schema], mints, 1), <<n>>),
        Encoder!Start)
LoadedIsGenerated ==
    (Loaded /\ Result.ok /\ NamedCycles) =>
        \A name \in DOMAIN Result.schemas :
            SameOrRefused(HeaderOf(GeneratedModule, TRUE, ConstantOf(name)),
                          HeaderOf(Arena, FALSE, Result.schemas[name]))

\* "The bytes depend only on the values and on the Candid types, never on how
\* the schema objects were built": thunks that build their body anew each time
\* give the message that thunks with one body give, unless the copies exceed a
\* limit of the type walk.  A type is "canonical per knot": it has one thunk.
\* And "a generated module and schemaFromContract produce the same message": under
\* every exported declaration, the type tables are the same, although one
\* graph has a rec for each edge and the other one for each declaration.
BytesFollowTypes == ThunksAreShared /\ LoadedIsGenerated

\* What a generated module has no text for, and what mentions it: the least
\* set of types with a cause, named by a bad name, or with a child in it.
Bad(ref, tainted) ==
    LET types == Contract.types
        first == Loader!FirstNames(types, Contract.declarations)
        reserved == Loader!ReservedKeys(Result.winners)
    IN  \/ Loader!DirectCause(types, first, reserved, ref) # Loader!Fine
        \/ ref \in DOMAIN first /\ Loader!NameCause(first[ref]) # Loader!Fine
        \/ types[ref + 1].kind # "class" /\ ToSet(Loader!Edges(types[ref + 1])) \cap tainted # {}
Tainted ==
    LET refs == 0..Len(Contract.types) - 1
        least[tainted \in SUBSET refs] ==
            LET more == {ref \in refs : Bad(ref, tainted)}
            IN  IF more = tainted THEN tainted ELSE least[more]
    IN  least[{}]
OmittedNames == Loader!OutOf(Result.omitted, "declaration")
Named(names) == {o \in Result.omitted : o.kind = "declaration" /\ o.name \in names}

\* "An emitted declaration or method can never reference an omitted one": left
\* out are exactly the declarations and the actor's methods whose type has a
\* cause or mentions one, and the declarations whose name is one; a reason that
\* names a declaration names an omitted one, and the reasons lead to a cause.
OmissionIsTaint ==
    (Loaded /\ Result.ok) =>
        /\ OmittedNames = {d.name : d \in {d \in ToSet(Contract.declarations) :
               Loader!NameCause(d.name) # Loader!Fine \/ d.type \in Tainted}}
        /\ OmittedMethods = {m.name : m \in {m \in ToSet(ActorMethods) : m.function \in Tainted}}
        /\ \A o \in Result.omitted : o.because.via # Loader!Fine => o.because.via \in OmittedNames
        /\ \A names \in SUBSET OmittedNames : names # {} =>
               \E o \in Named(names) : o.because.via \notin names
=============================================================================
