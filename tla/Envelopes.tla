------------------------------- MODULE Envelopes -------------------------------
(***************************************************************************)
(* A contract graph another tool wrote, checked before anything walks it:  *)
(* what the resolver cannot read, and two nodes that are one type, found   *)
(* by partition refinement.                                                *)
(*                                                                         *)
(* An envelope is [header, types, decls, actor, names]: `types` a sequence *)
(* of nodes that refer to one another by index, `names` the field-names    *)
(* table of [container, id, name].  The first thing that is wrong makes    *)
(* the message; here only that something is.                               *)
(***************************************************************************)
EXTENDS Interfaces

CONSTANT IdOf   \* the hash of a name: `idlHash`
ASSUME EnvelopesAssumption == IdOf = [name \in DOMAIN IdOf |-> IdOf[name]]

\* The references of a node: a record's or variant's by id, a service's by its
\* methods' names (here by their ids, for names have no order).
ById(fields) == SortSeq(fields, LAMBDA f, g : f.id < g.id)
ChildrenOf(t) ==
    CASE t.kind \in {"opt", "vec"} -> <<t.inner>>
      [] t.kind \in {"record", "variant"} -> [i \in DOMAIN t.fields |-> ById(t.fields)[i].ty]
      [] t.kind = "func" -> t.args \o t.results
      [] t.kind = "service" -> [i \in DOMAIN t.methods |-> ById(t.methods)[i].function]
      [] t.kind = "class" -> Append(t.init, t.service)
      [] OTHER -> << >>

\* What a node is apart from its references.
Key(kind, ids, sizes) == [kind |-> kind, ids |-> ids, sizes |-> sizes]
LocalKey(t) ==
    CASE t.kind \in {"record", "variant"} ->
           Key(t.kind, {t.fields[i].id : i \in DOMAIN t.fields}, << >>)
      [] t.kind = "func" -> Key(t.mode, {}, <<Len(t.args), Len(t.results)>>)
      [] t.kind = "service" -> Key(t.kind, {t.methods[i].id : i \in DOMAIN t.methods}, << >>)
      [] t.kind = "class" -> Key(t.kind, {}, <<Len(t.init)>>)
      [] OTHER -> Key(t.kind, {}, << >>)

-----------------------------------------------------------------------------
\* badGraph.

IsKind(types, r, kind) == r \in DOMAIN types /\ types[r].kind = kind
Refs(types, refs) == \A i \in DOMAIN refs : refs[i] \in DOMAIN types
NodeReadable(types, t) ==
    CASE t.kind \in Primitives \cup DOMAIN Floats -> TRUE
      [] t.kind \in {"opt", "vec"} -> t.inner \in DOMAIN types
      [] t.kind \in {"record", "variant"} ->
           /\ \A i \in DOMAIN t.fields : t.fields[i].ty \in DOMAIN types
           /\ IsInjective([i \in DOMAIN t.fields |-> t.fields[i].id])
      [] t.kind = "func" ->
           /\ Refs(types, t.args \o t.results) /\ t.mode \in DOMAIN Modes
           /\ t.mode = "oneway" => t.results = << >>
      [] t.kind = "service" ->
           /\ \A i \in DOMAIN t.methods :
                LET m == t.methods[i]
                IN  m.name # "" /\ m.id = IdOf[m.name] /\ IsKind(types, m.function, "func")
           /\ IsInjective([i \in DOMAIN t.methods |-> t.methods[i].name])
      [] t.kind = "class" -> Refs(types, t.init) /\ IsKind(types, t.service, "service")
      [] OTHER -> FALSE
DeclsReadable(env) ==
    /\ \A i \in DOMAIN env.decls : env.decls[i].ty \in DOMAIN env.types
    /\ IsInjective([i \in DOMAIN env.decls |-> env.decls[i].name])

\* Chains of opts, each node walked once: where a chain ends, and whether it
\* ran into itself.
RECURSIVE ChainFrom(_, _, _, _)
ChainFrom(types, done, r, chain) ==
    IF types[r].kind # "opt" \/ r \in done THEN [ends |-> TRUE, chain |-> chain]
    ELSE IF r \in chain THEN [ends |-> FALSE, chain |-> chain]
    ELSE ChainFrom(types, done, types[r].inner, chain \cup {r})
OptsEnd(types) ==
    FoldLeft(LAMBDA so, r : LET walked == ChainFrom(types, so.done, r, {})
                            IN  [ends |-> so.ends /\ walked.ends,
                                 done |-> so.done \cup walked.chain],
             [ends |-> TRUE, done |-> {}], [r \in DOMAIN types |-> r]).ends

\* A class is only the actor.
ClassesApart(env) ==
    /\ \A i \in DOMAIN env.decls : env.types[env.decls[i].ty].kind # "class"
    /\ \A r \in DOMAIN env.types :
         \A i \in DOMAIN ChildrenOf(env.types[r]) :
             env.types[ChildrenOf(env.types[r])[i]].kind # "class"
ActorReadable(env) ==
    env.actor.kind \in {"service", "class"} /\ IsKind(env.types, env.actor.of, env.actor.kind)

\* What the actor and the declarations reach, by a stack.
RECURSIVE ReachedFrom(_, _, _)
ReachedFrom(types, stack, reached) ==
    LET next == SelectSeq(ChildrenOf(types[Last(stack)]), LAMBDA r : r \notin reached)
    IN  IF stack = << >> THEN reached
        ELSE ReachedFrom(types, Front(stack) \o next, reached \cup ToSet(next))
Roots(env) == <<env.actor.of>> \o [i \in DOMAIN env.decls |-> env.decls[i].ty]
AllReached(env) ==
    ReachedFrom(env.types, Roots(env), ToSet(Roots(env))) = DOMAIN env.types

NamesReadable(env) ==
    /\ \A k \in DOMAIN env.names :
         LET n == env.names[k]
         IN  /\ \/ IsKind(env.types, n.container, "record")
                \/ IsKind(env.types, n.container, "variant")
             /\ \E i \in DOMAIN env.types[n.container].fields :
                  env.types[n.container].fields[i].id = n.id
             /\ IdOf[n.name] = n.id
    /\ IsInjective([k \in DOMAIN env.names |-> <<env.names[k].container, env.names[k].id>>])

GraphReadable(env) ==
    /\ DeclsReadable(env)
    /\ \A r \in DOMAIN env.types : NodeReadable(env.types, env.types[r])
    /\ OptsEnd(env.types) /\ ClassesApart(env) /\ ActorReadable(env)
    /\ AllReached(env)
    /\ NamesReadable(env)

-----------------------------------------------------------------------------
\* duplicateNodes: blocks of nodes, and the splitters [block, index] to work off,
\* the last first.

Referring(types, targets, j) ==
    {s \in DOMAIN types : j \in DOMAIN ChildrenOf(types[s]) /\ ChildrenOf(types[s])[j] \in targets}
Indexes(types) == 1..Max({Len(ChildrenOf(types[s])) : s \in DOMAIN types})
Queued(types, so, b) ==
    [so EXCEPT !.work = @ \o SelectSeq([j \in Indexes(types) |-> <<b, j>>],
                                       LAMBDA splitter :
                                           /\ splitter \notin ToSet(so.work)
                                           /\ Referring(types, so.blocks[b], splitter[2]) # {})]
LocalBlocks(types) ==
    FoldLeft(LAMBDA blocks, r :
                 LET same == {b \in DOMAIN blocks :
                                LocalKey(types[CHOOSE s \in blocks[b] : TRUE]) = LocalKey(types[r])}
                 IN  IF same = {} THEN Append(blocks, {r})
                     ELSE [b \in DOMAIN blocks |-> IF b \in same THEN blocks[b] \cup {r}
                                                   ELSE blocks[b]],
             << >>, [r \in DOMAIN types |-> r])
FirstRefining(types) ==
    LET blocks == LocalBlocks(types)
    IN  FoldLeft(LAMBDA so, b : Queued(types, so, b),
                 [blocks |-> blocks, work |-> << >>], [b \in DOMAIN blocks |-> b])

\* The smaller part becomes a new block and is queued; the block keeps the rest.
Split_Unqueued(types, so, y, marked) ==
    LET in == so.blocks[y] \cap marked
        out == so.blocks[y] \ marked
        small == IF Cardinality(in) <= Cardinality(out) THEN in ELSE out
    IN  IF in = {} \/ out = {} THEN so
        ELSE [so EXCEPT !.blocks = Append([@ EXCEPT ![y] = @ \ small], small)]
Split(types, so, y, marked) ==
    LET in == so.blocks[y] \cap marked
        out == so.blocks[y] \ marked
        small == IF Cardinality(in) <= Cardinality(out) THEN in ELSE out
    IN  IF in = {} \/ out = {} THEN so
        ELSE Queued(types, [so EXCEPT !.blocks = Append([@ EXCEPT ![y] = @ \ small], small)],
                    Len(so.blocks) + 1)
Refined(types, so) ==
    LET splitter == Last(so.work)
        marked == Referring(types, so.blocks[splitter[1]], splitter[2])
    IN  FoldLeft(LAMBDA next, y : Split(types, next, y, marked),
                 [so EXCEPT !.work = Front(@)], [y \in DOMAIN so.blocks |-> y])
Interned(so) == \A b \in DOMAIN so.blocks : Cardinality(so.blocks[b]) = 1

-----------------------------------------------------------------------------
\* Iface: the lookups over an accepted graph.  A field without a name has the
\* label of its id.

Numeric == {label \in DOMAIN FieldIds : label \notin DOMAIN IdOf}
FieldName(env, container, id) ==
    LET named == {k \in DOMAIN env.names : env.names[k].container = container
                                             /\ env.names[k].id = id}
    IN  IF named = {} THEN CHOOSE label \in Numeric : FieldIds[label] = id
        ELSE env.names[CHOOSE k \in named : TRUE].name
IsBlob(types, ref) == types[ref].kind = "vec" /\ types[types[ref].inner].kind = "nat8"
IfaceNode(env, ref) ==
    LET t == env.types[ref]
        fields == [i \in DOMAIN t.fields |->
                      [key |-> FieldName(env, ref, t.fields[i].id), ty |-> t.fields[i].ty]]
    IN  CASE IsBlob(env.types, ref) -> [kind |-> "blob", inner |-> t.inner]
          [] t.kind = "record" -> [kind |-> "record", fields |-> fields]
          [] t.kind = "variant" -> [kind |-> "variant", arms |-> fields]
          [] OTHER -> t
Iface(env) ==
    LET service == env.types[IF env.actor.kind = "class" THEN env.types[env.actor.of].service
                             ELSE env.actor.of]
        Of(name) == CHOOSE m \in ToSet(service.methods) : m.name = name
        func == [name \in {m.name : m \in ToSet(service.methods)} |->
                    env.types[Of(name).function]]
    IN  [types |-> [ref \in DOMAIN env.types |-> IfaceNode(env, ref)],
         unnamed |-> Numeric,
         decls |-> [name \in {d.name : d \in ToSet(env.decls)} |->
                       (CHOOSE d \in ToSet(env.decls) : d.name = name).ty],
         methods |-> [name \in DOMAIN func |->
                        [mode |-> func[name].mode, args |-> func[name].args,
                         results |-> func[name].results]]]
=============================================================================
