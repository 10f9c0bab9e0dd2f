------------------------------ MODULE TypeTable ------------------------------
(***************************************************************************)
(* The type table of an encoded message.  The schema graph is walked once, *)
(* with a memo keyed by the identity of schema objects, into a provisional *)
(* table; the table written is its structural form, which must not depend  *)
(* on how the objects were built.                                          *)
(*                                                                         *)
(* A `rec` is one object; what its thunk builds may be new whenever it is  *)
(* called (`policy.mints`), so an object is a node with the number of the  *)
(* call that built it.  An entry is its literal part and its references:   *)
(* the opcode of a primitive, or an index from 0.                          *)
(***************************************************************************)
EXTENDS CandidTypes

-----------------------------------------------------------------------------
\* The provisional table.

Open == -1
Unbuilt == [table |-> << >>, memo |-> << >>, heights |-> << >>, spans |-> << >>,
            active |-> {}, roots |-> << >>, calls |-> 0, ref |-> 0, cut |-> FALSE, fault |-> "none"]
Failed(build, code) == [build EXCEPT !.fault = code]

\* resolveType: the objects of a chain of recs, and the object beneath.
Chain(policy, object, calls) ==
    LET from[hops \in 0..policy.depth] ==
            IF hops = 0 THEN <<object>>
            ELSE LET before == from[hops - 1]
                     node == policy.schema[Last(before)[1]]
                 IN  IF node.kind # "rec" THEN before
                     ELSE Append(before, <<node.body,
                         IF policy.schema[node.body].kind = "rec" THEN 0
                         ELSE IF policy.mints THEN calls + hops ELSE Last(before)[2]>>)
    IN  from[policy.depth]
ChildObject(policy, node, call) == <<node, IF policy.schema[node].kind = "rec" THEN 0 ELSE call>>

\* reuse: an entry met again costs the depth it spans, unless it is a cycle's.
Reuse_Free(policy, build, depth, ref, cut) == [build EXCEPT !.ref = ref, !.cut = TRUE]
Reuse(policy, build, depth, ref, cut) ==
    IF ref < 0 \/ cut \/ build.heights[ref + 1] = Open
    THEN [build EXCEPT !.ref = ref, !.cut = TRUE]
    ELSE IF depth + build.heights[ref + 1] > policy.depth THEN Failed(build, "value_depth")
    ELSE [build EXCEPT !.ref = ref, !.cut = FALSE]

\* What an entry says of itself, and the nodes it refers to, in wire order.
Methods(node) == SortSeq(node.methods, LAMBDA m, n : FieldId(m) < FieldId(n))
Labels(node) ==
    CASE node.kind \in {"record", "variant"} ->
           LET fields == SortedFields(IF node.kind = "record" THEN node.fields ELSE node.arms)
           IN  [i \in DOMAIN fields |-> FieldId(fields[i])]
      [] node.kind = "tuple" -> [i \in DOMAIN node.elements |-> i - 1]
      [] node.kind = "service" -> [i \in DOMAIN node.methods |-> FieldId(Methods(node)[i])]
      [] node.kind = "func" -> <<Len(node.args), Modes[node.mode]>>
      [] OTHER -> << >>
WireKindOf(node) ==
    CASE node.kind = "blob" -> "vec" [] node.kind \in {"unit", "tuple"} -> "record"
      [] OTHER -> node.kind
Children(node) ==
    CASE node.kind \in {"opt", "vec"} -> <<node.inner>>
      [] node.kind = "tuple" -> node.elements
      [] node.kind \in {"record", "variant"} ->
           LET fields == SortedFields(IF node.kind = "record" THEN node.fields ELSE node.arms)
           IN  [i \in DOMAIN fields |-> fields[i].ty]
      [] node.kind = "func" -> node.args \o node.results
      [] node.kind = "service" -> [i \in DOMAIN node.methods |-> Methods(node)[i].ty]
      [] OTHER -> << >>
Unsound(node) ==
    \/ node.kind = "record" /\ Collides(node.fields)
    \/ node.kind = "variant" /\ Collides(node.arms)

\* noteChild: a finished child reaches one level more than its own.
Noted(build, index) ==
    IF build.ref < 0 \/ build.cut \/ build.heights[build.ref + 1] = Open THEN build
    ELSE [build EXCEPT !.spans[index + 1] = Max({@, build.heights[build.ref + 1] + 1})]

RECURSIVE TypeRef(_, _, _, _)
\* The children of an open entry, then its completion.
Added(child, index) ==
    IF child.fault # "none" THEN child
    ELSE Noted([child EXCEPT !.table[index + 1].refs = Append(@, child.ref)], index)
Child(policy, sofar, index, node, kid, call, depth) ==
    LET method == Resolve(policy.schema, kid, policy.depth)
        isMethod == node.kind = "service"
    IN  IF sofar.fault # "none" THEN sofar
        ELSE IF isMethod /\ method = Unresolved THEN Failed(sofar, "value_depth")
        ELSE IF isMethod /\ policy.schema[method].kind # "func"
        THEN Failed(sofar, "unsupported_schema")
        ELSE Added(TypeRef(policy, sofar, ChildObject(policy, kid, call), depth + 1), index)
Walked(policy, build, index, node, call, depth) ==
    FoldLeft(LAMBDA sofar, kid : Child(policy, sofar, index, node, kid, call, depth),
             build, Children(node))
Closed(build, done, index) ==
    IF done.fault # "none" THEN done
    ELSE [done EXCEPT !.heights[index + 1] = done.spans[index + 1],
                      !.active = build.active, !.ref = index, !.cut = FALSE]

Opened(build, object, chain, node) ==
    [build EXCEPT
        !.table = Append(@, [kind |-> WireKindOf(node), labels |-> Labels(node),
                             refs |-> IF node.kind = "blob" THEN <<OpCode.nat8>> ELSE << >>]),
        !.heights = Append(@, Open), !.spans = Append(@, 0),
        !.active = @ \cup {chain[i] : i \in 1..Len(chain) - 1},
        !.memo = (object :> Len(build.table)) @@ (Last(chain) :> Len(build.table)) @@ @]
Entered(policy, build, object, chain, node, depth) ==
    IF depth > policy.depth THEN Failed(build, "value_depth")
    ELSE IF Len(build.table) >= policy.table THEN Failed(build, "type_table_entries")
    ELSE IF Unsound(node) THEN Failed(build, "duplicate_field_id")
    ELSE Closed(build, Walked(policy, Opened(build, object, chain, node), Len(build.table),
                              node, Last(chain)[2], depth),
                Len(build.table))

\* typeStart, of an object that is not in the memo, by what is beneath it.
Shared(build, object, known) == [build EXCEPT !.memo = (object :> known) @@ @]
Unmet(policy, build, object, chain, node, depth) ==
    IF node.kind = "rec" THEN Failed(build, "value_depth")
    ELSE IF node.kind \in Primitives
    THEN [build EXCEPT !.memo = (object :> OpCode[node.kind]) @@ @,
                       !.ref = OpCode[node.kind], !.cut = FALSE]
    ELSE IF Last(chain) \in DOMAIN build.memo
    THEN Shared(Reuse(policy, build, depth, build.memo[Last(chain)], FALSE), object,
                build.memo[Last(chain)])
    ELSE Entered(policy, build, object, chain, node, depth)
Met(policy, build, object, chain, depth) ==
    Unmet(policy, [build EXCEPT !.calls = @ + Len(chain) - 1], object, chain,
          policy.schema[Last(chain)[1]], depth)
TypeRef(policy, build, object, depth) ==
    IF object \in DOMAIN build.memo
    THEN Reuse(policy, build, depth, build.memo[object], object \in build.active)
    ELSE Met(policy, build, object, Chain(policy, object, build.calls), depth)

\* The arguments, each from depth 0.
Rooted(built) == IF built.fault # "none" THEN built
                 ELSE [built EXCEPT !.roots = Append(@, built.ref)]
Provisional(policy, nodes) ==
    FoldLeft(LAMBDA build, n : IF build.fault # "none" THEN build
                               ELSE Rooted(TypeRef(policy, build, <<n, 0>>, 0)),
             Unbuilt, nodes)
-----------------------------------------------------------------------------
\* The structural form.  Entries with the same literal part and the same
\* canonical children are one; an entry that a cycle comes back to has its
\* canonical number before its children are known, and is its cycle's anchor.

Fresh == -1
Uncanonical(count) ==
    [state |-> [i \in 0..count - 1 |-> "new"], number |-> [i \in 0..count - 1 |-> Fresh],
     anchor |-> [i \in 0..count - 1 |-> Fresh], content |-> << >>, interned |-> << >>]
Known(form, child) ==
    IF child < 0 THEN child
    ELSE IF form.state[child] = "done" THEN form.number[child] ELSE form.anchor[child]
Interned_Never(form, key, number) == form
Interned(form, key, number) ==
    [form EXCEPT !.interned = IF key \in DOMAIN @ THEN @ ELSE @ @@ (key :> number)]

RECURSIVE Consed(_, _, _)
ConsedChild(table, form, child) ==
    IF child < 0 THEN form
    ELSE IF form.state[child] = "new" THEN Consed(table, form, child)
    ELSE IF form.state[child] = "open" /\ form.anchor[child] = Fresh
         THEN [form EXCEPT !.anchor[child] = Len(form.content),
                           !.content = Append(@, "reserved")]
    ELSE form
\* An entry, after its children: anchored, known already, or new.
Completed(under, key, index) ==
    LET anchor == under.anchor[index]
        number == IF anchor # Fresh THEN anchor
                  ELSE IF key \in DOMAIN under.interned THEN under.interned[key]
                  ELSE Len(under.content)
        written == IF anchor # Fresh THEN [under EXCEPT !.content[anchor + 1] = key]
                   ELSE IF number = Len(under.content)
                        THEN [under EXCEPT !.content = Append(@, key)] ELSE under
    IN  [Interned(written, key, number) EXCEPT
            !.number[index] = number, !.state[index] = "done"]
Keyed(under, entry, index) ==
    Completed(under, [entry EXCEPT !.refs = [i \in DOMAIN @ |-> Known(under, @[i])]], index)
Consed(table, form, index) ==
    Keyed(FoldLeft(LAMBDA sofar, child : ConsedChild(table, sofar, child),
                   [form EXCEPT !.state[index] = "open"], table[index + 1].refs),
          table[index + 1], index)
Form(table, roots) ==
    FoldLeft(LAMBDA form, root : ConsedChild(table, form, root), Uncanonical(Len(table)), roots)

\* Numbering, in the order a walk from the arguments first reaches an entry.
RECURSIVE Numbered(_, _, _)
Numbered(content, order, number) ==
    IF number < 0 \/ Contains(order, number) THEN order
    ELSE FoldLeft(LAMBDA sofar, child : Numbered(content, sofar, child),
                  Append(order, number), content[number + 1].refs)
Renumbered(content, start, order) ==
    LET Index(number) == IF number < 0 THEN number
                         ELSE (CHOOSE i \in DOMAIN order : order[i] = number) - 1
    IN  [table |-> [i \in DOMAIN order |->
            [content[order[i] + 1] EXCEPT !.refs = [j \in DOMAIN @ |-> Index(@[j])]]],
         roots |-> [i \in DOMAIN start |-> Index(start[i])]]
LaidOut(content, start) ==
    Renumbered(content, start,
        FoldLeft(LAMBDA sofar, root : Numbered(content, sofar, root), << >>, start))
Canonical(form, roots) == LaidOut(form.content, [i \in DOMAIN roots |-> Known(form, roots[i])])
CanonicalTypeTable(table, roots) == Canonical(Form(table, roots), roots)

-----------------------------------------------------------------------------
\* The bytes of an entry.

Concat(parts) == FoldLeft(LAMBDA bytes, part : bytes \o part, << >>, parts)
Listing(entry) ==
    WriteLeb[Len(entry.labels)] \o
    Concat([i \in DOMAIN entry.labels |-> WriteLeb[entry.labels[i]] \o WriteSleb[entry.refs[i]]])
NameBytes(label) == <<label>>
Refs(refs) == WriteLeb[Len(refs)] \o Concat([i \in DOMAIN refs |-> WriteSleb[refs[i]]])
FuncBytes(entry) ==
    LET split == entry.labels[1]
        mode == entry.labels[2]
    IN  Refs(SubSeq(entry.refs, 1, split))
        \o Refs(SubSeq(entry.refs, split + 1, Len(entry.refs)))
        \o (IF mode = 0 THEN <<0>> ELSE <<1, mode>>)
EntryBytes(entry) ==
    WriteSleb[OpCode[entry.kind]] \o
    CASE entry.kind \in {"opt", "vec"} -> WriteSleb[entry.refs[1]]
      [] entry.kind \in {"record", "variant"} -> Listing(entry)
      [] entry.kind = "func" -> FuncBytes(entry)
      [] entry.kind = "service" ->
           WriteLeb[Len(entry.labels)] \o
           Concat([i \in DOMAIN entry.labels |->
               WriteLeb[Len(NameBytes(entry.labels[i]))] \o NameBytes(entry.labels[i])
               \o WriteSleb[entry.refs[i]]])
HeaderBytes(canonical) ==
    <<68, 73, 68, 76>> \o WriteLeb[Len(canonical.table)]
    \o Concat([i \in DOMAIN canonical.table |-> EntryBytes(canonical.table[i])])
    \o Refs(canonical.roots)
=============================================================================
