------------------------------ MODULE Interfaces ------------------------------
(***************************************************************************)
(* A compiled Candid interface as profiles address it: the positions of a  *)
(* method's values, the edges and the declarations of the type graph, and  *)
(* the tags that reach a position when several profiles speak.             *)
(*                                                                         *)
(* An interface is [types, unnamed, decls, methods]: the arena of types,   *)
(* where a blob has the node of its bytes as `inner`; the labels the name  *)
(* table lacks; the declared names; and each method's [mode, args,         *)
(* results].  A path is a sequence of label ids, ElementId for "[]".         *)
(***************************************************************************)
EXTENDS Formats

CONSTANT MaxPositionDepth   \* steps below an argument: 8
ASSUME InterfacesAssumption == MaxPositionDepth \in Nat

ElementId == -1
Ids(labels) == [i \in DOMAIN labels |-> IF labels[i] = "[]" THEN ElementId ELSE FieldIds[labels[i]]]

\* A blob is a vec here; records and variants have fields.
IsVec(node) == node.kind \in {"vec", "blob"}
Parts(node) ==
    CASE node.kind = "record" -> node.fields [] node.kind = "variant" -> node.arms
      [] OTHER -> << >>
FieldAt(node, id) == {i \in DOMAIN Parts(node) : FieldIds[Parts(node)[i].key] = id}

RECURSIVE UnwrapOpt(_, _)
UnwrapOpt(types, ref) ==
    IF types[ref].kind = "opt" THEN UnwrapOpt(types, types[ref].inner) ELSE ref

IsAccount(types, ref) ==
    /\ types[ref].kind = "record" /\ Len(types[ref].fields) = 2
    /\ \E i, j \in 1..2 :
         LET owner == types[ref].fields[i]
             sub == types[ref].fields[j]
         IN  /\ owner.key = "owner" /\ types[owner.ty].kind = "principal"
             /\ sub.key = "subaccount" /\ types[sub.ty].kind = "opt"
             /\ types[types[sub.ty].inner].kind = "blob"

-----------------------------------------------------------------------------
\* Addresses and relative paths, resolved to where they end.

NoParent == [container |-> 0, id |-> ElementId]
Step(types, so, id) ==
    LET at == UnwrapOpt(types, so.ref)
        node == types[at]
    IN  IF ~so.ok THEN so
        ELSE IF id = ElementId
             THEN IF IsVec(node)
                  THEN [ok |-> TRUE, ref |-> node.inner,
                        parent |-> [container |-> at, id |-> ElementId]]
                  ELSE [so EXCEPT !.ok = FALSE]
        ELSE IF FieldAt(node, id) = {} THEN [so EXCEPT !.ok = FALSE]
        ELSE [ok |-> TRUE, ref |-> Parts(node)[CHOOSE i \in FieldAt(node, id) : TRUE].ty,
              parent |-> [container |-> at, id |-> id]]
Walk(types, start, ids) ==
    FoldLeft(LAMBDA so, id : Step(types, so, id),
             [ok |-> TRUE, ref |-> start, parent |-> NoParent], ids)
IsCase(iface, walked) ==
    walked.parent # NoParent /\ iface.types[walked.parent.container].kind = "variant"

\* What a tag sits on.  Keys are compared, never addresses.
MethodKey(method) == [on |-> "method", method |-> method]
PositionKey(method, side, index, ids) ==
    [on |-> "position", method |-> method, side |-> side, index |-> index, ids |-> ids]
EdgeKey(parent) == [on |-> "edge", parent |-> parent]
NodeKey(node) == [on |-> "node", node |-> node]

Tuple(iface, method, side) ==
    IF side = "args" THEN iface.methods[method].args ELSE iface.methods[method].results
Position(key, walked) ==
    [is |-> "position", key |-> key, ref |-> walked.ref, parent |-> walked.parent]

\* An address: a method, a value of it, or a declared type; `side` and `index`
\* say which value, counted from 0.
Address(iface, at) ==
    LET ids == Ids(at.labels)
        tuple == Tuple(iface, at.name, at.kind)
        walked == IF at.kind = "type" THEN Walk(iface.types, iface.decls[at.name], ids)
                  ELSE Walk(iface.types, tuple[at.index + 1], ids)
        whole == UnwrapOpt(iface.types, walked.ref)
    IN  IF at.kind = "type"
        THEN IF at.name \notin DOMAIN iface.decls THEN Fault("E_ADDR_UNRESOLVED")
             ELSE IF ~walked.ok THEN Fault("E_ADDR_UNRESOLVED")
             ELSE IF walked.parent # NoParent THEN Position(EdgeKey(walked.parent), walked)
             ELSE IF iface.types[whole].kind \notin {"record", "variant"}
                  THEN Fault("E_TYPE_NODE")
             ELSE Position(NodeKey(whole), walked)
        ELSE IF at.name \notin DOMAIN iface.methods THEN Fault("E_ADDR_UNRESOLVED")
        ELSE IF at.kind = "method" THEN [is |-> "method", key |-> MethodKey(at.name)]
        ELSE IF at.index >= Len(tuple) \/ ~walked.ok THEN Fault("E_ADDR_UNRESOLVED")
        ELSE Position(PositionKey(at.name, at.kind, at.index, ids), walked)

\* A path relative to a method's arguments or results; the index may be left out.
NoIndex == -1
Rel(labels) == [index |-> NoIndex, labels |-> labels]
RelativeTo(iface, method, side, rel) ==
    LET tuple == Tuple(iface, method, side)
        index == IF rel.index = NoIndex THEN 0 ELSE rel.index
        walked == Walk(iface.types, tuple[index + 1], Ids(rel.labels))
    IN  IF \/ rel.index = NoIndex /\ Len(tuple) # 1
           \/ index >= Len(tuple) \/ ~walked.ok
        THEN Fault("E_ADDR_UNRESOLVED")
        ELSE Position(PositionKey(method, side, index, Ids(rel.labels)), walked)

-----------------------------------------------------------------------------
\* The tags of a position.  Of those of one name the highest layer wins, and
\* within a layer the most precise address.

Layers == <<"author", "third_party", "pack", "inferred">>
LayerOf(origin) == CHOOSE i \in DOMAIN Layers : Layers[i] = origin
Precision == [position |-> 1, method |-> 1, edge |-> 2, node |-> 3]
Before_PreciseFirst(d, e) ==
    \/ Precision[d.key.on] < Precision[e.key.on]
    \/ d.key.on = e.key.on /\ LayerOf(d.origin) <= LayerOf(e.origin)
Before(d, e) ==
    \/ LayerOf(d.origin) < LayerOf(e.origin)
    \/ d.origin = e.origin /\ Precision[d.key.on] <= Precision[e.key.on]
Effective(reaching) ==
    [tag \in {e.tag : e \in reaching} |->
        LET same == {e \in reaching : e.tag = tag}
        IN  (CHOOSE e \in same : \A d \in same : Before(e, d)).args]
KeysOf(iface, position) ==
    {position.key, NodeKey(UnwrapOpt(iface.types, position.ref))}
      \cup (IF position.parent = NoParent THEN {} ELSE {EdgeKey(position.parent)})
TagsAt(iface, entries, position) ==
    Effective({e \in entries : e.key \in KeysOf(iface, position)})
MethodTags(entries, method) == Effective({e \in entries : e.key = MethodKey(method)})

-----------------------------------------------------------------------------
\* The resolved form: every method with its tags, and a tree of its positions
\* with theirs.  A type inside itself, or too deep, is not entered.

RECURSIVE FormNode(_, _, _, _, _)
FormNode(iface, entries, position, inside, label) ==
    LET at == UnwrapOpt(iface.types, position.ref)
        node == iface.types[at]
        cyclic == at \in inside \/ Len(position.key.ids) >= MaxPositionDepth
        Below(id, ref) ==
            Position([position.key EXCEPT !.ids = Append(@, id)],
                     [ref |-> ref, parent |-> [container |-> at, id |-> id]])
        members == IF cyclic THEN << >>
                   ELSE IF node.kind = "vec" THEN <<[key |-> "[]", ty |-> node.inner]>>
                   ELSE Parts(node)
    IN  [key |-> label, numbered |-> label \in iface.unnamed,
         node |-> [candid |-> node.kind, optional |-> iface.types[position.ref].kind = "opt",
                   recursive |-> cyclic, tags |-> TagsAt(iface, entries, position),
                   members |-> [i \in DOMAIN members |->
                      FormNode(iface, entries, Below(Ids(<<members[i].key>>)[1], members[i].ty),
                               inside \cup {at}, members[i].key)]]]
BuildTree(iface, entries, method, side) ==
    LET tuple == Tuple(iface, method, side)
    IN  [i \in DOMAIN tuple |->
            FormNode(iface, entries,
                     Position(PositionKey(method, side, i - 1, << >>),
                              [ref |-> tuple[i], parent |-> NoParent]),
                     {}, "").node]

DefaultEffect(mode) ==
    [kind |-> IF mode \in {"update", "oneway"} THEN "write" ELSE "read",
     irreversible |-> mode \in {"update", "oneway"}, replicated |-> FALSE]
ResolvedForm(iface, entries) ==
    [name \in DOMAIN iface.methods |->
        [mode |-> iface.methods[name].mode,
         tags |-> MethodTags(entries, name) @@ [effect |-> DefaultEffect(iface.methods[name].mode)],
         args |-> BuildTree(iface, entries, name, "args"),
         results |-> BuildTree(iface, entries, name, "results")]]
=============================================================================
