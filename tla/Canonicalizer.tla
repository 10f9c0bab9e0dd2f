---------------------------- MODULE Canonicalizer ----------------------------
(***************************************************************************)
(* Canonicalization of a validated Contract: merge the type nodes that     *)
(* mean the same, re-index what is left in an order that depends on the    *)
(* meaning alone, and hash.  `canonicalize_contract_with_budget` promises  *)
(* that two contracts that mean the same come out identical, so the model  *)
(* runs it twice: on any contract, and then on any other way of writing    *)
(* the contract it returned.                                               *)
(*                                                                         *)
(* A node keeps its kind, what its local signature says beyond the kind    *)
(* (primitive, or method mode and argument count) and its outgoing edges.  *)
(* Fields and methods are keyed by ID; arguments, results and inner types  *)
(* by their position, so that sorting by key leaves those as they are.     *)
(* References are 1-based here and 0-based in the code.                    *)
(***************************************************************************)
EXTENDS Integers, Sequences, FiniteSets, SequencesExt

CONSTANT
    Jobs         \* what is explored: [contract: a validated one, maxWork: Nat]

NoActor == 0

Kinds == <<"primitive", "opt", "vec", "record", "variant", "func", "service", "class">>
KeyedKinds == {"record", "variant", "service"}

\* A primitive's name; a method's mode and argument count.
DetailLength(kind) ==
    IF kind = "primitive" THEN 1 ELSE IF kind = "func" THEN 2 ELSE 0

\* What a validated contract is, as far as canonicalization relies on it:
\* references that exist, IDs and names that occur once.
Edge(n) == [key : Nat, ty : 1..n]

NodeShape(n) == [kind : Range(Kinds), detail : Seq(Nat), edges : Seq(Edge(n))]

IsNode(node, n) ==
    /\ node \in NodeShape(n)
    /\ Len(node.detail) = DetailLength(node.kind)
    /\ IF node.kind \in KeyedKinds
       THEN \A i, j \in DOMAIN node.edges : node.edges[i].key = node.edges[j].key => i = j
       ELSE \A i \in DOMAIN node.edges : node.edges[i].key = i

IsContract(contract) ==
    LET n == Len(contract.types)
        declarations == contract.declarations
    IN  /\ contract \in [types : Seq(NodeShape(n)),
                         declarations : Seq([name : Nat, ty : 1..n]),
                         actor : {NoActor} \cup 1..n]
        /\ \A i \in 1..n : IsNode(contract.types[i], n)
        /\ \A i, j \in DOMAIN declarations :
              declarations[i].name = declarations[j].name => i = j

ASSUME JobsAssumption ==
    \A job \in Jobs : IsContract(job.contract) /\ job.maxWork \in Nat

VARIABLES
    maxWork,     \* Limits::max_canonicalization_work
    input,       \* the contract being canonicalized
    pc,          \* "start", "refine", "quotient", "index", "identify", "finish", ...
    classes,     \* the partition: a class number for each input node
    quotient,    \* one node per class, references being class numbers
    result,      \* the re-indexed contract
    oldToNew,    \* the canonical node of each input node
    identities,  \* what the two identities hash
    work,        \* canonicalization_work charged so far
    interrupted, \* the token is raised or the deadline has passed
    outcome,     \* "running", "done" or the error's code
    first        \* the first pass's input and results, and what the second's
                 \* input keeps of them: "all", "actor" or, in the first, "none"

vars == <<maxWork, input, pc, classes, quotient, result, oldToNew, identities, work,
          interrupted, outcome, first>>

-----------------------------------------------------------------------------
\* Nodes, their edges in canonical order, and their signatures.

KindTag(kind) == (CHOOSE i \in DOMAIN Kinds : Kinds[i] = kind) - 1

\* slice::sort_by: a rearrangement in which nothing follows what it precedes.
\* Elements that the orders below do not tell apart are equal.
Sorted(seq, Precedes(_, _)) ==
    LET from == CHOOSE f \in [DOMAIN seq -> DOMAIN seq] :
                   \A j \in DOMAIN seq : \A i \in 1..(j - 1) :
                      f[i] # f[j] /\ ~Precedes(seq[f[j]], seq[f[i]])
    IN  [k \in DOMAIN seq |-> seq[from[k]]]

EdgeOrder(e, f) == e.key < f.key \/ (e.key = f.key /\ e.ty < f.ty)

SortedEdges_AsWritten(node) == node.edges
SortedEdges(node) ==
    IF node.kind \in KeyedKinds THEN Sorted(node.edges, EdgeOrder) ELSE node.edges

SortedChildren(node) ==
    LET edges == SortedEdges(node) IN [i \in DOMAIN edges |-> edges[i].ty]

LocalSignature(node) ==
    LET edges == SortedEdges(node)
    IN  <<KindTag(node.kind)>> \o node.detail \o <<Len(edges)>>
          \o (IF node.kind \in KeyedKinds
              THEN [i \in DOMAIN edges |-> edges[i].key] ELSE << >>)

RefinedSignature_FirstChild(node, own, cls) ==
    LET children == SortedChildren(node)
    IN  LocalSignature(node) \o <<own>>
          \o (IF children = << >> THEN << >> ELSE <<cls[children[1]]>>)
RefinedSignature(node, own, cls) ==
    LET children == SortedChildren(node)
    IN  LocalSignature(node) \o <<own>> \o [i \in DOMAIN children |-> cls[children[i]]]

\* Byte order: the lengths and IDs are written big-endian at a fixed width.
Before(s, t) ==
    \E i \in 1..Len(t) :
        /\ \A j \in 1..(i - 1) : j <= Len(s) /\ s[j] = t[j]
        /\ i = Len(s) + 1 \/ (i <= Len(s) /\ s[i] < t[i])

\* The rank of each signature among the distinct ones, from 1.
AssignPartitionIds(signatures) ==
    LET distinct == {signatures[n] : n \in DOMAIN signatures}
        rank == [s \in distinct |-> 1 + Cardinality({t \in distinct : Before(t, s)})]
    IN  [n \in DOMAIN signatures |-> rank[signatures[n]]]

PartitionWasSplit_Never(previous, next) == FALSE
PartitionWasSplit_AnyTwo(previous, next) == \E a, b \in DOMAIN next : next[a] # next[b]
PartitionWasSplit(previous, next) ==
    \E a, b \in DOMAIN previous : previous[a] = previous[b] /\ next[a] # next[b]

\* Rewrite a node's references, its edges in canonical order.
Remap(node, to) ==
    LET edges == SortedEdges(node)
    IN  [node EXCEPT !.edges =
            [i \in DOMAIN edges |-> [key |-> edges[i].key, ty |-> to[edges[i].ty]]]]

RemapRoots(contract, to) ==
    [declarations |-> [i \in DOMAIN contract.declarations |->
                         [contract.declarations[i] EXCEPT !.ty = to[@]]],
     actor |-> IF contract.actor = NoActor THEN NoActor ELSE to[contract.actor]]

-----------------------------------------------------------------------------
\* Work, as the code estimates it.

Total(weights) == FoldFunction(+, 0, weights)

CeilLog2(n) == Cardinality({k \in 0..n : 2^k < n})
SortWork(n) == IF n < 2 THEN 0 ELSE n * CeilLog2(n)

NodeWork(node) ==
    LET n == Len(node.edges)
    IN  1 + n + CASE node.kind = "primitive" -> 2
                  [] node.kind \in {"opt", "vec"} -> 1
                  [] node.kind = "func" -> 10
                  [] node.kind = "class" -> 5
                  [] OTHER -> 4 * n + SortWork(n)

RoundWork(types) == Total([n \in DOMAIN types |-> NodeWork(types[n])])

ReindexWork(contract) ==
    2 * RoundWork(contract.types) + 2 * Len(contract.declarations)
      + SortWork(Len(contract.declarations))

\* A hash pass reads its payload three times; a payload is as long as what it
\* lists, one unit each.
HashWork(types, declarations) ==
    3 * (1 + Total([n \in DOMAIN types |-> 1 + Len(types[n].edges)]) + Len(declarations))

-----------------------------------------------------------------------------
Restarted(contract) ==
    /\ input' = contract
    /\ pc' = "start"
    /\ classes' = << >>
    /\ quotient' = << >>
    /\ result' = << >>
    /\ oldToNew' = << >>
    /\ identities' = << >>
    /\ work' = 0

Init ==
    /\ \E job \in Jobs : input = job.contract /\ maxWork = job.maxWork
    /\ pc = "start"
    /\ classes = << >>
    /\ quotient = << >>
    /\ result = << >>
    /\ oldToNew = << >>
    /\ identities = << >>
    /\ work = 0
    /\ interrupted = FALSE
    /\ outcome = "running"
    /\ first = [keeps |-> "none"]

Fail(code) ==
    /\ pc' = "stopped"
    /\ outcome' = code
    /\ UNCHANGED <<input, classes, quotient, result, oldToNew, identities, work,
                   interrupted, first>>

\* Budget::charge: checkpoint, then the limit; what is refused is not added.
Refused(amount) == interrupted \/ work + amount > maxWork
Refuse(amount) ==
    /\ Refused(amount)
    /\ Fail(IF interrupted THEN "operation_interrupted" ELSE "canonicalization_work")

Charge(amount, next) ==
    /\ ~Refused(amount)
    /\ work' = work + amount
    /\ pc' = next
    /\ UNCHANGED <<outcome, interrupted, first>>

\* semantic_classes up to the loop: partition by local signature.
FirstPartition ==
    /\ pc = "start"
    /\ LET amount == RoundWork(input.types)
       IN  \/ Refuse(amount)
           \/ /\ Charge(amount, "refine")
              /\ classes' = AssignPartitionIds(
                    [n \in DOMAIN input.types |-> LocalSignature(input.types[n])])
              /\ UNCHANGED <<input, quotient, result, oldToNew, identities>>

\* One turn of its loop.
RefineRound ==
    /\ pc = "refine"
    /\ LET amount == RoundWork(input.types)
           next == AssignPartitionIds([n \in DOMAIN input.types |->
                     RefinedSignature(input.types[n], classes[n], classes)])
       IN  \/ Refuse(amount)
           \/ /\ Charge(amount, IF PartitionWasSplit(classes, next) THEN "refine"
                                ELSE "quotient")
              /\ classes' = next
              /\ UNCHANGED <<input, quotient, result, oldToNew, identities>>

\* Each class is represented by its first member, its references remapped.
Quotient(contract, cls) ==
    LET member(c) == CHOOSE n \in DOMAIN cls :
                        cls[n] = c /\ \A m \in 1..(n - 1) : cls[m] # c
        roots == RemapRoots(contract, cls)
    IN  [types |-> [c \in Range(cls) |-> Remap(contract.types[member(c)], cls)],
         declarations |-> roots.declarations,
         actor |-> roots.actor]

\* quotient_semantic_nodes after the classes, and the checkpoint that follows.
TakeQuotient ==
    /\ pc = "quotient"
    /\ \/ Refuse(0)
       \/ /\ Charge(0, "index")
          /\ quotient' = Quotient(input, classes)
          /\ UNCHANGED <<input, classes, result, oldToNew, identities>>

\* visit_iterative: depth first, children in canonical order, numbered when
\* popped.  A walk is the stack, its first element on top, and new_to_old.
Visit(roots, types) ==
    LET walk[w \in Seq(DOMAIN types) \X Seq(DOMAIN types)] ==
            LET stack == w[1]
                order == w[2]
            IN  IF stack = << >> THEN order
                ELSE IF Head(stack) \in Range(order) THEN walk[<<Tail(stack), order>>]
                ELSE walk[<<SortedChildren(types[Head(stack)]) \o Tail(stack),
                            Append(order, Head(stack))>>]
    IN  walk[<<roots, << >>>>]

\* The roots in the order canonicalize_indexed visits them: the actor, the
\* declared types by class, then whatever no root reaches.
DeclaredTypes(contract) ==
    {contract.declarations[i].ty : i \in DOMAIN contract.declarations}
ActorRoot(contract) == IF contract.actor = NoActor THEN << >> ELSE <<contract.actor>>
Ascending(S) ==
    [k \in 1..Cardinality(S) |-> CHOOSE x \in S : Cardinality({y \in S : y < x}) = k - 1]

Roots(contract) ==
    ActorRoot(contract) \o Ascending(DeclaredTypes(contract))
      \o [c \in DOMAIN contract.types |-> c]
NameOrder(d, e) == d.name < e.name \/ (d.name = e.name /\ d.ty < e.ty)

\* canonicalize_indexed before the hashes: the visit numbers the classes.
\* oldToNew is already what the caller composes: input node to result node.
Reindex ==
    /\ pc = "index"
    /\ \/ Refuse(ReindexWork(quotient))
       \/ /\ Charge(ReindexWork(quotient), "contract_id")
          /\ LET newToOld == Visit(Roots(quotient), quotient.types)
                 to == [c \in DOMAIN quotient.types |->
                          CHOOSE i \in DOMAIN newToOld : newToOld[i] = c]
                 roots == RemapRoots(quotient, to)
             IN  /\ result' = [types |-> [i \in DOMAIN newToOld |->
                                            Remap(quotient.types[newToOld[i]], to)],
                               declarations |-> Sorted(roots.declarations, NameOrder),
                               actor |-> roots.actor]
                 /\ oldToNew' = [n \in DOMAIN classes |-> to[classes[n]]]
          /\ UNCHANGED <<input, classes, quotient, identities>>

\* reachable_from: the root, and with a node all that its edges refer to.
Closed(S, types) ==
    \A n \in S : \A i \in DOMAIN types[n].edges : types[n].edges[i].ty \in S
ReachableFrom(root, types) ==
    {n \in DOMAIN types :
        \A S \in SUBSET (DOMAIN types) : root \in S /\ Closed(S, types) => n \in S}

\* The types up to the first one the actor does not reach.
ReachedPrefix(contract) ==
    LET reached == ReachableFrom(contract.actor, contract.types)
        k == CHOOSE k \in 0..Len(contract.types) :
                /\ 1..k \subseteq reached
                /\ k = Len(contract.types) \/ k + 1 \notin reached
    IN  SubSeq(contract.types, 1, k)

\* The contract identity hashes types, declarations and actor.
HashContract ==
    /\ pc = "contract_id"
    /\ LET amount == HashWork(result.types, result.declarations)
       IN  \/ Refuse(amount)
           \/ /\ Charge(amount, IF result.actor = NoActor THEN "finish" ELSE "interface_id")
              /\ identities' = [contract |-> result, interface |-> << >>]
              /\ UNCHANGED <<input, classes, quotient, result, oldToNew>>

\* The interface identity hashes the actor and the prefix it reaches.
InterfacePayload_AllTypes(contract) == [types |-> contract.types, actor |-> contract.actor]
InterfacePayload(contract) == [types |-> ReachedPrefix(contract), actor |-> contract.actor]

HashInterface ==
    /\ pc = "interface_id"
    /\ LET payload == InterfacePayload(result)
           amount == HashWork(payload.types, << >>)
       IN  \/ Refuse(amount)
           \/ /\ Charge(amount, "finish")
              /\ identities' = [identities EXCEPT !.interface = payload]
              /\ UNCHANGED <<input, classes, quotient, result, oldToNew>>

\* The last checkpoint, and Ok.
Finish ==
    /\ pc = "finish"
    /\ IF interrupted THEN Refuse(0)
       ELSE /\ pc' = "stopped"
            /\ outcome' = "done"
            /\ UNCHANGED <<input, classes, quotient, result, oldToNew, identities, work,
                           interrupted, first>>

Interrupt ==
    /\ pc # "stopped" /\ ~interrupted
    /\ interrupted' = TRUE
    /\ UNCHANGED <<input, pc, classes, quotient, result, oldToNew, identities, work,
                   outcome, first>>

-----------------------------------------------------------------------------
\* Other ways to write a contract, as another producer or an older file might.

\* Nodes renumbered, fields and methods and declarations written backwards.
Renumbered(contract, place) ==
    LET moved(node) ==
            LET n == Len(node.edges)
                from(i) == IF node.kind \in KeyedKinds THEN n + 1 - i ELSE i
            IN  [node EXCEPT !.edges = [i \in 1..n |->
                   [node.edges[from(i)] EXCEPT !.ty = place[@]]]]
    IN  [types |-> [i \in DOMAIN contract.types |->
                      moved(contract.types[CHOOSE n \in DOMAIN place : place[n] = i])],
         declarations |-> Reverse(RemapRoots(contract, place).declarations),
         actor |-> RemapRoots(contract, place).actor]

Shift(n, k) == [i \in 1..n |-> IF i + k <= n THEN i + k ELSE i + k - n]
Mirror(n) == [i \in 1..n |-> n + 1 - i]
Places(n) == {Shift(n, k) : k \in 0..(n - 1)} \cup {Mirror(n)}

\* One type written twice: the references node m has to d go to a copy of d.
Duplicated(contract, m, d) ==
    LET copy == Len(contract.types) + 1
        redirected == [contract.types[m] EXCEPT !.edges = [i \in DOMAIN @ |->
                         IF @[i].ty = d THEN [@[i] EXCEPT !.ty = copy] ELSE @[i]]]
    IN  [contract EXCEPT
           !.types = Append([@ EXCEPT ![m] = redirected], contract.types[d])]

SameContract(contract) ==
    LET n == Len(contract.types)
    IN  {Renumbered(contract, place) : place \in Places(n)}
          \cup UNION {{Duplicated(contract, m, d) :
                          d \in {m} \cup Range(SortedChildren(contract.types[m]))} : m \in 1..n}

\* The actor kept and the declarations changed: all dropped with the types
\* only they reach, or one more, of a type nothing else has.
ActorOnly(contract) ==
    [types |-> ReachedPrefix(contract), declarations |-> << >>, actor |-> contract.actor]

NewName(contract) ==
    CHOOSE k \in 0..Len(contract.declarations) :
        \A i \in DOMAIN contract.declarations : contract.declarations[i].name # k

WithMore(contract, n) ==
    LET more == Len(contract.types) + 1
    IN  [contract EXCEPT
           !.types = Append(@, [kind |-> "vec", detail |-> << >>,
                                edges |-> <<[key |-> 1, ty |-> n]>>]),
           !.declarations = Append(@, [name |-> NewName(contract), ty |-> more])]

SameActor(contract) ==
    IF contract.actor = NoActor THEN {}
    ELSE {ActorOnly(contract)} \cup {WithMore(contract, n) : n \in DOMAIN contract.types}

FirstReturned == pc = "stopped" /\ outcome = "done" /\ first.keeps = "none"

Again(keeps, contract) ==
    /\ Restarted(contract)
    /\ outcome' = "running"
    /\ first' = [keeps |-> keeps, result |-> result, identities |-> identities]
    /\ UNCHANGED interrupted

RewriteAll ==
    /\ FirstReturned
    /\ \E contract \in SameContract(result) : Again("all", contract)

RewriteActor ==
    /\ FirstReturned
    /\ \E contract \in SameActor(result) : Again("actor", contract)

Next ==
    /\ \/ FirstPartition
       \/ RefineRound
       \/ TakeQuotient
       \/ Reindex
       \/ HashContract
       \/ HashInterface
       \/ Finish
       \/ Interrupt
       \/ RewriteAll
       \/ RewriteActor
    /\ UNCHANGED maxWork

Spec == Init /\ [][Next]_vars

-----------------------------------------------------------------------------
Done == outcome = "done"

StandsForItsNodes ==
    \A n \in DOMAIN input.types :
        LET old == input.types[n]
            new == result.types[oldToNew[n]]
        IN  /\ LocalSignature(new) = LocalSignature(old)
            /\ SortedChildren(new) =
                 [i \in DOMAIN SortedChildren(old) |-> oldToNew[SortedChildren(old)[i]]]

\* The pairs of nodes that mean one type: the largest relation whose pairs are
\* alike by themselves and have related children.
MeanTheSame(types) ==
    LET children == [n \in DOMAIN types |-> SortedChildren(types[n])]
        alike == {p \in (DOMAIN types) \X (DOMAIN types) :
                    LocalSignature(types[p[1]]) = LocalSignature(types[p[2]])}
        largest[related \in SUBSET alike] ==
            LET kept == {p \in related : \A i \in DOMAIN children[p[1]] :
                            <<children[p[1]][i], children[p[2]][i]>> \in related}
            IN  IF kept = related THEN related ELSE largest[kept]
    IN  largest[alike]

\* A canonical node stands for each of its input nodes: alike by itself, and
\* its children stand for theirs (the mapping lower.rs:119 rewrites source
\* provenance with); and no two canonical nodes mean the same type.
OneNodeEachType ==
    Done => /\ StandsForItsNodes
            /\ \A pair \in MeanTheSame(result.types) : pair[1] = pair[2]

\* However a contract is written, what comes out is the same, node for node,
\* and so are both identities; one that keeps only the actor has the same
\* interface identity, which depends on nothing else that is declared.
SameMeaningSameResult ==
    Done => /\ first.keeps = "all" => result = first.result /\ identities = first.identities
            /\ first.keeps = "actor" => identities.interface = first.identities.interface

\* A contract is refused for its work only if it could need that much: a round
\* for each node and one more, one re-indexing, two hashes.
WorkRefusalIsReal ==
    outcome = "canonicalization_work" =>
        maxWork < (Len(input.types) + 1) * RoundWork(input.types) + ReindexWork(input)
                    + 2 * HashWork(input.types, input.declarations)

-----------------------------------------------------------------------------
\* The rounds are the abstract refinement, with ranks for class names.
Graph == [label |-> [n \in DOMAIN input.types |-> LocalSignature(input.types[n])],
          kids |-> [n \in DOMAIN input.types |-> SortedChildren(input.types[n])]]

Phase ==
    IF pc = "start" THEN "start"
    ELSE IF pc = "refine" THEN "refining"
    ELSE IF pc = "stopped" /\ ~Done THEN "refused"
    ELSE "stopped"

Partition == INSTANCE PartitionRefinement
                WITH Class <- Nat, graph <- Graph, class <- classes, phase <- Phase

RefinesPartition == Partition!Spec
=============================================================================
