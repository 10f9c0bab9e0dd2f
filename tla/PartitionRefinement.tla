------------------------- MODULE PartitionRefinement -------------------------
(***************************************************************************)
(* What `semantic_classes` promises, without its signature bytes: nodes of *)
(* a type graph are put in classes, first by what each node is by itself   *)
(* and then, round after round, by the classes of their children, until a  *)
(* round splits no class.                                                  *)
(*                                                                         *)
(* A round's class names are any names that tell apart exactly the nodes   *)
(* whose signatures differ; the code takes ranks of sorted byte strings.   *)
(***************************************************************************)
EXTENDS Naturals, Sequences

CONSTANT Class   \* class names

VARIABLES
    graph,    \* the arena: each node's local signature and its sorted children
    class,    \* the current partition, a function on the nodes
    phase     \* "start", "refining", "stopped" or "refused"

vars == <<graph, class, phase>>

\* Any arena whose references point into it.
IsGraph(g) ==
    /\ DOMAIN g.kids = DOMAIN g.label
    /\ \A n \in DOMAIN g.label : g.kids[n] \in Seq(DOMAIN g.label)

Node == DOMAIN graph.label

SameLocal(a, b) == graph.label[a] = graph.label[b]

\* refined_signature: the local one, the own class and the children's classes.
SameRefined(a, b) ==
    /\ SameLocal(a, b)
    /\ class[a] = class[b]
    /\ Len(graph.kids[a]) = Len(graph.kids[b])
    /\ \A i \in 1..Len(graph.kids[a]) : class[graph.kids[a][i]] = class[graph.kids[b][i]]

\* partition_was_split: some class of the old partition meets two of the new.
Split(new) == \E a, b \in Node : class[a] = class[b] /\ new[a] # new[b]

Init ==
    /\ IsGraph(graph)
    /\ class = << >>
    /\ phase = "start"

\* The first partition, by local signature alone.
Assign ==
    /\ phase = "start"
    /\ phase' = "refining"
    /\ class' \in [Node -> Class]
    /\ \A a, b \in Node : class'[a] = class'[b] <=> SameLocal(a, b)
    /\ UNCHANGED graph

\* One round; the round that splits nothing is the last.
Refine ==
    /\ phase = "refining"
    /\ class' \in [Node -> Class]
    /\ \A a, b \in Node : class'[a] = class'[b] <=> SameRefined(a, b)
    /\ phase' = IF Split(class') THEN "refining" ELSE "stopped"
    /\ UNCHANGED graph

\* The work limit, the token or the deadline refuses the next round, or what
\* canonicalization does once the classes are known.
Refuse ==
    /\ phase \in {"start", "refining", "stopped"}
    /\ phase' = "refused"
    /\ UNCHANGED <<graph, class>>

\* Another contract is canonicalized.
Restart ==
    /\ phase \in {"stopped", "refused"}
    /\ phase' = "start"
    /\ class' = << >>
    /\ IsGraph(graph')

Next == Assign \/ Refine \/ Refuse \/ Restart

Spec == Init /\ [][Next]_vars

-----------------------------------------------------------------------------
\* A labelled bisimulation: related nodes look alike and so do their children.
Bisimulation(R) ==
    \A a, b \in Node : <<a, b>> \in R =>
        /\ SameLocal(a, b)
        /\ Len(graph.kids[a]) = Len(graph.kids[b])
        /\ \A i \in 1..Len(graph.kids[a]) : <<graph.kids[a][i], graph.kids[b][i]>> \in R

\* The relation the current partition stands for.
SameClass == {p \in Node \X Node : class[p[1]] = class[p[2]]}

TypeOK ==
    /\ IsGraph(graph)
    /\ phase \in {"start", "refining", "stopped", "refused"}
    /\ phase \in {"refining", "stopped"} => class \in [Node -> Class]

\* No round separates two nodes that some bisimulation relates: types equal
\* up to unfolding stay together (canonical.rs:57).
NeverSeparates ==
    phase \in {"refining", "stopped"} =>
        \A R \in SUBSET (Node \X Node) : Bisimulation(R) => R \subseteq SameClass

\* When a round splits nothing, what is left is itself a bisimulation: nodes
\* of one class can stand for each other in the quotient.
StopsAtBisimulation == phase = "stopped" => Bisimulation(SameClass)

\* At the end a class is a type: two nodes share one exactly when some
\* bisimulation relates them.
ClassesAreTypes ==
    phase = "stopped" =>
        \A a, b \in Node :
            class[a] = class[b] <=>
                \E R \in SUBSET (Node \X Node) : Bisimulation(R) /\ <<a, b>> \in R
=============================================================================
