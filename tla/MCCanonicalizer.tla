--------------------------- MODULE MCCanonicalizer ---------------------------
(***************************************************************************)
(* Instances of Canonicalizer for TLC.                                     *)
(***************************************************************************)
EXTENDS Canonicalizer

Node(kind, detail, targets) ==
    [kind |-> kind, detail |-> detail,
     edges |-> [i \in DOMAIN targets |-> [key |-> i, ty |-> targets[i]]]]

Declare(refs) == [i \in DOMAIN refs |-> [name |-> i, ty |-> refs[i]]]

\* Every data graph on three nodes: a primitive, an optional of any node, or a
\* record of two fields of any nodes, all declared.  Most hold equal types.
MCDataNodes(R) ==
    {Node("primitive", <<2>>, << >>)}
      \cup {Node("opt", << >>, <<r>>) : r \in R}
      \cup {Node("record", << >>, <<r, q>>) : r, q \in R}

MCDataContracts ==
    {[types |-> types, declarations |-> Declare(<<3, 1, 2>>), actor |-> NoActor] :
        types \in [1..3 -> MCDataNodes(1..3)]}

\* A class of a service of two methods whose types share, refer back to the
\* service, or stand only in declarations.
MCActorContracts ==
    {[types |-> <<Node("class", << >>, <<5, 2>>),
                  Node("service", << >>, <<m, 3>>),
                  Node("func", <<0, 1>>, <<a, 5>>),
                  Node("func", <<k, 1>>, <<b, 6>>),
                  Node("opt", << >>, <<c>>),
                  Node("record", << >>, <<6, d>>)>>,
      declarations |-> Declare(<<5, 6, 4>>),
      actor |-> actor] :
        actor \in {1, 2}, k \in {0, 1}, m \in {3, 4},
        a, b \in {2, 5}, c, d \in {5, 6}}

\* The data contracts with a work limit that admits them, the contracts with
\* a service with one that is never met, and some of these with one that is.
Within(contracts, limit) == {[contract |-> contract, maxWork |-> limit] : contract \in contracts}

MCJobs ==
    Within(MCDataContracts, 400)
      \cup Within(MCActorContracts, 100000)
      \cup Within({contract \in MCActorContracts :
                     /\ contract.types[3].edges[1].ty = 2
                     /\ contract.types[4].edges[1].ty = 5}, 400)
=============================================================================
