--------------------------- MODULE MCImportLoader ---------------------------
(***************************************************************************)
(* Instances of ImportLoader for TLC.  The graphs are every assignment of  *)
(* short import lists to a few sources; bounding the length of a list      *)
(* bounds the fan-out, never the depth or the cycles.                      *)
(***************************************************************************)
EXTENDS ImportLoader

CONSTANTS s1, s2, s3, s4

\* All import lists of at most n edges over the targets T and kinds K.
Lists(T, K, n) ==
    UNION {[1..m -> [target : T, service : K]] : m \in 0..n}

MCSource == {s1, s2, s3, s4}

MCNoFaults == [s \in MCSource |-> "none"]

\* At most one source the resolver gets wrong: the load ends at the first it
\* meets, so that a second would not be seen.
MCOneFault ==
    {MCNoFaults} \cup {[MCNoFaults EXCEPT ![bad] = f] : bad \in MCSource, f \in Fault}

Graph(a, b, c) ==
    [s \in MCSource |-> CASE s = s1 -> a [] s = s2 -> b [] s = s3 -> c [] s = s4 -> << >>]

\* Three sources, both import kinds, two imports each but the last, which has
\* one service import at most.
MCGraphs ==
    {[imports |-> Graph(a, b, c), fault |-> MCNoFaults] :
        a, b \in Lists({s1, s2, s3}, BOOLEAN, 2), c \in Lists({s1, s2, s3}, {TRUE}, 1)}

\* Four sources, cycles included, where only the entry imports two.
MCFewImports ==
    {[imports |-> Graph(a, b, c), fault |-> f] :
        a \in Lists(MCSource, {FALSE}, 2), b, c \in Lists(MCSource, {FALSE}, 1),
        f \in MCOneFault}

MCPrograms == MCGraphs \cup MCFewImports

\* The last source is the heavy one.
MCSizes == [s \in MCSource |-> IF s = s4 THEN 2 ELSE 1]

\* Type imports only, none of them in a cycle.
MCFourGraphs ==
    {[imports |-> Graph(a, b, c), fault |-> MCNoFaults] :
        a, b \in Lists(MCSource, {FALSE}, 2), c \in Lists(MCSource, {FALSE}, 1)}

MCOneByteEach == [s \in MCSource |-> 1]
=============================================================================
