---------------------------- MODULE MCTypeGraphs ----------------------------
(***************************************************************************)
(* Two algorithms on cyclic type graphs in one run: the canonicalizer's on *)
(* one graph, and the decoder's reference checks on a pair of them.  They  *)
(* share no state; a behaviour is of one or of the other.                  *)
(***************************************************************************)
EXTENDS MCCanonicalizer, MCRefSubtype

NoTypes == << >>
NoReferences ==
    /\ world = [wire |-> NoTypes, schema |-> NoTypes, mints |-> FALSE, depth |-> 0]
    /\ memo = << >> /\ opened = 0 /\ stack = << >> /\ reached = 0
    /\ asked = << >> /\ answer = "none" /\ checks = 0
NoContract ==
    /\ input = [types |-> NoTypes, declarations |-> << >>, actor |-> NoActor]
    /\ maxWork = 0 /\ work = 0 /\ pc = "start" /\ outcome = "running"
    /\ classes = << >> /\ quotient = << >> /\ result = << >> /\ oldToNew = << >>
    /\ identities = << >> /\ interrupted = FALSE /\ first = [keeps |-> "none"]

MCInit == (Init /\ NoReferences) \/ (ReferencesInit /\ NoContract)
MCNext ==
    \/ world.wire = NoTypes /\ Next /\ UNCHANGED referenceVars
    \/ world.wire # NoTypes /\ ReferencesNext /\ UNCHANGED vars
MCSpec == MCInit /\ [][MCNext]_<<vars, referenceVars>>
=============================================================================
