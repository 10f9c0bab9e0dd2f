---------------------------- MODULE ImportLoader ----------------------------
(***************************************************************************)
(* The bundle loader: `load_source_units_with_resolver` turns an entry     *)
(* source into the ordered list of source units the compiler merges, by a  *)
(* depth-first walk over a host-supplied `SourceResolver`.                 *)
(*                                                                         *)
(* The walk is a LIFO stack of requests.  A request carries the source it  *)
(* names, whether the edge that made it was an `import service`, its depth *)
(* and the path of sources above it.  Popping a request checks, in this    *)
(* order: cancellation and deadline, the depth limit, a cycle, and whether *)
(* the source is already a unit; only then is the resolver asked to load.  *)
(*                                                                         *)
(* The caller may raise the cancellation token, and the deadline may pass, *)
(* between any two steps; `Budget::checkpoint` is where the loader looks.  *)
(***************************************************************************)
EXTENDS Naturals, Sequences, FiniteSets, FiniteSetsExt

CONSTANTS
    Source,          \* logical source IDs the resolver can name
    Entry,           \* the source the host asks to compile
    Programs,        \* the programs explored: import graphs, and how the resolver answers
    Size,            \* bytes of each source: [Source -> Nat]
    MaxImportDepth,  \* Limits::max_import_depth
    MaxSources,      \* Limits::max_sources
    MaxImportEdges,  \* Limits::max_import_edges
    MaxBundleBytes   \* Limits::max_bundle_bytes

\* `SourceImportKind::Service` is service = TRUE, `::Type` is FALSE.
Edge == [target : Source, service : BOOLEAN]

\* What is wrong with a source, each at the check that reports it.
\* "unparsable" stands for check_source_nesting, parse_program and the
\* per-source type-depth walk, three refusals in a row that change nothing.
Fault == {"none", "unidentifiable", "missing", "wrong_id", "oversized",
          "long_id", "bad_digest", "unparsable", "long_spelling"}

ASSUME EntryAssumption == Entry \in Source
ASSUME ProgramsAssumption ==
    Programs \subseteq [imports : [Source -> Seq(Edge)], fault : [Source -> Fault]]
ASSUME SizeAssumption == Size \in [Source -> Nat]
ASSUME LimitsAssumption ==
    /\ MaxImportDepth \in Nat
    /\ MaxSources \in Nat
    /\ MaxImportEdges \in Nat
    /\ MaxBundleBytes \in Nat

VARIABLES
    imports,    \* the program text: what each source imports, in order
    fault,      \* how the resolver answers for each source
    pc,         \* the loader's control point
    stack,      \* pending requests; the last one is popped next
    current,    \* the request being loaded; meaningful in the load phases
    units,      \* loaded sources, in the order they were indexed
    actor,      \* include_actor of each loaded unit
    consumed,   \* the budget's cumulative counters
    spelled,    \* units whose import spellings have been measured
    outcome,    \* "running", "done", or the code of the error returned
    cancelled,  \* the cancellation token
    expired,    \* the deadline has passed
    calls       \* resolver loads: per source, and begun after an interruption

program == <<imports, fault>>
walk == <<stack, current, units, actor>>
interrupt == <<cancelled, expired>>
vars == <<imports, fault, pc, stack, current, units, actor, consumed, spelled,
          outcome, cancelled, expired, calls>>

Request == [source : Source, service : BOOLEAN, depth : Nat, path : Seq(Source)]

EntryRequest == [source |-> Entry, service |-> TRUE, depth |-> 0, path |-> << >>]

Loaded == {units[i] : i \in DOMAIN units}

\* The sources above a request on its own import chain.
PathSet_ParentOnly(path) == IF path = << >> THEN {} ELSE {path[Len(path)]}
PathSet(path) == {path[i] : i \in DOMAIN path}

Interrupted == cancelled \/ expired

\* Budget::checkpoint reports cancellation before the deadline.
InterruptCode ==
    IF cancelled THEN "operation_cancelled" ELSE "operation_deadline_exceeded"

\* What the loader returns: Ok, or the code of its CompileError.
Outcome == {"running", "done", "operation_cancelled", "operation_deadline_exceeded",
            "import_depth", "did_import_cycle", "did_invalid_source_id",
            "did_source_not_found", "did_resolver_identity_mismatch", "source_bytes",
            "sources", "bundle_bytes", "source_id_bytes", "did_source_digest_mismatch",
            "did_parse_error", "import_edges"}

Init ==
    /\ \E p \in Programs : imports = p.imports /\ fault = p.fault
    /\ pc = "identify"
    /\ stack = << >>
    /\ current = EntryRequest
    /\ units = << >>
    /\ actor = [s \in Source |-> FALSE]
    /\ consumed = [sources |-> 0, bytes |-> 0, edges |-> 0]
    /\ spelled = 0
    /\ outcome = "running"
    /\ cancelled = FALSE
    /\ expired = FALSE
    /\ calls = [of |-> [s \in Source |-> 0], late |-> 0]

-----------------------------------------------------------------------------
\* Every `return Err(..)` and `?` of the loader: it stops with that code.
Fail(code) ==
    /\ pc' = "stopped"
    /\ outcome' = code
    /\ UNCHANGED <<program, walk, spelled, interrupt, calls>>

Continue(next) ==
    /\ pc' = next
    /\ UNCHANGED outcome

\* resolver.identify(None, entry), then the first request.
IdentifyEntry ==
    /\ pc = "identify"
    /\ UNCHANGED consumed
    /\ IF fault[Entry] = "unidentifiable"
       THEN Fail("did_invalid_source_id")
       ELSE /\ Continue("pop")
            /\ stack' = <<EntryRequest>>
            /\ UNCHANGED <<program, current, units, actor, spelled, interrupt, calls>>

\* pending.pop()
Rest_Peek(requests) == requests
Rest(requests) == SubSeq(requests, 1, Len(requests) - 1)

\* units[index].include_actor |= request.include_actor
Absorb_LastEdgeWins(had, wants) == wants
Absorb(had, wants) == had \/ wants

\* One turn of `while let Some(request) = pending.pop()`.
PopRequest ==
    /\ pc = "pop"
    /\ stack # << >>
    /\ UNCHANGED consumed
    /\ LET request == stack[Len(stack)]
       IN  IF Interrupted THEN Fail(InterruptCode)
           ELSE IF request.depth > MaxImportDepth THEN Fail("import_depth")
           ELSE IF request.source \in PathSet(request.path) THEN Fail("did_import_cycle")
           ELSE /\ stack' = Rest(stack)
                /\ UNCHANGED <<program, units, spelled, interrupt, calls>>
                /\ IF request.source \in Loaded
                   THEN /\ Continue("pop")
                        /\ actor' = [actor EXCEPT ![request.source] =
                                        Absorb(@, request.service)]
                        /\ UNCHANGED current
                   ELSE /\ Continue("load")
                        /\ current' = request
                        /\ UNCHANGED actor

\* load_with_context up to the resolver call: it takes a budget of its own
\* from the same context, so it sees the same token and the same deadline.
CheckBeforeLoad ==
    /\ pc = "load"
    /\ UNCHANGED consumed
    /\ IF Interrupted THEN Fail(InterruptCode)
       ELSE /\ Continue("call")
            /\ UNCHANGED <<program, walk, spelled, interrupt, calls>>

\* The host's resolver is entered.  The token may have been raised since the
\* checkpoint; `late` counts the calls begun after that.
CallResolver ==
    /\ pc = "call"
    /\ Continue("loading")
    /\ calls' = [of |-> [calls.of EXCEPT ![current.source] = @ + 1],
                 late |-> IF cancelled \/ expired THEN calls.late + 1 ELSE calls.late]
    /\ UNCHANGED <<program, walk, consumed, spelled, interrupt>>

\* The resolver returns: its own error first, then the two checkpoints that
\* follow (load_with_context's second one and the loader's).
ReturnFromResolver ==
    /\ pc = "loading"
    /\ UNCHANGED consumed
    /\ IF fault[current.source] = "missing" THEN Fail("did_source_not_found")
       ELSE IF Interrupted THEN Fail(InterruptCode)
       ELSE /\ Continue("accept")
            /\ UNCHANGED <<program, walk, spelled, interrupt, calls>>

\* Budget::charge refuses an amount that would pass the limit and then leaves
\* the counter as it was.
Fits_BeforeAdding(used, amount, limit) == used <= limit
Fits_Strict(used, amount, limit) == used + amount < limit
Fits(used, amount, limit) == used + amount <= limit

\* accept_resolved_source with accept_source: identity, per-source size, the
\* two cumulative charges, the ID length, and last the digest.
AcceptSource ==
    /\ pc = "accept"
    /\ LET s == current.source
           f == fault[s]
       IN  IF Interrupted
               THEN Fail(InterruptCode) /\ UNCHANGED consumed
           ELSE IF f = "wrong_id"
               THEN Fail("did_resolver_identity_mismatch") /\ UNCHANGED consumed
           ELSE IF f = "oversized"
               THEN Fail("source_bytes") /\ UNCHANGED consumed
           ELSE IF ~Fits(consumed.sources, 1, MaxSources)
               THEN Fail("sources") /\ UNCHANGED consumed
           ELSE IF ~Fits(consumed.bytes, Size[s], MaxBundleBytes)
               THEN /\ Fail("bundle_bytes")
                    /\ consumed' = [consumed EXCEPT !.sources = @ + 1]
           ELSE /\ consumed' = [consumed EXCEPT !.sources = @ + 1, !.bytes = @ + Size[s]]
                /\ IF f = "long_id" THEN Fail("source_id_bytes")
                   ELSE IF f = "bad_digest" THEN Fail("did_source_digest_mismatch")
                   ELSE /\ Continue("expand")
                        /\ UNCHANGED <<program, walk, spelled, interrupt, calls>>

\* Three ways to get the pushes wrong: first import deepest in the stack, the
\* last import forgotten, the depth counted down.
ChildRequests_InOrder(request) ==
    [i \in DOMAIN imports[request.source] |->
        [source |-> imports[request.source][i].target,
         service |-> imports[request.source][i].service,
         depth |-> request.depth + 1,
         path |-> Append(request.path, request.source)]]

ChildRequests_OffByOne(request) ==
    LET n == Len(imports[request.source])
    IN  [i \in 1..(n - 1) |->
            [source |-> imports[request.source][n - i].target,
             service |-> imports[request.source][n - i].service,
             depth |-> request.depth + 1,
             path |-> Append(request.path, request.source)]]

ChildRequests_Budgeted(request) ==
    [i \in DOMAIN imports[request.source] |->
        [source |-> imports[request.source][i].target,
         service |-> imports[request.source][i].service,
         depth |-> request.depth - 1,
         path |-> Append(request.path, request.source)]]

\* The requests a freshly loaded source pushes, last import first, so that the
\* first import is popped next.
ChildRequests(request) ==
    LET edges == imports[request.source]
        n == Len(edges)
    IN  [i \in 1..n |->
            [source |-> edges[n + 1 - i].target,
             service |-> edges[n + 1 - i].service,
             depth |-> request.depth + 1,
             path |-> Append(request.path, request.source)]]

\* Parse the accepted source, charge and identify its imports, index the unit
\* and push its children.
ExpandSource ==
    /\ pc = "expand"
    /\ LET s == current.source
           n == Len(imports[s])
       IN  IF Interrupted
               THEN Fail(InterruptCode) /\ UNCHANGED consumed
           ELSE IF fault[s] = "unparsable"
               THEN Fail("did_parse_error") /\ UNCHANGED consumed
           ELSE IF ~Fits(consumed.edges, n, MaxImportEdges)
               THEN Fail("import_edges") /\ UNCHANGED consumed
           ELSE /\ consumed' = [consumed EXCEPT !.edges = @ + n]
                /\ IF \E i \in 1..n : fault[imports[s][i].target] = "unidentifiable"
                   THEN Fail("did_invalid_source_id")
                   ELSE /\ Continue("pop")
                        /\ units' = Append(units, s)
                        /\ actor' = [actor EXCEPT ![s] = current.service]
                        /\ stack' = stack \o ChildRequests(current)
                        /\ UNCHANGED <<program, current, spelled, interrupt, calls>>

\* An import of s is spelled with more than max_source_id_bytes bytes.
LongSpelling(s) ==
    \E i \in DOMAIN imports[s] : fault[imports[s][i].target] = "long_spelling"

\* The pass over import spellings, one unit a step, after the stack is empty.
\* It stops at the first spelling longer than max_source_id_bytes.
MeasureSpelling ==
    /\ pc = "pop"
    /\ stack = << >>
    /\ UNCHANGED consumed
    /\ IF Interrupted THEN Fail(InterruptCode)
       ELSE IF spelled = Len(units)
       THEN /\ pc' = "stopped"
            /\ outcome' = "done"
            /\ UNCHANGED <<program, walk, spelled, interrupt, calls>>
       ELSE IF LongSpelling(units[spelled + 1])
       THEN Fail("source_id_bytes")
       ELSE /\ Continue("pop")
            /\ spelled' = spelled + 1
            /\ UNCHANGED <<program, walk, interrupt, calls>>

\* The host: CancellationToken::cancel on any thread, and the passing of time.
Cancel ==
    /\ pc # "stopped" /\ ~cancelled
    /\ cancelled' = TRUE
    /\ UNCHANGED <<program, pc, walk, consumed, spelled, outcome, expired, calls>>

Expire ==
    /\ pc # "stopped" /\ ~expired
    /\ expired' = TRUE
    /\ UNCHANGED <<program, pc, walk, consumed, spelled, outcome, cancelled, calls>>

Step ==
    \/ IdentifyEntry
    \/ PopRequest
    \/ CheckBeforeLoad
    \/ CallResolver
    \/ ReturnFromResolver
    \/ AcceptSource
    \/ ExpandSource
    \/ MeasureSpelling

Next == Step \/ Cancel \/ Expire

\* The loader is one synchronous call on the host's thread: it keeps running
\* until it returns.  Nothing forces the token to be raised.
Spec == Init /\ [][Next]_vars /\ WF_vars(Step)

-----------------------------------------------------------------------------
\* What the import graph itself says, independently of the walk.

Imports(s, t) == \E i \in DOMAIN imports[s] : imports[s][i].target = t

ImportsService(s, t) ==
    \E i \in DOMAIN imports[s] : imports[s][i].target = t /\ imports[s][i].service

\* Closed under import: whatever a member imports is a member.
ClosedUnderImport(S) == \A s \in S, t \in Source : Imports(s, t) => t \in S

\* The smallest closed set that contains the entry.
Reachable ==
    {s \in Source : \A S \in SUBSET Source :
                        Entry \in S /\ ClosedUnderImport(S) => s \in S}

\* No import cycle within S: every nonempty part of S has a member that
\* imports nothing from that part.
Acyclic(S) ==
    \A C \in SUBSET S : C # {} => \E s \in C : \A t \in C : ~Imports(s, t)

\* A chain of n imports that starts at the entry.
HasChain(n) ==
    \E chain \in [0..n -> Source] :
        /\ chain[0] = Entry
        /\ \A i \in 1..n : Imports(chain[i - 1], chain[i])

Done == outcome = "done"

-----------------------------------------------------------------------------
\* Every variable holds a value of its kind.
TypeOK ==
    /\ imports \in [Source -> Seq(Edge)]
    /\ fault \in [Source -> Fault]
    /\ pc \in {"identify", "pop", "load", "call", "loading", "accept", "expand",
               "stopped"}
    /\ stack \in Seq(Request)
    /\ current \in Request
    /\ units \in Seq(Source)
    /\ actor \in [Source -> BOOLEAN]
    /\ consumed \in [sources : Nat, bytes : Nat, edges : Nat]
    /\ spelled \in Nat
    /\ outcome \in Outcome
    /\ cancelled \in BOOLEAN
    /\ expired \in BOOLEAN
    /\ calls \in [of : [Source -> Nat], late : Nat]

\* A bundle is accepted only whole: the loaded units are exactly the sources
\* the entry reaches, each of them once (the `indexes` map, loading.rs:68).
LoadsExactlyTheReachable ==
    Done => /\ Loaded = Reachable
            /\ Cardinality(Loaded) = Len(units)

\* An accepted bundle has no import cycle, although the walk only looks for
\* one along the path of the request it popped (loading.rs:61).
AcceptedIsAcyclic == Done => Acyclic(Loaded)

\* A unit keeps its actor exactly when it is the entry or some edge to it is
\* an `import service`, in whatever order the edges were met (bundle.rs:36
\* relies on it: "if *any* edge to it was a service import").
ActorKeptExactly ==
    Done => \A s \in Loaded :
              actor[s] <=> s = Entry \/ \E t \in Loaded : ImportsService(t, s)

\* The merge order is the depth-first order of the source text: each unit is
\* the first import not yet listed of the latest unit that has one.
UnitsInDepthFirstOrder ==
    Done =>
      \A i \in 2..Len(units) :
        LET seen == {units[j] : j \in 1..(i - 1)}
            unlisted(s) == {k \in DOMAIN imports[s] : imports[s][k].target \notin seen}
            parent == units[Max({j \in 1..(i - 1) : unlisted(units[j]) # {}})]
        IN  units[i] = imports[parent][Min(unlisted(parent))].target

Faultless ==
    /\ \A s \in Reachable \ {Entry} : fault[s] = "none"
    /\ fault[Entry] \in {"none", "long_spelling"}
CallsInTime ==
    /\ \A s \in Source : calls.of[s] <= 1
    /\ calls.late <= 1

\* Nothing the resolver got wrong survives into a bundle: whatever is reachable
\* was identified, found, under its own ID, within its size, with its digest, and
\* parsed, every spelling short enough.  A refusal names something that is there:
\* a shared import is not a cycle, and a limit is reported only for a graph that
\* breaks it.  And the resolver is asked for a source at most once, and after the
\* host has cancelled or the deadline has passed at most for the one that was
\* already past its checkpoint (resolver.rs:209).
VerdictsAreReal ==
    /\ Done => Faultless /\ Cardinality(Reachable) <= MaxSources
    /\ outcome = "did_import_cycle" => ~Acyclic(Reachable)
    /\ outcome = "import_depth" => HasChain(MaxImportDepth + 1)
    /\ outcome = "sources" => Cardinality(Reachable) > MaxSources
    /\ CallsInTime

\* Bytes and edges are within their limits when they are counted from the import
\* graph and not by the budget, and are refused only when they are not.
TotalsAreCounted ==
    LET bytes == MapThenSumSet(LAMBDA s : Size[s], Reachable)
        edges == MapThenSumSet(LAMBDA s : Len(imports[s]), Reachable)
    IN  /\ Done => bytes <= MaxBundleBytes /\ edges <= MaxImportEdges
        /\ outcome = "bundle_bytes" => bytes > MaxBundleBytes
        /\ outcome = "import_edges" => edges > MaxImportEdges

\* The walk ends on every import graph, cyclic ones included.
Terminates == <>(pc = "stopped")

\* What limits.rs:222 says of max_import_depth, "Maximum import chain depth
\* during source resolution", read as a bound on an accepted bundle.
AcceptedChainsWithinDepth == Done => ~HasChain(MaxImportDepth + 1)
=============================================================================
