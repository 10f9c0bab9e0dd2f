------------------------ MODULE ImportLoader_proofs -------------------------
(***************************************************************************)
(* Proofs about the bundle loader, for every set of sources, every import  *)
(* graph, every resolver behaviour and every limit.                        *)
(***************************************************************************)
EXTENDS ImportLoader, FiniteSetTheorems, SequenceTheorems, WellFoundedInduction, TLAPS

\* The children of a request are well-formed requests.
LEMMA ChildRequestsType ==
    ASSUME TypeOK, NEW request \in Request
    PROVE  ChildRequests(request) \in Seq(Request)
<1>1. imports[request.source] \in Seq(Edge)
  BY DEF TypeOK, Request
<1> DEFINE edges == imports[request.source]
           n == Len(edges)
           child(i) == [source |-> edges[n + 1 - i].target,
                        service |-> edges[n + 1 - i].service,
                        depth |-> request.depth + 1,
                        path |-> Append(request.path, request.source)]
<1>2. n \in Nat
  BY <1>1
<1>3. ASSUME NEW i \in 1..n
      PROVE  child(i) \in Request
  <2>1. edges[n + 1 - i] \in Edge
    BY <1>1, <1>2, <1>3
  <2>2. Append(request.path, request.source) \in Seq(Source)
    BY DEF Request
  <2> QED
    BY <2>1, <2>2 DEF Edge, Request
<1> HIDE DEF child
<1>4. [i \in 1..n |-> child(i)] \in Seq(Request)
  BY <1>2, <1>3
<1> QED
  BY <1>4 DEF ChildRequests, child

\* An error return keeps the types, whatever it charged before failing.
LEMMA FailType ==
    ASSUME TypeOK, NEW code \in Outcome, Fail(code),
           consumed' \in [sources : Nat, bytes : Nat, edges : Nat]
    PROVE  TypeOK'
BY DEF TypeOK, Fail, program, walk, interrupt

LEMMA InterruptCodeType == InterruptCode \in Outcome
BY DEF InterruptCode, Outcome

LEMMA TypeInit == Init => TypeOK
<1> SUFFICES ASSUME Init PROVE TypeOK
  OBVIOUS
<1> USE DEF Init
<1>1. imports \in [Source -> Seq(Edge)] /\ fault \in [Source -> Fault]
  BY ProgramsAssumption
<1>2. EntryRequest \in Request
  BY EntryAssumption DEF EntryRequest, Request
<1>3. calls \in [of : [Source -> Nat], late : Nat]
  OBVIOUS
<1>4. consumed \in [sources : Nat, bytes : Nat, edges : Nat]
  OBVIOUS
<1>5. stack \in Seq(Request) /\ units \in Seq(Source)
  OBVIOUS
<1>6. outcome \in Outcome
  BY DEF Outcome
<1> QED
  BY <1>1, <1>2, <1>3, <1>4, <1>5, <1>6 DEF TypeOK

LEMMA TypeStep == TypeOK /\ [Next]_vars => TypeOK'
<1> SUFFICES ASSUME TypeOK, [Next]_vars
             PROVE  TypeOK'
  OBVIOUS
<1> USE DEF TypeOK, Outcome, program, walk, interrupt, Fail, Continue, InterruptCode
<1>1. CASE IdentifyEntry
  <2>1. CASE fault[Entry] = "unidentifiable"
    BY <1>1, <2>1, FailType DEF IdentifyEntry
  <2>2. CASE fault[Entry] # "unidentifiable"
    <3>1. EntryRequest \in Request
      BY EntryAssumption DEF EntryRequest, Request
    <3>2. <<EntryRequest>> \in Seq(Request)
      BY <3>1
    <3> QED
      BY <1>1, <2>2, <3>2 DEF IdentifyEntry
  <2> QED
    BY <2>1, <2>2
<1>2. CASE PopRequest
  <2>1. Rest(stack) \in Seq(Request) /\ stack[Len(stack)] \in Request
    BY <1>2 DEF PopRequest, Rest
  <2>2. stack[Len(stack)].source \in Source /\ stack[Len(stack)].service \in BOOLEAN
    BY <2>1 DEF Request
  <2>3. Absorb(actor[stack[Len(stack)].source], stack[Len(stack)].service) \in BOOLEAN
    BY DEF Absorb
  <2> QED
    BY <1>2, <2>1, <2>2, <2>3 DEF PopRequest
<1>3. CASE CheckBeforeLoad
  BY <1>3 DEF CheckBeforeLoad
<1>4. CASE CallResolver
  <2>1. current.source \in Source
    BY DEF Request
  <2> QED
    BY <1>4, <2>1, SMTT(30) DEF CallResolver
<1>5. CASE ReturnFromResolver
  BY <1>5 DEF ReturnFromResolver
<1>6. CASE AcceptSource
  <2>1. Size[current.source] \in Nat
    BY SizeAssumption DEF Request
  <2>2. consumed' \in [sources : Nat, bytes : Nat, edges : Nat]
    <3>1. \/ consumed' = consumed
          \/ consumed' = [consumed EXCEPT !.sources = @ + 1]
          \/ consumed' = [consumed EXCEPT !.sources = @ + 1,
                                          !.bytes = @ + Size[current.source]]
      BY <1>6, Zenon DEF AcceptSource
    <3>2. consumed \in [sources : Nat, bytes : Nat, edges : Nat]
      OBVIOUS
    <3> DEFINE bytes == Size[current.source]
    <3>3. consumed.sources + 1 \in Nat /\ consumed.bytes + bytes \in Nat
      BY <2>1, <3>2
    <3>4. [consumed EXCEPT !.sources = @ + 1, !.bytes = @ + bytes]
              \in [sources : Nat, bytes : Nat, edges : Nat]
      <4> HIDE DEF TypeOK, bytes
      <4> QED
        BY <3>2, <3>3
    <3> QED
      BY <3>1, <3>2, <3>4
  <2>3. CASE \E code \in Outcome : Fail(code)
    BY <2>2, <2>3, FailType
  <2>4. CASE Continue("expand") /\ UNCHANGED <<program, walk, spelled, interrupt, calls>>
    BY <2>2, <2>4
  <2>5. \/ \E code \in Outcome : Fail(code)
        \/ Continue("expand") /\ UNCHANGED <<program, walk, spelled, interrupt, calls>>
    <3> HIDE DEF Fail, Continue, TypeOK, InterruptCode
    <3>1. {"did_resolver_identity_mismatch", "source_bytes", "sources", "bundle_bytes",
           "source_id_bytes", "did_source_digest_mismatch"} \subseteq Outcome
      OBVIOUS
    <3> QED
      BY <1>6, <3>1, InterruptCodeType DEF AcceptSource
  <2> QED
    BY <2>3, <2>4, <2>5
<1>7. CASE ExpandSource
  <2>1. current.source \in Source /\ current.service \in BOOLEAN
    BY DEF Request
  <2>2. imports[current.source] \in Seq(Edge)
    BY <2>1
  <2>3. stack \o ChildRequests(current) \in Seq(Request)
    BY ChildRequestsType
  <2>4. consumed' \in [sources : Nat, bytes : Nat, edges : Nat]
    BY <1>7, <2>2 DEF ExpandSource
  <2>5. CASE \E code \in Outcome : Fail(code)
    BY <2>4, <2>5, FailType
  <2> DEFINE Indexed == /\ Continue("pop")
                        /\ units' = Append(units, current.source)
                        /\ actor' = [actor EXCEPT ![current.source] = current.service]
                        /\ stack' = stack \o ChildRequests(current)
                        /\ UNCHANGED <<program, current, spelled, interrupt, calls>>
  <2>6. CASE Indexed
    BY <2>1, <2>3, <2>4, <2>6
  <2>7. (\E code \in Outcome : Fail(code)) \/ Indexed
    <3> HIDE DEF Fail, Continue, TypeOK, InterruptCode
    <3>1. {"did_parse_error", "import_edges", "did_invalid_source_id"} \subseteq Outcome
      OBVIOUS
    <3> QED
      BY <1>7, <3>1, InterruptCodeType DEF ExpandSource
  <2> QED
    BY <2>5, <2>6, <2>7
<1>8. CASE MeasureSpelling
  <2> consumed' \in [sources : Nat, bytes : Nat, edges : Nat]
    BY <1>8 DEF MeasureSpelling
  <2>1. CASE Interrupted
    BY <1>8, <2>1, FailType, InterruptCodeType DEF MeasureSpelling
  <2>2. CASE ~Interrupted /\ spelled = Len(units)
    BY <1>8, <2>2 DEF MeasureSpelling
  <2>3. CASE ~Interrupted /\ spelled # Len(units) /\ LongSpelling(units[spelled + 1])
    BY <1>8, <2>3, FailType DEF MeasureSpelling
  <2>4. CASE ~Interrupted /\ spelled # Len(units) /\ ~LongSpelling(units[spelled + 1])
    <3>1. /\ pc' = "pop" /\ outcome' = outcome /\ spelled' = spelled + 1
          /\ UNCHANGED <<program, walk, interrupt, calls>>
      BY <1>8, <2>4, Zenon DEF MeasureSpelling
    <3> QED
      BY <3>1
  <2> QED
    BY <2>1, <2>2, <2>3, <2>4
<1>9. CASE Cancel
  BY <1>9 DEF Cancel
<1>10. CASE Expire
  BY <1>10 DEF Expire
<1>11. CASE UNCHANGED vars
  BY <1>11 DEF vars
<1> QED
  BY <1>1, <1>2, <1>3, <1>4, <1>5, <1>6, <1>7, <1>8, <1>9, <1>10, <1>11
     DEF Next, Step

\* The loader keeps every variable within its type.
THEOREM TypeCorrect == Spec => []TypeOK
BY TypeInit, TypeStep, PTL DEF Spec

-----------------------------------------------------------------------------
(***************************************************************************)
(* Why an accepted bundle is exactly what the entry reaches, with exactly  *)
(* the actors some edge asked for.                                         *)
(*                                                                         *)
(* The invariant accounts for every import of every loaded source: either  *)
(* it has been served, or a request for it is still pending.  When nothing *)
(* is pending, the loaded sources are therefore closed under import; and   *)
(* since every request was made by an import of a loaded source, nothing   *)
(* else was ever loaded.                                                   *)
(*                                                                         *)
(* The second part is about every verdict of the loader: what a request    *)
(* carries (the chain of imports that led to it), what has been checked of *)
(* a source by the time it is a unit, and what was counted.                *)
(***************************************************************************)

Loading == pc \in {"load", "call", "loading", "accept", "expand"}

Elements(seq) == {seq[i] : i \in DOMAIN seq}

\* The requests not yet answered: those on the stack and the one in hand.
Pending == Elements(stack) \cup (IF Loading THEN {current} ELSE {})

\* No error has been returned, so nothing has been abandoned.
Alive == outcome \in {"running", "done"}

\* The control point, the stack and the outcome agree.
PhaseInv ==
    /\ outcome = "running" <=> pc # "stopped"
    /\ Done => stack = << >>
    /\ pc = "identify" => units = << >> /\ stack = << >>

\* The entry is loaded with its actor, or a request for both is pending.
EntryInv ==
    Alive /\ pc # "identify" =>
        \/ Entry \in Loaded /\ actor[Entry]
        \/ \E r \in Pending : r.source = Entry /\ r.service

\* Every import of a loaded source has been served, or its request is pending.
AccountedInv ==
    Alive => \A s \in Loaded : \A i \in DOMAIN imports[s] :
        LET e == imports[s][i]
        IN  \/ e.target \in Loaded /\ (e.service => actor[e.target])
            \/ \E r \in Pending : r.source = e.target /\ r.service = e.service

\* A request stems from the host or from an import of a loaded source.
Justified(r) ==
    \/ r.source = Entry /\ r.service
    \/ \E s \in Loaded : \E i \in DOMAIN imports[s] :
          imports[s][i].target = r.source /\ imports[s][i].service = r.service

JustifiedInv == \A r \in Pending : Justified(r)

\* No actor is kept that no edge asked for.
ActorInv ==
    \A s \in Source : actor[s] => s = Entry \/ \E t \in Loaded : ImportsService(t, s)

\* Nothing outside a closed set that holds the entry is ever loaded.
ReachInv ==
    \A S \in SUBSET Source : Entry \in S /\ ClosedUnderImport(S) => Loaded \subseteq S

\* A source is indexed once.
OnceInv ==
    /\ \A i, j \in DOMAIN units : units[i] = units[j] => i = j
    /\ Loading => current.source \notin Loaded

WalkInv ==
    /\ TypeOK /\ PhaseInv /\ EntryInv /\ AccountedInv
    /\ JustifiedInv /\ ActorInv /\ ReachInv /\ OnceInv

-----------------------------------------------------------------------------
\* What a step of the loader does to the walk, one kind of step at a time.

Abandons ==
    /\ pc' = "stopped" /\ ~Alive'
    /\ UNCHANGED <<program, walk>>

Proceeds ==
    /\ Loading /\ Loading' /\ Alive /\ Alive'
    /\ UNCHANGED <<program, walk, outcome>>

Begins ==
    /\ pc = "identify" /\ pc' = "pop"
    /\ stack' = <<EntryRequest>>
    /\ UNCHANGED <<program, current, units, actor, outcome>>

Top == stack[Len(stack)]

Meets ==
    /\ pc = "pop" /\ pc' = "pop" /\ stack # << >>
    /\ Top.source \in Loaded \ PathSet(Top.path)
    /\ stack' = Rest(stack)
    /\ actor' = [actor EXCEPT ![Top.source] = @ \/ Top.service]
    /\ UNCHANGED <<program, current, units, outcome>>

Takes ==
    /\ pc = "pop" /\ pc' = "load" /\ stack # << >>
    /\ Top.source \notin Loaded \cup PathSet(Top.path)
    /\ stack' = Rest(stack)
    /\ current' = Top
    /\ UNCHANGED <<program, units, actor, outcome>>

Indexes ==
    /\ pc = "expand" /\ pc' = "pop"
    /\ units' = Append(units, current.source)
    /\ actor' = [actor EXCEPT ![current.source] = current.service]
    /\ stack' = stack \o ChildRequests(current)
    /\ UNCHANGED <<program, current, outcome>>

Concludes ==
    /\ pc = "pop" /\ pc' = "stopped" /\ stack = << >>
    /\ outcome' = "done"
    /\ UNCHANGED <<program, walk>>

Rests == UNCHANGED <<program, walk, pc, outcome>>

LEMMA FailAbandons ==
    ASSUME NEW code \in Outcome \ {"running", "done"}, Fail(code)
    PROVE  Abandons
BY DEF Fail, Abandons, Alive

LEMMA InterruptAbandons == ASSUME Fail(InterruptCode) PROVE Abandons
BY FailAbandons DEF InterruptCode, Outcome

\* Every step is of one of these kinds.
LEMMA StepKinds ==
    ASSUME TypeOK, PhaseInv, [Next]_vars
    PROVE  \/ Abandons \/ Proceeds \/ Begins \/ Meets
           \/ Takes \/ Indexes \/ Concludes \/ Rests
<1> USE DEF Continue, program, walk, interrupt
<1>a. pc # "stopped" => Alive /\ outcome = "running"
  BY DEF PhaseInv, Alive
<1>b. /\ Fail("did_invalid_source_id") => Abandons
      /\ Fail("import_depth") => Abandons
      /\ Fail("did_import_cycle") => Abandons
      /\ Fail("did_source_not_found") => Abandons
      /\ Fail("did_resolver_identity_mismatch") => Abandons
      /\ Fail("source_bytes") => Abandons
      /\ Fail("sources") => Abandons
      /\ Fail("bundle_bytes") => Abandons
      /\ Fail("source_id_bytes") => Abandons
      /\ Fail("did_source_digest_mismatch") => Abandons
      /\ Fail("did_parse_error") => Abandons
      /\ Fail("import_edges") => Abandons
      /\ Fail(InterruptCode) => Abandons
  BY FailAbandons, InterruptAbandons DEF Outcome
<1> HIDE DEF Fail
<1>1. CASE IdentifyEntry
  BY <1>1, <1>b DEF IdentifyEntry, Begins
<1>2. CASE PopRequest
  <2>1. CASE Fail(InterruptCode) \/ Fail("import_depth") \/ Fail("did_import_cycle")
    BY <2>1, <1>b
  <2>2. CASE /\ Top.source \notin PathSet(Top.path)
             /\ stack' = Rest(stack)
             /\ UNCHANGED <<program, units, spelled, interrupt, calls>>
             /\ IF Top.source \in Loaded
                THEN /\ Continue("pop")
                     /\ actor' = [actor EXCEPT ![Top.source] = Absorb(@, Top.service)]
                     /\ UNCHANGED current
                ELSE /\ Continue("load")
                     /\ current' = Top
                     /\ UNCHANGED actor
    <3>1. CASE Top.source \in Loaded
      BY <1>2, <2>2, <3>1 DEF PopRequest, Meets, Absorb
    <3>2. CASE Top.source \notin Loaded
      BY <1>2, <2>2, <3>2 DEF PopRequest, Takes
    <3> QED
      BY <3>1, <3>2
  <2> QED
    BY <1>2, <2>1, <2>2, Zenon DEF PopRequest, Top
<1>3. CASE CheckBeforeLoad
  BY <1>3, <1>a, <1>b DEF CheckBeforeLoad, Proceeds, Loading, Alive
<1>4. CASE CallResolver
  BY <1>4, <1>a DEF CallResolver, Proceeds, Loading, Alive
<1>5. CASE ReturnFromResolver
  BY <1>5, <1>a, <1>b DEF ReturnFromResolver, Proceeds, Loading, Alive
<1>6. CASE AcceptSource
  <2>1. \/ Abandons
        \/ pc = "accept" /\ Continue("expand") /\ UNCHANGED <<program, walk>>
    BY <1>6, <1>b DEF AcceptSource
  <2> QED
    BY <2>1, <1>a DEF Proceeds, Loading, Alive
<1>7. CASE ExpandSource
  BY <1>7, <1>b DEF ExpandSource, Indexes
<1>8. CASE MeasureSpelling
  BY <1>8, <1>b DEF MeasureSpelling, Concludes, Rests
<1>9. CASE Cancel \/ Expire \/ UNCHANGED vars
  BY <1>9 DEF Cancel, Expire, vars, Rests
<1> QED
  BY <1>1, <1>2, <1>3, <1>4, <1>5, <1>6, <1>7, <1>8, <1>9 DEF Next, Step

-----------------------------------------------------------------------------
\* What the three sequence operations of the walk do to the elements.

LEMMA ElementsOfRest ==
    ASSUME NEW S, NEW seq \in Seq(S), seq # << >>
    PROVE  /\ Elements(seq) = Elements(Rest(seq)) \cup {seq[Len(seq)]}
           /\ Rest(seq) \in Seq(S)
           /\ seq[Len(seq)] \in S
<1>1. Len(seq) \in Nat \ {0} /\ DOMAIN seq = 1..Len(seq)
  BY EmptySeq, LenProperties
<1>2. /\ Rest(seq) \in Seq(S)
      /\ DOMAIN Rest(seq) = 1..(Len(seq) - 1)
      /\ \A i \in 1..(Len(seq) - 1) : Rest(seq)[i] = seq[i]
  BY <1>1 DEF Rest
<1> QED
  BY <1>1, <1>2 DEF Elements

LEMMA ElementsOfAppend ==
    ASSUME NEW S, NEW seq \in Seq(S), NEW e \in S
    PROVE  Elements(Append(seq, e)) = Elements(seq) \cup {e}
<1>1. /\ DOMAIN Append(seq, e) = 1..(Len(seq) + 1)
      /\ DOMAIN seq = 1..Len(seq) /\ Len(seq) \in Nat
      /\ \A i \in 1..Len(seq) : Append(seq, e)[i] = seq[i]
      /\ Append(seq, e)[Len(seq) + 1] = e
  OBVIOUS
<1> QED
  BY <1>1 DEF Elements

LEMMA ElementsOfConcat ==
    ASSUME NEW S, NEW s \in Seq(S), NEW t \in Seq(S)
    PROVE  Elements(s \o t) = Elements(s) \cup Elements(t)
<1> DEFINE m == Len(s)
           n == Len(t)
<1>1. /\ DOMAIN (s \o t) = 1..(m + n) /\ DOMAIN s = 1..m /\ DOMAIN t = 1..n
      /\ m \in Nat /\ n \in Nat
      /\ \A i \in 1..m : (s \o t)[i] = s[i]
      /\ \A i \in 1..n : (s \o t)[m + i] = t[i]
  BY ConcatProperties, LenProperties
<1>2. \A i \in 1..(m + n) : i \in 1..m \/ (i - m \in 1..n /\ i = m + (i - m))
  BY <1>1
<1>3. \A i \in 1..m : i \in 1..(m + n)
  BY <1>1
<1>4. \A i \in 1..n : m + i \in 1..(m + n)
  BY <1>1
<1> DEFINE st == s \o t
<1> HIDE DEF m, n, st
<1>5. \A i \in 1..(m + n) : st[i] \in {s[j] : j \in 1..m} \cup {t[j] : j \in 1..n}
  <2> TAKE i \in 1..(m + n)
  <2>1. CASE i \in 1..m
    BY <1>1, <2>1 DEF st
  <2>2. CASE i - m \in 1..n /\ i = m + (i - m)
    <3> DEFINE k == i - m
    <3>1. st[i] = t[k] /\ k \in 1..n
      BY <1>1, <2>2 DEF st
    <3> HIDE DEF k
    <3> QED
      BY <3>1
  <2> QED
    BY <1>2, <2>1, <2>2
<1>6. \A i \in 1..m : s[i] \in {st[j] : j \in 1..(m + n)}
  BY <1>1, <1>3 DEF st
<1>7. \A i \in 1..n : t[i] \in {st[j] : j \in 1..(m + n)}
  BY <1>1, <1>4 DEF st
<1>8. {st[j] : j \in 1..(m + n)} = {s[j] : j \in 1..m} \cup {t[j] : j \in 1..n}
  BY <1>5, <1>6, <1>7
<1> QED
  BY <1>1, <1>8 DEF Elements, st

\* The request made for the i-th import of the source being indexed.
ChildFor(request, i) ==
    [source |-> imports[request.source][i].target,
     service |-> imports[request.source][i].service,
     depth |-> request.depth + 1,
     path |-> Append(request.path, request.source)]

\* A source pushes one request for each of its imports, and no other.
LEMMA ElementsOfChildren ==
    ASSUME TypeOK, NEW request \in Request
    PROVE  Elements(ChildRequests(request)) =
              {ChildFor(request, i) : i \in DOMAIN imports[request.source]}
<1> DEFINE edges == imports[request.source]
           n == Len(edges)
<1>1. edges \in Seq(Edge)
  BY DEF TypeOK, Request
<1>2. n \in Nat /\ DOMAIN edges = 1..n
  BY <1>1
<1>3. DOMAIN ChildRequests(request) = 1..n
  BY DEF ChildRequests
<1>4. \A i \in 1..n : ChildRequests(request)[i] = ChildFor(request, n + 1 - i)
  BY DEF ChildRequests, ChildFor
<1>5. \A i \in 1..n : n + 1 - i \in 1..n /\ n + 1 - (n + 1 - i) = i
  BY <1>2
<1> DEFINE seq == ChildRequests(request)
<1> HIDE DEF n, seq
<1>6. \A i \in 1..n : seq[i] \in {ChildFor(request, j) : j \in 1..n}
  BY <1>4, <1>5 DEF seq
<1>7. \A j \in 1..n : ChildFor(request, j) \in {seq[i] : i \in 1..n}
  BY <1>4, <1>5 DEF seq
<1>8. {seq[i] : i \in 1..n} = {ChildFor(request, j) : j \in 1..n}
  BY <1>6, <1>7
<1> QED
  BY <1>2, <1>3, <1>8 DEF Elements, seq

LEMMA LoadedElements == Loaded = Elements(units)
BY DEF Loaded, Elements
-----------------------------------------------------------------------------
\* The invariant holds at the start, when nothing is loaded or pending.
LEMMA WalkInit == Init => WalkInv
<1> SUFFICES ASSUME Init PROVE WalkInv
  OBVIOUS
<1>1. TypeOK
  BY TypeInit
<1>2. Loaded = {} /\ Pending = {}
  BY DEF Init, Loaded, Pending, Elements, Loading
<1>3. PhaseInv /\ EntryInv
  BY DEF Init, PhaseInv, EntryInv, Done
<1>4. AccountedInv /\ JustifiedInv /\ ReachInv
  BY <1>2 DEF AccountedInv, JustifiedInv, ReachInv
<1>5. ActorInv
  BY DEF Init, ActorInv
<1>6. OnceInv
  BY DEF Init, OnceInv, Loading
<1> QED
  BY <1>1, <1>3, <1>4, <1>5, <1>6 DEF WalkInv

\* A step that loads nothing, serves nothing and loses no request.
LEMMA QuietStep ==
    ASSUME WalkInv, TypeOK', PhaseInv', UNCHANGED <<imports, actor, units>>,
           Pending' = Pending, Alive' => Alive,
           pc # "identify" \/ pc' = "identify",
           Loading' => current'.source \notin Loaded
    PROVE  WalkInv'
<1>1. Loaded' = Loaded
  BY DEF Loaded
<1>2. EntryInv'
  BY <1>1 DEF WalkInv, EntryInv
<1>3. AccountedInv'
  BY <1>1 DEF WalkInv, AccountedInv
<1>4. JustifiedInv'
  BY <1>1 DEF WalkInv, JustifiedInv, Justified
<1>5. ActorInv' /\ ReachInv'
  BY <1>1 DEF WalkInv, ActorInv, ReachInv, ImportsService, ClosedUnderImport, Imports
<1>6. OnceInv'
  BY <1>1 DEF WalkInv, OnceInv
<1> QED
  BY <1>2, <1>3, <1>4, <1>5, <1>6 DEF WalkInv
\* The control point, the stack and the outcome move together.
LEMMA PhaseStep == TypeOK /\ PhaseInv /\ [Next]_vars => PhaseInv'
<1> SUFFICES ASSUME TypeOK, PhaseInv, [Next]_vars
             PROVE  PhaseInv'
  OBVIOUS
<1> USE DEF PhaseInv, Done, Alive, Loading, walk
<1>1. CASE Abandons \/ Proceeds
  BY <1>1 DEF Abandons, Proceeds
<1>2. CASE Begins \/ Meets \/ Takes \/ Indexes
  BY <1>2 DEF Begins, Meets, Takes, Indexes
<1>3. CASE Concludes \/ Rests
  BY <1>3 DEF Concludes, Rests
<1> QED
  BY <1>1, <1>2, <1>3, StepKinds

\* Popping a request whose source is a unit already: it is served on the spot.
LEMMA MeetsStep == ASSUME WalkInv, TypeOK', PhaseInv', Meets PROVE WalkInv'
<1> USE DEF WalkInv
<1>1. /\ Pending = Pending' \cup {Top} /\ Top \in Request
      /\ Loaded' = Loaded /\ imports' = imports /\ Alive' = Alive
  <2>1. stack \in Seq(Request) /\ stack # << >>
    BY DEF TypeOK, Meets
  <2>2. Elements(stack) = Elements(Rest(stack)) \cup {Top} /\ Top \in Request
    BY <2>1, ElementsOfRest DEF Top
  <2>3. Pending = Elements(stack) /\ Pending' = Elements(Rest(stack))
    BY DEF Meets, Pending, Loading
  <2>4. Loaded' = Loaded /\ imports' = imports /\ Alive' = Alive
    BY DEF Meets, Loaded, Alive, program
  <2> QED
    BY <2>2, <2>3, <2>4
<1>2. /\ \A s \in Source \ {Top.source} : actor'[s] = actor[s]
      /\ actor'[Top.source] = (actor[Top.source] \/ Top.service)
      /\ Top.source \in Loaded /\ Top.source \in Source /\ Top.service \in BOOLEAN
  BY <1>1 DEF Meets, TypeOK, Request
<1>3. Loaded \subseteq Source
  BY DEF Loaded, TypeOK
<1>4. EntryInv'
  BY <1>1, <1>2, EntryAssumption DEF EntryInv, Meets
<1>5. AccountedInv'
  <2> SUFFICES ASSUME Alive, NEW s \in Loaded, NEW i \in DOMAIN imports[s]
               PROVE  LET e == imports[s][i]
                      IN  \/ e.target \in Loaded /\ (e.service => actor'[e.target])
                          \/ \E r \in Pending' : r.source = e.target /\ r.service = e.service
    BY <1>1 DEF AccountedInv
  <2> DEFINE e == imports[s][i]
  <2>1. e \in Edge
    <3>1. imports \in [Source -> Seq(Edge)]
      BY DEF TypeOK
    <3> QED
      BY <1>3, <3>1
  <2>2. CASE e.target \in Loaded /\ (e.service => actor[e.target])
    BY <1>2, <2>1, <2>2 DEF Edge
  <2>3. CASE \E r \in Pending : r.source = e.target /\ r.service = e.service
    BY <1>1, <1>2, <2>3
  <2> QED
    BY <2>2, <2>3 DEF AccountedInv
<1>6. JustifiedInv'
  BY <1>1 DEF JustifiedInv, Justified
<1>7. ActorInv'
  <2>1. Top.service => Top.source = Entry \/ \E t \in Loaded : ImportsService(t, Top.source)
    BY <1>1 DEF JustifiedInv, Justified, ImportsService
  <2> QED
    BY <1>1, <1>2, <2>1 DEF ActorInv, ImportsService
<1>8. ReachInv' /\ OnceInv'
  BY <1>1 DEF ReachInv, OnceInv, ClosedUnderImport, Imports, Loading, Meets
<1> QED
  BY <1>4, <1>5, <1>6, <1>7, <1>8

\* Indexing a source: it joins the units and each of its imports is pending.
LEMMA IndexesStep == ASSUME WalkInv, TypeOK', PhaseInv', Indexes PROVE WalkInv'
<1> USE DEF WalkInv
<1> DEFINE new == current.source
<1>1. /\ current \in Request /\ new \in Source /\ current.service \in BOOLEAN
      /\ imports[new] \in Seq(Edge)
  BY DEF TypeOK, Request
<1>2. /\ imports' = imports /\ Alive' = Alive /\ Loading /\ ~Loading'
      /\ outcome' = outcome
  BY DEF Indexes, program, Alive, Loading
<1>3. /\ Loaded' = Loaded \cup {new} /\ new \notin Loaded
      /\ Loaded \subseteq Source
  <2>1. units \in Seq(Source) /\ units' = Append(units, new)
    BY DEF Indexes, TypeOK
  <2>2. Elements(units') = Elements(units) \cup {new}
    BY <1>1, <2>1, ElementsOfAppend
  <2>3. Loaded' = Elements(units') /\ Loaded = Elements(units)
    BY DEF Loaded, Elements
  <2>4. new \notin Loaded
    BY <1>2 DEF OnceInv
  <2>5. Loaded \subseteq Source
    BY <2>1 DEF Loaded
  <2> QED
    BY <2>2, <2>3, <2>4, <2>5
<1>4. /\ Pending = Elements(stack) \cup {current}
      /\ Pending' = Elements(stack)
                      \cup {ChildFor(current, i) : i \in DOMAIN imports[new]}
  <2>1. /\ stack \in Seq(Request) /\ ChildRequests(current) \in Seq(Request)
        /\ stack' = stack \o ChildRequests(current)
    BY <1>1, ChildRequestsType DEF Indexes, TypeOK
  <2>2. Elements(stack') = Elements(stack) \cup Elements(ChildRequests(current))
    BY <2>1, ElementsOfConcat
  <2>3. Elements(ChildRequests(current)) =
          {ChildFor(current, i) : i \in DOMAIN imports[new]}
    BY <1>1, ElementsOfChildren
  <2>4. Pending = Elements(stack) \cup {current} /\ Pending' = Elements(stack')
    BY <1>2 DEF Pending
  <2> QED
    BY <2>2, <2>3, <2>4
<1>5. /\ actor'[new] = current.service
      /\ \A s \in Source \ {new} : actor'[s] = actor[s]
  BY <1>1 DEF Indexes, TypeOK
<1>6. \A i \in DOMAIN imports[new] :
        LET r == ChildFor(current, i)
        IN  /\ r \in Pending'
            /\ r.source = imports[new][i].target
            /\ r.service = imports[new][i].service
  BY <1>4 DEF ChildFor
<1>7. EntryInv'
  BY <1>2, <1>3, <1>4, <1>5, EntryAssumption DEF EntryInv, Indexes
<1>8. AccountedInv'
  <2> SUFFICES ASSUME Alive, NEW s \in Loaded \cup {new}, NEW i \in DOMAIN imports[s]
               PROVE  LET e == imports[s][i]
                      IN  \/ e.target \in Loaded' /\ (e.service => actor'[e.target])
                          \/ \E r \in Pending' : r.source = e.target /\ r.service = e.service
    BY <1>2, <1>3 DEF AccountedInv
  <2> DEFINE e == imports[s][i]
  <2>1. e \in Edge
    <3>1. imports[s] \in Seq(Edge)
      BY <1>1, <1>3 DEF TypeOK
    <3> QED
      BY <3>1
  <2>2. CASE s = new
    BY <1>6, <2>2
  <2>3. CASE e.target \in Loaded /\ (e.service => actor[e.target])
    BY <1>3, <1>5, <2>1, <2>3 DEF Edge
  <2>4. ASSUME NEW r \in Pending, r.source = e.target, r.service = e.service
        PROVE  \/ e.target \in Loaded' /\ (e.service => actor'[e.target])
               \/ \E q \in Pending' : q.source = e.target /\ q.service = e.service
    <3>1. CASE r = current
      BY <1>3, <1>5, <2>4, <3>1
    <3>2. CASE r \in Elements(stack)
      BY <1>4, <2>4, <3>2
    <3> QED
      BY <1>4, <2>4, <3>1, <3>2
  <2> QED
    BY <2>2, <2>3, <2>4 DEF AccountedInv
<1>9. JustifiedInv'
  <2> SUFFICES ASSUME NEW r \in Pending'
               PROVE  \/ r.source = Entry /\ r.service
                      \/ \E s \in Loaded' : \E i \in DOMAIN imports[s] :
                            /\ imports[s][i].target = r.source
                            /\ imports[s][i].service = r.service
    BY <1>2 DEF JustifiedInv, Justified
  <2>1. CASE r \in Elements(stack)
    BY <1>3, <1>4, <2>1 DEF JustifiedInv, Justified
  <2>2. CASE r \in {ChildFor(current, i) : i \in DOMAIN imports[new]}
    BY <1>3, <1>6, <2>2
  <2> QED
    BY <1>4, <2>1, <2>2
<1>10. ActorInv'
  <2>1. Justified(current)
    BY <1>4 DEF JustifiedInv
  <2>2. current.service => new = Entry \/ \E t \in Loaded : ImportsService(t, new)
    BY <2>1 DEF Justified, ImportsService
  <2> QED
    BY <1>2, <1>3, <1>5, <2>2 DEF ActorInv, ImportsService
<1>11. ReachInv'
  <2>1. ASSUME NEW S \in SUBSET Source, Entry \in S, ClosedUnderImport(S)
        PROVE  new \in S
    <3>1. Loaded \subseteq S /\ Justified(current)
      BY <1>4, <2>1 DEF ReachInv, JustifiedInv
    <3> QED
      BY <1>1, <2>1, <3>1 DEF Justified, ClosedUnderImport, Imports
  <2> QED
    BY <1>2, <1>3, <2>1 DEF ReachInv, ClosedUnderImport, Imports
<1>12. OnceInv'
  <2>1. /\ DOMAIN units = 1..Len(units) /\ Len(units) \in Nat
        /\ DOMAIN units' = 1..(Len(units) + 1)
        /\ \A i \in 1..Len(units) : units'[i] = units[i] /\ units[i] # new
        /\ units'[Len(units) + 1] = new
    <3>1. units \in Seq(Source) /\ units' = Append(units, new)
      BY DEF Indexes, TypeOK
    <3>2. \A i \in DOMAIN units : units[i] # new
      BY <1>3 DEF Loaded
    <3> QED
      BY <1>1, <3>1, <3>2
  <2> QED
    BY <1>2, <2>1 DEF OnceInv
<1> QED
  BY <1>7, <1>8, <1>9, <1>10, <1>11, <1>12
\* The first request: the entry, with its actor.
LEMMA BeginsStep == ASSUME WalkInv, TypeOK', PhaseInv', Begins PROVE WalkInv'
<1> USE DEF WalkInv
<1>1. /\ Loaded = {} /\ Loaded' = {} /\ imports' = imports /\ actor' = actor
      /\ units' = << >>
  BY DEF Begins, PhaseInv, Loaded, program
<1>2. Pending' = {EntryRequest}
  BY DEF Begins, Pending, Elements, Loading
<1>3. EntryRequest.source = Entry /\ EntryRequest.service
  BY DEF EntryRequest
<1>4. EntryInv'
  BY <1>2, <1>3 DEF EntryInv
<1>5. AccountedInv' /\ ReachInv'
  BY <1>1 DEF AccountedInv, ReachInv
<1>6. JustifiedInv'
  BY <1>2, <1>3 DEF JustifiedInv, Justified
<1>7. ActorInv'
  BY <1>1 DEF ActorInv
<1>8. OnceInv'
  BY <1>1 DEF OnceInv, Begins, Loading
<1> QED
  BY <1>4, <1>5, <1>6, <1>7, <1>8

\* An error return: nothing is promised any more, and nothing is added.
LEMMA AbandonsStep == ASSUME WalkInv, TypeOK', PhaseInv', Abandons PROVE WalkInv'
<1> USE DEF WalkInv
<1>1. /\ Loaded' = Loaded /\ imports' = imports /\ actor' = actor /\ units' = units
      /\ ~Alive' /\ Pending' \subseteq Pending /\ ~Loading'
  BY DEF Abandons, program, walk, Loaded, Pending, Loading
<1>2. EntryInv' /\ AccountedInv'
  BY <1>1 DEF EntryInv, AccountedInv
<1>3. JustifiedInv'
  BY <1>1 DEF JustifiedInv, Justified
<1>4. ActorInv' /\ ReachInv'
  BY <1>1 DEF ActorInv, ReachInv, ImportsService, ClosedUnderImport, Imports
<1>5. OnceInv'
  BY <1>1 DEF OnceInv
<1> QED
  BY <1>2, <1>3, <1>4, <1>5

\* Taking a request in hand only moves it from the stack.
LEMMA TakesStep == ASSUME WalkInv, TypeOK', PhaseInv', Takes PROVE WalkInv'
<1>1. stack \in Seq(Request) /\ stack # << >>
  BY DEF WalkInv, TypeOK, Takes
<1>2. Elements(stack) = Elements(Rest(stack)) \cup {Top}
  BY <1>1, ElementsOfRest DEF Top
<1>3. Pending = Elements(stack) /\ Pending' = Elements(Rest(stack)) \cup {Top}
  BY DEF Takes, Pending, Loading
<1>4. current'.source \notin Loaded
  BY DEF Takes
<1>5. /\ UNCHANGED <<imports, actor, units>>
      /\ Alive' = Alive /\ pc # "identify"
  BY DEF Takes, program, Alive
<1> QED
  BY <1>2, <1>3, <1>4, <1>5, QuietStep

LEMMA WalkStep == WalkInv /\ [Next]_vars => WalkInv'
<1> SUFFICES ASSUME WalkInv, [Next]_vars
             PROVE  WalkInv'
  OBVIOUS
<1>1. TypeOK' /\ PhaseInv'
  BY TypeStep, PhaseStep DEF WalkInv
<1>2. CASE Abandons
  BY <1>1, <1>2, AbandonsStep
<1>3. CASE Proceeds
  <2>1. /\ UNCHANGED <<imports, actor, units>> /\ Pending' = Pending
        /\ Alive' => Alive /\ pc # "identify"
        /\ current'.source \notin Loaded
    BY <1>3 DEF Proceeds, program, walk, Pending, Loading, WalkInv, OnceInv
  <2> QED
    BY <1>1, <1>3, <2>1, QuietStep DEF Proceeds
<1>4. CASE Begins
  BY <1>1, <1>4, BeginsStep
<1>5. CASE Meets
  BY <1>1, <1>5, MeetsStep
<1>6. CASE Takes
  BY <1>1, <1>6, TakesStep
<1>7. CASE Indexes
  BY <1>1, <1>7, IndexesStep
<1>8. CASE Concludes
  <2>1. /\ UNCHANGED <<imports, actor, units>> /\ Pending' = Pending
        /\ pc # "identify" /\ ~Loading'
    BY <1>8 DEF Concludes, program, walk, Pending, Loading
  <2>2. Alive
    BY <1>8 DEF Concludes, WalkInv, PhaseInv, Alive
  <2> QED
    BY <1>1, <2>1, <2>2, QuietStep
<1>9. CASE Rests
  <2>1. /\ UNCHANGED <<imports, actor, units>> /\ Pending' = Pending
        /\ Alive' = Alive /\ pc' = pc
        /\ Loading' => current'.source \notin Loaded
    BY <1>9 DEF Rests, program, walk, Pending, Loading, Alive, WalkInv, OnceInv
  <2> QED
    BY <1>1, <2>1, QuietStep
<1> QED
  BY <1>2, <1>3, <1>4, <1>5, <1>6, <1>7, <1>8, <1>9, StepKinds DEF WalkInv

\* The walk accounts for every import at every step of every load.
THEOREM WalkInvariant == Spec => []WalkInv
BY WalkInit, WalkStep, PTL DEF Spec

\* What the invariant says once the loader has returned Ok: nothing pending.
LEMMA NothingPendingWhenDone ==
    ASSUME WalkInv, Done
    PROVE  /\ Entry \in Loaded /\ actor[Entry]
           /\ \A s \in Loaded : \A i \in DOMAIN imports[s] :
                LET e == imports[s][i]
                IN  e.target \in Loaded /\ (e.service => actor[e.target])
<1>1. pc = "stopped"
  BY DEF WalkInv, TypeOK, PhaseInv, Done
<1>2. Pending = {} /\ Alive
  BY <1>1 DEF WalkInv, PhaseInv, Done, Pending, Loading, Elements, Alive
<1> QED
  BY <1>1, <1>2 DEF WalkInv, EntryInv, AccountedInv

\* As many units as loaded sources.
LEMMA UnitsCounted ==
    ASSUME WalkInv
    PROVE  IsFiniteSet(Loaded) /\ Cardinality(Loaded) = Len(units)
<1>1. units \in Seq(Source) /\ Loaded \subseteq Source
  BY DEF WalkInv, TypeOK, Loaded
<1>2. Len(units) \in Nat /\ DOMAIN units = 1..Len(units)
  BY <1>1
<1>3. units \in Bijection(1..Len(units), Loaded)
  <2>1. units \in [1..Len(units) -> Loaded]
    BY <1>1, <1>2 DEF Loaded
  <2>2. \A i, j \in 1..Len(units) : units[i] = units[j] => i = j
    BY <1>2 DEF WalkInv, OnceInv
  <2>3. \A s \in Loaded : \E i \in 1..Len(units) : units[i] = s
    BY <1>2 DEF Loaded
  <2> QED
    BY <1>2, <2>1, <2>2, <2>3 DEF Bijection, Injection, Surjection, IsInjective
<1>4. /\ IsFiniteSet(1..Len(units))
      /\ Cardinality(1..Len(units)) = Len(units)
  <2>1. IF 1 > Len(units) THEN Len(units) = 0 ELSE Len(units) - 1 + 1 = Len(units)
    BY <1>2
  <2> QED
    BY <1>2, <2>1, FS_Interval
<1> QED
  BY <1>3, <1>4, FS_Bijection DEF ExistsBijection

LEMMA WholeWhenDone ==
    ASSUME WalkInv, Done
    PROVE  Loaded = Reachable
<1>1. Loaded \subseteq Source
  BY DEF WalkInv, TypeOK, Loaded
<1>2. Entry \in Loaded /\ ClosedUnderImport(Loaded)
  BY NothingPendingWhenDone DEF ClosedUnderImport, Imports
<1>3. Reachable \subseteq Loaded
  BY <1>1, <1>2 DEF Reachable
<1>4. Loaded \subseteq Reachable
  BY <1>1 DEF Reachable, WalkInv, ReachInv
<1> QED
  BY <1>3, <1>4

\* An accepted bundle is exactly the sources the entry reaches, each once.
THEOREM LoadedExactly == Spec => []LoadsExactlyTheReachable
<1>1. WalkInv => LoadsExactlyTheReachable
  BY UnitsCounted, WholeWhenDone DEF LoadsExactlyTheReachable
<1> QED
  BY <1>1, WalkInvariant, PTL

\* A unit keeps its actor exactly when it is the entry or some edge asked for
\* it, in whatever order the edges were met.
THEOREM ActorsKept == Spec => []ActorKeptExactly
<1>1. WalkInv => ActorKeptExactly
  <2> SUFFICES ASSUME WalkInv, Done, NEW s \in Loaded
               PROVE  actor[s] <=> s = Entry \/ \E t \in Loaded : ImportsService(t, s)
    BY DEF ActorKeptExactly
  <2>1. s \in Source
    BY DEF WalkInv, TypeOK, Loaded
  <2>2. actor[s] => s = Entry \/ \E t \in Loaded : ImportsService(t, s)
    BY <2>1 DEF WalkInv, ActorInv
  <2>3. s = Entry => actor[s]
    BY NothingPendingWhenDone
  <2>4. ASSUME NEW t \in Loaded, ImportsService(t, s) PROVE actor[s]
    BY <2>4, NothingPendingWhenDone DEF ImportsService
  <2> QED
    BY <2>2, <2>3, <2>4
<1> QED
  BY <1>1, WalkInvariant, PTL

-----------------------------------------------------------------------------
\* Why a verdict is right.  The trail of a request is its path and its source.

Trail(r) == Append(r.path, r.source)

\* A request comes from the entry along imports of loaded sources, at most one
\* deeper than the limit, where it is refused.
Chained(r) ==
    /\ r.depth = Len(r.path) /\ r.depth <= MaxImportDepth + 1
    /\ Elements(r.path) \subseteq Loaded
    /\ Trail(r)[1] = Entry
    /\ \A i \in 1..Len(r.path) : Imports(Trail(r)[i], Trail(r)[i + 1])
ChainedInv == /\ \A r \in Pending : Chained(r)
              /\ Loading => current.depth <= MaxImportDepth

\* One charge for each unit, and one for the source in hand once it is accepted.
CountInv ==
    /\ consumed.sources <= MaxSources /\ Len(units) <= consumed.sources
    /\ pc = "expand" => consumed.sources = Len(units) + 1
    /\ pc \notin {"expand", "stopped"} => consumed.sources = Len(units)

\* What has been checked, of the source in hand, of the units and of their imports.
Unloadable == {"missing", "wrong_id", "oversized", "long_id", "bad_digest"}
SoundInv ==
    /\ pc # "identify" /\ Alive => fault[Entry] # "unidentifiable"
    /\ pc = "accept" => fault[current.source] # "missing"
    /\ pc = "expand" => fault[current.source] \notin Unloadable
    /\ \A s \in Loaded :
          /\ fault[s] \notin Unloadable \cup {"unparsable"}
          /\ \A i \in DOMAIN imports[s] : fault[imports[s][i].target] # "unidentifiable"

\* The pass over the spellings begins when nothing is pending.
SpelledInv ==
    /\ spelled <= Len(units)
    /\ spelled > 0 => stack = << >> /\ pc \in {"pop", "stopped"}
    /\ Done => spelled = Len(units)
    /\ \A i \in 1..spelled : ~LongSpelling(units[i])

CallsInv ==
    /\ \A s \in Source : calls.of[s] # 0 =>
          /\ calls.of[s] = 1
          /\ \/ s \in Loaded \/ pc = "stopped"
             \/ pc \in {"loading", "accept", "expand"} /\ s = current.source
    /\ calls.late # 0 => /\ calls.late = 1
                         /\ pc = "stopped" \/ (pc = "loading" /\ Interrupted)

RefusalsAreReal ==
    /\ outcome = "did_import_cycle" => ~Acyclic(Reachable)
    /\ outcome = "import_depth" => HasChain(MaxImportDepth + 1)
    /\ outcome = "sources" => Cardinality(Reachable) > MaxSources

RealInv == /\ ChainedInv /\ CountInv /\ SoundInv /\ SpelledInv /\ CallsInv
           /\ RefusalsAreReal

-----------------------------------------------------------------------------
\* The import graph does not change, and what is pending is reachable.

LEMMA SameGraph ==
    ASSUME imports' = imports
    PROVE  /\ Reachable' = Reachable
           /\ Acyclic(Reachable)' <=> Acyclic(Reachable)
           /\ HasChain(MaxImportDepth + 1)' <=> HasChain(MaxImportDepth + 1)
<1>1. Reachable' = Reachable
  BY DEF Reachable, ClosedUnderImport, Imports
<1>2. Acyclic(Reachable)' <=> Acyclic(Reachable)
  BY <1>1 DEF Acyclic, Imports
<1>3. HasChain(MaxImportDepth + 1)' <=> HasChain(MaxImportDepth + 1)
  BY DEF HasChain, Imports
<1> QED
  BY <1>1, <1>2, <1>3

LEMMA LoadedReached ==
    ASSUME WalkInv
    PROVE  /\ Loaded \subseteq Reachable /\ Reachable \subseteq Source
           /\ \A r \in Pending : r \in Request /\ r.source \in Reachable
<1>1. Loaded \subseteq Reachable /\ Reachable \subseteq Source
  <2>1. Loaded \subseteq Source
    BY DEF WalkInv, TypeOK, Loaded
  <2>2. \A S \in SUBSET Source : Entry \in S /\ ClosedUnderImport(S) => Loaded \subseteq S
    BY DEF WalkInv, ReachInv
  <2> QED
    BY <2>1, <2>2 DEF Reachable
<1>2. ASSUME NEW r \in Pending
      PROVE  r \in Request /\ r.source \in Reachable
  <2>1. r \in Request
    BY DEF Pending, Elements, WalkInv, TypeOK
  <2>2. r.source \in Source
    BY <2>1 DEF Request
  <2>3. CASE r.source = Entry
    BY <2>1, <2>2, <2>3 DEF Reachable
  <2>4. CASE r.source # Entry
    <3>1. PICK s \in Loaded : Imports(s, r.source)
      BY <2>4 DEF WalkInv, JustifiedInv, Justified, Imports
    <3>2. s \in Source /\ s \in Reachable
      BY <1>1, <3>1
    <3>3. ASSUME NEW S \in SUBSET Source, Entry \in S, ClosedUnderImport(S)
          PROVE  r.source \in S
      <4>1. s \in S
        BY <3>2, <3>3 DEF Reachable
      <4> QED
        BY <2>2, <3>1, <3>3, <4>1 DEF ClosedUnderImport
    <3> QED
      BY <2>1, <2>2, <3>3 DEF Reachable
  <2> QED
    BY <2>1, <2>3, <2>4
<1> QED
  BY <1>1, <1>2

-----------------------------------------------------------------------------
\* Trails.

LEMMA ChainedStays ==
    ASSUME ChainedInv, imports' = imports, Loaded \subseteq Loaded',
           Pending' \subseteq Pending, Loading' => current'.depth <= MaxImportDepth
    PROVE  ChainedInv'
BY DEF ChainedInv, Chained, Trail, Imports

LEMMA ChildChained ==
    ASSUME TypeOK, NEW r \in Request, NEW i \in DOMAIN imports[r.source],
           Chained(r), r.depth <= MaxImportDepth,
           imports' = imports, Loaded' = Loaded \cup {r.source},
           NEW child, child = ChildFor(r, i)
    PROVE  Chained(child)'
<1> DEFINE path == Append(r.path, r.source)
           target == imports[r.source][i].target
           n == Len(r.path)
<1>1. /\ r.path \in Seq(Source) /\ r.source \in Source /\ r.depth \in Nat
      /\ imports[r.source] \in Seq(Edge) /\ MaxImportDepth \in Nat
  BY LimitsAssumption DEF TypeOK, Request
<1>2. target \in Source /\ n \in Nat /\ DOMAIN r.path = 1..n
  <2>1. imports[r.source][i] \in Edge
    BY <1>1
  <2> QED
    BY <1>1, <2>1 DEF Edge
<1>3. /\ path \in Seq(Source) /\ Len(path) = n + 1 /\ path[n + 1] = r.source
      /\ \A j \in 1..n : path[j] = r.path[j]
  BY <1>1, <1>2
<1>4. /\ Len(Append(path, target)) = n + 2 /\ Append(path, target)[n + 2] = target
      /\ \A j \in 1..(n + 1) : Append(path, target)[j] = path[j]
  BY <1>2, <1>3
<1>5. Elements(path) = Elements(r.path) \cup {r.source}
  BY <1>1, ElementsOfAppend
<1>6. /\ r.depth = n /\ Elements(r.path) \subseteq Loaded /\ path[1] = Entry
      /\ \A j \in 1..n : Imports(path[j], path[j + 1])
  BY DEF Chained, Trail
<1>7. \A j \in 1..(n + 1) : Imports(Append(path, target)[j], Append(path, target)[j + 1])
  <2>1. SUFFICES ASSUME NEW j \in 1..(n + 1)
                 PROVE  Imports(Append(path, target)[j], Append(path, target)[j + 1])
    OBVIOUS
  <2>2. CASE j = n + 1
    BY <1>2, <1>3, <1>4, <2>2 DEF Imports
  <2>3. CASE j # n + 1
    <3>1. j \in 1..n /\ j + 1 \in 1..(n + 1)
      BY <1>2, <2>3
    <3> QED
      BY <1>4, <1>6, <3>1
  <2> QED
    BY <2>2, <2>3
<1>8. Append(path, target)[1] = Entry
  BY <1>2, <1>4, <1>6
<1>9. child.path = path /\ child.source = target /\ child.depth = n + 1
  BY <1>6 DEF ChildFor
<1>10. Trail(child) = Append(path, target)
  BY <1>9 DEF Trail
<1> HIDE DEF path, target
<1>11. child.depth = Len(child.path) /\ child.depth <= MaxImportDepth + 1
  BY <1>1, <1>2, <1>3, <1>6, <1>9
<1>12. Elements(child.path) \subseteq Loaded'
  BY <1>5, <1>6, <1>9
<1>13. \A j \in 1..Len(child.path) : Imports(Trail(child)[j], Trail(child)[j + 1])'
  BY <1>3, <1>7, <1>9, <1>10 DEF Imports
<1> QED
  BY <1>8, <1>10, <1>11, <1>12, <1>13 DEF Chained, Trail

LEMMA ChainedStep == WalkInv /\ ChainedInv /\ [Next]_vars => ChainedInv'
<1> SUFFICES ASSUME WalkInv, ChainedInv, [Next]_vars
             PROVE  ChainedInv'
  OBVIOUS
<1>1. TypeOK /\ PhaseInv
  BY DEF WalkInv
<1>2. CASE Abandons
  BY <1>2, ChainedStays DEF Abandons, Alive, program, walk, Pending, Loading, Loaded
<1>3. CASE Proceeds
  BY <1>3, ChainedStays DEF Proceeds, program, walk, Pending, Loading, Loaded, ChainedInv
<1>4. CASE Begins
  <2>1. Pending' = {EntryRequest} /\ ~Loading'
    <3>1. Elements(<<EntryRequest>>) = {EntryRequest}
      BY DEF Elements
    <3> QED
      BY <1>4, <3>1 DEF Begins, Pending, Loading
  <2>2. Chained(EntryRequest)'
    <3>1. /\ EntryRequest.path = << >> /\ EntryRequest.source = Entry
          /\ EntryRequest.depth = 0 /\ Elements(<< >>) = {}
      BY DEF EntryRequest, Elements
    <3>2. Append(<< >>, Entry) = <<Entry>>
      OBVIOUS
    <3>3. MaxImportDepth + 1 >= 0
      BY LimitsAssumption
    <3> QED
      BY <3>1, <3>2, <3>3 DEF Chained, Trail
  <2> QED
    BY <2>1, <2>2 DEF ChainedInv
<1>5. CASE Meets
  <2>1. Elements(stack) = Elements(Rest(stack)) \cup {Top}
    BY <1>1, <1>5, ElementsOfRest DEF TypeOK, Meets, Top
  <2> QED
    BY <1>5, <2>1, ChainedStays DEF Meets, program, Pending, Loading, Loaded
<1>6. CASE Takes
  <2>1. Elements(stack) = Elements(Rest(stack)) \cup {Top}
    BY <1>1, <1>6, ElementsOfRest DEF TypeOK, Takes, Top
  <2>2. Top.depth <= MaxImportDepth
    <3>1. PopRequest
      BY <1>6 DEF Takes, Next, Step, vars, IdentifyEntry, CheckBeforeLoad, CallResolver,
                  ReturnFromResolver, AcceptSource, ExpandSource, MeasureSpelling, Cancel,
                  Expire, Fail, Continue
    <3>2. Top \in Request
      BY <1>1, <1>6, ElementsOfRest DEF TypeOK, Takes, Top
    <3>3. Top.depth \in Nat
      BY <3>2 DEF Request
    <3> QED
      BY <1>6, <3>1, <3>3, LimitsAssumption DEF Takes, PopRequest, Fail, Top
  <2> QED
    BY <1>6, <2>1, <2>2, ChainedStays DEF Takes, program, Pending, Loading, Loaded
<1>7. CASE Indexes
  <2>1. /\ current \in Request /\ current \in Pending /\ current.depth <= MaxImportDepth
        /\ Chained(current)
    BY <1>1, <1>7 DEF Indexes, Loading, Pending, TypeOK, ChainedInv
  <2>2. Loaded' = Loaded \cup {current.source}
    <3>1. current.source \in Source
      BY <2>1 DEF Request
    <3>2. Loaded = Elements(units) /\ Loaded' = Elements(Append(units, current.source))
      BY <1>7 DEF Loaded, Elements, Indexes
    <3> QED
      BY <1>1, <3>1, <3>2, ElementsOfAppend DEF TypeOK
  <2>3. Pending' = Elements(stack) \cup
                       {ChildFor(current, i) : i \in DOMAIN imports[current.source]}
    <3>1. ChildRequests(current) \in Seq(Request)
      BY <1>1, <2>1, ChildRequestsType
    <3>2. Pending' = Elements(stack \o ChildRequests(current))
      BY <1>7 DEF Indexes, Pending, Loading, Elements
    <3> QED
      BY <1>1, <2>1, <3>1, <3>2, ElementsOfConcat, ElementsOfChildren DEF TypeOK
  <2>4. imports' = imports /\ ~Loading'
    BY <1>7 DEF Indexes, program, Loading
  <2>5. ASSUME NEW r \in Elements(stack) PROVE Chained(r)'
    <3>1. Chained(r)
      BY <2>5 DEF Pending, ChainedInv
    <3> QED
      BY <2>2, <2>4, <3>1 DEF Chained, Trail, Imports
  <2>6. ASSUME NEW i \in DOMAIN imports[current.source], NEW r, r = ChildFor(current, i)
        PROVE  Chained(r)'
    BY <1>1, <2>1, <2>2, <2>4, <2>6, ChildChained
  <2> QED
    BY <2>3, <2>4, <2>5, <2>6 DEF ChainedInv
<1>8. CASE Concludes \/ Rests
  BY <1>8, ChainedStays DEF Concludes, Rests, program, walk, Pending, Loading, Loaded, ChainedInv
<1> QED
  BY <1>1, <1>2, <1>3, <1>4, <1>5, <1>6, <1>7, <1>8, StepKinds

-----------------------------------------------------------------------------
\* Counts.

LEMMA CountStep == TypeOK /\ CountInv /\ [Next]_vars => CountInv'
<1> SUFFICES ASSUME TypeOK, CountInv, [Next]_vars
             PROVE  CountInv'
  OBVIOUS
<1> USE DEF CountInv, Continue, Fail, program, walk, interrupt
<1>1. /\ consumed \in [sources : Nat, bytes : Nat, edges : Nat] /\ Len(units) \in Nat
      /\ MaxSources \in Nat /\ consumed.sources \in Nat
  BY LimitsAssumption DEF TypeOK
<1>2. CASE IdentifyEntry \/ PopRequest
  BY <1>1, <1>2 DEF IdentifyEntry, PopRequest
<1>3. CASE CheckBeforeLoad \/ CallResolver \/ ReturnFromResolver
  BY <1>1, <1>3 DEF CheckBeforeLoad, CallResolver, ReturnFromResolver
<1>4. CASE AcceptSource
  <2>1. pc = "accept" /\ units' = units /\ pc' \in {"stopped", "expand"}
    BY <1>4 DEF AcceptSource
  <2>2. \/ consumed'.sources = consumed.sources /\ pc' = "stopped"
        \/ consumed'.sources = consumed.sources + 1 /\ consumed.sources + 1 <= MaxSources
    BY <1>1, <1>4 DEF AcceptSource, Fits
  <2> QED
    BY <1>1, <2>1, <2>2
<1>5. CASE ExpandSource
  <2>1. pc = "expand" /\ consumed'.sources = consumed.sources
    BY <1>1, <1>5 DEF ExpandSource
  <2>2. \/ pc' = "stopped" /\ units' = units
        \/ pc' = "pop" /\ units' = Append(units, current.source)
    BY <1>5 DEF ExpandSource
  <2>3. Len(Append(units, current.source)) = Len(units) + 1
    BY DEF TypeOK, Request
  <2> QED
    BY <1>1, <2>1, <2>2, <2>3
<1>6. CASE MeasureSpelling
  BY <1>1, <1>6 DEF MeasureSpelling
<1>7. CASE Cancel \/ Expire \/ UNCHANGED vars
  BY <1>1, <1>7 DEF Cancel, Expire, vars
<1> QED
  BY <1>2, <1>3, <1>4, <1>5, <1>6, <1>7 DEF Next, Step

-----------------------------------------------------------------------------
\* What has been checked stays checked.

LEMMA SoundStep == TypeOK /\ PhaseInv /\ SoundInv /\ [Next]_vars => SoundInv'
<1> SUFFICES ASSUME TypeOK, PhaseInv, SoundInv, [Next]_vars
             PROVE  SoundInv'
  OBVIOUS
<1> USE DEF Continue, Fail, program, walk, interrupt
<1>1. imports' = imports /\ fault' = fault
  BY DEF Next, Step, vars, IdentifyEntry, PopRequest, CheckBeforeLoad, CallResolver,
         ReturnFromResolver, AcceptSource, ExpandSource, MeasureSpelling, Cancel, Expire
<1>2. ASSUME units' = units,
             pc' # "identify" /\ Alive' => fault[Entry] # "unidentifiable",
             pc' = "accept" => fault[current'.source] # "missing",
             pc' = "expand" => fault[current'.source] \notin Unloadable
      PROVE  SoundInv'
  BY <1>1, <1>2 DEF SoundInv, Loaded, Unloadable
<1>3. pc # "identify" /\ pc # "stopped" => fault[Entry] # "unidentifiable"
  BY DEF SoundInv, PhaseInv, Alive
<1>4. CASE IdentifyEntry
  BY <1>2, <1>4 DEF IdentifyEntry, Alive
<1>5. CASE PopRequest \/ CheckBeforeLoad \/ CallResolver \/ MeasureSpelling
  BY <1>2, <1>3, <1>5 DEF PopRequest, CheckBeforeLoad, CallResolver, MeasureSpelling
<1>6. CASE ReturnFromResolver
  BY <1>2, <1>3, <1>6 DEF ReturnFromResolver
<1>7. CASE AcceptSource
  BY <1>2, <1>3, <1>7 DEF AcceptSource, SoundInv, Unloadable
<1>8. CASE ExpandSource
  <2>1. CASE units' = units
    BY <1>2, <1>3, <1>8, <2>1 DEF ExpandSource
  <2>2. CASE units' # units
    <3>1. /\ units' = Append(units, current.source) /\ pc' = "pop" /\ pc = "expand"
          /\ fault[current.source] # "unparsable"
          /\ \A i \in 1..Len(imports[current.source]) :
                fault[imports[current.source][i].target] # "unidentifiable"
      BY <1>8, <2>2 DEF ExpandSource
    <3>2. DOMAIN imports[current.source] = 1..Len(imports[current.source])
          /\ current.source \in Source
      BY DEF TypeOK, Request
    <3>3. Loaded' = Loaded \cup {current.source}
      <4>1. Loaded = Elements(units) /\ Loaded' = Elements(Append(units, current.source))
        BY <3>1 DEF Loaded, Elements
      <4> QED
        BY <3>2, <4>1, ElementsOfAppend DEF TypeOK
    <3>4. fault[current.source] \notin Unloadable
      BY <3>1 DEF SoundInv
    <3> QED
      BY <1>1, <1>3, <3>1, <3>2, <3>3, <3>4 DEF SoundInv
  <2> QED
    BY <2>1, <2>2
<1>9. CASE Cancel \/ Expire \/ UNCHANGED vars
  BY <1>2, <1>9 DEF Cancel, Expire, vars, SoundInv, Alive
<1> QED
  BY <1>4, <1>5, <1>6, <1>7, <1>8, <1>9 DEF Next, Step

LEMMA SpelledStep == TypeOK /\ PhaseInv /\ SpelledInv /\ [Next]_vars => SpelledInv'
<1> SUFFICES ASSUME TypeOK, PhaseInv, SpelledInv, [Next]_vars
             PROVE  SpelledInv'
  OBVIOUS
<1> USE DEF Continue, Fail, program, walk, interrupt
<1>1. /\ spelled \in Nat /\ Len(units) \in Nat
      /\ units \in Seq(Source) /\ (spelled > 0 => pc \in {"pop", "stopped"})
  <2>1. spelled \in Nat /\ units \in Seq(Source)
    BY DEF TypeOK
  <2>2. spelled > 0 => pc \in {"pop", "stopped"}
    BY DEF SpelledInv
  <2> QED
    BY <2>1, <2>2
<1>2. ASSUME imports' = imports, fault' = fault, spelled = 0, spelled' = 0, Len(units') \in Nat,
             outcome' # "done"
      PROVE  SpelledInv'
  BY <1>2 DEF SpelledInv, Done
<1>3. pc # "stopped" => outcome # "done"
  BY DEF PhaseInv
<1>4. CASE IdentifyEntry \/ CheckBeforeLoad \/ CallResolver \/ ReturnFromResolver
           \/ AcceptSource
  <2>1. pc \in {"identify", "load", "call", "loading", "accept"}
    BY <1>4 DEF IdentifyEntry, CheckBeforeLoad, CallResolver, ReturnFromResolver, AcceptSource
  <2>2. /\ imports' = imports /\ fault' = fault /\ units' = units /\ spelled' = spelled
        /\ outcome' # "done"
    BY <1>3, <1>4, <2>1 DEF IdentifyEntry, CheckBeforeLoad, CallResolver, ReturnFromResolver,
       AcceptSource, InterruptCode
  <2> QED
    BY <1>1, <1>2, <2>1, <2>2
<1>5. CASE ExpandSource
  <2>1. /\ pc = "expand" /\ imports' = imports /\ fault' = fault /\ spelled' = spelled
        /\ outcome' # "done" /\ Len(units') \in Nat
    BY <1>1, <1>3, <1>5 DEF ExpandSource, InterruptCode, TypeOK, Request
  <2> QED
    BY <1>1, <1>2, <2>1
<1>6. CASE PopRequest
  <2>1. /\ pc = "pop" /\ stack # << >> /\ imports' = imports /\ fault' = fault
        /\ spelled' = spelled /\ units' = units /\ outcome' # "done"
    BY <1>3, <1>6 DEF PopRequest, InterruptCode
  <2> QED
    BY <1>1, <1>2, <2>1 DEF SpelledInv
<1>7. CASE MeasureSpelling
  <2>1. /\ pc = "pop" /\ stack = << >> /\ imports' = imports /\ fault' = fault
        /\ units' = units /\ stack' = stack /\ pc' \in {"pop", "stopped"}
    BY <1>7 DEF MeasureSpelling
  <2>2. \/ spelled' = spelled /\ outcome' # "done"
        \/ spelled' = spelled /\ spelled = Len(units)
        \/ /\ spelled' = spelled + 1 /\ outcome' # "done" /\ spelled # Len(units)
           /\ ~LongSpelling(units[spelled + 1])
    BY <1>3, <1>7 DEF MeasureSpelling, InterruptCode
  <2>3. spelled' <= Len(units') /\ (outcome' = "done" => spelled' = Len(units'))
    BY <1>1, <2>1, <2>2 DEF SpelledInv
  <2>4. ASSUME NEW i \in 1..spelled' PROVE ~LongSpelling(units[i])
    BY <1>1, <2>2, <2>4 DEF SpelledInv
  <2>5. \A i \in 1..spelled' : ~LongSpelling(units[i])'
    BY <2>1, <2>4 DEF LongSpelling
  <2> QED
    BY <2>1, <2>3, <2>5 DEF SpelledInv, Done
<1>8. CASE Cancel \/ Expire \/ UNCHANGED vars
  <2>1. /\ imports' = imports /\ fault' = fault /\ spelled' = spelled /\ units' = units
        /\ stack' = stack /\ pc' = pc /\ outcome' = outcome
    BY <1>8 DEF Cancel, Expire, vars
  <2> QED
    BY <2>1 DEF SpelledInv, Done, LongSpelling
<1> QED
  BY <1>4, <1>5, <1>6, <1>7, <1>8 DEF Next, Step

-----------------------------------------------------------------------------
\* Calls of the resolver.

LEMMA CallsStep == WalkInv /\ CallsInv /\ [Next]_vars => CallsInv'
<1> SUFFICES ASSUME WalkInv, CallsInv, [Next]_vars
             PROVE  CallsInv'
  OBVIOUS
<1> USE DEF Continue, Fail, program, walk, interrupt
<1>1. /\ calls \in [of : [Source -> Nat], late : Nat] /\ current.source \in Source
      /\ OnceInv /\ TypeOK
  BY DEF WalkInv, TypeOK, Request
<1>2. ASSUME calls' = calls, Loaded \subseteq Loaded',
             \/ pc' = "stopped"
             \/ /\ pc' # "loading" /\ pc \notin {"loading", "stopped"}
                /\ pc \in {"accept", "expand"} =>
                      pc' \in {"accept", "expand"} /\ current' = current
      PROVE  CallsInv'
  <2>1. CASE pc' = "stopped"
    BY <1>2, <2>1 DEF CallsInv
  <2>2. CASE pc' # "stopped"
    <3>1. calls.late = 0
      BY <1>2, <2>2 DEF CallsInv
    <3> QED
      BY <1>2, <2>2, <3>1 DEF CallsInv
  <2> QED
    BY <2>1, <2>2
<1>3. CASE IdentifyEntry \/ PopRequest \/ CheckBeforeLoad \/ MeasureSpelling
  BY <1>2, <1>3 DEF IdentifyEntry, PopRequest, CheckBeforeLoad, MeasureSpelling, Loaded
<1>4. CASE CallResolver
  <2>1. /\ pc = "call" /\ pc' = "loading" /\ current' = current /\ Loaded' = Loaded
        /\ calls'.of = [calls.of EXCEPT ![current.source] = @ + 1]
        /\ calls'.late = IF Interrupted THEN calls.late + 1 ELSE calls.late
        /\ Interrupted' = Interrupted
    BY <1>4 DEF CallResolver, Interrupted, Loaded
  <2>2. calls.of[current.source] = 0 /\ calls.late = 0
    BY <1>1, <2>1 DEF CallsInv, OnceInv, Loading
  <2>3. ASSUME NEW s \in Source, calls'.of[s] # 0
        PROVE  calls'.of[s] = 1 /\ (s \in Loaded \/ s = current.source)
    BY <1>1, <2>1, <2>2, <2>3 DEF CallsInv
  <2>4. calls'.late # 0 => calls'.late = 1 /\ Interrupted
    BY <2>1, <2>2
  <2> QED
    BY <2>1, <2>3, <2>4 DEF CallsInv
<1>5. CASE ReturnFromResolver
  <2>1. /\ pc = "loading" /\ calls' = calls /\ current' = current /\ Loaded' = Loaded
        /\ pc' = "stopped" \/ (pc' = "accept" /\ ~Interrupted)
    BY <1>5 DEF ReturnFromResolver, Loaded
  <2> QED
    BY <2>1 DEF CallsInv
<1>6. CASE AcceptSource
  BY <1>2, <1>6 DEF AcceptSource, Loaded
<1>7. CASE ExpandSource
  <2>1. CASE units' = units
    BY <1>2, <1>7, <2>1 DEF ExpandSource, Loaded
  <2>2. CASE units' # units
    <3>1. /\ pc = "expand" /\ pc' = "pop" /\ calls' = calls
          /\ units' = Append(units, current.source)
      BY <1>7, <2>2 DEF ExpandSource
    <3>2. Loaded' = Loaded \cup {current.source}
      <4>1. Loaded = Elements(units) /\ Loaded' = Elements(Append(units, current.source))
        BY <3>1 DEF Loaded, Elements
      <4> QED
        BY <1>1, <4>1, ElementsOfAppend DEF TypeOK
    <3> QED
      BY <3>1, <3>2 DEF CallsInv
  <2> QED
    BY <2>1, <2>2
<1>8. CASE Cancel \/ Expire \/ UNCHANGED vars
  <2>1. /\ calls' = calls /\ current' = current /\ Loaded' = Loaded /\ pc' = pc
        /\ Interrupted => Interrupted'
    BY <1>8 DEF Cancel, Expire, vars, Interrupted, Loaded
  <2> QED
    BY <2>1 DEF CallsInv
<1> QED
  BY <1>3, <1>4, <1>5, <1>6, <1>7, <1>8 DEF Next, Step

-----------------------------------------------------------------------------
\* A refusal names something that is there.

\* A request for a source on its own path closes a cycle of imports.
LEMMA CycleFound ==
    ASSUME WalkInv, NEW r \in Pending, Chained(r), r.source \in PathSet(r.path)
    PROVE  ~Acyclic(Reachable)
<1> DEFINE n == Len(r.path)
           trail == Trail(r)
<1>1. r \in Request /\ r.path \in Seq(Source) /\ n \in Nat /\ DOMAIN r.path = 1..n
  BY LoadedReached DEF Request
<1>2. \A i \in 1..n : trail[i] = r.path[i] /\ Imports(trail[i], trail[i + 1])
  BY <1>1 DEF Chained, Trail, Request
<1>3. trail[n + 1] = r.source
  BY <1>1 DEF Trail, Request
<1>4. PICK k \in 1..n : r.path[k] = r.source
  BY <1>1 DEF PathSet
<1> DEFINE C == {trail[i] : i \in k..n}
<1>5. C \subseteq Reachable
  <2>1. \A i \in 1..n : r.path[i] \in Loaded
    BY <1>1 DEF Chained, Elements
  <2>2. \A i \in k..n : i \in 1..n
    BY <1>1
  <2> QED
    BY <1>2, <2>1, <2>2, LoadedReached
<1>6. trail[k] \in C
  BY <1>1
<1>7. ASSUME NEW s \in C PROVE \E t \in C : Imports(s, t)
  <2>1. PICK i \in k..n : s = trail[i]
    OBVIOUS
  <2>2. i \in 1..n /\ Imports(s, trail[i + 1])
    BY <1>1, <1>2, <2>1
  <2>3. CASE i = n
    BY <1>2, <1>3, <1>4, <1>6, <2>2, <2>3
  <2>4. CASE i # n
    <3>1. i + 1 \in k..n
      BY <1>1, <2>4
    <3> QED
      BY <2>2, <3>1
  <2> QED
    BY <2>3, <2>4
<1> HIDE DEF C
<1> QED
  BY <1>5, <1>6, <1>7 DEF Acyclic

\* A request too deep ends a chain of that length.
LEMMA DepthFound ==
    ASSUME WalkInv, NEW r \in Pending, Chained(r), r.depth > MaxImportDepth
    PROVE  HasChain(MaxImportDepth + 1)
<1> DEFINE n == MaxImportDepth + 1
           chain == [i \in 0..n |-> Trail(r)[i + 1]]
<1>1. /\ r \in Request /\ r.path \in Seq(Source) /\ r.source \in Source
      /\ r.depth \in Nat /\ MaxImportDepth \in Nat
  BY LoadedReached, LimitsAssumption DEF Request
<1>2. Len(r.path) = n
  BY <1>1 DEF Chained
<1>3. Trail(r) \in Seq(Source) /\ Len(Trail(r)) = n + 1
  BY <1>1, <1>2 DEF Trail
<1>4. chain \in [0..n -> Source]
  <2>1. \A i \in 0..n : i + 1 \in 1..Len(Trail(r))
    BY <1>1, <1>3
  <2> QED
    BY <1>3, <2>1
<1>5. chain[0] = Entry
  BY <1>1 DEF Chained
<1>6. ASSUME NEW i \in 1..n PROVE Imports(chain[i - 1], chain[i])
  <2>1. chain[i - 1] = Trail(r)[i] /\ chain[i] = Trail(r)[i + 1]
    BY <1>1
  <2> QED
    BY <1>2, <2>1 DEF Chained
<1> HIDE DEF chain
<1> QED
  BY <1>4, <1>5, <1>6 DEF HasChain

\* The source in hand is one more than those loaded.
LEMMA SourcesFound ==
    ASSUME WalkInv, CountInv, IsFiniteSet(Source), pc = "accept",
           ~Fits(consumed.sources, 1, MaxSources)
    PROVE  Cardinality(Reachable) > MaxSources
<1> DEFINE taken == Loaded \cup {current.source}
<1>1. /\ consumed.sources = Len(units) /\ Len(units) \in Nat /\ MaxSources \in Nat
      /\ Len(units) + 1 > MaxSources
  BY LimitsAssumption DEF CountInv, Fits, WalkInv, TypeOK
<1>2. current \in Pending /\ current.source \notin Loaded
  BY DEF Pending, Loading, WalkInv, OnceInv
<1>3. taken \subseteq Reachable /\ IsFiniteSet(Reachable)
  BY <1>2, LoadedReached, FS_Subset
<1>4. Cardinality(taken) = Len(units) + 1
  BY <1>2, UnitsCounted, FS_AddElement
<1>5. Cardinality(taken) <= Cardinality(Reachable) /\ Cardinality(Reachable) \in Nat
  BY <1>3, FS_Subset, FS_CardinalityType
<1> QED
  BY <1>1, <1>4, <1>5

LEMMA RefusalsStep ==
    ASSUME WalkInv, ChainedInv, CountInv, RefusalsAreReal, [Next]_vars, IsFiniteSet(Source)
    PROVE  RefusalsAreReal'
<1> USE DEF Continue, Fail, program, walk, interrupt
<1>1. imports' = imports
  BY DEF Next, Step, vars, IdentifyEntry, PopRequest, CheckBeforeLoad, CallResolver,
         ReturnFromResolver, AcceptSource, ExpandSource, MeasureSpelling, Cancel, Expire
<1>2. ASSUME outcome' = "did_import_cycle" => outcome = outcome' \/ ~Acyclic(Reachable),
             outcome' = "import_depth" => outcome = outcome' \/ HasChain(MaxImportDepth + 1),
             outcome' = "sources" => outcome = outcome' \/ Cardinality(Reachable) > MaxSources
      PROVE  RefusalsAreReal'
  BY <1>1, <1>2, SameGraph DEF RefusalsAreReal
<1> DEFINE Named == {"did_import_cycle", "import_depth", "sources"}
<1>3. ASSUME outcome' = outcome \/ outcome' \notin Named
      PROVE  RefusalsAreReal'
  BY <1>2, <1>3
<1> HIDE DEF Named
<1>4. CASE IdentifyEntry \/ CheckBeforeLoad \/ CallResolver \/ ReturnFromResolver
           \/ ExpandSource \/ MeasureSpelling \/ Cancel \/ Expire \/ UNCHANGED vars
  <2>1. outcome' = outcome \/ outcome' \notin Named
    BY <1>4 DEF IdentifyEntry, CheckBeforeLoad, CallResolver, ReturnFromResolver, ExpandSource,
       MeasureSpelling, Cancel, Expire, vars, InterruptCode, Named
  <2> QED
    BY <1>3, <2>1
<1>5. CASE PopRequest
  <2>1. Top \in Pending /\ Chained(Top)
    <3>1. Top \in Elements(stack)
      BY <1>5, ElementsOfRest DEF PopRequest, WalkInv, TypeOK, Top
    <3> QED
      BY <3>1 DEF Pending, ChainedInv
  <2>2. \/ outcome' = outcome \/ outcome' \notin Named
        \/ outcome' = "import_depth" /\ Top.depth > MaxImportDepth
        \/ outcome' = "did_import_cycle" /\ Top.source \in PathSet(Top.path)
    BY <1>5 DEF PopRequest, InterruptCode, Named, Top
  <2>3. CASE outcome' = "import_depth" /\ Top.depth > MaxImportDepth
    BY <1>2, <2>1, <2>3, DepthFound
  <2>4. CASE outcome' = "did_import_cycle" /\ Top.source \in PathSet(Top.path)
    BY <1>2, <2>1, <2>4, CycleFound
  <2> QED
    BY <1>3, <2>2, <2>3, <2>4
<1>6. CASE AcceptSource
  <2>1. \/ outcome' = outcome \/ outcome' \notin Named
        \/ /\ outcome' = "sources" /\ pc = "accept"
           /\ ~Fits(consumed.sources, 1, MaxSources)
    BY <1>6 DEF AcceptSource, InterruptCode, Named
  <2>2. CASE /\ outcome' = "sources" /\ pc = "accept"
             /\ ~Fits(consumed.sources, 1, MaxSources)
    BY <1>2, <2>2, SourcesFound
  <2> QED
    BY <1>3, <2>1, <2>2
<1> QED
  BY <1>4, <1>5, <1>6 DEF Next, Step

LEMMA RealInit == Init => RealInv
<1> SUFFICES ASSUME Init PROVE RealInv
  OBVIOUS
<1>1. /\ units = << >> /\ stack = << >> /\ pc = "identify" /\ outcome = "running"
      /\ spelled = 0 /\ Loaded = {} /\ Pending = {} /\ ~Loading
  BY DEF Init, Loaded, Pending, Loading, Elements
<1>2. ChainedInv
  BY <1>1 DEF ChainedInv
<1>3. CountInv
  BY <1>1, LimitsAssumption DEF Init, CountInv
<1>4. SoundInv /\ SpelledInv
  BY <1>1 DEF SoundInv, SpelledInv, Done
<1>5. CallsInv
  BY DEF Init, CallsInv
<1>6. RefusalsAreReal
  BY <1>1 DEF RefusalsAreReal
<1> QED
  BY <1>2, <1>3, <1>4, <1>5, <1>6 DEF RealInv

\* A bundle that is accepted has been checked, every unit and every import of it.
LEMMA CheckedWhenDone ==
    ASSUME WalkInv, RealInv, Done
    PROVE  Faultless /\ Cardinality(Reachable) <= MaxSources
<1>1. Loaded = Reachable /\ Cardinality(Reachable) = Len(units) /\ Reachable \subseteq Source
  BY UnitsCounted, WholeWhenDone, LoadedReached
<1>2. Len(units) \in Nat /\ consumed.sources \in Nat /\ MaxSources \in Nat
  BY LimitsAssumption DEF WalkInv, TypeOK
<1>3. pc # "identify" /\ Alive
  BY DEF WalkInv, PhaseInv, Done, Alive
<1>4. fault \in [Source -> Fault] /\ imports \in [Source -> Seq(Edge)] /\ units \in Seq(Source)
  BY DEF WalkInv, TypeOK
<1>5. \A s \in Reachable : fault[s] \notin Unloadable \cup {"unparsable"}
  BY <1>1 DEF RealInv, SoundInv
<1>6. fault[Entry] \in {"none", "long_spelling"}
  <2>1. Entry \in Reachable /\ fault[Entry] # "unidentifiable" /\ fault[Entry] \in Fault
    BY <1>1, <1>3, <1>4, NothingPendingWhenDone DEF RealInv, SoundInv
  <2> QED
    BY <1>5, <2>1 DEF Fault, Unloadable
<1>7. ASSUME NEW s \in Reachable \ {Entry} PROVE fault[s] = "none"
  <2>1. PICK t \in Loaded : \E i \in DOMAIN imports[t] : imports[t][i].target = s
    <3> DEFINE S == Reachable \ {s}
    <3>1. Entry \in S /\ S \in SUBSET Source /\ ~ClosedUnderImport(S)
      <4>1. Entry \in S /\ S \in SUBSET Source
        BY <1>1, <1>7, NothingPendingWhenDone
      <4>2. ClosedUnderImport(S) => s \in S
        BY <1>1, <4>1 DEF Reachable
      <4> QED
        BY <4>1, <4>2
    <3>2. PICK t \in S, u \in Source : Imports(t, u) /\ u \notin S
      BY <3>1 DEF ClosedUnderImport
    <3>3. u \in Loaded
      BY <1>1, <3>2, NothingPendingWhenDone DEF Imports
    <3> QED
      BY <1>1, <3>2, <3>3 DEF Imports
  <2>2. fault[s] # "unidentifiable"
    BY <2>1 DEF RealInv, SoundInv
  <2>3. fault[s] # "long_spelling"
    <3>1. PICK k \in DOMAIN units : t = units[k]
      BY <2>1 DEF Loaded
    <3>2. k \in 1..spelled
      BY <1>4, <3>1 DEF RealInv, SpelledInv
    <3> QED
      BY <2>1, <3>1, <3>2 DEF RealInv, SpelledInv, LongSpelling
  <2>4. fault[s] \in Fault
    BY <1>1, <1>4, <1>7
  <2> QED
    BY <1>5, <1>7, <2>2, <2>3, <2>4 DEF Fault, Unloadable
<1> QED
  BY <1>1, <1>2, <1>6, <1>7 DEF Faultless, RealInv, CountInv

\* Whatever resolver answers and whenever the host interrupts: what is accepted has no
\* fault and fits, what is refused is refused for something that is there, and no source
\* is asked for twice, nor any after an interruption that a checkpoint could have seen.
\* A graph may be of any size, but not infinite.
THEOREM VerdictsHaveReasons ==
    ASSUME IsFiniteSet(Source)
    PROVE  Spec => []VerdictsAreReal
<1>1. Init => RealInv
  BY RealInit
<1>2. WalkInv /\ RealInv /\ [Next]_vars => RealInv'
  <2>1. WalkInv => TypeOK /\ PhaseInv
    BY DEF WalkInv
  <2> QED
    BY <2>1, ChainedStep, CountStep, SoundStep, SpelledStep, CallsStep, RefusalsStep DEF RealInv
<1>3. WalkInv /\ RealInv => VerdictsAreReal
  <2> SUFFICES ASSUME WalkInv, RealInv PROVE VerdictsAreReal
    OBVIOUS
  <2>1. CallsInTime
    <3>1. /\ \A s \in Source : calls.of[s] = 0 \/ calls.of[s] = 1
          /\ calls.late = 0 \/ calls.late = 1
      BY DEF RealInv, CallsInv
    <3> QED
      BY <3>1 DEF CallsInTime
  <2> QED
    BY <2>1, CheckedWhenDone DEF VerdictsAreReal, RealInv, RefusalsAreReal
<1> QED
  BY <1>1, <1>2, <1>3, WalkInvariant, PTL DEF Spec

-----------------------------------------------------------------------------
(***************************************************************************)
(* Why an accepted bundle has no import cycle, although a source that is a *)
(* unit already is not descended into and only the path of the popped      *)
(* request is searched.                                                    *)
(*                                                                         *)
(* The open path is the chain of sources whose imports are being served.   *)
(* A loaded source off that path is closed: closed sources import only     *)
(* closed ones and hold no cycle.  An import of the k-th open source is    *)
(* closed, or is the next open source, or is a request still pending whose *)
(* path has length k.  A request for an open source is on the open path,   *)
(* which is the path the loader searches.                                  *)
(*                                                                         *)
(* The second part is about the order of the units, which is the order the *)
(* compiler merges them in: the requests waiting are sorted by the unit    *)
(* that made them and, for one unit, against the order of its imports.     *)
(***************************************************************************)

\* Path a is where path p starts.
Starts(a, p) == Len(a) <= Len(p) /\ \A i \in 1..Len(a) : a[i] = p[i]

\* The path of the request in hand, or of the one to be popped next.
OpenPath ==
    IF Loading THEN current.path ELSE IF stack # << >> THEN Top.path ELSE << >>

\* The shape of the walk: units L, open path p, pending requests R.
PathsStart(p, R) == \A r \in R : Starts(r.path, p)

PathLoaded(L, p) ==
    /\ Elements(p) \subseteq L
    /\ \A i, j \in 1..Len(p) : p[i] = p[j] => i = j

ClosedInwards(C) == \A s \in C, t \in Source : Imports(s, t) => t \in C

OpenServed(C, p, R) ==
    \A k \in 1..Len(p), t \in Source :
        Imports(p[k], t) =>
            \/ t \in C
            \/ k < Len(p) /\ t = p[k + 1]
            \/ \E r \in R : r.source = t /\ Len(r.path) = k

Shape(L, p, R) ==
    LET C == L \ Elements(p)
    IN  /\ PathsStart(p, R)
        /\ PathLoaded(L, p)
        /\ ClosedInwards(C)
        /\ Acyclic(C)
        /\ OpenServed(C, p, R)

\* Deeper requests are above the ones they stem from.
StackNested ==
    /\ \A i, j \in DOMAIN stack : i <= j => Starts(stack[i].path, stack[j].path)
    /\ Loading => \A i \in DOMAIN stack : Starts(stack[i].path, current.path)

ChainInv == Alive => StackNested /\ Shape(Loaded, OpenPath, Pending)
-----------------------------------------------------------------------------
\* A nonempty set of positions of a finite path has a last one.
LEMMA LastPosition ==
    ASSUME NEW m \in Nat, NEW T \in SUBSET (1..m), T # {}
    PROVE  \E k \in T : \A j \in T : j <= k
<1> DEFINE U == {m - k : k \in T}
           Less == {ss \in Nat \X Nat : ss[1] < ss[2]}
<1>1. U \subseteq Nat /\ U # {}
  <2>1. \A k \in T : m - k \in Nat
    OBVIOUS
  <2> QED
    BY <2>1
<1>2. IsWellFoundedOn(Less, Nat)
  BY NatLessThanWellFounded DEF OpToRel
<1>3. \E u \in U : \A v \in U : ~(<<v, u>> \in Less)
  <2> HIDE DEF U, Less
  <2> QED
    BY <1>1, <1>2, WFMin
<1>4. PICK u \in U : \A v \in U : u <= v
  <2>1. \A v, w \in Nat : <<v, w>> \notin Less => w <= v
    OBVIOUS
  <2> HIDE DEF U, Less
  <2> QED
    BY <1>1, <1>3, <2>1
<1>5. PICK k \in T : u = m - k
  BY <1>4
<1>6. \A j \in T : m - j \in U
  OBVIOUS
<1> HIDE DEF U
<1> QED
  BY <1>4, <1>5, <1>6

\* Closing the tail of the open path.
LEMMA Retract ==
    ASSUME TypeOK,
           NEW L \in SUBSET Source, NEW p \in Seq(Source), NEW q \in Seq(Source),
           NEW R \in SUBSET Request,
           Shape(L, p, R), Starts(q, p), PathsStart(q, R)
    PROVE  Shape(L, q, R)
<1> DEFINE C == L \ Elements(p)
           D == L \ Elements(q)
           m == Len(p)
           n == Len(q)
<1>1. /\ m \in Nat /\ n \in Nat /\ n <= m /\ DOMAIN p = 1..m /\ DOMAIN q = 1..n
      /\ \A i \in 1..n : q[i] = p[i] /\ i \in 1..m
  BY DEF Starts
<1>2. /\ PathLoaded(L, p) /\ ClosedInwards(C) /\ Acyclic(C) /\ OpenServed(C, p, R)
  BY DEF Shape
<1>3. PathLoaded(L, q)
  BY <1>1, <1>2 DEF PathLoaded, Elements
<1>4. \A k \in (n + 1)..m : p[k] \in D
  <2>1. ASSUME NEW k \in (n + 1)..m PROVE p[k] \in L /\ p[k] \notin Elements(q)
    <3>1. k \in 1..m
      BY <1>1
    <3>2. \A i \in 1..n : p[i] # p[k]
      BY <1>1, <1>2, <3>1 DEF PathLoaded
    <3> QED
      BY <1>1, <1>2, <3>1, <3>2 DEF PathLoaded, Elements
  <2> QED
    BY <2>1
<1>5. C \subseteq D /\ \A s \in D : s \in C \/ \E k \in (n + 1)..m : s = p[k]
  <2>1. Elements(q) \subseteq Elements(p)
    BY <1>1 DEF Elements
  <2>2. ASSUME NEW s \in Elements(p), s \notin Elements(q)
        PROVE  \E k \in (n + 1)..m : s = p[k]
    <3>1. PICK k \in 1..m : s = p[k]
      BY <1>1, <2>2 DEF Elements
    <3>2. k > n
      BY <1>1, <2>2, <3>1 DEF Elements
    <3> QED
      BY <1>1, <3>1, <3>2
  <2> QED
    BY <2>1, <2>2
<1>6. \A r \in R : Len(r.path) <= n
  BY DEF PathsStart, Starts
<1>7. ASSUME NEW k \in (n + 1)..m, NEW t \in Source, Imports(p[k], t)
      PROVE  t \in C \/ (k < m /\ t = p[k + 1])
  <2>1. ~ \E r \in R : Len(r.path) = k
    BY <1>1, <1>6
  <2> QED
    BY <1>1, <1>2, <1>7, <2>1 DEF OpenServed
<1>8. ClosedInwards(D)
  <2> SUFFICES ASSUME NEW s \in D, NEW t \in Source, Imports(s, t)
               PROVE  t \in D
    BY DEF ClosedInwards
  <2>1. CASE s \in C
    BY <1>2, <1>5, <2>1 DEF ClosedInwards
  <2>2. ASSUME NEW k \in (n + 1)..m, s = p[k] PROVE t \in D
    <3>1. t \in C \/ (k < m /\ t = p[k + 1])
      BY <1>7, <2>2
    <3> QED
      BY <1>1, <1>4, <1>5, <3>1
  <2> QED
    BY <1>5, <2>1, <2>2
<1>9. Acyclic(D)
  <2> SUFFICES ASSUME NEW B \in SUBSET D, B # {}
               PROVE  \E s \in B : \A t \in B : ~Imports(s, t)
    BY DEF Acyclic
  <2>1. CASE B \cap C # {}
    <3>1. PICK s \in B \cap C : \A t \in B \cap C : ~Imports(s, t)
      BY <1>2, <2>1 DEF Acyclic
    <3> QED
      BY <1>2, <3>1 DEF ClosedInwards
  <2>2. CASE B \cap C = {}
    <3> DEFINE T == {k \in (n + 1)..m : p[k] \in B}
    <3>1. T \in SUBSET (1..m) /\ T # {}
      BY <1>1, <1>5, <2>2
    <3>2. PICK k \in T : \A j \in T : j <= k
      BY <1>1, <3>1, LastPosition
    <3>3. \A t \in B : ~Imports(p[k], t)
      <4> SUFFICES ASSUME NEW t \in B, Imports(p[k], t) PROVE FALSE
        OBVIOUS
      <4>1. k < m /\ t = p[k + 1]
        BY <1>7, <2>2
      <4>2. k + 1 \in T
        BY <1>1, <4>1
      <4> QED
        BY <1>1, <3>2, <4>2
    <3> QED
      BY <3>3
  <2> QED
    BY <2>1, <2>2
<1>10. OpenServed(D, q, R)
  <2> SUFFICES ASSUME NEW k \in 1..n, NEW t \in Source, Imports(q[k], t)
               PROVE  \/ t \in D
                      \/ k < n /\ t = q[k + 1]
                      \/ \E r \in R : r.source = t /\ Len(r.path) = k
    BY DEF OpenServed
  <2>1. \/ t \in C
        \/ k < m /\ t = p[k + 1]
        \/ \E r \in R : r.source = t /\ Len(r.path) = k
    BY <1>1, <1>2 DEF OpenServed
  <2>2. CASE k < m /\ t = p[k + 1]
    BY <1>1, <1>4, <2>2
  <2> QED
    BY <1>5, <2>1, <2>2
<1> QED
  BY <1>3, <1>8, <1>9, <1>10 DEF Shape

\* Serving a request whose source is closed.
LEMMA Serve ==
    ASSUME NEW L, NEW p, NEW R, NEW r,
           Shape(L, p, R \cup {r}), r.source \in L \ Elements(p)
    PROVE  Shape(L, p, R)
BY DEF Shape, PathsStart, OpenServed

\* Indexing the source of the request at the end of the open path.
LEMMA Extend ==
    ASSUME TypeOK, NEW L \in SUBSET Source, NEW c \in Request, NEW R \in SUBSET Request,
           Shape(L, c.path, R \cup {c}), c.source \notin L
    PROVE  Shape(L \cup {c.source}, Append(c.path, c.source),
                 R \cup {ChildFor(c, i) : i \in DOMAIN imports[c.source]})
<1> DEFINE s == c.source
           p == c.path
           q == Append(p, s)
           C == L \ Elements(p)
           D == (L \cup {s}) \ Elements(q)
           m == Len(p)
           new == {ChildFor(c, i) : i \in DOMAIN imports[s]}
<1>1. s \in Source /\ p \in Seq(Source) /\ q \in Seq(Source)
  BY DEF Request
<1>2. /\ m \in Nat /\ DOMAIN p = 1..m /\ Len(q) = m + 1 /\ DOMAIN q = 1..(m + 1)
      /\ \A i \in 1..m : q[i] = p[i] /\ q[i] # s
      /\ q[m + 1] = s
  BY <1>1 DEF Shape, PathLoaded, Elements
<1>3. /\ PathLoaded(L, p) /\ ClosedInwards(C) /\ Acyclic(C)
      /\ OpenServed(C, p, R \cup {c}) /\ PathsStart(p, R \cup {c})
  BY DEF Shape
<1>4. Elements(q) = Elements(p) \cup {s}
  BY <1>1, ElementsOfAppend
<1>5. D = C
  BY <1>4
<1>6. \A i \in DOMAIN imports[s] :
        /\ ChildFor(c, i).path = q
        /\ ChildFor(c, i).source = imports[s][i].target
  BY DEF ChildFor
<1>7. PathsStart(q, R \cup new)
  <2>1. \A r \in R : Starts(r.path, q)
    BY <1>2, <1>3 DEF PathsStart, Starts, Request
  <2>2. \A r \in new : Starts(r.path, q)
    BY <1>2, <1>6 DEF Starts
  <2> QED
    BY <2>1, <2>2 DEF PathsStart
<1>8. PathLoaded(L \cup {s}, q)
  BY <1>2, <1>3, <1>4 DEF PathLoaded
<1>9. OpenServed(C, q, R \cup new)
  <2> SUFFICES ASSUME NEW k \in 1..(m + 1), NEW t \in Source, Imports(q[k], t)
               PROVE  \/ t \in C
                      \/ k < m + 1 /\ t = q[k + 1]
                      \/ \E r \in R \cup new : r.source = t /\ Len(r.path) = k
    BY <1>2 DEF OpenServed
  <2>1. CASE k \in 1..m
    <3>1. \/ t \in C
          \/ k < m /\ t = p[k + 1]
          \/ \E r \in R : r.source = t /\ Len(r.path) = k
          \/ s = t /\ m = k
      BY <1>2, <1>3, <2>1 DEF OpenServed
    <3> QED
      BY <1>2, <2>1, <3>1
  <2>2. CASE k = m + 1
    <3>1. PICK i \in DOMAIN imports[s] : imports[s][i].target = t
      BY <1>2, <2>2 DEF Imports
    <3> QED
      BY <1>2, <1>6, <2>2, <3>1
  <2> QED
    BY <1>2, <2>1, <2>2
<1> QED
  BY <1>3, <1>5, <1>7, <1>8, <1>9 DEF Shape
-----------------------------------------------------------------------------
LEMMA ChainInit == Init => ChainInv
<1> SUFFICES ASSUME Init PROVE ChainInv
  OBVIOUS
<1>1. Loaded = {} /\ OpenPath = << >> /\ Pending = {} /\ StackNested
  BY DEF Init, Loaded, OpenPath, Pending, Elements, Loading, StackNested
<1> QED
  BY <1>1 DEF ChainInv, Shape, PathsStart, PathLoaded, ClosedInwards, Acyclic,
              OpenServed, Elements

\* The shape depends on the import graph, and the loader never changes that.
LEMMA ShapeNext ==
    ASSUME imports' = imports, Shape(Loaded', OpenPath', Pending')
    PROVE  Shape(Loaded, OpenPath, Pending)'
<1>1. \A s, t : Imports(s, t)' <=> Imports(s, t)
  BY DEF Imports
<1>2. PathsStart(OpenPath', Pending') /\ PathLoaded(Loaded', OpenPath')
  BY DEF Shape
<1>3. PathsStart(OpenPath, Pending)' /\ PathLoaded(Loaded, OpenPath)'
  BY <1>2 DEF PathsStart, PathLoaded
<1>4. ClosedInwards(Loaded \ Elements(OpenPath))'
  BY <1>1 DEF Shape, ClosedInwards
<1>5. Acyclic(Loaded \ Elements(OpenPath))'
  BY <1>1 DEF Shape, Acyclic
<1>6. OpenServed(Loaded \ Elements(OpenPath), OpenPath, Pending)'
  BY <1>1 DEF Shape, OpenServed
<1> QED
  BY <1>3, <1>4, <1>5, <1>6 DEF Shape

\* Loaded sources, the open path and the pending requests are all of the shape.
LEMMA SameShape ==
    ASSUME ChainInv, imports' = imports, Alive' => Alive, StackNested',
           Loaded' = Loaded, OpenPath' = OpenPath, Pending' = Pending
    PROVE  ChainInv'
BY ShapeNext DEF ChainInv

\* Whatever path was open, the one of the next request takes its place.
LEMMA SettleOnTop ==
    ASSUME TypeOK, TypeOK', ~Loading', StackNested', imports' = imports,
           NEW q \in Seq(Source), Shape(Loaded', q, Pending')
    PROVE  ChainInv'
<1>1. /\ Loaded' \in SUBSET Source /\ stack' \in Seq(Request)
      /\ DOMAIN stack' = 1..Len(stack') /\ Len(stack') \in Nat
  BY DEF TypeOK, Loaded
<1>2. Pending' = Elements(stack') /\ Pending' \in SUBSET Request
  BY <1>1 DEF Pending, Elements
<1>3. /\ OpenPath' \in Seq(Source)
      /\ Starts(OpenPath', q)
      /\ PathsStart(OpenPath', Pending')
  <2>1. CASE stack' = << >>
    <3>1. OpenPath' = << >> /\ Pending' = {}
      BY <1>2, <2>1 DEF OpenPath, Elements
    <3> QED
      BY <3>1 DEF Starts, PathsStart
  <2>2. CASE stack' # << >>
    <3> DEFINE n == Len(stack')
    <3>1. n \in 1..n /\ n \in DOMAIN stack' /\ \A i \in DOMAIN stack' : i <= n
      BY <1>1, <2>2
    <3>2. OpenPath' = stack'[n].path /\ stack'[n] \in Request /\ stack'[n] \in Pending'
      BY <1>1, <1>2, <2>2, <3>1 DEF OpenPath, Top, Elements
    <3>3. PathsStart(OpenPath', Pending')
      BY <1>2, <3>1, <3>2 DEF PathsStart, StackNested, Elements
    <3>4. Starts(OpenPath', q)
      BY <3>2 DEF Shape, PathsStart
    <3> QED
      BY <3>2, <3>3, <3>4 DEF Request
  <2> QED
    BY <2>1, <2>2
<1>4. Shape(Loaded', OpenPath', Pending')
  BY <1>1, <1>2, <1>3, Retract
<1> QED
  BY <1>4, ShapeNext DEF ChainInv

\* Dropping the top request keeps the rest nested.
LEMMA RestNested ==
    ASSUME TypeOK, StackNested, stack # << >>, stack' = Rest(stack),
           Loading' => current' = Top
    PROVE  StackNested'
<1>1. /\ Len(stack) \in Nat \ {0} /\ DOMAIN stack = 1..Len(stack)
      /\ DOMAIN stack' = 1..(Len(stack) - 1)
      /\ \A i \in 1..(Len(stack) - 1) : stack'[i] = stack[i]
  BY DEF TypeOK, Rest
<1> QED
  BY <1>1 DEF StackNested, Top

LEMMA MeetsChain ==
    ASSUME WalkInv, TypeOK', ChainInv, Meets PROVE ChainInv'
<1>1. /\ TypeOK /\ stack \in Seq(Request) /\ stack # << >>
      /\ imports' = imports /\ Loaded' = Loaded /\ ~Loading /\ ~Loading'
      /\ Alive
  <2>1. TypeOK /\ (outcome = "running" <=> pc # "stopped") /\ pc = "pop" /\ pc' = "pop"
    BY DEF WalkInv, PhaseInv, Meets
  <2> QED
    <3>1. stack \in Seq(Request) /\ stack # << >>
      BY <2>1 DEF TypeOK, Meets
    <3>2. imports' = imports /\ Loaded' = Loaded
      BY DEF Meets, program, Loaded
    <3>3. ~Loading /\ ~Loading' /\ Alive
      BY <2>1 DEF Loading, Alive
    <3> QED
      BY <2>1, <3>1, <3>2, <3>3
<1>2. /\ Elements(stack) = Elements(Rest(stack)) \cup {Top} /\ Top \in Request
      /\ Pending' = Elements(Rest(stack)) /\ Pending = Elements(stack)
  BY <1>1, ElementsOfRest DEF Top, Meets, Pending
<1>3. StackNested'
  BY <1>1, RestNested DEF ChainInv, Meets
<1>4. Top.source \in Loaded \ Elements(Top.path)
  BY DEF Meets, PathSet, Elements
<1>5. Shape(Loaded, Top.path, Pending' \cup {Top})
  BY <1>1, <1>2 DEF ChainInv, OpenPath
<1>6. Shape(Loaded', Top.path, Pending')
  BY <1>1, <1>4, <1>5, Serve
<1> QED
  BY <1>1, <1>2, <1>3, <1>6, SettleOnTop DEF Request

LEMMA TakesChain ==
    ASSUME WalkInv, TypeOK', ChainInv, Takes PROVE ChainInv'
<1>1. /\ TypeOK /\ stack \in Seq(Request) /\ stack # << >>
      /\ imports' = imports /\ Loaded' = Loaded /\ ~Loading /\ Loading' /\ Alive
  BY DEF WalkInv, PhaseInv, TypeOK, Takes, program, Loaded, Loading, Alive
<1>2. Pending' = Pending
  BY <1>1, ElementsOfRest DEF Top, Takes, Pending
<1>3. StackNested'
  BY <1>1, RestNested DEF ChainInv, Takes
<1>4. OpenPath' = OpenPath
  BY <1>1 DEF Takes, OpenPath
<1> QED
  BY <1>1, <1>2, <1>3, <1>4, SameShape

LEMMA IndexesChain ==
    ASSUME WalkInv, TypeOK', ChainInv, Indexes PROVE ChainInv'
<1> DEFINE s == current.source
           q == Append(current.path, s)
           new == {ChildFor(current, i) : i \in DOMAIN imports[s]}
           children == ChildRequests(current)
           m == Len(stack)
<1>1. /\ TypeOK /\ stack \in Seq(Request) /\ current \in Request
      /\ imports' = imports /\ Loading /\ ~Loading' /\ Alive
      /\ s \notin Loaded /\ s \in Source /\ q \in Seq(Source)
      /\ children \in Seq(Request) /\ stack' = stack \o children
  <2>1. TypeOK /\ (outcome = "running" <=> pc # "stopped") /\ OnceInv
    BY DEF WalkInv, PhaseInv
  <2>2. stack \in Seq(Request) /\ current \in Request
    BY <2>1 DEF TypeOK
  <2>3. s \in Source /\ q \in Seq(Source)
    BY <2>2 DEF Request
  <2>4. children \in Seq(Request)
    BY <2>1, <2>2, ChildRequestsType
  <2>5. /\ imports' = imports /\ Loading /\ ~Loading' /\ Alive
        /\ stack' = stack \o children
    BY <2>1 DEF Indexes, program, Loading, Alive
  <2>6. s \notin Loaded
    BY <2>1, <2>5 DEF OnceInv
  <2> QED
    BY <2>1, <2>2, <2>3, <2>4, <2>5, <2>6
<1>2. Loaded' = Loaded \cup {s} /\ Loaded \in SUBSET Source
  <2>a. units \in Seq(Source)
    BY <1>1 DEF TypeOK
  <2>b. units' = Append(units, s)
    BY DEF Indexes
  <2>1. Elements(units') = Elements(units) \cup {s} /\ units \in Seq(Source)
    BY <1>1, <2>a, <2>b, ElementsOfAppend
  <2>2. Loaded' = Elements(units') /\ Loaded = Elements(units)
    BY DEF Loaded, Elements
  <2>3. Loaded \in SUBSET Source
    BY <2>1 DEF Loaded
  <2> QED
    BY <2>1, <2>2, <2>3
<1>3. Elements(children) = new
  BY <1>1, ElementsOfChildren
<1>4. Pending' = Elements(stack) \cup new /\ Pending = Elements(stack) \cup {current}
  BY <1>1, <1>3, ElementsOfConcat DEF Pending
<1>5. Elements(stack) \in SUBSET Request
  BY <1>1 DEF Elements
<1>6. Shape(Loaded', q, Pending')
  BY <1>1, <1>2, <1>4, <1>5, Extend DEF ChainInv, OpenPath
<1>7. StackNested'
  <2>1. /\ m \in Nat /\ Len(children) \in Nat /\ DOMAIN stack = 1..m
        /\ DOMAIN children = 1..Len(children)
        /\ DOMAIN stack' = 1..(m + Len(children))
        /\ \A i \in 1..m : stack'[i] = stack[i]
        /\ \A i \in 1..Len(children) : stack'[m + i] = children[i]
    BY <1>1, ConcatProperties, LenProperties
  <2>2. \A i \in 1..Len(children) : children[i].path = q
    <3>1. \A i \in 1..Len(children) : children[i] \in new
      BY <1>3, <2>1 DEF Elements
    <3> QED
      BY <3>1 DEF ChildFor
  <2>3. \A i \in (m + 1)..(m + Len(children)) : stack'[i].path = q
    <3>1. \A i \in (m + 1)..(m + Len(children)) :
            i - m \in 1..Len(children) /\ i = m + (i - m)
      BY <2>1
    <3> QED
      BY <2>1, <2>2, <3>1, ZenonT(30)
  <2>4. \A i \in 1..m : Starts(stack'[i].path, q)
    <3>1. \A i \in 1..m : Starts(stack[i].path, current.path) /\ stack[i] \in Request
      BY <1>1, <2>1 DEF ChainInv, StackNested
    <3> QED
      BY <1>1, <2>1, <3>1 DEF Starts, Request
  <2>5. Starts(q, q)
    BY <1>1 DEF Starts
  <2> SUFFICES ASSUME NEW i \in DOMAIN stack', NEW j \in DOMAIN stack', i <= j
               PROVE  Starts(stack'[i].path, stack'[j].path)
    BY <1>1 DEF StackNested
  <2>6. CASE j \in 1..m
    <3>1. i \in 1..m /\ i \in DOMAIN stack /\ j \in DOMAIN stack
      BY <2>1, <2>6
    <3> QED
      BY <1>1, <2>1, <2>6, <3>1 DEF ChainInv, StackNested
  <2>7. CASE j \notin 1..m
    <3>1. stack'[j].path = q
      BY <2>1, <2>3, <2>7
    <3>2. CASE i \in 1..m
      BY <2>4, <3>1, <3>2
    <3>3. CASE i \notin 1..m
      <4>1. stack'[i].path = q
        BY <2>1, <2>3, <3>3
      <4> QED
        BY <2>5, <3>1, <4>1
    <3> QED
      BY <3>2, <3>3
  <2> QED
    BY <2>6, <2>7
<1> QED
  BY <1>1, <1>6, <1>7, SettleOnTop

LEMMA ChainStep == WalkInv /\ ChainInv /\ [Next]_vars => ChainInv'
<1> SUFFICES ASSUME WalkInv, ChainInv, [Next]_vars
             PROVE  ChainInv'
  OBVIOUS
<1>1. TypeOK' /\ TypeOK /\ PhaseInv
  BY TypeStep DEF WalkInv
<1>2. CASE Abandons
  BY <1>2 DEF Abandons, ChainInv
<1>3. CASE Proceeds \/ Rests \/ Concludes
  <2>1. /\ imports' = imports /\ stack' = stack /\ current' = current /\ units' = units
        /\ Alive' => Alive
        /\ (Loading' <=> Loading)
    BY <1>1, <1>3 DEF Proceeds, Rests, Concludes, program, walk, Loading, Alive, PhaseInv
  <2>2. Loaded' = Loaded /\ OpenPath' = OpenPath /\ Pending' = Pending
    BY <2>1 DEF Loaded, OpenPath, Pending, Top
  <2>3. Alive' => StackNested'
    BY <2>1 DEF ChainInv, StackNested
  <2> QED
    BY <2>1, <2>2, <2>3, SameShape DEF ChainInv
<1>4. CASE Begins
  <2>1. /\ imports' = imports /\ Loaded' = {} /\ ~Loading' /\ stack' = <<EntryRequest>>
        /\ EntryRequest.path = << >>
    BY <1>1, <1>4 DEF Begins, program, Loaded, Loading, EntryRequest, PhaseInv
  <2>2. Shape(Loaded', << >>, Pending')
    <3>1. Pending' = {EntryRequest}
      BY <2>1 DEF Pending, Elements
    <3> QED
      BY <2>1, <3>1 DEF Shape, PathsStart, PathLoaded, ClosedInwards, Acyclic,
                        OpenServed, Elements, Starts
  <2>3. StackNested'
    BY <2>1 DEF StackNested, Starts
  <2>4. << >> \in Seq(Source)
    OBVIOUS
  <2> QED
    BY <1>1, <2>1, <2>2, <2>3, <2>4, SettleOnTop
<1>5. CASE Meets
  BY <1>1, <1>5, MeetsChain
<1>6. CASE Takes
  BY <1>1, <1>6, TakesChain
<1>7. CASE Indexes
  BY <1>1, <1>7, IndexesChain
<1> QED
  BY <1>1, <1>2, <1>3, <1>4, <1>5, <1>6, <1>7, StepKinds

\* An accepted bundle has no import cycle.
THEOREM AcceptedAcyclic == Spec => []AcceptedIsAcyclic
<1>1. Init => WalkInv /\ ChainInv
  BY WalkInit, ChainInit
<1>2. WalkInv /\ ChainInv /\ [Next]_vars => (WalkInv /\ ChainInv)'
  BY WalkStep, ChainStep
<1>3. WalkInv /\ ChainInv => AcceptedIsAcyclic
  <2> SUFFICES ASSUME WalkInv, ChainInv, Done
               PROVE  Acyclic(Loaded)
    BY DEF AcceptedIsAcyclic
  <2>1. pc = "stopped" /\ stack = << >> /\ Alive
    BY DEF WalkInv, TypeOK, PhaseInv, Done, Alive
  <2>2. OpenPath = << >> /\ Elements(<< >>) = {}
    BY <2>1 DEF OpenPath, Loading, Elements
  <2> QED
    BY <2>1, <2>2 DEF ChainInv, Shape
<1> QED
  BY <1>1, <1>2, <1>3, PTL DEF Spec

-----------------------------------------------------------------------------
\* The order of the units.

\* What is pending, in the order it will be served from the end.
Queue == IF Loading THEN Append(stack, current) ELSE stack

\* The x-th request of ps is for the edge[x]-th import of the at[x]-th unit of us.  Later
\* units are nearer the end, and so are the earlier imports of one unit.  Every import
\* of a source not in seen is requested.  im is the import graph.
Ordered(im, us, seen, ps, at, edge) ==
    /\ \A x \in 1..Len(ps) :
          /\ at[x] \in 1..Len(us) /\ edge[x] \in DOMAIN im[us[at[x]]]
          /\ ps[x].source = im[us[at[x]]][edge[x]].target
    /\ \A x, y \in 1..Len(ps) :
          x < y => (at[x] < at[y]) \/ (at[x] = at[y] /\ edge[x] > edge[y])
    /\ \A j \in 1..Len(us) : \A k \in DOMAIN im[us[j]] :
          \/ im[us[j]][k].target \in seen
          \/ \E x \in 1..Len(ps) : at[x] = j /\ edge[x] = k

\* The i-th unit of us is the k-th import of the p-th, the first of them not listed
\* before; the units between have no import that was not.
Follows(im, us, i, p, k) ==
    LET seen == {us[j] : j \in 1..(i - 1)}
    IN  /\ p \in 1..(i - 1) /\ k \in DOMAIN im[us[p]]
        /\ us[i] = im[us[p]][k].target /\ us[i] \notin seen
        /\ \A l \in DOMAIN im[us[p]] : l < k => im[us[p]][l].target \in seen
        /\ \A j \in (p + 1)..(i - 1) : \A l \in DOMAIN im[us[j]] :
              im[us[j]][l].target \in seen

QueueInv ==
    Alive => IF units = << >> THEN Len(Queue) <= 1
             ELSE \E at, edge \in [1..Len(Queue) -> Nat] :
                     Ordered(imports, units, Loaded, Queue, at, edge)
FollowInv == \A i \in 2..Len(units) : \E p, k \in Nat : Follows(imports, units, i, p, k)
OrderInv == QueueInv /\ FollowInv

\* What is taken next is the first unlisted import of the latest unit with one.
LEMMA LastFollows ==
    ASSUME NEW us \in Seq(Source), NEW ps, NEW n \in Nat, Len(ps) = n + 1,
           NEW im \in [Source -> Seq(Edge)], NEW s, s = ps[n + 1].source, s \notin Elements(us),
           NEW at \in [1..(n + 1) -> Nat], NEW edge \in [1..(n + 1) -> Nat],
           Ordered(im, us, Elements(us), ps, at, edge),
           NEW p, p = at[n + 1], NEW k, k = edge[n + 1]
    PROVE  Follows(im, Append(us, s), Len(us) + 1, p, k)
<1> DEFINE m == Len(us)
           more == Append(us, s)
<1>1. /\ m \in Nat /\ DOMAIN us = 1..m /\ n + 1 \in 1..(n + 1)
      /\ more[m + 1] = s /\ \A j \in 1..m : more[j] = us[j]
  OBVIOUS
<1>2. /\ p \in 1..m /\ k \in DOMAIN im[us[p]] /\ s = im[us[p]][k].target
      /\ \A x \in 1..(n + 1) : /\ at[x] \in 1..m /\ edge[x] \in DOMAIN im[us[at[x]]]
  BY <1>1 DEF Ordered
<1>3. Elements(us) = {more[j] : j \in 1..(m + 1 - 1)}
  <2>1. m + 1 - 1 = m
    BY <1>1
  <2> HIDE DEF more, m
  <2>2. Elements(us) = {us[j] : j \in 1..m}
    BY <1>1 DEF Elements
  <2>3. {us[j] : j \in 1..m} = {more[j] : j \in 1..m}
    BY <1>1
  <2> QED
    BY <2>1, <2>2, <2>3
<1>4. \A x \in 1..n : (at[x] < p) \/ (at[x] = p /\ edge[x] > k)
  <2>1. \A x \in 1..n : x \in 1..(n + 1) /\ x < n + 1
    OBVIOUS
  <2> QED
    BY <1>1, <2>1 DEF Ordered
<1>5. \A x \in 1..(n + 1) : x \in 1..n \/ x = n + 1
  OBVIOUS
<1>6. \A j \in 1..m : DOMAIN im[us[j]] \subseteq Nat
  OBVIOUS
<1>7. ASSUME NEW l \in DOMAIN im[us[p]], l < k
      PROVE  im[us[p]][l].target \in Elements(us)
  <2>1. CASE im[us[p]][l].target \notin Elements(us)
    <3>1. PICK x \in 1..(n + 1) : at[x] = p /\ edge[x] = l
      BY <1>2, <2>1 DEF Ordered
    <3>2. l \in Nat /\ k \in Nat /\ p \in Nat
      BY <1>1, <1>2, <1>6
    <3>3. CASE x = n + 1
      BY <1>7, <3>1, <3>2, <3>3
    <3>4. CASE x \in 1..n
      <4>1. (at[x] < p) \/ (at[x] = p /\ edge[x] > k)
        BY <1>4, <3>4
      <4>2. (p < p) \/ (p = p /\ l > k)
        BY <3>1, <4>1, Zenon
      <4> QED
        BY <1>7, <3>2, <4>2
    <3> QED
      BY <1>5, <3>3, <3>4
  <2> QED
    BY <2>1
<1>8. ASSUME NEW j \in (p + 1)..m, NEW l \in DOMAIN im[us[j]]
      PROVE  im[us[j]][l].target \in Elements(us)
  <2>1. j \in 1..m /\ j > p
    BY <1>1, <1>2
  <2>2. CASE im[us[j]][l].target \notin Elements(us)
    <3>1. PICK x \in 1..(n + 1) : at[x] = j /\ edge[x] = l
      BY <2>1, <2>2, SMTT(30) DEF Ordered
    <3>2. j \in Nat /\ p \in Nat
      BY <1>1, <1>2, <2>1
    <3>3. CASE x = n + 1
      BY <2>1, <3>1, <3>2, <3>3
    <3>4. CASE x \in 1..n
      <4>1. (at[x] < p) \/ (at[x] = p /\ edge[x] > k)
        BY <1>4, <3>4
      <4>2. (j < p) \/ j = p
        BY <3>1, <4>1, Zenon
      <4> QED
        BY <2>1, <3>2, <4>2
    <3> QED
      BY <1>5, <3>3, <3>4
  <2> QED
    BY <2>2
<1>9. m + 1 - 1 = m /\ p \in 1..(m + 1 - 1)
  BY <1>1, <1>2
<1>10. more[p] = us[p] /\ \A j \in (p + 1)..m : more[j] = us[j]
  BY <1>1, <1>2
<1>11. \A l \in DOMAIN im[us[p]] : l < k => im[us[p]][l].target \in Elements(us)
  BY <1>7
<1>12. \A j \in (p + 1)..m : \A l \in DOMAIN im[us[j]] :
          im[us[j]][l].target \in Elements(us)
  BY <1>8
<1> HIDE DEF more, m
<1>13. \A j \in (p + 1)..(m + 1 - 1) : \A l \in DOMAIN im[more[j]] :
          im[more[j]][l].target \in Elements(us)
  BY <1>9, <1>10, <1>12
<1>14. Follows(im, more, m + 1, p, k)
  BY <1>1, <1>2, <1>3, <1>9, <1>10, <1>11, <1>13, SMTT(30) DEF Follows
<1> QED
  BY <1>14 DEF more, m

\* A list that goes on keeps its order.
LEMMA FollowsStays ==
    ASSUME NEW im, NEW us \in Seq(Source), NEW s, NEW i \in 1..Len(us), NEW p \in Nat, NEW k,
           Follows(im, us, i, p, k)
    PROVE  Follows(im, Append(us, s), i, p, k)
<1>1. \A j \in 1..Len(us) : Append(us, s)[j] = us[j]
  OBVIOUS
<1>2. {Append(us, s)[j] : j \in 1..(i - 1)} = {us[j] : j \in 1..(i - 1)}
  <2>1. \A j \in 1..(i - 1) : j \in 1..Len(us)
    OBVIOUS
  <2> QED
    BY <1>1, <2>1
<1>3. /\ p \in 1..Len(us) /\ Append(us, s)[p] = us[p] /\ Append(us, s)[i] = us[i]
      /\ \A j \in (p + 1)..(i - 1) : Append(us, s)[j] = us[j]
  <2>1. p \in 1..(i - 1)
    BY DEF Follows
  <2> QED
    BY <1>1, <2>1
<1> QED
  BY <1>2, <1>3 DEF Follows

\* Once the last request of ps is served, its source has been seen; rest is the others.
LEMMA ServedLast ==
    ASSUME NEW im \in [Source -> Seq(Edge)], NEW us \in Seq(Source), NEW seen,
           NEW wide, NEW ps, NEW rest, NEW n \in Nat,
           seen \subseteq wide, ps[n + 1].source \in wide,
           Len(ps) = n + 1, Len(rest) = n, \A x \in 1..n : rest[x] = ps[x],
           NEW at \in [1..(n + 1) -> Nat], NEW edge \in [1..(n + 1) -> Nat],
           Ordered(im, us, seen, ps, at, edge)
    PROVE  \E bt, fdge \in [1..n -> Nat] : Ordered(im, us, wide, rest, bt, fdge)
<1> DEFINE bt == [x \in 1..n |-> at[x]]
           fdge == [x \in 1..n |-> edge[x]]
<1>1. \A x \in 1..n : x \in 1..(n + 1) /\ bt[x] = at[x] /\ fdge[x] = edge[x]
  OBVIOUS
<1>a. bt \in [1..n -> Nat] /\ fdge \in [1..n -> Nat]
  OBVIOUS
<1>2. \A x \in 1..(n + 1) : x \in 1..n \/ x = n + 1
  OBVIOUS
<1> HIDE DEF bt, fdge
<1>3. \A x \in 1..(n + 1) :
         /\ at[x] \in 1..Len(us) /\ edge[x] \in DOMAIN im[us[at[x]]]
         /\ ps[x].source = im[us[at[x]]][edge[x]].target
  BY DEF Ordered
<1>b. \A j \in 1..Len(us) : \A k \in DOMAIN im[us[j]] :
         im[us[j]][k].target \in seen \/ \E x \in 1..(n + 1) : at[x] = j /\ edge[x] = k
  BY DEF Ordered
<1>4. \A x, y \in 1..(n + 1) :
         x < y => (at[x] < at[y]) \/ (at[x] = at[y] /\ edge[x] > edge[y])
  BY DEF Ordered
<1>5. \A x \in 1..n :
         /\ bt[x] \in 1..Len(us) /\ fdge[x] \in DOMAIN im[us[bt[x]]]
         /\ rest[x].source = im[us[bt[x]]][fdge[x]].target
  BY <1>1, <1>3
<1>6. ASSUME NEW x \in 1..n, NEW y \in 1..n, x < y
      PROVE  (bt[x] < bt[y]) \/ (bt[x] = bt[y] /\ fdge[x] > fdge[y])
  <2>1. (at[x] < at[y]) \/ (at[x] = at[y] /\ edge[x] > edge[y])
    BY <1>1, <1>4, <1>6
  <2>2. bt[x] = at[x] /\ bt[y] = at[y] /\ fdge[x] = edge[x] /\ fdge[y] = edge[y]
    BY <1>1
  <2> QED
    BY <2>1, <2>2, Zenon
<1>7. ASSUME NEW j \in 1..Len(us), NEW k \in DOMAIN im[us[j]]
      PROVE  \/ im[us[j]][k].target \in wide
             \/ \E x \in 1..n : bt[x] = j /\ fdge[x] = k
  <2>1. CASE im[us[j]][k].target \notin seen
    <3>1. PICK x \in 1..(n + 1) : at[x] = j /\ edge[x] = k
      BY <1>b, <2>1
    <3>2. CASE x = n + 1
      BY <1>3, <3>1, <3>2
    <3>3. CASE x \in 1..n
      BY <1>1, <3>1, <3>3
    <3> QED
      BY <1>2, <3>2, <3>3
  <2> QED
    BY <2>1
<1>8. Ordered(im, us, wide, rest, bt, fdge)
  BY <1>5, <1>6, <1>7 DEF Ordered
<1> QED
  BY <1>a, <1>8

LEMMA ConcatParts ==
    ASSUME NEW S, NEW s \in Seq(S), NEW t \in Seq(S)
    PROVE  /\ Len(s \o t) = Len(s) + Len(t)
           /\ \A i \in 1..Len(s) : (s \o t)[i] = s[i]
           /\ \A i \in 1..Len(t) : (s \o t)[Len(s) + i] = t[i]
BY ConcatProperties, LenProperties

\* A request for each edge, that for the first one last.
Requests(kids, edges) ==
    /\ Len(kids) = Len(edges)
    /\ \A i \in 1..Len(kids) : kids[i].source = edges[Len(kids) + 1 - i].target

\* A new unit requests all its imports.
LEMMA RequestsInOrder ==
    ASSUME NEW im \in [Source -> Seq(Edge)], NEW us \in Seq(Source), NEW s \in Source, NEW seen,
           NEW rest \in Seq(Request), NEW kids \in Seq(Request),
           Requests(kids, im[s]),
           NEW at \in [1..Len(rest) -> Nat], NEW edge \in [1..Len(rest) -> Nat],
           Ordered(im, us, seen, rest, at, edge)
    PROVE  \E bt, fdge \in [1..Len(rest \o kids) -> Nat] :
              Ordered(im, Append(us, s), seen, rest \o kids, bt, fdge)
<1> DEFINE n == Len(rest)
           e == Len(kids)
           both == rest \o kids
<1>0. /\ n \in Nat /\ e \in Nat /\ Len(rest) = n /\ e = Len(im[s]) /\ Len(both) = n + e
      /\ \A i \in 1..n : both[i] = rest[i]
      /\ \A i \in 1..e : both[n + i] = kids[i]
      /\ \A i \in 1..e : kids[i].source = im[s][e + 1 - i].target
      /\ at \in [1..n -> Nat] /\ edge \in [1..n -> Nat]
  <2>1. /\ n \in Nat /\ e \in Nat /\ Len(rest) = n /\ e = Len(im[s])
        /\ at \in [1..n -> Nat] /\ edge \in [1..n -> Nat]
    BY DEF Requests
  <2>2. \A i \in 1..e : kids[i].source = im[s][e + 1 - i].target
    BY DEF Requests
  <2>3. /\ Len(both) = n + e
        /\ \A i \in 1..n : both[i] = rest[i]
        /\ \A i \in 1..e : both[n + i] = kids[i]
    BY ConcatParts
  <2> QED
    BY <2>1, <2>2, <2>3
<1> HIDE DEF n, e, both
<1> USE <1>0
<1> DEFINE m == Len(us)
           more == Append(us, s)
           bt == [x \in 1..(n + e) |-> IF x <= n THEN at[x] ELSE m + 1]
           fdge == [x \in 1..(n + e) |-> IF x <= n THEN edge[x] ELSE e + 1 - (x - n)]
<1>1. /\ m \in Nat /\ Len(more) = m + 1
      /\ more[m + 1] = s /\ \A j \in 1..m : more[j] = us[j]
  OBVIOUS
<1>2. \A x \in 1..(n + e) : x \in 1..n \/ (x > n /\ x - n \in 1..e)
  OBVIOUS
<1>3. \A x \in 1..n : x \in 1..(n + e) /\ bt[x] = at[x] /\ fdge[x] = edge[x]
  OBVIOUS
<1>4. \A i \in 1..e : /\ n + i \in 1..(n + e) /\ bt[n + i] = m + 1
                      /\ fdge[n + i] = e + 1 - i
                      /\ e + 1 - i \in 1..e /\ e + 1 - (e + 1 - i) = i
  OBVIOUS
<1>5. DOMAIN im[s] = 1..e
  OBVIOUS
<1>6. /\ bt \in [1..(n + e) -> Nat]
      /\ fdge \in [1..(n + e) -> Nat]
  <2>1. \A x \in 1..(n + e) : bt[x] \in Nat /\ fdge[x] \in Nat
    <3> TAKE x \in 1..(n + e)
    <3>1. CASE x \in 1..n
      BY <1>3, <3>1
    <3>2. CASE x > n /\ x - n \in 1..e
      <4>1. bt[x] = m + 1 /\ fdge[x] = e + 1 - (x - n)
        BY <3>2
      <4> QED
        BY <1>1, <3>2, <4>1
    <3> QED
      BY <1>2, <3>1, <3>2
  <2> QED
    BY <2>1
<1> HIDE DEF bt, fdge, more, m
<1>7. \A x \in 1..(n + e) : x \in 1..n \/ \E i \in 1..e : x = n + i
  <2> TAKE x \in 1..(n + e)
  <2>1. CASE x > n /\ x - n \in 1..e
    <3>1. x = n + (x - n)
      OBVIOUS
    <3> QED
      BY <2>1, <3>1
  <2> QED
    BY <1>2, <2>1
<1>8. \A x \in 1..n :
         /\ at[x] \in 1..m /\ edge[x] \in DOMAIN im[us[at[x]]]
         /\ rest[x].source = im[us[at[x]]][edge[x]].target
  BY DEF Ordered, m
<1>9. ASSUME NEW x \in 1..(n + e)
      PROVE  /\ bt[x] \in 1..(m + 1) /\ fdge[x] \in DOMAIN im[more[bt[x]]]
             /\ both[x].source = im[more[bt[x]]][fdge[x]].target
  <2>1. CASE x \in 1..n
    <3>1. at[x] \in 1..m /\ at[x] \in 1..(m + 1)
      BY <1>1, <1>8, <2>1
    <3>2. /\ bt[x] = at[x] /\ fdge[x] = edge[x] /\ both[x] = rest[x]
          /\ more[at[x]] = us[at[x]]
      BY <1>1, <1>3, <2>1, <3>1
    <3> QED
      BY <1>8, <2>1, <3>1, <3>2, ZenonT(40)
  <2>2. ASSUME NEW i \in 1..e, x = n + i
        PROVE  /\ bt[x] \in 1..(m + 1) /\ fdge[x] \in DOMAIN im[more[bt[x]]]
               /\ both[x].source = im[more[bt[x]]][fdge[x]].target
    <3>1. bt[x] = m + 1 /\ fdge[x] = e + 1 - i /\ both[x] = kids[i] /\ e + 1 - i \in 1..e
      BY <1>4, <2>2
    <3>2. m + 1 \in 1..(m + 1)
      BY <1>1
    <3> QED
      BY <1>1, <1>5, <3>1, <3>2
  <2> QED
    BY <1>7, <2>1, <2>2
<1>10. ASSUME NEW x \in 1..(n + e), NEW y \in 1..(n + e), x < y
       PROVE  (bt[x] < bt[y]) \/ (bt[x] = bt[y] /\ fdge[x] > fdge[y])
  <2>1. CASE y \in 1..n
    <3>1. x \in 1..n
      BY <1>10, <2>1
    <3>2. (at[x] < at[y]) \/ (at[x] = at[y] /\ edge[x] > edge[y])
      BY <1>10, <2>1, <3>1 DEF Ordered
    <3>3. bt[x] = at[x] /\ bt[y] = at[y] /\ fdge[x] = edge[x] /\ fdge[y] = edge[y]
      BY <1>3, <2>1, <3>1
    <3> QED
      BY <3>2, <3>3, Zenon
  <2>2. CASE x \in 1..n /\ y > n /\ y - n \in 1..e
    <3>1. bt[x] \in 1..m
      BY <1>3, <1>8, <2>2
    <3>2. bt[y] = m + 1
      BY <2>2 DEF bt
    <3> QED
      BY <1>1, <3>1, <3>2
  <2>3. CASE x > n /\ y > n
    BY <1>1, <1>10, <2>3 DEF bt, fdge
  <2> QED
    BY <1>2, <2>1, <2>2, <2>3
<1>11. ASSUME NEW j \in 1..(m + 1), NEW k \in DOMAIN im[more[j]]
       PROVE  \/ im[more[j]][k].target \in seen
              \/ \E x \in 1..(n + e) : bt[x] = j /\ fdge[x] = k
  <2>1. CASE j = m + 1
    <3>1. k \in 1..e
      BY <1>1, <1>5, <2>1
    <3>2. e + 1 - k \in 1..e /\ e + 1 - (e + 1 - k) = k
      BY <1>4, <3>1
    <3> DEFINE i == e + 1 - k
    <3> HIDE DEF i
    <3>3. i \in 1..e /\ e + 1 - i = k
      BY <3>2 DEF i
    <3> QED
      BY <1>4, <2>1, <3>3
  <2>2. CASE j \in 1..m
    <3>1. more[j] = us[j]
      BY <1>1, <2>2
    <3>2. CASE im[us[j]][k].target \notin seen
      <4>1. PICK x \in 1..n : at[x] = j /\ edge[x] = k
        BY <2>2, <3>1, <3>2 DEF Ordered, m
      <4> QED
        BY <1>3, <4>1
    <3> QED
      BY <3>1, <3>2
  <2>3. j = m + 1 \/ j \in 1..m
    BY <1>1
  <2> QED
    BY <2>1, <2>2, <2>3
<1>12. Ordered(im, more, seen, both, bt, fdge)
  BY <1>1, <1>9, <1>10, <1>11 DEF Ordered
<1> QED
  BY <1>6, <1>12 DEF more, both

\* Nothing listed, and the same requests in the same order.
LEMMA SameQueue ==
    ASSUME OrderInv, UNCHANGED <<imports, units>>, Alive' => Alive /\ Queue' = Queue
    PROVE  OrderInv'
<1>1. Loaded' = Loaded
  BY DEF Loaded
<1>2. FollowInv'
  BY DEF OrderInv, FollowInv
<1>3. ASSUME Alive'
      PROVE  IF units = << >> THEN Len(Queue) <= 1
             ELSE \E at, edge \in [1..Len(Queue) -> Nat] :
                     Ordered(imports, units, Loaded, Queue, at, edge)
  BY <1>3 DEF OrderInv, QueueInv
<1>4. ASSUME Alive'
      PROVE  IF units' = << >> THEN Len(Queue') <= 1
             ELSE \E at, edge \in [1..Len(Queue') -> Nat] :
                     Ordered(imports', units', Loaded', Queue', at, edge)
  <2>1. units' = units /\ Queue' = Queue
    BY <1>4
  <2> HIDE DEF Queue, Ordered
  <2> QED
    BY <1>1, <1>3, <1>4, <2>1
<1> HIDE DEF Queue
<1>5. QueueInv'
  BY <1>4 DEF QueueInv
<1> QED
  BY <1>2, <1>5 DEF OrderInv

LEMMA OrderInit == Init => OrderInv
<1> SUFFICES ASSUME Init PROVE OrderInv
  OBVIOUS
<1>1. units = << >> /\ Queue = << >>
  BY DEF Init, Queue, Loading
<1> QED
  BY <1>1 DEF OrderInv, QueueInv, FollowInv

\* A request for a unit is dropped from the end.
LEMMA OrderMeets == ASSUME TypeOK, OrderInv, Meets PROVE OrderInv'
<1> DEFINE n == Len(stack) - 1
<1>1. /\ stack \in Seq(Request) /\ stack # << >> /\ imports' = imports /\ units' = units
      /\ stack' = Rest(stack) /\ Top.source \in Loaded
  BY DEF TypeOK, Meets, program
<1>0. imports \in [Source -> Seq(Edge)] /\ units \in Seq(Source)
  BY DEF TypeOK
<1>2. Queue = stack /\ Queue' = Rest(stack)
  BY DEF Meets, Queue, Loading
<1>3. /\ n \in Nat /\ Len(stack) = n + 1
      /\ Len(Rest(stack)) = n /\ \A x \in 1..n : Rest(stack)[x] = stack[x]
  <2>1. Len(stack) \in Nat \ {0}
    BY <1>1, EmptySeq, LenProperties
  <2>2. Rest(stack) \in Seq(Request)
    BY <1>1, ElementsOfRest
  <2>3. /\ DOMAIN Rest(stack) = 1..(Len(stack) - 1)
        /\ \A x \in 1..(Len(stack) - 1) : Rest(stack)[x] = stack[x]
    BY <1>1, <2>1 DEF Rest
  <2>4. Len(Rest(stack)) = Len(stack) - 1
    BY <2>1, <2>2, <2>3, LenProperties
  <2> QED
    BY <2>1, <2>3, <2>4
<1>4. units # << >> /\ Loaded' = Loaded
  BY <1>1 DEF Loaded
<1>5. stack[n + 1].source \in Loaded
  BY <1>1, <1>3 DEF Top
<1>6. FollowInv'
  BY <1>1 DEF OrderInv, FollowInv
<1> HIDE DEF n
<1>7. ASSUME Alive
      PROVE  \E at, edge \in [1..n -> Nat] : Ordered(imports, units, Loaded, Rest(stack), at, edge)
  <2>1. PICK at \in [1..(n + 1) -> Nat], edge \in [1..(n + 1) -> Nat] :
                Ordered(imports, units, Loaded, stack, at, edge)
    BY <1>2, <1>3, <1>4, <1>7 DEF OrderInv, QueueInv
  <2> QED
    BY <1>0, <1>3, <1>5, <2>1, ServedLast
<1>8. Alive' => Alive
  BY DEF Meets, Alive
<1>9. Alive' => \E at, edge \in [1..Len(Queue') -> Nat] :
                   Ordered(imports', units', Loaded', Queue', at, edge)
  BY <1>1, <1>2, <1>3, <1>4, <1>7, <1>8
<1>10. QueueInv'
  BY <1>1, <1>4, <1>9 DEF QueueInv
<1> QED
  BY <1>6, <1>10 DEF OrderInv

\* A new unit is the next of its parent, and its requests go on top.
LEMMA OrderIndexes == ASSUME WalkInv, OrderInv, Indexes PROVE OrderInv'
<1> DEFINE n == Len(stack)
           s == current.source
           kids == ChildRequests(current)
           e == Len(imports[s])
<1>1. /\ stack \in Seq(Request) /\ current \in Request /\ units \in Seq(Source)
      /\ imports \in [Source -> Seq(Edge)] /\ s \in Source
  BY DEF WalkInv, TypeOK, Request, Indexes, Loading
<1>2. /\ imports' = imports /\ units' = Append(units, s) /\ stack' = stack \o kids
      /\ s \notin Elements(units)
  BY LoadedElements DEF Indexes, program, WalkInv, OnceInv, Loading
<1>3. Queue = Append(stack, current) /\ Queue' = stack \o kids
  BY DEF Indexes, Queue, Loading
<1>4. Loaded = Elements(units) /\ Loaded' = Elements(units) \cup {s}
  <2>1. Loaded' = Elements(units')
    BY DEF Loaded, Elements
  <2>2. Elements(Append(units, s)) = Elements(units) \cup {s}
    BY <1>1, ElementsOfAppend
  <2> QED
    BY <1>2, <2>1, <2>2, LoadedElements
<1>5. /\ n \in Nat /\ e \in Nat /\ Len(Append(stack, current)) = n + 1
      /\ Append(stack, current)[n + 1] = current
      /\ \A x \in 1..n : stack[x] = Append(stack, current)[x]
  BY <1>1
<1>6. /\ kids \in Seq(Request) /\ Len(kids) = e
      /\ \A i \in 1..e : kids[i].source = imports[s][e + 1 - i].target
  BY <1>1, ChildRequestsType DEF WalkInv, ChildRequests
<1>7. /\ Len(stack \o kids) = n + e
      /\ \A i \in 1..n : (stack \o kids)[i] = stack[i]
      /\ \A i \in 1..e : (stack \o kids)[n + i] = kids[i]
  <2>1. Len(stack) = n
    OBVIOUS
  <2> HIDE DEF n, e, kids
  <2>2. /\ Len(stack \o kids) = Len(stack) + Len(kids)
        /\ \A i \in 1..Len(stack) : (stack \o kids)[i] = stack[i]
        /\ \A i \in 1..Len(kids) : (stack \o kids)[Len(stack) + i] = kids[i]
    <3>1. stack \in Seq(Request) /\ kids \in Seq(Request)
      BY <1>1, <1>6
    <3> QED
      BY <3>1, ConcatParts
  <2> QED
    BY <1>6, <2>1, <2>2
<1>8. Alive
  BY DEF WalkInv, PhaseInv, Indexes, Alive
<1>9. units' # << >>
  <2>1. Len(Append(units, s)) = Len(units) + 1 /\ Len(units) \in Nat
    BY <1>1
  <2> QED
    BY <1>2, <2>1, SMTT(30)
<1> HIDE DEF n, s, kids, e
<1>10. ASSUME units # << >>
       PROVE  /\ \E p, k \in Nat : Follows(imports, Append(units, s), Len(units) + 1, p, k)
              /\ \E at, edge \in [1..n -> Nat] :
                    Ordered(imports, units, Elements(units) \cup {s}, stack, at, edge)
  <2>1. PICK at \in [1..(n + 1) -> Nat], edge \in [1..(n + 1) -> Nat] :
                Ordered(imports, units, Elements(units), Append(stack, current), at, edge)
    BY <1>3, <1>4, <1>5, <1>8, <1>10 DEF OrderInv, QueueInv
  <2>2. Follows(imports, Append(units, s), Len(units) + 1, at[n + 1], edge[n + 1])
    BY <1>1, <1>2, <1>5, <2>1, LastFollows DEF s
  <2>3. /\ current.source \in Elements(units) \cup {s}
        /\ Elements(units) \subseteq Elements(units) \cup {s} /\ Len(stack) = n
    BY DEF n, s
  <2>4. \E bt, fdge \in [1..n -> Nat] :
           Ordered(imports, units, Elements(units) \cup {s}, stack, bt, fdge)
    BY <1>1, <1>5, <2>1, <2>3, ServedLast
  <2>5. at[n + 1] \in Nat /\ edge[n + 1] \in Nat
    BY <1>5
  <2> QED
    BY <2>2, <2>4, <2>5
<1>11. ASSUME units = << >>
       PROVE  \E at, edge \in [1..n -> Nat] :
                 Ordered(imports, units, Elements(units) \cup {s}, stack, at, edge)
  <2>1. n = 0
    BY <1>3, <1>5, <1>8, <1>11 DEF OrderInv, QueueInv
  <2>2. Ordered(imports, units, Elements(units) \cup {s}, stack, << >>, << >>)
    BY <1>11, <2>1 DEF Ordered, n
  <2>3. << >> \in [1..n -> Nat]
    BY <2>1
  <2> QED
    BY <2>2, <2>3
<1>12. PICK ats \in [1..n -> Nat], edges \in [1..n -> Nat] :
               Ordered(imports, units, Elements(units) \cup {s}, stack, ats, edges)
  BY <1>10, <1>11
<1>13. \E bt, fdge \in [1..Len(stack \o kids) -> Nat] :
          Ordered(imports, Append(units, s), Elements(units) \cup {s}, stack \o kids, bt, fdge)
  <2>1. Len(stack) = n /\ Len(kids) = Len(imports[s])
    BY <1>6 DEF n, e
  <2>2. /\ stack \in Seq(Request) /\ kids \in Seq(Request) /\ units \in Seq(Source)
        /\ imports \in [Source -> Seq(Edge)] /\ s \in Source
    BY <1>1, <1>6
  <2>3. Requests(kids, imports[s])
    BY <1>6, <2>1 DEF Requests
  <2> DEFINE wide == Elements(units) \cup {s}
  <2>4. Ordered(imports, units, wide, stack, ats, edges)
    BY <1>12
  <2> HIDE DEF wide
  <2>5. ats \in [1..Len(stack) -> Nat] /\ edges \in [1..Len(stack) -> Nat]
    BY <1>12, <2>1
  <2>6. \E bt, fdge \in [1..Len(stack \o kids) -> Nat] :
           Ordered(imports, Append(units, s), wide, stack \o kids, bt, fdge)
    BY <2>1, <2>2, <2>3, <2>4, <2>5, RequestsInOrder
  <2> QED
    BY <2>6 DEF wide
<1>14. \E at, edge \in [1..Len(Queue') -> Nat] :
          Ordered(imports', units', Loaded', Queue', at, edge)
  BY <1>2, <1>3, <1>4, <1>7, <1>13
<1>15. QueueInv'
  BY <1>2, <1>9, <1>14 DEF QueueInv
<1>16. ASSUME NEW i \in 2..Len(Append(units, s))
       PROVE  \E p, k \in Nat : Follows(imports, Append(units, s), i, p, k)
  <2>1. Len(units) \in Nat /\ Len(Append(units, s)) = Len(units) + 1
    BY <1>1
  <2>2. CASE i = Len(units) + 1
    <3>1. units # << >>
      BY <1>16, <2>1, <2>2
    <3> QED
      BY <1>10, <2>2, <3>1
  <2>3. CASE i \in 2..Len(units)
    <3>1. PICK p \in Nat, k \in Nat : Follows(imports, units, i, p, k)
      BY <2>3 DEF OrderInv, FollowInv
    <3>2. i \in 1..Len(units)
      BY <2>1, <2>3
    <3>3. Follows(imports, Append(units, s), i, p, k)
      BY <1>1, <3>1, <3>2, FollowsStays
    <3> QED
      BY <3>3
  <2>4. i = Len(units) + 1 \/ i \in 2..Len(units)
    BY <1>16, <2>1
  <2> QED
    BY <2>2, <2>3, <2>4
<1>17. FollowInv'
  BY <1>2, <1>16 DEF FollowInv
<1> QED
  BY <1>15, <1>17 DEF OrderInv

LEMMA OrderStep == WalkInv /\ OrderInv /\ [Next]_vars => OrderInv'
<1> SUFFICES ASSUME WalkInv, OrderInv, [Next]_vars PROVE OrderInv'
  OBVIOUS
<1>1. TypeOK /\ PhaseInv
  BY DEF WalkInv
<1>2. CASE Abandons
  BY <1>2, SameQueue DEF Abandons, program, walk
<1>3. CASE Proceeds
  BY <1>3, SameQueue DEF Proceeds, program, walk, Queue
<1>4. CASE Begins
  <2>1. units' = << >> /\ Queue' = <<EntryRequest>>
    BY <1>1, <1>4 DEF Begins, PhaseInv, Queue, Loading
  <2> QED
    BY <2>1 DEF OrderInv, QueueInv, FollowInv
<1>5. CASE Meets
  BY <1>1, <1>5, OrderMeets
<1>6. CASE Takes
  <2>1. stack \in Seq(Request) /\ stack # << >>
    BY <1>1, <1>6 DEF TypeOK, Takes
  <2>2. Append(Rest(stack), Top) = stack
    BY <2>1 DEF Rest, Top
  <2>3. Queue = stack /\ Queue' = Append(Rest(stack), Top)
    BY <1>6 DEF Takes, Queue, Loading
  <2> QED
    BY <1>6, <2>2, <2>3, SameQueue DEF Takes, program, Alive
<1>7. CASE Indexes
  BY <1>7, OrderIndexes
<1>8. CASE Concludes
  <2>1. Queue' = Queue
    BY <1>8 DEF Concludes, walk, Queue, Loading
  <2>2. Alive
    BY <1>1, <1>8 DEF Concludes, PhaseInv, Alive
  <2> QED
    BY <1>8, <2>1, <2>2, SameQueue DEF Concludes, program, walk
<1>9. CASE Rests
  BY <1>9, SameQueue DEF Rests, program, walk, Queue, Loading, Alive
<1> QED
  BY <1>1, <1>2, <1>3, <1>4, <1>5, <1>6, <1>7, <1>8, <1>9, StepKinds

\* The units of an accepted bundle are in the order of a depth-first walk that takes the
\* imports of a source as they are written: each is the first unlisted import of the
\* latest unit that has one.  `load_source_units_with_resolver` pushes them reversed.
THEOREM DepthFirst == Spec => []UnitsInDepthFirstOrder
<1>1. WalkInv /\ OrderInv => UnitsInDepthFirstOrder
  <2> SUFFICES ASSUME WalkInv, OrderInv, NEW i \in 2..Len(units)
               PROVE  LET seen == {units[j] : j \in 1..(i - 1)}
                          unlisted(s) ==
                             {k \in DOMAIN imports[s] : imports[s][k].target \notin seen}
                          parent == units[Max({j \in 1..(i - 1) : unlisted(units[j]) # {}})]
                      IN  units[i] = imports[parent][Min(unlisted(parent))].target
    BY DEF UnitsInDepthFirstOrder
  <2> DEFINE seen == {units[j] : j \in 1..(i - 1)}
             unlisted(s) == {k \in DOMAIN imports[s] : imports[s][k].target \notin seen}
             open == {j \in 1..(i - 1) : unlisted(units[j]) # {}}
  <2>1. PICK p \in Nat, k \in Nat : Follows(imports, units, i, p, k)
    BY DEF OrderInv, FollowInv
  <2>2. /\ p \in 1..(i - 1) /\ k \in DOMAIN imports[units[p]]
        /\ units[i] = imports[units[p]][k].target /\ units[i] \notin seen
    BY <2>1 DEF Follows
  <2>3. \A l \in DOMAIN imports[units[p]] : l < k => imports[units[p]][l].target \in seen
    BY <2>1 DEF Follows
  <2>4. \A j \in (p + 1)..(i - 1) : \A l \in DOMAIN imports[units[j]] :
           imports[units[j]][l].target \in seen
    BY <2>1 DEF Follows
  <2>5. /\ units \in Seq(Source) /\ imports \in [Source -> Seq(Edge)] /\ i \in Nat
        /\ Len(units) \in Nat /\ DOMAIN units = 1..Len(units)
    BY DEF WalkInv, TypeOK
  <2>6. units[p] \in Source /\ DOMAIN imports[units[p]] \subseteq Nat
    <3>1. p \in 1..Len(units)
      BY <2>2, <2>5
    <3> QED
      BY <2>5, <3>1
  <2>7. k \in unlisted(units[p])
    BY <2>2
  <2>8. \A l \in unlisted(units[p]) : l \in Nat /\ k <= l
    BY <2>3, <2>6
  <2>9. p \in open
    BY <2>2, <2>7
  <2>10. \A j \in open : j \in Nat /\ j <= p
    <3> SUFFICES ASSUME NEW j \in open, j > p PROVE FALSE
      BY <2>2, SMTT(30)
    <3>1. j \in (p + 1)..(i - 1)
      BY <2>2, <2>5
    <3> QED
      BY <2>4, <3>1
  <2> HIDE DEF open, seen
  <2>11. Max(open) = p
    <3>1. \E x \in open : \A y \in open : x >= y
      BY <2>9, <2>10
    <3>2. Max(open) \in open /\ \A y \in open : Max(open) >= y
      BY <3>1 DEF Max
    <3> DEFINE top == Max(open)
    <3> HIDE DEF top
    <3>3. top \in open /\ top >= p
      BY <2>9, <3>2 DEF top
    <3>4. top \in Nat /\ top <= p
      BY <2>10, <3>3
    <3> QED
      BY <3>3, <3>4 DEF top
  <2>12. Min(unlisted(units[p])) = k
    BY <2>7, <2>8 DEF Min
  <2> QED
    BY <2>2, <2>11, <2>12 DEF open, seen
<1> QED
  BY <1>1, OrderInit, OrderStep, WalkInvariant, PTL DEF Spec

-----------------------------------------------------------------------------
(***************************************************************************)
(* What the budget has counted is what the import graph adds up to.  The   *)
(* total of some weights is the number of units in them, and a unit is a   *)
(* pair: a member of the set and one of the numbers up to its weight.  A   *)
(* set of fewer sources holds fewer units.                                 *)
(***************************************************************************)

LEMMA LeastNumber ==
    ASSUME NEW T, T \subseteq Nat, T # {}
    PROVE  \E m \in T : \A k \in T : m <= k
<1> DEFINE Less == {ss \in Nat \X Nat : ss[1] < ss[2]}
<1>1. IsWellFoundedOn(Less, Nat)
  BY NatLessThanWellFounded DEF OpToRel
<1>2. \E m \in T : \A k \in T : <<k, m>> \notin Less
  <2> HIDE DEF Less
  <2> QED
    BY <1>1, WFMin
<1>3. \A k, m \in Nat : <<k, m>> \notin Less => m <= k
  OBVIOUS
<1> HIDE DEF Less
<1> QED
  BY <1>2, <1>3

\* Sets of subsets of a finite set are filled one element at a time.
LEMMA FilledUp ==
    ASSUME NEW S, IsFiniteSet(S), NEW P, {} \in P,
           \A s \in SUBSET S : s # {} /\ s \ {CHOOSE x \in s : TRUE} \in P => s \in P
    PROVE  SUBSET S \subseteq P
<1> DEFINE T == {Cardinality(s) : s \in (SUBSET S) \ P}
<1> SUFFICES ASSUME (SUBSET S) \ P # {} PROVE FALSE
  OBVIOUS
<1>1. \A s \in SUBSET S : IsFiniteSet(s) /\ Cardinality(s) \in Nat
  BY FS_Subset, FS_CardinalityType
<1>2. PICK t \in T : \A j \in T : t <= j
  <2>1. T \subseteq Nat /\ T # {}
    BY <1>1
  <2> HIDE DEF T
  <2> QED
    BY <2>1, LeastNumber
<1>3. PICK s \in (SUBSET S) \ P : t = Cardinality(s)
  BY <1>2
<1>4. PICK x : x = CHOOSE y \in s : TRUE
  OBVIOUS
<1>5. x \in s
  <2>1. s # {}
    BY <1>3
  <2> QED
    BY <1>4, <2>1
<1>6. s \ {x} \in (SUBSET S) \ P
  <2>1. s # {}
    BY <1>3
  <2>2. s \ {x} \notin P
    BY <1>3, <1>4, <2>1
  <2> QED
    BY <1>3, <2>2
<1>7. Cardinality(s \ {x}) = Cardinality(s) - 1
  BY <1>1, <1>3, <1>5, FS_RemoveElement
<1>8. Cardinality(s \ {x}) \in T
  BY <1>6
<1> HIDE DEF T
<1>9. Cardinality(s) <= Cardinality(s \ {x})
  BY <1>2, <1>3, <1>8
<1> QED
  BY <1>1, <1>3, <1>7, <1>9

Ones(w, s) == {p \in s \X Nat : p[2] \in 1..w[p[1]]}
Weight(w, s) == Cardinality(Ones(w, s))

LEMMA OneMore ==
    ASSUME NEW w, NEW s, NEW x, x \notin s, w[x] \in Nat, IsFiniteSet(Ones(w, s))
    PROVE  /\ IsFiniteSet(Ones(w, s \cup {x}))
           /\ Weight(w, s \cup {x}) = w[x] + Weight(w, s)
<1> DEFINE own == {x} \X (1..w[x])
<1>1. IsFiniteSet(1..w[x]) /\ Cardinality(1..w[x]) = w[x]
  <2>1. 1 \in Int /\ w[x] \in Int
    OBVIOUS
  <2>2. /\ IsFiniteSet(1..w[x])
        /\ Cardinality(1..w[x]) = IF 1 > w[x] THEN 0 ELSE w[x] - 1 + 1
    BY <2>1, FS_Interval
  <2> QED
    BY <2>2
<1>2. IsFiniteSet(own) /\ Cardinality(own) = w[x]
  <2>1. IsFiniteSet({x}) /\ Cardinality({x}) = 1
    BY FS_Singleton
  <2>2. PICK a, b : a = {x} /\ b = 1..w[x]
    OBVIOUS
  <2>3. IsFiniteSet(a \X b) /\ Cardinality(a \X b) = Cardinality(a) * Cardinality(b)
    BY <1>1, <2>1, <2>2, FS_Product
  <2> QED
    BY <1>1, <2>1, <2>2, <2>3
<1>3. Ones(w, s \cup {x}) = Ones(w, s) \cup own /\ Ones(w, s) \cap own = {}
  <2>1. \A p : p \in Ones(w, s \cup {x}) <=> p \in Ones(w, s) \cup own
    <3>1. Ones(w, s \cup {x}) \subseteq Ones(w, s) \cup own
      <4> SUFFICES ASSUME NEW a \in s \cup {x}, NEW i \in Nat, i \in 1..w[a]
                   PROVE  <<a, i>> \in Ones(w, s) \cup own
        BY DEF Ones
      <4> QED
        BY DEF Ones
    <3>2. Ones(w, s) \subseteq Ones(w, s \cup {x})
      BY DEF Ones
    <3>3. own \subseteq Ones(w, s \cup {x})
      <4> SUFFICES ASSUME NEW i \in 1..w[x] PROVE <<x, i>> \in Ones(w, s \cup {x})
        OBVIOUS
      <4> QED
        BY DEF Ones
    <3> QED
      BY <3>1, <3>2, <3>3
  <2>2. \A p : ~(p \in Ones(w, s) /\ p \in own)
    BY DEF Ones
  <2> QED
    BY <2>1, <2>2
<1>4. Cardinality(Ones(w, s)) \in Nat /\ Cardinality({}) = 0
  BY FS_CardinalityType, FS_EmptySet
<1> HIDE DEF own
<1>5. /\ IsFiniteSet(Ones(w, s) \cup own)
      /\ Cardinality(Ones(w, s) \cup own)
            = Cardinality(Ones(w, s)) + Cardinality(own) - Cardinality(Ones(w, s) \cap own)
  BY <1>2, FS_Union
<1>6. PICK m \in Nat : m = Cardinality(Ones(w, s))
  BY <1>4
<1>7. Cardinality(Ones(w, s \cup {x})) = w[x] + m
  <2>1. Cardinality(Ones(w, s) \cap own) = 0
    BY <1>3, <1>4
  <2>2. PICK c : c = Cardinality(Ones(w, s \cup {x}))
    OBVIOUS
  <2>3. c = m + w[x] - 0
    BY <1>2, <1>3, <1>5, <1>6, <2>1, <2>2
  <2> QED
    BY <1>6, <2>2, <2>3
<1> QED
  BY <1>3, <1>5, <1>6, <1>7 DEF Weight

Weighs(w, S) == IsFiniteSet(S) /\ \A x \in S : w[x] \in Nat

LEMMA OnesFinite ==
    ASSUME NEW w, NEW S, Weighs(w, S)
    PROVE  /\ Weight(w, {}) = 0
           /\ \A s \in SUBSET S : IsFiniteSet(Ones(w, s)) /\ Weight(w, s) \in Nat
<1> DEFINE P == {s \in SUBSET S : IsFiniteSet(Ones(w, s))}
<1>1. Ones(w, {}) = {}
  BY DEF Ones
<1>2. {} \in P /\ Weight(w, {}) = 0
  BY <1>1, FS_EmptySet DEF Weight
<1>3. ASSUME NEW s \in SUBSET S, s # {}, s \ {CHOOSE x \in s : TRUE} \in P
      PROVE  s \in P
  <2>1. PICK x : x = CHOOSE y \in s : TRUE
    OBVIOUS
  <2>2. x \in s /\ w[x] \in Nat /\ IsFiniteSet(Ones(w, s \ {x}))
    BY <1>3, <2>1 DEF Weighs
  <2>3. IsFiniteSet(Ones(w, (s \ {x}) \cup {x}))
    BY <2>2, OneMore
  <2>4. (s \ {x}) \cup {x} = s
    BY <2>2
  <2> QED
    BY <2>3, <2>4
<1>4. SUBSET S \subseteq P
  <2> HIDE DEF P
  <2> QED
    BY <1>2, <1>3, FilledUp DEF Weighs
<1> QED
  BY <1>2, <1>4, FS_CardinalityType DEF Weight

LEMMA Lighter ==
    ASSUME NEW w, NEW S, Weighs(w, S), NEW s \in SUBSET S
    PROVE  Weight(w, s) <= Weight(w, S)
<1>1. Ones(w, s) \subseteq Ones(w, S)
  BY DEF Ones
<1>2. IsFiniteSet(Ones(w, S))
  BY OnesFinite
<1> QED
  BY <1>1, <1>2, FS_Subset DEF Weight

\* What the fold computes, if it computes it for every smaller set.
AddUp(w, S, it) ==
    [s \in SUBSET S |->
        IF s = {} THEN 0
        ELSE w[CHOOSE x \in s : TRUE] + it[s \ {CHOOSE x \in s : TRUE}]]

LEMMA WeightAddsUp ==
    ASSUME NEW w, NEW S, Weighs(w, S)
    PROVE  LET it == [s \in SUBSET S |-> Weight(w, s)]
           IN  it = AddUp(w, S, it)
<1> DEFINE it == [s \in SUBSET S |-> Weight(w, s)]
<1>1. ASSUME NEW s \in SUBSET S
      PROVE  Weight(w, s) = AddUp(w, S, it)[s]
  <2>1. CASE s = {}
    BY <2>1, OnesFinite DEF AddUp
  <2>2. CASE s # {}
    <3>1. PICK x : x = CHOOSE y \in s : TRUE
      OBVIOUS
    <3>2. x \in s /\ s \ {x} \in SUBSET S /\ w[x] \in Nat
      BY <2>2, <3>1 DEF Weighs
    <3>3. (s \ {x}) \cup {x} = s /\ x \notin s \ {x}
      BY <3>2
    <3>4. IsFiniteSet(Ones(w, s \ {x}))
      BY <3>2, OnesFinite
    <3>5. Weight(w, s) = w[x] + Weight(w, s \ {x})
      BY <3>2, <3>3, <3>4, OneMore
    <3>6. it[s \ {x}] = Weight(w, s \ {x})
      BY <3>2
    <3> HIDE DEF it
    <3> QED
      BY <2>2, <3>1, <3>5, <3>6 DEF AddUp
  <2> QED
    BY <2>1, <2>2
<1>2. AddUp(w, S, it) = [s \in SUBSET S |-> AddUp(w, S, it)[s]]
  <2> HIDE DEF it
  <2> QED
    BY DEF AddUp
<1>3. PICK g : g = AddUp(w, S, it)
  OBVIOUS
<1> QED
  BY <1>1, <1>2, <1>3

LEMMA AddsUpOnce ==
    ASSUME NEW w, NEW S, Weighs(w, S), NEW it, it = AddUp(w, S, it)
    PROVE  it[S] = Weight(w, S)
<1> DEFINE g == [s \in SUBSET S |-> Weight(w, s)]
           P == {s \in SUBSET S : it[s] = g[s]}
<1>1. ASSUME NEW h, h = AddUp(w, S, h), NEW s \in SUBSET S
      PROVE  h[s] = IF s = {} THEN 0
                    ELSE w[CHOOSE x \in s : TRUE] + h[s \ {CHOOSE x \in s : TRUE}]
  BY <1>1 DEF AddUp
<1>2. g = AddUp(w, S, g)
  BY WeightAddsUp
<1>3. g[S] = Weight(w, S)
  OBVIOUS
<1> HIDE DEF g
<1>4. {} \in P
  BY <1>1, <1>2
<1>5. ASSUME NEW s \in SUBSET S, s # {}, s \ {CHOOSE x \in s : TRUE} \in P
      PROVE  s \in P
  <2>1. it[s \ {CHOOSE x \in s : TRUE}] = g[s \ {CHOOSE x \in s : TRUE}]
    BY <1>5
  <2>2. /\ it[s] = w[CHOOSE x \in s : TRUE] + it[s \ {CHOOSE x \in s : TRUE}]
        /\ g[s] = w[CHOOSE x \in s : TRUE] + g[s \ {CHOOSE x \in s : TRUE}]
    BY <1>1, <1>2, <1>5
  <2> QED
    BY <2>1, <2>2
<1>6. SUBSET S \subseteq P
  <2> HIDE DEF P
  <2> QED
    BY <1>4, <1>5, FilledUp DEF Weighs
<1> QED
  BY <1>3, <1>6

\* The two totals of the property are weights.
Fan == [s \in Source |-> Len(imports[s])]

LEMMA BytesAreWeight ==
    ASSUME NEW S, Weighs(Size, S)
    PROVE  MapThenSumSet(LAMBDA s : Size[s], S) = Weight(Size, S)
<1>1. PICK it : it = CHOOSE i : i = AddUp(Size, S, i)
  OBVIOUS
<1>2. it = AddUp(Size, S, it)
  BY <1>1, WeightAddsUp
<1>3. MapThenSumSet(LAMBDA s : Size[s], S) = it[S]
  BY <1>1 DEF MapThenSumSet, MapThenFoldSet, AddUp
<1> QED
  BY <1>2, <1>3, AddsUpOnce

LEMMA EdgesAreWeight ==
    ASSUME NEW S, S \subseteq Source, Weighs(Fan, S)
    PROVE  MapThenSumSet(LAMBDA s : Len(imports[s]), S) = Weight(Fan, S)
<1> DEFINE Body(i) == [s \in SUBSET S |->
                          IF s = {} THEN 0
                          ELSE Len(imports[CHOOSE x \in s : TRUE])
                               + i[s \ {CHOOSE x \in s : TRUE}]]
<1>1. PICK it : it = CHOOSE i : i = Body(i)
  OBVIOUS
<1>2. ASSUME NEW i PROVE Body(i) = AddUp(Fan, S, i)
  <2>1. ASSUME NEW s \in SUBSET S, s # {}
        PROVE  Fan[CHOOSE x \in s : TRUE] = Len(imports[CHOOSE x \in s : TRUE])
    <3>1. PICK x : x = CHOOSE y \in s : TRUE
      OBVIOUS
    <3>2. x \in Source
      BY <2>1, <3>1
    <3> QED
      BY <3>1, <3>2 DEF Fan
  <2>2. \A s \in SUBSET S : Body(i)[s] = AddUp(Fan, S, i)[s]
    BY <2>1 DEF AddUp
  <2> QED
    BY <2>2 DEF AddUp
<1>3. it = AddUp(Fan, S, it)
  <2> HIDE DEF Body
  <2>1. PICK i : i = AddUp(Fan, S, i)
    BY WeightAddsUp
  <2>2. i = Body(i)
    BY <1>2, <2>1
  <2>3. it = Body(it)
    BY <1>1, <2>2
  <2> QED
    BY <1>2, <2>3
<1>4. MapThenSumSet(LAMBDA s : Len(imports[s]), S) = it[S]
  BY <1>1 DEF MapThenSumSet, MapThenFoldSet
<1> QED
  BY <1>3, <1>4, AddsUpOnce

\* What is charged is what was accepted, and a refused charge is of reachable sources.
TotalsInv ==
    /\ consumed.bytes <= MaxBundleBytes /\ consumed.edges <= MaxImportEdges
    /\ pc \notin {"expand", "stopped"} => consumed.bytes = Weight(Size, Loaded)
    /\ pc = "expand" => consumed.bytes = Weight(Size, Loaded \cup {current.source})
    /\ pc # "stopped" => consumed.edges = Weight(Fan, Loaded)
    /\ Done => /\ consumed.bytes = Weight(Size, Loaded)
               /\ consumed.edges = Weight(Fan, Loaded)
    /\ outcome = "bundle_bytes" => Weight(Size, Reachable) > MaxBundleBytes
    /\ outcome = "import_edges" => Weight(Fan, Reachable) > MaxImportEdges

\* The source in hand weighs what it adds, and is reachable with what is loaded.
LEMMA InHand ==
    ASSUME WalkInv, IsFiniteSet(Source), Loading
    PROVE  LET all == Loaded \cup {current.source}
               s == current.source
           IN  /\ Weight(Size, Loaded) \in Nat /\ Size[s] \in Nat
               /\ Weight(Size, all) = Size[s] + Weight(Size, Loaded)
               /\ Weight(Size, all) <= Weight(Size, Reachable)
               /\ Weight(Fan, Loaded) \in Nat /\ Fan[s] \in Nat
               /\ Weight(Fan, all) = Fan[s] + Weight(Fan, Loaded)
               /\ Weight(Fan, all) <= Weight(Fan, Reachable)
               /\ Weight(Size, Reachable) \in Nat /\ Weight(Fan, Reachable) \in Nat
<1> DEFINE all == Loaded \cup {current.source}
<1>1. current \in Pending /\ current.source \notin Loaded
  BY DEF Pending, WalkInv, OnceInv
<1>2. all \in SUBSET Reachable /\ Reachable \subseteq Source /\ IsFiniteSet(Reachable)
  BY <1>1, LoadedReached, FS_Subset
<1>3. Weighs(Size, Reachable)
  BY <1>2, SizeAssumption DEF Weighs
<1>4. Weighs(Fan, Reachable)
  <2>1. \A s \in Source : imports[s] \in Seq(Edge)
    BY DEF WalkInv, TypeOK
  <2> QED
    BY <1>2, <2>1 DEF Weighs, Fan
<1>5. current.source \in Reachable /\ Loaded \in SUBSET Reachable
  BY <1>2
<1>6. ASSUME NEW w, Weighs(w, Reachable)
      PROVE  /\ Weight(w, Loaded) \in Nat /\ w[current.source] \in Nat
             /\ Weight(w, all) = w[current.source] + Weight(w, Loaded)
             /\ Weight(w, all) <= Weight(w, Reachable) /\ Weight(w, Reachable) \in Nat
  <2>1. w[current.source] \in Nat
    BY <1>5, <1>6 DEF Weighs
  <2>2. IsFiniteSet(Ones(w, Loaded)) /\ Weight(w, Loaded) \in Nat
        /\ Weight(w, Reachable) \in Nat
    BY <1>5, <1>6, OnesFinite
  <2>3. Weight(w, all) = w[current.source] + Weight(w, Loaded)
    BY <1>1, <2>1, <2>2, OneMore
  <2>4. Weight(w, all) <= Weight(w, Reachable)
    BY <1>2, <1>6, Lighter
  <2> QED
    BY <2>1, <2>2, <2>3, <2>4
<1> HIDE DEF all
<1>7. PICK t : t = all
  OBVIOUS
<1> QED
  BY <1>3, <1>4, <1>6 DEF all

LEMMA SameTotals ==
    ASSUME imports' = imports, units' = units
    PROVE  /\ Fan' = Fan /\ Loaded' = Loaded /\ Reachable' = Reachable
           /\ \A w, s : Weight(w, s)' = Weight(w, s)
BY SameGraph DEF Fan, Loaded

\* A step that loads nothing and charges nothing moves between the points where the
\* same is true of the counters.
LEMMA TotalsStay ==
    ASSUME TotalsInv, imports' = imports, units' = units, consumed' = consumed,
           pc \notin {"expand", "stopped"}, pc' # "expand",
           outcome' # "bundle_bytes", outcome' # "import_edges"
    PROVE  TotalsInv'
<1>1. /\ Fan' = Fan /\ Loaded' = Loaded
      /\ \A w, s : Weight(w, s)' = Weight(w, s)
  BY SameTotals
<1> QED
  BY <1>1 DEF TotalsInv, Done

LEMMA TotalsAccept ==
    ASSUME WalkInv, TotalsInv, IsFiniteSet(Source), AcceptSource
    PROVE  TotalsInv'
<1> USE DEF Continue, Fail, program, walk, interrupt
<1> DEFINE s == current.source
           all == Loaded \cup {s}
<1>1. /\ pc = "accept" /\ imports' = imports /\ units' = units /\ current' = current
      /\ outcome = "running"
  BY DEF AcceptSource, WalkInv, PhaseInv
<1>2. /\ Fan' = Fan /\ Loaded' = Loaded /\ Reachable' = Reachable
      /\ \A w, r : Weight(w, r)' = Weight(w, r)
  BY <1>1, SameTotals
<1>3. /\ consumed.bytes = Weight(Size, Loaded) /\ consumed.edges = Weight(Fan, Loaded)
      /\ consumed.bytes <= MaxBundleBytes /\ consumed.edges <= MaxImportEdges
  BY <1>1 DEF TotalsInv
<1>4. /\ Weight(Size, all) = Size[s] + Weight(Size, Loaded)
      /\ Weight(Size, all) <= Weight(Size, Reachable)
      /\ Weight(Size, Loaded) \in Nat /\ Size[s] \in Nat /\ Weight(Size, Reachable) \in Nat
  BY <1>1, InHand DEF Loading
<1>5. consumed \in [sources : Nat, bytes : Nat, edges : Nat] /\ MaxBundleBytes \in Nat
  BY LimitsAssumption DEF WalkInv, TypeOK
<1>6. \/ /\ pc' = "stopped" /\ consumed'.bytes = consumed.bytes
         /\ outcome' \notin {"done", "bundle_bytes", "import_edges"}
      \/ /\ pc' = "stopped" /\ consumed'.bytes = consumed.bytes
         /\ outcome' = "bundle_bytes" /\ ~Fits(consumed.bytes, Size[s], MaxBundleBytes)
      \/ /\ pc' \in {"stopped", "expand"} /\ consumed'.bytes = consumed.bytes + Size[s]
         /\ outcome' \notin {"done", "bundle_bytes", "import_edges"}
         /\ Fits(consumed.bytes, Size[s], MaxBundleBytes)
  BY <1>1, <1>5 DEF AcceptSource, InterruptCode
<1>7. consumed'.edges = consumed.edges
  BY <1>5 DEF AcceptSource
<1>8. CASE outcome' # "bundle_bytes"
  <2>1. consumed'.bytes <= MaxBundleBytes
    BY <1>3, <1>5, <1>6 DEF Fits
  <2>2. pc' = "expand" => consumed'.bytes = Weight(Size, all)
    BY <1>3, <1>4, <1>5, <1>6
  <2>3. outcome' \notin {"done", "bundle_bytes", "import_edges"} /\ pc' \in {"stopped", "expand"}
    BY <1>6, <1>8
  <2> HIDE DEF Continue, Fail, program, walk, interrupt
  <2> QED
    BY <1>1, <1>2, <1>3, <1>7, <2>1, <2>2, <2>3 DEF TotalsInv, Done
<1>9. CASE outcome' = "bundle_bytes"
  <2>1. Weight(Size, Reachable) > MaxBundleBytes
    BY <1>3, <1>4, <1>5, <1>6, <1>9 DEF Fits
  <2>2. pc' = "stopped" /\ consumed'.bytes <= MaxBundleBytes
    BY <1>3, <1>6, <1>9
  <2> HIDE DEF Continue, Fail, program, walk, interrupt
  <2> QED
    BY <1>2, <1>3, <1>7, <1>9, <2>1, <2>2 DEF TotalsInv, Done
<1> QED
  BY <1>8, <1>9

LEMMA TotalsExpand ==
    ASSUME WalkInv, TotalsInv, IsFiniteSet(Source), ExpandSource
    PROVE  TotalsInv'
<1> USE DEF Continue, Fail, program, walk, interrupt
<1> DEFINE s == current.source
           all == Loaded \cup {s}
<1>1. pc = "expand" /\ imports' = imports /\ outcome = "running"
  BY DEF ExpandSource, WalkInv, PhaseInv
<1>2. Fan' = Fan /\ Reachable' = Reachable
  BY <1>1, SameGraph DEF Fan
<1>3. /\ consumed.bytes = Weight(Size, all) /\ consumed.edges = Weight(Fan, Loaded)
      /\ consumed.bytes <= MaxBundleBytes /\ consumed.edges <= MaxImportEdges
  BY <1>1 DEF TotalsInv
<1>4. /\ Weight(Fan, all) = Fan[s] + Weight(Fan, Loaded)
      /\ Weight(Fan, all) <= Weight(Fan, Reachable)
      /\ Weight(Fan, Loaded) \in Nat /\ Fan[s] \in Nat /\ Weight(Fan, Reachable) \in Nat
  BY <1>1, InHand DEF Loading
<1>5. consumed \in [sources : Nat, bytes : Nat, edges : Nat] /\ MaxImportEdges \in Nat
  BY LimitsAssumption DEF WalkInv, TypeOK
<1>6. Len(imports[s]) = Fan[s] /\ s \in Source
  BY DEF Fan, WalkInv, TypeOK, Request
<1>7. \/ /\ pc' = "stopped" /\ consumed'.edges = consumed.edges
         /\ outcome' \notin {"done", "bundle_bytes", "import_edges"}
      \/ /\ pc' = "stopped" /\ consumed'.edges = consumed.edges
         /\ outcome' = "import_edges" /\ ~Fits(consumed.edges, Fan[s], MaxImportEdges)
      \/ /\ pc' = "stopped" /\ consumed'.edges = consumed.edges + Fan[s]
         /\ outcome' \notin {"done", "bundle_bytes", "import_edges"}
         /\ Fits(consumed.edges, Fan[s], MaxImportEdges)
      \/ /\ pc' = "pop" /\ consumed'.edges = consumed.edges + Fan[s]
         /\ units' = Append(units, s) /\ outcome' = "running"
         /\ Fits(consumed.edges, Fan[s], MaxImportEdges)
  BY <1>1, <1>5, <1>6 DEF ExpandSource, InterruptCode
<1>8. consumed'.bytes = consumed.bytes
  BY <1>5 DEF ExpandSource
<1>9. CASE outcome' = "import_edges"
  <2>1. Weight(Fan, Reachable) > MaxImportEdges
    BY <1>3, <1>4, <1>5, <1>7, <1>9 DEF Fits
  <2>2. pc' = "stopped" /\ consumed'.edges <= MaxImportEdges
    BY <1>3, <1>7, <1>9
  <2>3. Weight(Fan, Reachable)' = Weight(Fan, Reachable)
    BY <1>2 DEF Weight, Ones
  <2> HIDE DEF Continue, Fail, program, walk, interrupt
  <2> QED
    BY <1>3, <1>8, <1>9, <2>1, <2>2, <2>3 DEF TotalsInv, Done
<1>10. CASE outcome' # "import_edges"
  <2>1. consumed'.edges <= MaxImportEdges
    BY <1>3, <1>5, <1>7, <1>10 DEF Fits
  <2>2. outcome' \notin {"done", "bundle_bytes", "import_edges"} /\ pc' \in {"stopped", "pop"}
    BY <1>7, <1>10
  <2>3. pc' = "pop" => /\ consumed'.edges = Weight(Fan, Loaded)'
                       /\ consumed'.bytes = Weight(Size, Loaded)'
    <3> SUFFICES ASSUME pc' = "pop"
                 PROVE  /\ consumed'.edges = Weight(Fan, Loaded)'
                        /\ consumed'.bytes = Weight(Size, Loaded)'
      OBVIOUS
    <3>1. units' = Append(units, s) /\ consumed'.edges = consumed.edges + Fan[s]
      BY <1>7
    <3>2. Loaded' = all
      <4>1. Loaded = Elements(units) /\ Loaded' = Elements(Append(units, s))
        BY <3>1 DEF Loaded, Elements
      <4> QED
        BY <1>6, <4>1, ElementsOfAppend DEF WalkInv, TypeOK
    <3>3. Weight(Fan, Loaded)' = Weight(Fan, all) /\ Weight(Size, Loaded)' = Weight(Size, all)
      BY <1>2, <3>2 DEF Weight, Ones
    <3>4. consumed'.edges = Weight(Fan, all)
      BY <1>3, <1>4, <3>1
    <3> QED
      BY <1>3, <1>8, <3>3, <3>4
  <2> HIDE DEF Continue, Fail, program, walk, interrupt
  <2> QED
    BY <1>3, <1>8, <2>1, <2>2, <2>3 DEF TotalsInv, Done
<1> QED
  BY <1>9, <1>10

LEMMA TotalsStep ==
    ASSUME WalkInv, TotalsInv, IsFiniteSet(Source), [Next]_vars
    PROVE  TotalsInv'
<1> USE DEF Continue, Fail, program, walk, interrupt
<1>1. outcome = "running" <=> pc # "stopped"
  BY DEF WalkInv, PhaseInv
<1>2. CASE IdentifyEntry \/ CheckBeforeLoad \/ CallResolver \/ ReturnFromResolver
  <2>1. /\ imports' = imports /\ units' = units /\ consumed' = consumed
        /\ pc \in {"identify", "load", "call", "loading"} /\ pc' # "expand"
        /\ outcome' \notin {"done", "bundle_bytes", "import_edges"}
    BY <1>1, <1>2 DEF IdentifyEntry, CheckBeforeLoad, CallResolver, ReturnFromResolver,
       InterruptCode
  <2>2. pc \notin {"expand", "stopped"}
    BY <2>1
  <2>3. outcome' # "bundle_bytes" /\ outcome' # "import_edges"
    BY <2>1
  <2> HIDE DEF Continue, Fail, program, walk, interrupt
  <2> QED
    BY <2>1, <2>2, <2>3, TotalsStay
<1>3. CASE PopRequest \/ MeasureSpelling
  <2>1. /\ imports' = imports /\ units' = units /\ consumed' = consumed
        /\ pc = "pop" /\ pc' # "expand"
        /\ outcome' \notin {"bundle_bytes", "import_edges"}
    BY <1>1, <1>3 DEF PopRequest, MeasureSpelling, InterruptCode
  <2>2. pc \notin {"expand", "stopped"}
    BY <2>1
  <2>3. outcome' # "bundle_bytes" /\ outcome' # "import_edges"
    BY <2>1
  <2> HIDE DEF Continue, Fail, program, walk, interrupt
  <2> QED
    BY <2>1, <2>2, <2>3, TotalsStay
<1>4. CASE AcceptSource
  BY <1>4, TotalsAccept
<1>5. CASE ExpandSource
  BY <1>5, TotalsExpand
<1>6. CASE Cancel \/ Expire \/ UNCHANGED vars
  <2>1. /\ imports' = imports /\ units' = units /\ consumed' = consumed /\ pc' = pc
        /\ outcome' = outcome /\ current' = current
    BY <1>6 DEF Cancel, Expire, vars
  <2>2. /\ Fan' = Fan /\ Loaded' = Loaded /\ Reachable' = Reachable
        /\ \A w, s : Weight(w, s)' = Weight(w, s)
    BY <2>1, SameTotals
  <2> HIDE DEF Continue, Fail, program, walk, interrupt
  <2> QED
    BY <2>1, <2>2 DEF TotalsInv, Done
<1> QED
  BY <1>2, <1>3, <1>4, <1>5, <1>6 DEF Next, Step

\* What fits is what the import graph adds up to: bytes and edges are within their limits
\* when a bundle is accepted, and beyond them when one is refused for it.
THEOREM TotalsAreThoseOfTheGraph ==
    ASSUME IsFiniteSet(Source)
    PROVE  Spec => []TotalsAreCounted
<1>1. Init => TotalsInv
  <2> SUFFICES ASSUME Init PROVE TotalsInv
    OBVIOUS
  <2>1. /\ Loaded = {} /\ pc = "identify" /\ outcome = "running"
        /\ consumed.bytes = 0 /\ consumed.edges = 0
    BY DEF Init, Loaded
  <2>2. Weight(Size, {}) = 0 /\ Weight(Fan, {}) = 0
    <3>1. \A w : Ones(w, {}) = {}
      BY DEF Ones
    <3> QED
      BY <3>1, FS_EmptySet DEF Weight
  <2> QED
    BY <2>1, <2>2, LimitsAssumption DEF TotalsInv, Done
<1>2. WalkInv /\ TotalsInv /\ [Next]_vars => TotalsInv'
  BY TotalsStep
<1>3. WalkInv /\ TotalsInv => TotalsAreCounted
  <2> SUFFICES ASSUME WalkInv, TotalsInv PROVE TotalsAreCounted
    OBVIOUS
  <2>1. Reachable \subseteq Source /\ IsFiniteSet(Reachable)
    BY LoadedReached, FS_Subset
  <2>2. Weighs(Size, Reachable) /\ Weighs(Fan, Reachable)
    <3>1. \A s \in Source : imports[s] \in Seq(Edge)
      BY DEF WalkInv, TypeOK
    <3> QED
      BY <2>1, <3>1, SizeAssumption DEF Weighs, Fan
  <2>3. /\ MapThenSumSet(LAMBDA s : Size[s], Reachable) = Weight(Size, Reachable)
        /\ MapThenSumSet(LAMBDA s : Len(imports[s]), Reachable) = Weight(Fan, Reachable)
    BY <2>1, <2>2, BytesAreWeight, EdgesAreWeight
  <2>4. Done => Loaded = Reachable
    BY WholeWhenDone
  <2>5. Done => /\ Weight(Size, Reachable) <= MaxBundleBytes
                /\ Weight(Fan, Reachable) <= MaxImportEdges
    BY <2>4 DEF TotalsInv
  <2>6. /\ outcome = "bundle_bytes" => Weight(Size, Reachable) > MaxBundleBytes
        /\ outcome = "import_edges" => Weight(Fan, Reachable) > MaxImportEdges
    BY DEF TotalsInv
  <2> QED
    BY <2>3, <2>5, <2>6 DEF TotalsAreCounted
<1> QED
  BY <1>1, <1>2, <1>3, WalkInvariant, PTL DEF Spec
=============================================================================
