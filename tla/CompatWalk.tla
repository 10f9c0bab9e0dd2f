------------------------------ MODULE CompatWalk ------------------------------
(***************************************************************************)
(* `checkCompatible` for one method: is the live function a Candid subtype *)
(* of the written one?  The walk visits pairs of types depth first, takes  *)
(* a pair it is already inside of as holding, keeps what it proved and     *)
(* what it refuted, and runs the content of an `opt` as a transaction that *)
(* cannot fail: it can only record that a value will decode as null.       *)
(*                                                                         *)
(* A frame of the stack is one call of `sub`; its obligations are what     *)
(* `expand` does in order.  Stack index 1 is the method itself, so the     *)
(* code's frame depth d is index d + 2 and the path to the top frame has   *)
(* one segment less than the stack has frames.                             *)
(***************************************************************************)
EXTENDS Integers, Sequences, FiniteSets, SequencesExt

CONSTANT
    Families      \* what is compared: arenas of each side, functions and bounds

VARIABLES
    input,      \* [live, written: arenas, fn: a function of each, bounds]
    stack,      \* the walks in progress
    path,       \* the segments from the method to the top frame
    proven,     \* pairs whose walk finished, with the warnings it recorded
    log,        \* the pairs proven, in order
    failed,     \* pairs known not to hold, with the path to the reason
    warnings,   \* special_opt_rule warnings: path, and the pair each step leads to
    truncated,  \* a warning was dropped
    steps,      \* work spent
    failing,    \* a failure is travelling up
    failure,    \* its path, relative to the top frame
    outcome     \* "running", "compatible", "incompatible" or "exhausted"

vars == <<input, stack, path, proven, log, failed, warnings, truncated, steps,
          failing, failure, outcome>>

-----------------------------------------------------------------------------
\* MAX_CHECK_DEPTH, CheckOptions::step_limit and MAX_CHECK_WARNINGS.
MaxDepth == input.bounds.depth
MaxSteps == input.bounds.steps
MaxWarnings == input.bounds.warnings

\* Pairs and the rule each comes under.

Side == {"live", "written"}
Other(side) == IF side = "live" THEN "written" ELSE "live"
Node(side, n) == input[side][n]

\* A pair reads "sub, in side, is a subtype of sup, in the other side".
Pair == UNION {{<<side, sub, sup>> : sub \in DOMAIN input[side],
                                     sup \in DOMAIN input[Other(side)]} : side \in Side}
NoPair == << >>

OptLike(side, n) == Node(side, n).kind \in {"null", "reserved", "opt"}

\* A node of a validated Contract: references into the arena, keys distinct.
Primitives == {"null", "nat", "int", "text", "reserved", "empty"}
IsMembers(members, refs) ==
    /\ members \in Seq([key : Nat, ty : refs])
    /\ \A i, j \in DOMAIN members : members[i].key = members[j].key => i = j
IsNode(node, refs) ==
    \/ node.kind \in Primitives \cup {"class"}
    \/ node.kind \in {"opt", "vec"} /\ node.inner \in refs
    \/ node.kind \in {"record", "variant", "service"} /\ IsMembers(node.members, refs)
    \/ node.kind = "func" /\ node.args \in Seq(refs) /\ node.results \in Seq(refs)

ASSUME FamiliesAssumption ==
    \A family \in Families :
        /\ \A side \in Side : \A arena \in family[side] :
              /\ IsFiniteSet(DOMAIN arena)
              /\ \A n \in DOMAIN arena : IsNode(arena[n], DOMAIN arena)
              /\ family.fn[side].args \in Seq(DOMAIN arena)
              /\ family.fn[side].results \in Seq(DOMAIN arena)
        /\ family.bounds \in [depth : Nat, steps : Nat, warnings : Nat]

\* What `expand` does next: "visit" a pair that must hold, "probe" one that
\* need not, "skip" an absent value that may be, find a "lack", or "warn".
Visit(seg, pair, cost) == [do |-> "visit", seg |-> seg, pair |-> pair, cost |-> cost]
Probe(pair) == [do |-> "probe", seg |-> <<"opt">>, pair |-> pair, cost |-> 0]
Skip(cost) == [do |-> "skip", seg |-> << >>, pair |-> NoPair, cost |-> cost]
Lack(seg, cost) == [do |-> "lack", seg |-> seg, pair |-> NoPair, cost |-> cost]
Warn == [do |-> "warn", seg |-> << >>, pair |-> NoPair, cost |-> 0]
Mismatch == <<Lack(<<>>, 0)>>

\* same_id: one step, and one for each member of the other list passed over.
PassCost(own, others, i) ==
    1 + Cardinality({j \in DOMAIN others :
                       /\ others[j].key < own[i].key
                       /\ i > 1 => others[j].key > own[i - 1].key})
With(members, key) == {i \in DOMAIN members : members[i].key = key}
Named(members, key) == members[CHOOSE i \in With(members, key) : TRUE].ty

RecordRule(side, have, want) ==
    [i \in DOMAIN want |->
        LET seg == <<"field", want[i].key>>
            cost == PassCost(want, have, i)
        IN  IF With(have, want[i].key) # {}
            THEN Visit(seg, <<side, Named(have, want[i].key), want[i].ty>>, cost)
            ELSE IF OptLike(Other(side), want[i].ty) THEN Skip(cost) ELSE Lack(seg, cost)]

VariantRule(side, have, want) ==
    [i \in DOMAIN have |->
        LET seg == <<"field", have[i].key>>
            cost == PassCost(have, want, i)
        IN  IF With(want, have[i].key) # {}
            THEN Visit(seg, <<side, have[i].ty, Named(want, have[i].key)>>, cost)
            ELSE Lack(seg, cost)]

ServiceRule(side, have, want) ==
    [i \in DOMAIN want |->
        LET seg == <<"method", want[i].key>>
            cost == PassCost(want, have, i)
        IN  IF With(have, want[i].key) # {}
            THEN Visit(seg, <<side, Named(have, want[i].key), want[i].ty>>, cost)
            ELSE Lack(seg, cost)]

Tuple(side, have, want, tag) ==
    [i \in DOMAIN want |->
        IF i <= Len(have) THEN Visit(<<tag, i>>, <<side, have[i], want[i]>>, 1)
        ELSE IF OptLike(Other(side), want[i]) THEN Skip(1) ELSE Lack(<<tag, i>>, 1)]

\* Arguments contravariant, results covariant.
Signature_AllCovariant(side, left, right) ==
    Tuple(side, left.args, right.args, "arg") \o Tuple(side, left.results, right.results, "result")
Signature(side, left, right) ==
    Tuple(Other(side), right.args, left.args, "arg")
      \o Tuple(side, left.results, right.results, "result")

FuncRule(side, left, right) ==
    IF left.mode # right.mode THEN Mismatch ELSE Signature(side, left, right)

OptRule(side, sub, inner) ==
    IF Node(side, sub).kind = "opt" THEN <<Probe(<<side, Node(side, sub).inner, inner>>)>>
    ELSE IF OptLike(Other(side), inner) THEN <<Warn>>
    ELSE <<Probe(<<side, sub, inner>>)>>

Obligations(pair) ==
    LET side == pair[1]
        left == Node(side, pair[2])
        right == Node(Other(side), pair[3])
    IN  IF right.kind = "reserved" \/ left.kind = "empty" THEN << >>
        ELSE IF right.kind = "opt" THEN
            IF left.kind = "null" THEN << >> ELSE OptRule(side, pair[2], right.inner)
        ELSE IF left.kind = "nat" /\ right.kind = "int" THEN << >>
        ELSE IF left.kind # right.kind THEN Mismatch
        ELSE IF left.kind = "vec" THEN
            <<Visit(<<"element">>, <<side, left.inner, right.inner>>, 0)>>
        ELSE IF left.kind = "record" THEN RecordRule(side, left.members, right.members)
        ELSE IF left.kind = "variant" THEN VariantRule(side, left.members, right.members)
        ELSE IF left.kind = "service" THEN ServiceRule(side, left.members, right.members)
        ELSE IF left.kind = "func" THEN FuncRule(side, left, right)
        ELSE IF left.kind = "class" THEN Mismatch
        ELSE << >>

\* The method: the functions' tuples, whatever their modes.
MethodObligations == Signature("live", input.fn.live, input.fn.written)

-----------------------------------------------------------------------------
\* The stack, the path it spells and the costs.

Frame(pair) ==
    [pair |-> pair, at |-> 1, start |-> Len(warnings), cuts |-> {},
     dependents |-> {}, mark |-> [log |-> 0, warnings |-> 0, truncated |-> FALSE]]

Top == stack[Len(stack)]
Todo(frame) == IF frame.pair = NoPair THEN MethodObligations ELSE Obligations(frame.pair)
Current == Todo(Top)[Top.at]
AtEnd == Top.at > Len(Todo(Top))
Probing == ~AtEnd /\ Current.do = "probe"

Active == {stack[i].pair : i \in 2..Len(stack)}
DepthsOf(pairs) == {i \in 2..Len(stack) : stack[i].pair \in pairs}
Trail == [i \in 1..(Len(stack) - 1) |-> stack[i + 1].pair]

\* within: a failure seen from one segment further out.
Within_Unnamed(seg, reason) == reason
Within(seg, reason) == <<seg>> \o reason

Elements(seq) == {seq[i] : i \in DOMAIN seq}
Without(f, S) == [x \in DOMAIN f \ S |-> f[x]]
Extended(f, k, v) == [x \in DOMAIN f \cup {k} |-> IF x = k THEN v ELSE f[x]]
Deepest(S) == CHOOSE i \in S : \A j \in S : j <= i
Outermost(S) == CHOOSE i \in S : \A j \in S : i <= j

Resumed(frames) == [frames EXCEPT ![Len(frames)].at = @ + 1]
Below(cuts, limit) == cuts \cap 2..(limit - 1)
Depending(frames, cuts) ==
    [frames EXCEPT ![Len(frames)].cuts = @ \cup Below(cuts, Len(frames))]

\* repeat: a proven pair's warnings again, at the path it is now met at.
ActiveOn(trail) == DepthsOf(Elements(trail))

Repeated(pair) ==
    LET known == proven[pair]
        met == Append(path, Current.seg)
        trail == Append(Trail, pair)
        again(acc, w) ==
            LET below == SubSeq(w.trail, known.prefix + 1, Len(w.trail))
                looked == IF below = << >> THEN 1 ELSE Len(below)
            IN  IF acc.full THEN acc
                ELSE IF ActiveOn(below) # {}
                THEN [acc EXCEPT !.cost = @ + looked,
                                 !.cuts = @ \cup {Outermost(ActiveOn(below))}]
                ELSE IF Len(acc.warnings) >= MaxWarnings
                THEN [acc EXCEPT !.cost = @ + looked, !.full = TRUE]
                ELSE [acc EXCEPT
                        !.cost = @ + looked + Len(met) + Len(below),
                        !.warnings = Append(@,
                            [path |-> met \o SubSeq(w.path, known.prefix + 1, Len(w.path)),
                             trail |-> trail \o below])]
    IN  FoldLeft(again,
                 [warnings |-> warnings, cost |-> 0, cuts |-> {}, full |-> FALSE],
                 SubSeq(warnings, known.start + 1, known.end))

\* warn, on top of the warnings kept.
Warned(kept) ==
    IF Len(kept) >= MaxWarnings THEN kept
    ELSE Append(kept, [path |-> path, trail |-> Trail])
WarnCost(kept) == IF Len(kept) >= MaxWarnings THEN 0 ELSE Len(path)

KeptWarnings == SubSeq(warnings, 1, Top.mark.warnings)

VisitCost ==
    1 + (IF Current.pair \in DOMAIN failed THEN Len(failed[Current.pair])
         ELSE IF Current.pair \notin Active /\ Current.pair \in DOMAIN proven
         THEN Repeated(Current.pair).cost ELSE 0)

\* What the walk's next move spends.
Due ==
    IF failing THEN IF Probing THEN WarnCost(KeptWarnings)
                    ELSE IF Len(stack) = 1 THEN 0 ELSE Len(failure)
    ELSE IF AtEnd THEN 0
    ELSE Current.cost + (IF Current.do \in {"visit", "probe"} THEN VisitCost
                       ELSE IF Current.do = "warn" THEN WarnCost(warnings) ELSE 0)

-----------------------------------------------------------------------------
Init ==
    /\ \E family \in Families : \E live \in family.live, written \in family.written :
          input = [live |-> live, written |-> written, fn |-> family.fn, bounds |-> family.bounds]
    /\ warnings = << >>
    /\ stack = <<Frame(NoPair)>>
    /\ path = << >>
    /\ proven = << >>
    /\ log = << >>
    /\ failed = << >>
    /\ truncated = FALSE
    /\ steps = 0
    /\ failing = FALSE
    /\ failure = << >>
    /\ outcome = "running"

\* spend: a move the step bound still pays for.
Spend ==
    /\ steps + Due <= MaxSteps
    /\ steps' = steps + Due
    /\ UNCHANGED <<input, outcome>>

Running == outcome = "running"
Meets(todo) == Running /\ ~failing /\ ~AtEnd /\ Current.do \in todo

PassOver ==
    /\ Meets({"skip"})
    /\ Spend
    /\ stack' = Resumed(stack)
    /\ UNCHANGED <<path, proven, log, failed, warnings, truncated, failing, failure>>

FindLack ==
    /\ Meets({"lack"})
    /\ Spend
    /\ failing' = TRUE
    /\ failure' = IF Current.seg = << >> THEN << >> ELSE <<Current.seg>>
    /\ UNCHANGED <<stack, path, proven, log, failed, warnings, truncated>>

WarnNull ==
    /\ Meets({"warn"})
    /\ Spend
    /\ stack' = Resumed(stack)
    /\ warnings' = Warned(warnings)
    /\ truncated' = (truncated \/ Len(warnings) >= MaxWarnings)
    /\ UNCHANGED <<path, proven, log, failed, failing, failure>>

\* Met again inside its own walk, a pair is assumed to hold.
Assumed(pair) == pair \in Active
Unanswered(pair) == pair \notin DOMAIN failed \cup DOMAIN proven /\ ~Assumed(pair)

\* child, and sub up to its answer.  A probe notes where it began.
Marked ==
    IF Current.do = "visit" THEN stack
    ELSE [stack EXCEPT ![Len(stack)].mark =
            [log |-> Len(log), warnings |-> Len(warnings), truncated |-> truncated]]

AnswerFailed ==
    /\ Meets({"visit", "probe"})
    /\ Current.pair \in DOMAIN failed
    /\ Spend
    /\ stack' = Marked
    /\ failing' = TRUE
    /\ failure' = IF Current.do = "probe" THEN failed[Current.pair]
                  ELSE Within(Current.seg, failed[Current.pair])
    /\ UNCHANGED <<path, proven, log, failed, warnings, truncated>>

AnswerActive ==
    /\ Meets({"visit", "probe"})
    /\ Current.pair \notin DOMAIN failed
    /\ Assumed(Current.pair)
    /\ Spend
    /\ stack' = Resumed(Depending(stack, DepthsOf({Current.pair})))
    /\ UNCHANGED <<path, proven, log, failed, warnings, truncated, failing, failure>>

AnswerProven ==
    /\ Meets({"visit", "probe"})
    /\ Current.pair \notin DOMAIN failed /\ ~Assumed(Current.pair)
    /\ Current.pair \in DOMAIN proven
    /\ Spend
    /\ LET repeated == Repeated(Current.pair)
           cuts == proven[Current.pair].cuts \cup repeated.cuts
       IN  /\ stack' = Resumed(Depending(stack, cuts))
           /\ warnings' = repeated.warnings
           /\ truncated' = (truncated \/ repeated.full)
    /\ UNCHANGED <<path, proven, log, failed, failing, failure>>

Descend ==
    /\ Meets({"visit", "probe"})
    /\ Unanswered(Current.pair)
    /\ Len(stack) <= MaxDepth
    /\ Spend
    /\ stack' = Append(Marked, Frame(Current.pair))
    /\ path' = Append(path, Current.seg)
    /\ UNCHANGED <<proven, log, failed, warnings, truncated, failing, failure>>

\* finish: the proofs that needed this walk to be in progress are forgotten.
ForgetDependents(frame) == Without(proven, frame.dependents)

\* The walk that finished, and its caller's frame told what it was cut at.
Closed(cuts, pair) ==
    LET below == Front(stack)
        noted == IF cuts = {} THEN below
                 ELSE [below EXCEPT ![Deepest(cuts)].dependents = @ \cup {pair}]
    IN  Depending(noted, cuts)

FinishHolds ==
    /\ Running /\ ~failing /\ AtEnd /\ Len(stack) > 1
    /\ Spend
    /\ stack' = Resumed(Closed(Top.cuts, Top.pair))
    /\ path' = Front(path)
    /\ proven' = Extended(ForgetDependents(Top), Top.pair,
                          [start |-> Top.start, end |-> Len(warnings),
                           prefix |-> Len(path), cuts |-> Top.cuts])
    /\ log' = Append(log, Top.pair)
    /\ UNCHANGED <<failed, warnings, truncated, failing, failure>>

FinishFails ==
    /\ Running /\ failing /\ ~Probing /\ Len(stack) > 1
    /\ Spend
    /\ stack' = Front(stack)
    /\ path' = Front(path)
    /\ proven' = ForgetDependents(Top)
    /\ failed' = Extended(failed, Top.pair, failure)
    /\ failure' = IF Todo(stack[Len(stack) - 1])[stack[Len(stack) - 1].at].do = "probe"
                  THEN failure ELSE Within(Last(path), failure)
    /\ UNCHANGED <<log, warnings, truncated, failing>>

\* The probe's transaction undone, and the warning that it was.
Undone(mark) == Without(proven, Elements(SubSeq(log, mark.log + 1, Len(log))))

TruncatedBefore(mark) == mark.truncated

ProbeFails ==
    /\ Running /\ failing /\ Probing
    /\ Spend
    /\ proven' = Undone(Top.mark)
    /\ log' = SubSeq(log, 1, Top.mark.log)
    /\ warnings' = Warned(KeptWarnings)
    /\ truncated' = (TruncatedBefore(Top.mark) \/ Top.mark.warnings >= MaxWarnings)
    /\ failing' = FALSE
    /\ failure' = << >>
    /\ stack' = Resumed(stack)
    /\ UNCHANGED <<path, failed>>

Decide(verdict) ==
    /\ Running
    /\ Len(stack) = 1
    /\ outcome' = verdict
    /\ UNCHANGED <<input, stack, path, proven, log, failed, warnings, truncated, steps,
                   failing, failure>>

MethodHolds == ~failing /\ AtEnd /\ Decide("compatible")
MethodFails == failing /\ Decide("incompatible")

\* A bound stops the walk; what it recorded is not reported.
OutOfSteps == steps + Due > MaxSteps
TooDeep ==
    /\ ~failing /\ ~AtEnd /\ Current.do \in {"visit", "probe"}
    /\ Unanswered(Current.pair)
    /\ Len(stack) > MaxDepth

Exhaust ==
    /\ Running
    /\ OutOfSteps \/ TooDeep
    /\ outcome' = "exhausted"
    /\ warnings' = << >>
    /\ truncated' = FALSE
    /\ UNCHANGED <<input, stack, path, proven, log, failed, steps, failing, failure>>

Next ==
    \/ PassOver
    \/ FindLack
    \/ WarnNull
    \/ AnswerFailed
    \/ AnswerActive
    \/ AnswerProven
    \/ Descend
    \/ FinishHolds
    \/ FinishFails
    \/ ProbeFails
    \/ MethodHolds
    \/ MethodFails
    \/ Exhaust

Spec == Init /\ [][Next]_vars

-----------------------------------------------------------------------------
Visits(todo) == {todo[i].pair : i \in {j \in DOMAIN todo : todo[j].do = "visit"}}
Lacking(todo) == \E i \in DOMAIN todo : todo[i].do = "lack"

\* Candid's subtyping rules, given the pairs that hold: one step of `<:`.
FieldsFit(S, side, have, want) ==
    \A w \in Elements(want) :
        \/ \E h \in Elements(have) : h.key = w.key /\ <<side, h.ty, w.ty>> \in S
        \/ (\A h \in Elements(have) : h.key # w.key) /\ OptLike(Other(side), w.ty)

TupleFits(S, side, have, want) ==
    \A i \in DOMAIN want :
        IF i \in DOMAIN have THEN <<side, have[i], want[i]>> \in S
        ELSE OptLike(Other(side), want[i])

SignatureFits(S, side, left, right) ==
    /\ TupleFits(S, Other(side), right.args, left.args)
    /\ TupleFits(S, side, left.results, right.results)

Fits(S, pair) ==
    LET side == pair[1]
        left == Node(side, pair[2])
        right == Node(Other(side), pair[3])
        both(kind) == left.kind = kind /\ right.kind = kind
    IN  \/ right.kind \in {"reserved", "opt"}
        \/ left.kind = "empty"
        \/ left.kind = "nat" /\ right.kind = "int"
        \/ left.kind = right.kind /\ left.kind \in Primitives
        \/ both("vec") /\ <<side, left.inner, right.inner>> \in S
        \/ both("record") /\ FieldsFit(S, side, left.members, right.members)
        \/ both("variant") /\ \A h \in Elements(left.members) :
              \E w \in Elements(right.members) : w.key = h.key /\ <<side, h.ty, w.ty>> \in S
        \/ both("service") /\ \A w \in Elements(right.members) :
              \E h \in Elements(left.members) : h.key = w.key /\ <<side, h.ty, w.ty>> \in S
        \/ both("func") /\ left.mode = right.mode /\ SignatureFits(S, side, left, right)

MethodFits(S) == SignatureFits(S, "live", input.fn.live, input.fn.written)

\* `<:` is the greatest relation that obeys the rules.
Holding ==
    LET greatest[S \in SUBSET Pair] ==
            LET kept == {pair \in S : Fits(S, pair)}
            IN  IF kept = S THEN S ELSE greatest[kept]
    IN  greatest[Pair]

\* The verdict is the relation's, whatever was assumed, kept or undone.
VerdictIsTheRelation ==
    outcome \in {"compatible", "incompatible"} =>
        (outcome = "compatible" <=> MethodFits(Holding))

\* Paths from the method along which no pair repeats; a probe is walked into
\* only where its content holds.
Rounds == [k \in 1..Cardinality(Pair) |-> k]
Walks ==
    LET holding == Holding
        into(todo) == {i \in DOMAIN todo : \/ todo[i].do = "visit"
                                          \/ (todo[i].do = "probe" /\ todo[i].pair \in holding)}
        todoOf(w) == IF w.trail = << >> THEN MethodObligations ELSE Obligations(Last(w.trail))
        further(w) == {[path |-> Append(w.path, todoOf(w)[i].seg),
                        trail |-> Append(w.trail, todoOf(w)[i].pair)] :
                         i \in {j \in into(todoOf(w)) :
                                  todoOf(w)[j].pair \notin Elements(w.trail)}}
        longer(acc, k) ==
            LET next == UNION {further(w) : w \in acc.last}
            IN  [all |-> acc.all \cup next, last |-> next]
        root == [path |-> << >>, trail |-> << >>]
        null(w) == \E i \in DOMAIN todoOf(w) :
                      \/ todoOf(w)[i].do = "warn"
                      \/ todoOf(w)[i].do = "probe" /\ todoOf(w)[i].pair \notin holding
    IN  {w \in FoldLeft(longer, [all |-> {root}, last |-> {root}], Rounds).all : null(w)}

WarningsAreExact ==
    outcome = "compatible" =>
        LET walks == Walks
        IN  /\ Elements(warnings) \subseteq walks
            /\ Len(warnings) = Cardinality(Elements(warnings))
            /\ IF truncated THEN Len(warnings) = MaxWarnings /\ Cardinality(walks) > MaxWarnings
               ELSE Elements(warnings) = walks

FailureIsReached ==
    outcome = "incompatible" =>
        LET follow(todo, seg) ==
                LET met == {i \in DOMAIN todo : todo[i].seg = seg}
                IN  IF met = {} THEN << >>
                    ELSE LET o == todo[CHOOSE i \in met : TRUE]
                         IN  IF o.do = "visit" THEN Obligations(o.pair) ELSE <<Lack(<<>>, 0)>>
            reached == FoldLeft(follow, MethodObligations, failure)
        IN  reached # << >> /\ \E i \in DOMAIN reached :
               reached[i].do = "lack" /\ reached[i].seg = << >>

\* The warnings of a compatible method are the paths where a value decodes as
\* null and along which no pair repeats, each once, whatever was walked again
\* and whatever was only repeated; or, past the bound, that many of them.  The
\* path a failed method reports leads, step by step, to a reason.
ReportedPathsAreReal == WarningsAreExact /\ FailureIsReached
=============================================================================
