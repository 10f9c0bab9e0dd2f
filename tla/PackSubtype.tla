----------------------------- MODULE PackSubtype -----------------------------
(***************************************************************************)
(* The profile resolver's own subtype checker (`subtype.mjs`), which       *)
(* decides whether a pack applies to a canister: every method of the       *)
(* pack's fragment, position by position, with the relaxation of D-019 for *)
(* variants in results.  It runs here over the arenas that CompatWalk has  *)
(* just judged, "live" being the canister and "written" the fragment, so   *)
(* that two implementations of one relation are held against it.           *)
(*                                                                         *)
(* The checker keeps no proofs: it assumes a pair from the moment it is    *)
(* met, takes it back when it fails, and leaves it in otherwise.  A        *)
(* position is decided in one synchronous call; steps and relaxations go   *)
(* on from one position to the next, assumptions do not.                   *)
(***************************************************************************)
EXTENDS CompatWalk

CONSTANTS
    Modes,          \* of the results: `resultVariants`
    PackMethods     \* bound: the functions, of each side, that are matched

VARIABLE
    pack    \* the match: its phase and options, the position it is at, and
            \* what the checker and the match have gathered

packVars == <<vars, pack>>

Mode == {"strict", "relaxed"}

ASSUME PackAssumption == Modes \subseteq Mode

\* The checker: assumptions, work, nesting, relaxations, whether the last check
\* failed, and whether a limit was ever met.  `lossyOpt` is off where packs are
\* matched, so a failure ends its position.
Fresh(spent, relaxed) ==
    [gamma |-> {}, steps |-> spent, depth |-> 0, relaxed |-> relaxed,
     failed |-> FALSE, cut |-> FALSE]

Extra(pair) ==
    LET have == Node(pair[1], pair[2]).members
        want == Node(Other(pair[1]), pair[3]).members
    IN  {have[i].key : i \in {j \in DOMAIN have : With(want, have[j].key) = {}}}

\* Entering a func or a service, where polarity can flip, is strict.
ModeBelow_Kept(mode, kind) == mode
ModeBelow(mode, kind) == IF kind \in {"func", "service"} THEN "strict" ELSE mode

\* The rules of a pair, in the order they are tried.  Those of records,
\* services and functions are the specification's, as in CompatWalk.
RelaxedVariant(side, have, want) ==
    SelectSeq(VariantRule(side, have, want), LAMBDA d : d.do # "lack")

PackOptRule(side, sub, inner) ==
    IF Node(side, sub).kind = "opt"
    THEN <<Visit(<< >>, <<side, Node(side, sub).inner, inner>>, 0)>>
    ELSE IF Node(side, sub).kind = "null" THEN << >>
    ELSE IF OptLike(Other(side), inner) THEN Mismatch
    ELSE <<Visit(<< >>, <<side, sub, inner>>, 0)>>

PackRules(mode, pair) ==
    LET side == pair[1]
        left == Node(side, pair[2])
        right == Node(Other(side), pair[3])
    IN  IF right.kind = "reserved" \/ left.kind = "empty" THEN << >>
        ELSE IF right.kind = "opt" THEN PackOptRule(side, pair[2], right.inner)
        ELSE IF left.kind = "opt" THEN Mismatch
        ELSE IF mode = "relaxed" /\ left.kind = "variant" /\ right.kind = "variant"
             THEN RelaxedVariant(side, left.members, right.members)
        ELSE Obligations(pair)

\* A relaxed variant that holds notes its extra cases.
Concluded(c, mode, pair, at) ==
    IF ~c.failed /\ mode = "relaxed" /\ Node(pair[1], pair[2]).kind = "variant"
       /\ Node(Other(pair[1]), pair[3]).kind = "variant" /\ Extra(pair) # {}
    THEN [c EXCEPT !.relaxed = Append(@, [at |-> at, cases |-> Extra(pair)])]
    ELSE c

\* `sub`: a failing pair is taken out of the assumptions again.
Left(c, key) ==
    [c EXCEPT !.depth = @ - 1, !.gamma = IF c.failed THEN @ \ {key} ELSE @]
Failed(c) == [c EXCEPT !.failed = TRUE]

RECURSIVE Sub(_, _, _, _)
Sub(c, mode, pair, at) ==
    LET key == <<mode, pair>>
        below == IF Node(Other(pair[1]), pair[3]).kind = "opt" THEN mode
                 ELSE ModeBelow(mode, Node(pair[1], pair[2]).kind)
        demand(acc, d) ==
            IF acc.failed \/ d.do = "skip" THEN acc
            ELSE IF d.do = "lack" THEN Failed(acc)
            ELSE Sub(acc, below, d.pair, at \o d.seg)
        entered == [c EXCEPT !.steps = @ + 1, !.depth = @ + 1, !.gamma = @ \cup {key}]
    IN  IF key \in c.gamma THEN c
        ELSE IF c.steps + 1 > MaxSteps \/ c.depth >= MaxDepth
             THEN [Failed(c) EXCEPT !.steps = @ + 1, !.cut = TRUE]
        ELSE Left(Concluded(FoldLeft(demand, entered, PackRules(mode, pair)),
                            mode, pair, at),
                  key)

-----------------------------------------------------------------------------
\* `matchService`: the arguments of a method, then its results.

Waiting == [phase |-> "waiting", mode |-> "strict", at |-> 1, steps |-> 0, relaxed |-> << >>,
            reasons |-> << >>, cut |-> FALSE]

Position == MethodObligations[pack.at]
PositionMode == IF Position.seg[1] = "result" THEN pack.mode ELSE "strict"

\* A failed position contributes no relaxation.
After(c) ==
    [pack EXCEPT !.at = @ + 1, !.steps = c.steps, !.cut = @ \/ c.cut,
                 !.relaxed = IF c.failed THEN @ ELSE c.relaxed,
                 !.reasons = IF c.failed THEN Append(@, Position.seg) ELSE @]

PackInit == Init /\ pack = Waiting

\* A method the canister lacks, or has in another mode, is a reason by itself
\* and has no positions.
Begin ==
    /\ outcome # "running" /\ pack.phase = "waiting" /\ input.fn \in PackMethods
    /\ input.fn.live.mode = input.fn.written.mode
    /\ \E mode \in Modes : pack' = [Waiting EXCEPT !.phase = "matching", !.mode = mode]
    /\ UNCHANGED vars

MatchPosition ==
    /\ pack.phase = "matching" /\ pack.at <= Len(MethodObligations)
    /\ pack' = IF Position.do = "lack"
               THEN [pack EXCEPT !.at = @ + 1, !.reasons = Append(@, Position.seg)]
               ELSE IF Position.do = "skip" THEN [pack EXCEPT !.at = @ + 1]
               ELSE After(Sub(Fresh(pack.steps, pack.relaxed), PositionMode, Position.pair,
                              Position.seg))
    /\ UNCHANGED vars

Finish ==
    /\ pack.phase = "matching" /\ pack.at > Len(MethodObligations)
    /\ pack' = [pack EXCEPT !.phase = "matched"]
    /\ UNCHANGED vars

PackNext == (Next /\ UNCHANGED pack) \/ Begin \/ MatchPosition \/ Finish

PackSpec == PackInit /\ [][PackNext]_packVars

-----------------------------------------------------------------------------
\* The relation of D-019: the greatest one that obeys these rules.  A pair
\* comes with the mode it is met in.

\* `below` is the relation inside a func or a service.
PackFits(S, below, mode, pair) ==
    LET side == pair[1]
        left == Node(side, pair[2])
        right == Node(Other(side), pair[3])
    IN  IF right.kind = "opt"
        THEN \/ left.kind \in {"null", "empty"}
             \/ left.kind = "opt" /\ <<side, left.inner, right.inner>> \in S
             \/ left.kind # "opt" /\ ~OptLike(Other(side), right.inner)
                /\ <<side, pair[2], right.inner>> \in S
        ELSE IF left.kind \in {"func", "service"} THEN Fits(below, pair)
        ELSE IF left.kind = "variant" /\ right.kind = "variant" /\ mode = "relaxed"
        THEN \A h \in Elements(left.members), w \in Elements(right.members) :
                w.key = h.key => <<side, h.ty, w.ty>> \in S
        ELSE Fits(S, pair)

StrictHolding ==
    FoldLeft(LAMBDA S, k : {p \in S : PackFits(S, S, "strict", p)}, Pair, Rounds)
RelaxedHolding(strict) ==
    FoldLeft(LAMBDA S, k : {p \in S : PackFits(S, strict, "relaxed", p)}, Pair, Rounds)

\* Arguments are strict, results in the mode of the match.
PackMethodFits(strict, results) ==
    \A i \in DOMAIN MethodObligations :
        LET d == MethodObligations[i]
        IN  /\ d.do # "lack"
            /\ d.do = "visit" => d.pair \in (IF d.seg[1] = "result" THEN results ELSE strict)

Ok == pack.reasons = << >>
Judged == pack.phase = "matched"

\* What a match says, and that it names where it needed the relaxation.
MatchIs(strict) ==
    LET fits == PackMethodFits(strict, IF pack.mode = "relaxed" THEN RelaxedHolding(strict)
                                       ELSE strict)
    IN  /\ Ok => fits
        /\ fits /\ ~pack.cut => Ok
NamesWiden(strict) == pack.relaxed = << >> <=> PackMethodFits(strict, strict)

\* A pack matches exactly when the relation of D-019 holds of every position,
\* whatever was assumed on the way; a limit can only refuse.  A match that needed
\* the relaxation names where, and one that did not names nothing: a pack's author
\* is told of every result that is wider, and only then.
PackVerdictIsTheRelation ==
    Judged => LET strict == StrictHolding
              IN  MatchIs(strict) /\ (Ok => NamesWiden(strict))
=============================================================================
