------------------------- MODULE CompatWarnings_proofs -------------------------
(***************************************************************************)
(* For all arenas, functions and bounds: the warnings of a compatible      *)
(* method are the paths at which a value decodes as null and along which   *)
(* no pair repeats, each once, or as many of them as the bound allows.     *)
(*                                                                         *)
(* A route is such a path.  WarningInv says, of every frame that is walked *)
(* and as long as the pairs the walk is inside of hold: what was kept are  *)
(* routes, through the steps the frames are at and each once; and, up to   *)
(* the bound, every route past a step a frame got past is kept, unless it  *)
(* meets a pair where the walk was cut.  A proof says the same of its      *)
(* pair.  A probe that may fail keeps what its mark would restore.         *)
(***************************************************************************)
EXTENDS CompatWalk_proofs

-----------------------------------------------------------------------------
(***************************************************************************)
(* The warnings that are reported.  An optional step is the only one of    *)
(* its list.                                                               *)
(***************************************************************************)

Plain(todo) == \A i \in DOMAIN todo : todo[i].do \in {"visit", "skip", "lack"}
Sole(todo) == \A i \in DOMAIN todo : todo[i].do \in {"probe", "warn"} => DOMAIN todo = {1}

LEMMA PlainMade ==
    ASSUME NEW todo, \A i \in DOMAIN todo : \E seg, pair, cost : \/ todo[i] = Visit(seg, pair, cost)
                                                              \/ todo[i] = Lack(seg, cost)
                                                              \/ todo[i] = Skip(cost)
    PROVE  Plain(todo)
<1> SUFFICES ASSUME NEW i \in DOMAIN todo PROVE todo[i].do \in {"visit", "skip", "lack"}
  BY DEF Plain
<1>1. PICK o : o = todo[i]
  OBVIOUS
<1>2. PICK seg, pair, cost : \/ o = Visit(seg, pair, cost) \/ o = Lack(seg, cost)
                             \/ o = Skip(cost)
  BY <1>1
<1>3. o.do = "visit" \/ o.do = "lack" \/ o.do = "skip"
  BY <1>2, StepFields
<1> QED
  BY <1>1, <1>3

LEMMA RulesPlain ==
    ASSUME NEW side, NEW have, NEW want, NEW tag
    PROVE  /\ Plain(RecordRule(side, have, want)) /\ Plain(VariantRule(side, have, want))
           /\ Plain(ServiceRule(side, have, want)) /\ Plain(Tuple(side, have, want, tag))
<1>1. PICK todo : todo = RecordRule(side, have, want)
  OBVIOUS
<1>2. \A i \in DOMAIN todo : \E seg, pair, cost : \/ todo[i] = Visit(seg, pair, cost)
                                                  \/ todo[i] = Lack(seg, cost)
                                                  \/ todo[i] = Skip(cost)
  BY <1>1 DEF RecordRule
<1>3. PICK cases : cases = VariantRule(side, have, want)
  OBVIOUS
<1>4. \A i \in DOMAIN cases : \E seg, pair, cost : \/ cases[i] = Visit(seg, pair, cost)
                                                   \/ cases[i] = Lack(seg, cost)
                                                   \/ cases[i] = Skip(cost)
  BY <1>3 DEF VariantRule
<1>5. PICK methods : methods = ServiceRule(side, have, want)
  OBVIOUS
<1>6. \A i \in DOMAIN methods : \E seg, pair, cost : \/ methods[i] = Visit(seg, pair, cost)
                                                     \/ methods[i] = Lack(seg, cost)
                                                     \/ methods[i] = Skip(cost)
  BY <1>5 DEF ServiceRule
<1>7. PICK tuple : tuple = Tuple(side, have, want, tag)
  OBVIOUS
<1>8. \A i \in DOMAIN tuple : \E seg, pair, cost : \/ tuple[i] = Visit(seg, pair, cost)
                                                   \/ tuple[i] = Lack(seg, cost)
                                                   \/ tuple[i] = Skip(cost)
  BY <1>7 DEF Tuple
<1>9. Plain(todo) /\ Plain(cases) /\ Plain(methods) /\ Plain(tuple)
  BY <1>2, <1>4, <1>6, <1>8, PlainMade
<1> QED
  BY <1>1, <1>3, <1>5, <1>7, <1>9

LEMMA SignaturePlain ==
    ASSUME NEW side \in Side, NEW left, NEW right,
           left.args \in Seq(DOMAIN input[side]), left.results \in Seq(DOMAIN input[side]),
           right.args \in Seq(DOMAIN input[Other(side)]),
           right.results \in Seq(DOMAIN input[Other(side)])
    PROVE  Plain(Signature(side, left, right))
<1>1. PICK args, results : /\ args = Tuple(Other(side), right.args, left.args, "arg")
                           /\ results = Tuple(side, left.results, right.results, "result")
  OBVIOUS
<1>2. Listed(args) /\ Listed(results)
  <2>1. Other(side) \in Side /\ Other(Other(side)) = side
    BY Opposite
  <2> QED
    BY <1>1, <2>1, TupleSteps
<1>3. Plain(args) /\ Plain(results)
  BY <1>1, RulesPlain
<1>4. PICK todo : todo = args \o results
  OBVIOUS
<1>5. Signature(side, left, right) = todo
  BY <1>1, <1>4 DEF Signature
<1>6. \A i \in DOMAIN todo : \/ \E j \in DOMAIN args : todo[i] = args[j]
                             \/ \E j \in DOMAIN results : todo[i] = results[j]
  BY <1>2, <1>4, Concatenated
<1> QED
  BY <1>3, <1>5, <1>6 DEF Plain

LEMMA AloneSole == ASSUME NEW o PROVE Sole(<<o>>) /\ Sole(<< >>)
<1>1. DOMAIN <<o>> = {1} /\ DOMAIN << >> = {}
  OBVIOUS
<1> QED
  BY <1>1 DEF Sole

LEMMA PlainSole == ASSUME NEW todo, Plain(todo) PROVE Sole(todo)
BY DEF Plain, Sole

LEMMA ObligationsSole ==
    ASSUME World, NEW pair \in Pair
    PROVE  Sole(Obligations(pair))
<1> DEFINE side == pair[1]
           left == Node(side, pair[2])
           right == Node(Other(side), pair[3])
           Ours == DOMAIN input[side]
           Theirs == DOMAIN input[Other(side)]
<1>1. /\ side \in Side /\ Other(side) \in Side
      /\ pair[2] \in Ours /\ pair[3] \in Theirs
  BY PairParts
<1>2. IsNode(left, Ours) /\ IsNode(right, Theirs)
  BY <1>1 DEF World, Node
<1>3. \A node, refs : IsNode(node, refs) /\ node.kind = "func" =>
        node.args \in Seq(refs) /\ node.results \in Seq(refs)
  BY NodeParts
<1>4. /\ left.kind = "func" => left.args \in Seq(Ours) /\ left.results \in Seq(Ours)
      /\ right.kind = "func" => right.args \in Seq(Theirs) /\ right.results \in Seq(Theirs)
  BY <1>2, <1>3
<1>5. Sole(<< >>) /\ Sole(Mismatch) /\ Sole(OptRule(side, pair[2], right.inner))
      /\ Sole(<<Visit(<<"element">>, <<side, left.inner, right.inner>>, 0)>>)
  BY AloneSole DEF Mismatch, OptRule
<1>6. /\ Sole(RecordRule(side, left.members, right.members))
      /\ Sole(VariantRule(side, left.members, right.members))
      /\ Sole(ServiceRule(side, left.members, right.members))
  BY RulesPlain, PlainSole
<1>7. left.kind = right.kind /\ left.kind = "func" => Sole(FuncRule(side, left, right))
  <2>1. left.kind = right.kind /\ left.kind = "func" => Sole(Signature(side, left, right))
    BY <1>1, <1>4, SignaturePlain, PlainSole
  <2> QED
    BY <1>5, <2>1 DEF FuncRule
<1> QED
  BY <1>5, <1>6, <1>7 DEF Obligations

\* What is asked of a pair, or of the method.
Asked(pair) == Todo([pair |-> pair])

LEMMA TodoAsked == ASSUME NEW f PROVE Todo(f) = Asked(f.pair)
BY DEF Asked, Todo

LEMMA AskedSteps ==
    ASSUME World, NEW pair \in Pair \cup {NoPair}
    PROVE  /\ Len(Asked(pair)) \in Nat /\ DOMAIN Asked(pair) = 1..Len(Asked(pair))
           /\ Apart(Asked(pair)) /\ Sole(Asked(pair))
           /\ \A i \in DOMAIN Asked(pair) : IsStep(Asked(pair)[i])
<1>1. PICK f : f = [pair |-> pair]
  OBVIOUS
<1>2. f.pair \in Pair \/ f.pair = NoPair
  BY <1>1
<1>3. Sole(MethodObligations)
  <2>1. "live" \in Side /\ Other("live") = "written" /\ "written" \in Side
    BY DEF Side, Other
  <2>2. /\ input.fn["live"].args \in Seq(DOMAIN input["live"])
        /\ input.fn["live"].results \in Seq(DOMAIN input["live"])
        /\ input.fn["written"].args \in Seq(DOMAIN input["written"])
        /\ input.fn["written"].results \in Seq(DOMAIN input["written"])
    BY <2>1 DEF World
  <2>3. PICK left, right : left = input.fn.live /\ right = input.fn.written
    OBVIOUS
  <2>4. /\ left.args \in Seq(DOMAIN input["live"]) /\ left.results \in Seq(DOMAIN input["live"])
        /\ right.args \in Seq(DOMAIN input[Other("live")])
        /\ right.results \in Seq(DOMAIN input[Other("live")])
    BY <2>1, <2>2, <2>3
  <2> QED
    BY <2>1, <2>3, <2>4, SignaturePlain, PlainSole DEF MethodObligations
<1>4. Sole(Todo(f))
  BY <1>2, <1>3, ObligationsSole, PairParts DEF Todo
<1>5. Asked(pair) = Todo(f)
  BY <1>1 DEF Asked
<1> QED
  BY <1>2, <1>4, <1>5, TodoSteps, TodoApart

-----------------------------------------------------------------------------
\* Routes: the paths, from the method or from a pair, that WarningsAreExact
\* speaks of.  After l segments a path is at From(x, l).

From(x, l) == IF l = 0 THEN NoPair ELSE x.trail[l]
Goes(o) == o.do = "visit" \/ (o.do = "probe" /\ o.pair \in Holding)
Nulls(o) == o.do = "warn" \/ (o.do = "probe" /\ o.pair \notin Holding)

\* The step by which a path goes on, or ends, after l segments.
Takes(x, l, o) ==
    IF l < Len(x.trail) THEN Goes(o) /\ x.path[l + 1] = o.seg /\ x.trail[l + 1] = o.pair
    ELSE Nulls(o)
Chosen(x, l, i) == i \in DOMAIN Asked(From(x, l)) /\ Takes(x, l, Asked(From(x, l))[i])
Via(x, l, n) == \E i : Chosen(x, l, i) /\ i < n

IsPath(x) == /\ x = [path |-> x.path, trail |-> x.trail]
             /\ IsList(x.path) /\ IsList(x.trail) /\ Len(x.path) = Len(x.trail)
Single(x, l) == \A i, j \in DOMAIN x.trail :
                   l <= i /\ l <= j /\ x.trail[i] = x.trail[j] => i = j
Known(x, l) == \A i \in DOMAIN x.trail : l <= i => x.trail[i] \in Pair
Route(x, l) == /\ IsPath(x) /\ l \in 0..Len(x.trail) /\ Single(x, l) /\ Known(x, l)
               /\ \A m \in l..Len(x.trail) : \E i : Chosen(x, m, i)

Avoids(x, l, A) == \A i \in DOMAIN x.trail : l < i => x.trail[i] \notin A
SameTail(w, m, x, l) ==
    /\ Len(w.trail) - m = Len(x.trail) - l
    /\ \A i \in 1..(Len(x.trail) - l) : w.trail[m + i] = x.trail[l + i]
                                        /\ w.path[m + i] = x.path[l + i]

LEMMA PathParts ==
    ASSUME NEW x, IsPath(x)
    PROVE  /\ Len(x.trail) \in Nat /\ DOMAIN x.trail = 1..Len(x.trail)
           /\ DOMAIN x.path = 1..Len(x.trail) /\ Len(x.path) = Len(x.trail)
BY ListParts DEF IsPath

\* Only one step can be chosen.
LEMMA OneChoice ==
    ASSUME World, NEW x, NEW l, From(x, l) \in Pair \cup {NoPair},
           NEW i, NEW j, Chosen(x, l, i), Chosen(x, l, j)
    PROVE  i = j
<1>1. PICK todo : todo = Asked(From(x, l))
  OBVIOUS
<1>2. Apart(todo) /\ Sole(todo)
  BY <1>1, AskedSteps
<1>3. i \in DOMAIN todo /\ j \in DOMAIN todo /\ Takes(x, l, todo[i]) /\ Takes(x, l, todo[j])
  BY <1>1 DEF Chosen
<1>4. CASE l < Len(x.trail)
  <2>1. Goes(todo[i]) /\ Goes(todo[j]) /\ todo[i].seg = todo[j].seg
    BY <1>3, <1>4 DEF Takes
  <2>2. CASE todo[i].do = "probe" \/ todo[j].do = "probe"
    <3>1. DOMAIN todo = {1}
      BY <1>2, <1>3, <2>2 DEF Sole
    <3> QED
      BY <1>3, <3>1
  <2>3. CASE todo[i].do = "visit" /\ todo[j].do = "visit"
    <3>1. todo[i].seg # << >>
      BY <1>2, <1>3, <2>3 DEF Apart
    <3> QED
      BY <1>2, <1>3, <2>1, <3>1 DEF Apart
  <2> QED
    BY <2>1, <2>2, <2>3 DEF Goes
<1>5. CASE ~(l < Len(x.trail))
  <2>1. todo[i].do \in {"warn", "probe"}
    BY <1>3, <1>5 DEF Takes, Nulls
  <2>2. DOMAIN todo = {1}
    BY <1>2, <1>3, <2>1 DEF Sole
  <2> QED
    BY <1>3, <2>2
<1> QED
  BY <1>4, <1>5

\* What follows a route's next step is a route.
LEMMA RouteOn ==
    ASSUME NEW x, NEW l, Route(x, l), NEW m, m \in l..Len(x.trail)
    PROVE  Route(x, m)
<1>1. Len(x.trail) \in Nat /\ l \in 0..Len(x.trail)
  BY PathParts DEF Route
<1>2. m \in 0..Len(x.trail) /\ l <= m
  BY <1>1
<1>3. \A i \in DOMAIN x.trail : m <= i => l <= i
  BY <1>1, <1>2, PathParts DEF Route
<1>4. Single(x, m) /\ Known(x, m)
  BY <1>3 DEF Route, Single, Known
<1>5. \A k \in m..Len(x.trail) : k \in l..Len(x.trail)
  BY <1>1, <1>2
<1> QED
  BY <1>2, <1>4, <1>5 DEF Route

-----------------------------------------------------------------------------
\* What the steps leave alone of a frame.

LEMMA FrameRest ==
    ASSUME NEW f, IsFrame(f)
    PROVE  /\ \A v : [f EXCEPT !.at = v].start = f.start /\ [f EXCEPT !.at = v].mark = f.mark
           /\ \A v : [f EXCEPT !.cuts = v].start = f.start /\ [f EXCEPT !.cuts = v].mark = f.mark
           /\ \A v : [f EXCEPT !.mark = v].start = f.start /\ [f EXCEPT !.mark = v].mark = v
           /\ \A v : /\ [f EXCEPT !.dependents = v].start = f.start
                     /\ [f EXCEPT !.dependents = v].mark = f.mark
BY DEF IsFrame

SameRest(old, new) == \A i \in DOMAIN new : new[i].start = old[i].start /\ new[i].mark = old[i].mark

LEMMA AlteredRest ==
    ASSUME NEW stk, Frames(stk), NEW k, NEW f,
           k \in DOMAIN stk => f.start = stk[k].start /\ f.mark = stk[k].mark
    PROVE  SameRest(stk, [stk EXCEPT ![k] = f])
<1>1. PICK new : new = [stk EXCEPT ![k] = f]
  OBVIOUS
<1>2. DOMAIN new = DOMAIN stk /\ \A i \in DOMAIN stk : new[i] = IF i = k THEN f ELSE stk[i]
  BY <1>1, Altered DEF Frames
<1> QED
  BY <1>1, <1>2 DEF SameRest

LEMMA ResumedRest ==
    ASSUME NEW stk, Frames(stk)
    PROVE  SameRest(stk, Resumed(stk))
<1>1. PICK n, v : n = Len(stk) /\ v = stk[n].at + 1
  OBVIOUS
<1>2. PICK f : f = [stk[n] EXCEPT !.at = v]
  OBVIOUS
<1>3. Resumed(stk) = [stk EXCEPT ![n] = f]
  BY <1>1, <1>2 DEF Resumed
<1>4. n \in DOMAIN stk
  BY <1>1, ListParts DEF Frames
<1>5. f.start = stk[n].start /\ f.mark = stk[n].mark
  BY <1>2, <1>4, FrameRest DEF Frames
<1>6. SameRest(stk, [stk EXCEPT ![n] = f])
  BY <1>5, AlteredRest
<1> QED
  BY <1>3, <1>6

LEMMA DependingRest ==
    ASSUME NEW stk, Frames(stk), NEW cuts
    PROVE  SameRest(stk, Depending(stk, cuts))
<1>1. PICK n, v : n = Len(stk) /\ v = stk[n].cuts \cup Below(cuts, n)
  OBVIOUS
<1>2. PICK f : f = [stk[n] EXCEPT !.cuts = v]
  OBVIOUS
<1>3. Depending(stk, cuts) = [stk EXCEPT ![n] = f]
  BY <1>1, <1>2 DEF Depending
<1>4. n \in DOMAIN stk
  BY <1>1, ListParts DEF Frames
<1>5. f.start = stk[n].start /\ f.mark = stk[n].mark
  BY <1>2, <1>4, FrameRest DEF Frames
<1>6. SameRest(stk, [stk EXCEPT ![n] = f])
  BY <1>5, AlteredRest
<1> QED
  BY <1>3, <1>6

LEMMA DependingResumedRest ==
    ASSUME NEW stk, Frames(stk), NEW cuts
    PROVE  SameRest(stk, Resumed(Depending(stk, cuts)))
<1>1. PICK mid, new : mid = Depending(stk, cuts) /\ new = Resumed(mid)
  OBVIOUS
<1>2. Frames(mid) /\ Len(mid) = Len(stk)
  BY <1>1, DependingFrames DEF CutAt
<1>3. Frames(new) /\ Len(new) = Len(mid)
  BY <1>1, <1>2, ResumedFrames
<1>4. SameRest(stk, mid) /\ SameRest(mid, new)
  BY <1>1, <1>2, DependingRest, ResumedRest
<1>5. DOMAIN mid = DOMAIN new
  BY <1>2, <1>3, ListParts DEF Frames
<1> QED
  BY <1>1, <1>4, <1>5 DEF SameRest

LEMMA MarkedRest ==
    ASSUME Frames(stack)
    PROVE  \A i \in DOMAIN stack :
              /\ Marked[i].start = stack[i].start
              /\ Marked[i].mark = IF i = Len(stack) /\ Current.do # "visit"
                                  THEN [log |-> Len(log), warnings |-> Len(warnings),
                                        truncated |-> truncated]
                                  ELSE stack[i].mark
<1>1. CASE Current.do = "visit"
  BY <1>1 DEF Marked
<1>2. CASE Current.do # "visit"
  <2>1. PICK n : n = Len(stack)
    OBVIOUS
  <2>2. n \in Nat /\ DOMAIN stack = 1..n /\ n \in DOMAIN stack
    BY <2>1, ListParts DEF Frames
  <2>3. PICK v : v = [log |-> Len(log), warnings |-> Len(warnings), truncated |-> truncated]
    OBVIOUS
  <2>4. PICK f : f = [stack[n] EXCEPT !.mark = v]
    OBVIOUS
  <2>5. PICK new : new = [stack EXCEPT ![n] = f] /\ new = Marked
    BY <1>2, <2>1, <2>3, <2>4 DEF Marked
  <2>6. f.start = stack[n].start /\ f.mark = v
    BY <2>2, <2>4, FrameRest DEF Frames
  <2>7. \A i \in DOMAIN stack : new[i] = IF i = n THEN f ELSE stack[i]
    BY <2>5, Altered DEF Frames
  <2>8. ASSUME NEW i \in DOMAIN stack
        PROVE  new[i].start = stack[i].start /\ new[i].mark = IF i = n THEN v ELSE stack[i].mark
    BY <2>6, <2>7
  <2> QED
    BY <1>2, <2>1, <2>3, <2>5, <2>8
<1> QED
  BY <1>1, <1>2

LEMMA ClosedRest ==
    ASSUME IInv, Len(stack) > 1, NEW stk, stk = Resumed(Closed(Top.cuts, Top.pair))
    PROVE  SameRest(stack, stk)
<1>1. PICK cuts, pair : cuts = Top.cuts /\ pair = Top.pair
  OBVIOUS
<1>2. PICK below : below = Front(stack)
  OBVIOUS
<1>3. PICK m : m = Len(stack) - 1
  OBVIOUS
<1>4. /\ Len(stack) \in Nat /\ m \in Nat /\ m >= 1 /\ DOMAIN stack = 1..Len(stack)
      /\ Frames(stack)
  BY <1>3, TopFacts
<1>5. Frames(below) /\ Len(below) = m /\ DOMAIN below = 1..m
      /\ \A i \in 1..m : below[i] = stack[i]
  <2>1. IsList(below) /\ Len(below) = m /\ \A i \in 1..m : below[i] = stack[i]
    BY <1>2, <1>3, <1>4, FrontList DEF Frames
  <2>2. DOMAIN below = 1..m
    BY <2>1, ListParts
  <2> QED
    BY <1>3, <1>4, <2>1, <2>2 DEF Frames
<1>6. PICK d : d = Deepest(cuts)
  OBVIOUS
<1>7. PICK f : f = [below[d] EXCEPT !.dependents = @ \cup {pair}]
  OBVIOUS
<1>8. PICK noted : noted = IF cuts = {} THEN below ELSE [below EXCEPT ![d] = f]
  OBVIOUS
<1>9. noted = IF cuts = {} THEN below
              ELSE [below EXCEPT ![Deepest(cuts)].dependents = @ \cup {pair}]
  BY <1>6, <1>7, <1>8
<1>10. d \in DOMAIN below => IsFrame(f) /\ f.start = below[d].start /\ f.mark = below[d].mark
  <2> SUFFICES ASSUME d \in DOMAIN below
               PROVE  IsFrame(f) /\ f.start = below[d].start /\ f.mark = below[d].mark
    OBVIOUS
  <2>1. PICK g, v : g = below[d] /\ v = g.dependents \cup {pair}
    OBVIOUS
  <2>2. IsFrame(g) /\ f = [g EXCEPT !.dependents = v]
    BY <1>5, <1>7, <2>1 DEF Frames
  <2>3. IsFrame(f) /\ f.start = g.start /\ f.mark = g.mark
    BY <2>2, FrameParts, FrameRest
  <2> QED
    BY <2>1, <2>3
<1>11. Frames(noted) /\ Len(noted) = m /\ DOMAIN noted = 1..m /\ SameRest(below, noted)
  <2>1. CASE cuts = {}
    BY <1>5, <1>8, <2>1 DEF SameRest
  <2>2. CASE cuts # {}
    <3>1. noted = [below EXCEPT ![d] = f]
      BY <1>8, <2>2
    <3>2. /\ IsList(noted) /\ Len(noted) = m /\ DOMAIN noted = 1..m
          /\ \A i \in 1..m : noted[i] = IF i = d THEN f ELSE below[i]
      BY <1>5, <3>1, Altered DEF Frames
    <3>3. Frames(noted)
      BY <1>4, <1>5, <1>10, <3>2 DEF Frames
    <3>4. SameRest(below, noted)
      BY <1>5, <1>10, <3>1, AlteredRest
    <3> QED
      BY <3>2, <3>3, <3>4
  <2> QED
    BY <2>1, <2>2
<1>12. stk = Resumed(Depending(noted, cuts))
  BY <1>1, <1>2, <1>9 DEF Closed
<1>13. SameRest(noted, stk) /\ Len(stk) = m /\ Frames(stk)
  BY <1>11, <1>12, DependingResumedRest, DependingResumed DEF GotPast
<1>14. DOMAIN stk = 1..m
  BY <1>13, ListParts DEF Frames
<1>15. ASSUME NEW i \in DOMAIN stk
       PROVE  stk[i].start = stack[i].start /\ stk[i].mark = stack[i].mark
  <2>1. i \in DOMAIN noted /\ below[i] = stack[i]
    BY <1>5, <1>11, <1>14
  <2> QED
    BY <1>11, <1>13, <2>1 DEF SameRest
<1> QED
  BY <1>15 DEF SameRest

-----------------------------------------------------------------------------
\* What the walk claims of the warnings it kept, of the first K frames of a
\* stack, the first N warnings and the proofs of D, if the pairs it is inside of
\* hold.

Sure(stk, K) == \A i \in 2..K : stk[i].pair \in Holding

\* A warning took the steps up to frame k, and then one the frame got past.
Agrees(w, stk, k) ==
    /\ Len(w.trail) >= k - 1
    /\ \A i \in 1..(k - 1) : w.trail[i] = stk[i + 1].pair
                             /\ w.path[i] = Todo(stk[i])[stk[i].at].seg
Belongs(w, j, stk, K, k) == /\ Agrees(w, stk, k) /\ Via(w, k - 1, stk[k].at)
                            /\ \A i \in 1..K : stk[i].start < j => i <= k
Sound(stk, K, wrn, N) ==
    \A j \in 1..N : Route(wrn[j], 0) /\ \E k \in 1..K : Belongs(wrn[j], j, stk, K, k)

Distinct(wrn, N) == \A i, j \in 1..N : wrn[i] = wrn[j] => i = j
Begun(stk, K, N) == /\ \A k \in 1..K : stk[k].start \in 0..N
                    /\ \A i, k \in 1..K : i <= k => stk[i].start <= stk[k].start

\* The warnings of a proof lead to its pair, all along the same segments.
IsRecord(r, pair, K, wrn, N) ==
    /\ r.start \in Nat /\ r.end \in 0..N /\ r.prefix \in Nat \ {0} /\ r.cuts \subseteq 2..K
    /\ \A j \in (r.start + 1)..r.end :
          /\ Len(wrn[j].trail) >= r.prefix /\ wrn[j].trail[r.prefix] = pair
          /\ \A i \in (r.start + 1)..r.end : \A h \in 1..r.prefix :
                wrn[i].trail[h] = wrn[j].trail[h] /\ wrn[i].path[h] = wrn[j].path[h]
Recorded(K, wrn, N, prv, D) == \A pair \in D : IsRecord(prv[pair], pair, K, wrn, N)

\* Past the bound, a route is missing.
Missing(wrn, N) == \E w : Route(w, 0) /\ \A j \in 1..N : wrn[j] # w
Bounded(wrn, N, trunc) == N <= MaxWarnings /\ (trunc => N >= MaxWarnings /\ Missing(wrn, N))

\* Up to the bound, none is that avoids the pairs where the walk was cut.
Covered(pair, cutPairs, x, l) == /\ Route(x, l) /\ From(x, l) = pair
                                 /\ Avoids(x, l, cutPairs)
Complete(stk, K, wrn, N) ==
    \A k \in 1..K : \A x, l :
       Covered(stk[k].pair, PairsAt(stk, stk[k].cuts), x, l) /\ Via(x, l, stk[k].at) =>
          \E j \in 1..N : stk[k].start < j /\ SameTail(wrn[j], k - 1, x, l)
Repeatable(stk, wrn, prv, D) ==
    \A pair \in D : \A x, l :
       Covered(pair, PairsAt(stk, prv[pair].cuts), x, l) =>
          \E j \in (prv[pair].start + 1)..prv[pair].end : SameTail(wrn[j], prv[pair].prefix, x, l)

Claims(stk, K, wrn, N, prv, D, trunc) ==
    Sure(stk, K) =>
       /\ Sound(stk, K, wrn, N) /\ Distinct(wrn, N) /\ Begun(stk, K, N)
       /\ Recorded(K, wrn, N, prv, D) /\ Bounded(wrn, N, trunc)
       /\ ~trunc => Complete(stk, K, wrn, N) /\ Repeatable(stk, wrn, prv, D)

\* The frames that wait at a probe, and the proofs that its failure would leave.
Saved(stk, flag) == {k \in 1..Len(stk) : AtProbe(stk[k]) /\ (k < Len(stk) \/ flag)}
Spared(prv, lg, from) == {pair \in DOMAIN prv : \A i \in (from + 1)..Len(lg) : lg[i] # pair}

Once(stk) == \A i, j \in 2..Len(stk) : stk[i].pair = stk[j].pair => i = j
Doubted(stk, flag) ==
    flag /\ AtProbe(stk[Len(stk)]) => Todo(stk[Len(stk)])[stk[Len(stk)].at].pair \notin Holding
Before(mark, other) == mark.log <= other.log /\ mark.warnings <= other.warnings
SavedClaims(stk, k, wrn, prv, lg) ==
    Claims(stk, k, wrn, stk[k].mark.warnings, prv, Spared(prv, lg, stk[k].mark.log),
           stk[k].mark.truncated)
SavedAt(stk, T, wrn, prv, lg) ==
    \A k \in T : /\ stk[k].mark.log \in 0..Len(lg) /\ stk[k].mark.warnings \in 0..Len(wrn)
                 /\ \A i \in T : k < i => Before(stk[k].mark, stk[i].mark)
                 /\ SavedClaims(stk, k, wrn, prv, lg)

Counted(stk, prv) ==
    /\ \A i \in DOMAIN stk : stk[i].start \in Nat
    /\ \A pair \in DOMAIN prv :
          prv[pair].start \in Nat /\ prv[pair].end \in Nat /\ prv[pair].prefix \in Nat

Warning(stk, wrn, prv, lg, trunc, flag) ==
    /\ Once(stk) /\ Doubted(stk, flag) /\ IsList(lg) /\ IsList(wrn) /\ Counted(stk, prv)
    /\ ~flag => Claims(stk, Len(stk), wrn, Len(wrn), prv, DOMAIN prv, trunc)
    /\ SavedAt(stk, Saved(stk, flag), wrn, prv, lg)

Ended(verdict, stk, flag) ==
    verdict = "compatible" => Len(stk) = 1 /\ stk[1].at > Len(Todo(stk[1])) /\ ~flag

WarningInv ==
    /\ FailureInv /\ Ended(outcome, stack, failing) /\ MaxWarnings \in Nat
    /\ outcome \in {"running", "compatible"} =>
          Warning(stack, warnings, proven, log, truncated, failing)

-----------------------------------------------------------------------------
\* The claims speak of no more than the first frames, warnings and proofs.

SamePairs(old, new, K) == \A i \in 1..K : new[i].pair = old[i].pair
SameFrames(old, new, K) ==
    \A i \in 1..K : /\ new[i].pair = old[i].pair /\ new[i].at = old[i].at
                    /\ new[i].start = old[i].start /\ new[i].cuts = old[i].cuts
CutsBelow(stk, K) == \A k \in 1..K : stk[k].cuts \subseteq 2..(k - 1)
Shared(old, new, wrn, wrn2, K, N) == /\ SameFrames(old, new, K) /\ CutsBelow(old, K)
                                     /\ \A j \in 1..N : wrn2[j] = wrn[j]
Fewer(prv, D, prv2, D2) == D2 \subseteq D /\ \A pair \in D2 : prv2[pair] = prv[pair]

LEMMA AgreesSame ==
    ASSUME NEW w, NEW old, NEW new, NEW k \in Nat, Agrees(w, old, k),
           \A i \in 1..k : new[i].pair = old[i].pair,
           \A i \in 1..(k - 1) : new[i].at = old[i].at
    PROVE  Agrees(w, new, k)
<1>1. ASSUME NEW i \in 1..(k - 1)
      PROVE  w.trail[i] = new[i + 1].pair /\ w.path[i] = Todo(new[i])[new[i].at].seg
  <2>1. i \in 1..k /\ i + 1 \in 1..k
    OBVIOUS
  <2>2. w.trail[i] = old[i + 1].pair /\ w.path[i] = Todo(old[i])[old[i].at].seg
    BY DEF Agrees
  <2>3. Todo(new[i]) = Todo(old[i])
    BY <2>1, SameTodo
  <2> QED
    BY <2>1, <2>2, <2>3
<1> QED
  BY <1>1 DEF Agrees

LEMMA PairsAtSame ==
    ASSUME NEW old, NEW new, NEW K, SamePairs(old, new, K), NEW cuts, cuts \subseteq 1..K
    PROVE  PairsAt(new, cuts) = PairsAt(old, cuts)
<1>1. \A i \in cuts : new[i].pair = old[i].pair
  BY DEF SamePairs
<1> QED
  BY <1>1 DEF PairsAt

LEMMA SureSame ==
    ASSUME NEW old, NEW new, NEW K \in Nat, SamePairs(old, new, K), Sure(new, K)
    PROVE  Sure(old, K)
<1>1. \A i \in 2..K : i \in 1..K
  OBVIOUS
<1> QED
  BY <1>1 DEF Sure, SamePairs

LEMMA SoundSame ==
    ASSUME NEW old, NEW new, NEW wrn, NEW wrn2, NEW K \in Nat, NEW N \in Nat,
           Shared(old, new, wrn, wrn2, K, N), Sound(old, K, wrn, N)
    PROVE  Sound(new, K, wrn2, N)
<1>1. SameFrames(old, new, K) /\ \A j \in 1..N : wrn2[j] = wrn[j]
  BY DEF Shared
<1>2. ASSUME NEW j \in 1..N
      PROVE  Route(wrn2[j], 0) /\ \E k \in 1..K : Belongs(wrn2[j], j, new, K, k)
  <2>1. PICK w : w = wrn[j] /\ w = wrn2[j]
    BY <1>1
  <2>2. Route(w, 0)
    BY <2>1 DEF Sound
  <2>3. PICK k \in 1..K : Belongs(w, j, old, K, k)
    BY <2>1 DEF Sound
  <2>4. k \in Nat /\ \A i \in 1..k : i \in 1..K
    OBVIOUS
  <2>5. \A i \in 1..(k - 1) : i \in 1..k
    OBVIOUS
  <2>6. Agrees(w, new, k)
    BY <1>1, <2>3, <2>4, <2>5, AgreesSame DEF Belongs, SameFrames
  <2>7. Belongs(w, j, new, K, k)
    BY <1>1, <2>3, <2>6 DEF Belongs, SameFrames
  <2> QED
    BY <2>1, <2>2, <2>7
<1> QED
  BY <1>2 DEF Sound

LEMMA RecordSame ==
    ASSUME NEW r, NEW pair, NEW K \in Nat, NEW N \in Nat, NEW wrn, NEW wrn2,
           \A j \in 1..N : wrn2[j] = wrn[j], IsRecord(r, pair, K, wrn, N)
    PROVE  IsRecord(r, pair, K, wrn2, N)
<1>1. /\ r.start \in Nat /\ r.end \in 0..N /\ r.prefix \in Nat \ {0} /\ r.cuts \subseteq 2..K
      /\ \A j \in (r.start + 1)..r.end :
            /\ Len(wrn[j].trail) >= r.prefix /\ wrn[j].trail[r.prefix] = pair
            /\ \A i \in (r.start + 1)..r.end : \A h \in 1..r.prefix :
                  wrn[i].trail[h] = wrn[j].trail[h] /\ wrn[i].path[h] = wrn[j].path[h]
  BY DEF IsRecord
<1>2. \A j \in (r.start + 1)..r.end : j \in 1..N
  BY <1>1
<1>3. \A j \in (r.start + 1)..r.end : wrn2[j] = wrn[j]
  BY <1>2
<1>4. ASSUME NEW j \in (r.start + 1)..r.end
      PROVE  /\ Len(wrn2[j].trail) >= r.prefix /\ wrn2[j].trail[r.prefix] = pair
             /\ \A i \in (r.start + 1)..r.end : \A h \in 1..r.prefix :
                   wrn2[i].trail[h] = wrn2[j].trail[h] /\ wrn2[i].path[h] = wrn2[j].path[h]
  <2>1. wrn2[j] = wrn[j]
    BY <1>3
  <2>2. ASSUME NEW i \in (r.start + 1)..r.end, NEW h \in 1..r.prefix
        PROVE  wrn2[i].trail[h] = wrn2[j].trail[h] /\ wrn2[i].path[h] = wrn2[j].path[h]
    <3>1. wrn2[i] = wrn[i]
      BY <1>3
    <3>2. wrn[i].trail[h] = wrn[j].trail[h] /\ wrn[i].path[h] = wrn[j].path[h]
      BY <1>1
    <3> QED
      BY <2>1, <3>1, <3>2
  <2>3. Len(wrn[j].trail) >= r.prefix /\ wrn[j].trail[r.prefix] = pair
    BY <1>1
  <2> QED
    BY <2>1, <2>2, <2>3
<1> QED
  BY <1>1, <1>4 DEF IsRecord

LEMMA CompleteSame ==
    ASSUME NEW old, NEW new, NEW wrn, NEW wrn2, NEW K \in Nat, NEW N \in Nat,
           Shared(old, new, wrn, wrn2, K, N), Complete(old, K, wrn, N)
    PROVE  Complete(new, K, wrn2, N)
<1>1. SameFrames(old, new, K) /\ \A j \in 1..N : wrn2[j] = wrn[j]
  BY DEF Shared
<1>2. ASSUME NEW k \in 1..K, NEW x, NEW l,
             Covered(new[k].pair, PairsAt(new, new[k].cuts), x, l), Via(x, l, new[k].at)
      PROVE  \E j \in 1..N : new[k].start < j /\ SameTail(wrn2[j], k - 1, x, l)
  <2>1. PICK f, g : f = old[k] /\ g = new[k]
    OBVIOUS
  <2>2. g.pair = f.pair /\ g.at = f.at /\ g.start = f.start /\ g.cuts = f.cuts
    BY <1>1, <2>1 DEF SameFrames
  <2>3. f.cuts \subseteq 1..K
    <3>1. f.cuts \subseteq 2..(k - 1)
      BY <2>1 DEF Shared, CutsBelow
    <3> QED
      BY <3>1
  <2>4. PairsAt(new, g.cuts) = PairsAt(old, f.cuts)
    <3>1. SamePairs(old, new, K)
      BY <1>1 DEF SameFrames, SamePairs
    <3> QED
      BY <2>2, <2>3, <3>1, PairsAtSame
  <2>5. Covered(f.pair, PairsAt(old, f.cuts), x, l) /\ Via(x, l, f.at)
    BY <1>2, <2>1, <2>2, <2>4
  <2>6. PICK j \in 1..N : f.start < j /\ SameTail(wrn[j], k - 1, x, l)
    BY <2>1, <2>5 DEF Complete
  <2>7. wrn2[j] = wrn[j]
    BY <1>1
  <2> QED
    BY <2>1, <2>2, <2>6, <2>7
<1> QED
  BY <1>2 DEF Complete

LEMMA RepeatableSame ==
    ASSUME NEW old, NEW new, NEW wrn, NEW wrn2, NEW K \in Nat, NEW N \in Nat,
           NEW prv, NEW prv2, NEW D, NEW D2,
           SamePairs(old, new, K), \A j \in 1..N : wrn2[j] = wrn[j], Fewer(prv, D, prv2, D2),
           Recorded(K, wrn, N, prv, D), Repeatable(old, wrn, prv, D)
    PROVE  Repeatable(new, wrn2, prv2, D2)
<1>2. ASSUME NEW pair \in D2, NEW x, NEW l, Covered(pair, PairsAt(new, prv2[pair].cuts), x, l)
      PROVE  \E j \in (prv2[pair].start + 1)..prv2[pair].end :
                SameTail(wrn2[j], prv2[pair].prefix, x, l)
  <2>1. PICK r : r = prv[pair]
    OBVIOUS
  <2>2. pair \in D /\ prv2[pair] = r
    BY <2>1 DEF Fewer
  <2>3. r.start \in Nat /\ r.end \in 0..N /\ r.cuts \subseteq 2..K
    BY <2>1, <2>2 DEF Recorded, IsRecord
  <2>4. r.cuts \subseteq 1..K
    BY <2>3
  <2>5. PairsAt(new, r.cuts) = PairsAt(old, r.cuts)
    BY <2>4, PairsAtSame
  <2>6. PICK j \in (r.start + 1)..r.end : SameTail(wrn[j], r.prefix, x, l)
    BY <1>2, <2>1, <2>2, <2>5 DEF Repeatable
  <2>7. j \in 1..N
    BY <2>3, <2>6
  <2>8. wrn2[j] = wrn[j]
    BY <2>7
  <2> QED
    BY <2>2, <2>6, <2>8
<1> QED
  BY <1>2 DEF Repeatable

LEMMA MissingSame ==
    ASSUME NEW wrn, NEW wrn2, NEW N, \A j \in 1..N : wrn2[j] = wrn[j], Missing(wrn, N)
    PROVE  Missing(wrn2, N)
BY DEF Missing

LEMMA ClaimsSame ==
    ASSUME NEW old, NEW new, NEW wrn, NEW wrn2, NEW K \in Nat, NEW N \in Nat,
           NEW prv, NEW prv2, NEW D, NEW D2, NEW trunc,
           Shared(old, new, wrn, wrn2, K, N), Fewer(prv, D, prv2, D2),
           Claims(old, K, wrn, N, prv, D, trunc)
    PROVE  Claims(new, K, wrn2, N, prv2, D2, trunc)
<1> SUFFICES ASSUME Sure(new, K)
             PROVE  /\ Sound(new, K, wrn2, N) /\ Distinct(wrn2, N) /\ Begun(new, K, N)
                    /\ Recorded(K, wrn2, N, prv2, D2) /\ Bounded(wrn2, N, trunc)
                    /\ ~trunc => Complete(new, K, wrn2, N) /\ Repeatable(new, wrn2, prv2, D2)
  BY DEF Claims
<1>1. SameFrames(old, new, K) /\ \A j \in 1..N : wrn2[j] = wrn[j]
  BY DEF Shared
<1>10. SamePairs(old, new, K)
  BY <1>1 DEF SameFrames, SamePairs
<1>2. Sure(old, K)
  BY <1>10, SureSame
<1>3. /\ Sound(old, K, wrn, N) /\ Distinct(wrn, N) /\ Begun(old, K, N)
      /\ Recorded(K, wrn, N, prv, D) /\ Bounded(wrn, N, trunc)
      /\ ~trunc => Complete(old, K, wrn, N) /\ Repeatable(old, wrn, prv, D)
  BY <1>2 DEF Claims
<1>4. Sound(new, K, wrn2, N)
  BY <1>3, SoundSame
<1>5. Distinct(wrn2, N)
  BY <1>1, <1>3 DEF Distinct
<1>6. Begun(new, K, N)
  BY <1>1, <1>3 DEF Begun, SameFrames
<1>7. Recorded(K, wrn2, N, prv2, D2)
  <2>1. ASSUME NEW pair \in D2
        PROVE  IsRecord(prv2[pair], pair, K, wrn2, N)
    <3>1. pair \in D /\ prv2[pair] = prv[pair]
      BY DEF Fewer
    <3>2. IsRecord(prv[pair], pair, K, wrn, N)
      BY <1>3, <3>1 DEF Recorded
    <3> QED
      BY <1>1, <3>1, <3>2, RecordSame
  <2> QED
    BY <2>1 DEF Recorded
<1>8. Bounded(wrn2, N, trunc)
  BY <1>1, <1>3, MissingSame DEF Bounded
<1>9. ASSUME ~trunc
      PROVE  Complete(new, K, wrn2, N) /\ Repeatable(new, wrn2, prv2, D2)
  BY <1>1, <1>3, <1>9, <1>10, CompleteSame, RepeatableSame
<1> QED
  BY <1>4, <1>5, <1>6, <1>7, <1>8, <1>9

-----------------------------------------------------------------------------
\* A warning that took the steps of the walks in progress.

LEMMA AgreesFrom ==
    ASSUME NEW stk, Framed(stk), NEW n \in Nat, NEW w, Agrees(w, stk, n), NEW k \in 1..n
    PROVE  From(w, k - 1) = stk[k].pair
<1>1. CASE k = 1
  BY <1>1 DEF From, Framed
<1>2. CASE k # 1
  <2>1. k - 1 \in 1..(n - 1) /\ (k - 1) + 1 = k /\ k - 1 # 0
    BY <1>2
  <2>2. PICK i \in 1..(n - 1) : i = k - 1 /\ i + 1 = k
    BY <2>1
  <2>3. w.trail[i] = stk[i + 1].pair
    BY <2>2 DEF Agrees
  <2> QED
    BY <2>1, <2>2, <2>3 DEF From
<1> QED
  BY <1>1, <1>2

LEMMA FrameAsked ==
    ASSUME World, NEW stk, Framed(stk), NEW k \in DOMAIN stk
    PROVE  /\ stk[k].pair \in Pair \cup {NoPair} /\ Todo(stk[k]) = Asked(stk[k].pair)
           /\ Len(Todo(stk[k])) \in Nat /\ DOMAIN Todo(stk[k]) = 1..Len(Todo(stk[k]))
           /\ stk[k].at \in 1..(Len(Todo(stk[k])) + 1) /\ stk[k].at \in Nat
           /\ \A i \in DOMAIN Todo(stk[k]) : IsStep(Todo(stk[k])[i])
<1>1. DOMAIN stk = 1..Len(stk) /\ Len(stk) \in Nat
  BY ListParts DEF Framed
<1>2. k = 1 \/ k > 1
  BY <1>1
<1>3. stk[k].pair \in Pair \/ stk[k].pair = NoPair
  BY <1>2 DEF Framed
<1>4. /\ Len(Todo(stk[k])) \in Nat /\ DOMAIN Todo(stk[k]) = 1..Len(Todo(stk[k]))
      /\ \A i \in DOMAIN Todo(stk[k]) : IsStep(Todo(stk[k])[i])
  BY <1>3, TodoSteps
<1>5. stk[k].at \in 1..(Len(Todo(stk[k])) + 1)
  BY DEF Framed
<1> QED
  BY <1>3, <1>4, <1>5, TodoAsked

\* The step a walk waits at, if the pairs of the stack hold.
LEMMA WaitsAt ==
    ASSUME World, NEW stk, Framed(stk), Linked(stk), NEW n \in Nat, n <= Len(stk), Sure(stk, n),
           NEW k \in 1..(n - 1)
    PROVE  /\ stk[k].at \in DOMAIN Todo(stk[k]) /\ Goes(Todo(stk[k])[stk[k].at])
           /\ Todo(stk[k])[stk[k].at].pair = stk[k + 1].pair
           /\ k \in DOMAIN stk /\ k + 1 \in DOMAIN stk
<1>1. DOMAIN stk = 1..Len(stk) /\ Len(stk) \in Nat
  BY ListParts DEF Framed
<1>2. k \in DOMAIN stk /\ k \in 1..(Len(stk) - 1) /\ k + 1 \in 2..n /\ k + 1 \in DOMAIN stk
  BY <1>1
<1>3. Awaits(stk[k], stk[k + 1].pair)
  BY <1>2 DEF Linked
<1>4. stk[k].at \in DOMAIN Todo(stk[k])
  BY <1>2, <1>3, FrameAsked DEF Awaits
<1>5. stk[k + 1].pair \in Holding
  BY <1>2 DEF Sure
<1> QED
  BY <1>2, <1>3, <1>4, <1>5 DEF Awaits, Goes

LEMMA AgreesChosen ==
    ASSUME World, NEW stk, Framed(stk), Linked(stk), NEW n \in Nat, n <= Len(stk), Sure(stk, n),
           NEW w, Agrees(w, stk, n), NEW k \in 1..(n - 1)
    PROVE  Chosen(w, k - 1, stk[k].at)
<1>1. From(w, k - 1) = stk[k].pair
  BY AgreesFrom
<1>2. PICK i, todo : i = stk[k].at /\ todo = Todo(stk[k])
  OBVIOUS
<1>3. i \in DOMAIN todo /\ Goes(todo[i]) /\ todo[i].pair = stk[k + 1].pair /\ k \in DOMAIN stk
  BY <1>2, WaitsAt
<1>4. Asked(From(w, k - 1)) = todo
  BY <1>1, <1>2, <1>3, FrameAsked
<1>5. Len(w.trail) >= n - 1 /\ w.trail[k] = stk[k + 1].pair /\ w.path[k] = todo[i].seg
  BY <1>2 DEF Agrees
<1>6. Takes(w, k - 1, todo[i])
  <2>1. PICK l : l = k - 1
    OBVIOUS
  <2>2. l + 1 = k
    BY <2>1
  <2> QED
    BY <1>3, <1>5, <2>1, <2>2 DEF Takes
<1> QED
  BY <1>2, <1>3, <1>4, <1>6 DEF Chosen

\* None that goes on by the step the top is at was kept before.
LEMMA NotAgain ==
    ASSUME World, NEW stk, Framed(stk), Linked(stk), NEW n \in Nat, n <= Len(stk), Sure(stk, n),
           NEW wrn, NEW N, Sound(stk, n, wrn, N), NEW w, Agrees(w, stk, n),
           Chosen(w, n - 1, stk[n].at)
    PROVE  \A j \in 1..N : wrn[j] # w
<1> SUFFICES ASSUME NEW j \in 1..N, wrn[j] = w PROVE FALSE
  OBVIOUS
<1>1. PICK k \in 1..n : Belongs(w, j, stk, n, k)
  BY DEF Sound
<1>2. PICK i : Chosen(w, k - 1, i) /\ i < stk[k].at
  BY <1>1 DEF Belongs, Via
<1>3. DOMAIN stk = 1..Len(stk) /\ Len(stk) \in Nat
  BY ListParts DEF Framed
<1>4. k \in DOMAIN stk
  BY <1>3
<1>5. From(w, k - 1) = stk[k].pair
  BY AgreesFrom
<1>6. Chosen(w, k - 1, stk[k].at)
  <2>1. CASE k = n
    BY <2>1
  <2>2. CASE k # n
    <3>1. k \in 1..(n - 1)
      BY <2>2
    <3> QED
      BY <3>1, AgreesChosen
  <2> QED
    BY <2>1, <2>2
<1>7. From(w, k - 1) \in Pair \cup {NoPair} /\ stk[k].at \in Nat
  BY <1>4, <1>5, FrameAsked
<1>8. i = stk[k].at
  BY <1>2, <1>6, <1>7, OneChoice
<1> QED
  BY <1>2, <1>7, <1>8

LEMMA FrameRouted ==
    ASSUME World, NEW stk, Framed(stk), NEW k \in DOMAIN stk, NEW A, NEW x, NEW l,
           Covered(stk[k].pair, A, x, l)
    PROVE  /\ Len(x.trail) \in Nat /\ l \in 0..Len(x.trail) /\ DOMAIN x.trail = 1..Len(x.trail)
           /\ (k = 1 <=> l = 0) /\ Asked(From(x, l)) = Todo(stk[k])
           /\ k > 1 => l \in 1..Len(x.trail) /\ x.trail[l] = stk[k].pair
<1>1. /\ Route(x, l) /\ From(x, l) = stk[k].pair
  BY DEF Covered
<1>2. /\ Len(x.trail) \in Nat /\ l \in 0..Len(x.trail) /\ DOMAIN x.trail = 1..Len(x.trail)
      /\ Known(x, l)
  BY <1>1, PathParts DEF Route
<1>3. DOMAIN stk = 1..Len(stk) /\ Len(stk) \in Nat
  BY ListParts DEF Framed
<1>4. NoPair \notin Pair
  BY PairParts
<1>5. k = 1 => stk[k].pair = NoPair
  BY DEF Framed
<1>6. k # 1 => stk[k].pair \in Pair /\ k > 1
  BY <1>3 DEF Framed
<1>7. l # 0 => l \in DOMAIN x.trail /\ From(x, l) = x.trail[l] /\ x.trail[l] \in Pair
  BY <1>2 DEF From, Known
<1>8. l = 0 => From(x, l) = NoPair
  BY DEF From
<1>9. Asked(From(x, l)) = Todo(stk[k])
  BY <1>1, FrameAsked
<1> QED
  BY <1>1, <1>2, <1>3, <1>4, <1>5, <1>6, <1>7, <1>8, <1>9

-----------------------------------------------------------------------------
\* The top gets past its step, and keeps the warnings that go on by it.

Fresh(stk, n, wrn2, N, N2) ==
    /\ \A j \in (N + 1)..N2 : /\ Route(wrn2[j], 0) /\ Agrees(wrn2[j], stk, n)
                              /\ Chosen(wrn2[j], n - 1, stk[n].at)
    /\ \A i, j \in (N + 1)..N2 : wrn2[i] = wrn2[j] => i = j
Caught(stk, n, cutPairs, wrn2, N, N2) ==
    \A x, l : Covered(stk[n].pair, cutPairs, x, l) /\ Chosen(x, l, stk[n].at) =>
       \E j \in (N + 1)..N2 : SameTail(wrn2[j], n - 1, x, l)
Extends(wrn, N, wrn2, N2) == N2 >= N /\ \A j \in 1..N : wrn2[j] = wrn[j]

\* What getting past a step changes.
PastTop(stk, new, n) ==
    /\ Framed(stk) /\ Linked(stk) /\ n = Len(stk) /\ SamePairs(stk, new, n)
    /\ \A i \in 1..n : new[i].start = stk[i].start
    /\ \A i \in 1..(n - 1) : new[i].at = stk[i].at /\ new[i].cuts = stk[i].cuts
    /\ new[n].at = stk[n].at + 1 /\ stk[n].cuts \subseteq new[n].cuts
    /\ new[n].cuts \subseteq 2..(n - 1)

LEMMA AdvancedSound ==
    ASSUME World, NEW stk, NEW new, NEW n \in Nat, PastTop(stk, new, n), n >= 1,
           NEW wrn, NEW wrn2, NEW N \in Nat, NEW N2 \in Nat, Extends(wrn, N, wrn2, N2),
           Sound(stk, n, wrn, N), Fresh(stk, n, wrn2, N, N2)
    PROVE  Sound(new, n, wrn2, N2)
<1>1. DOMAIN stk = 1..n /\ Framed(stk)
  BY ListParts DEF Framed, PastTop
<1>2. stk[n].at \in Nat
  BY <1>1, FrameAsked
<1>3. ASSUME NEW k \in 1..n, NEW w, NEW j, Belongs(w, j, stk, n, k)
      PROVE  Belongs(w, j, new, n, k)
  <2>1. \A i \in 1..k : i \in 1..n
    OBVIOUS
  <2>2. \A i \in 1..(k - 1) : i \in 1..(n - 1)
    OBVIOUS
  <2>3. Agrees(w, new, k)
    <3>1. k \in Nat /\ Agrees(w, stk, k)
      BY <1>3 DEF Belongs
    <3>2. \A i \in 1..k : new[i].pair = stk[i].pair
      BY <2>1 DEF PastTop, SamePairs
    <3>3. \A i \in 1..(k - 1) : new[i].at = stk[i].at
      BY <2>2 DEF PastTop
    <3> QED
      BY <3>1, <3>2, <3>3, AgreesSame
  <2>4. Via(w, k - 1, new[k].at)
    <3>1. PICK i : Chosen(w, k - 1, i) /\ i < stk[k].at
      BY <1>3 DEF Belongs, Via
    <3>2. CASE k = n
      <4>1. From(w, k - 1) = stk[k].pair /\ k \in DOMAIN stk
        BY <1>1, <1>3, <3>2, AgreesFrom DEF Belongs
      <4>2. DOMAIN Asked(From(w, k - 1)) = 1..Len(Todo(stk[k])) /\ Len(Todo(stk[k])) \in Nat
        BY <1>1, <4>1, FrameAsked
      <4>3. i \in Nat
        BY <3>1, <4>2 DEF Chosen
      <4>4. new[n].at = stk[n].at + 1
        BY DEF PastTop
      <4>5. i < new[k].at
        BY <1>2, <3>1, <3>2, <4>3, <4>4
      <4> QED
        BY <3>1, <4>5 DEF Via
    <3>3. CASE k # n
      <4>1. k \in 1..(n - 1)
        BY <3>3
      <4>2. new[k].at = stk[k].at
        BY <4>1 DEF PastTop
      <4> QED
        BY <3>1, <4>2 DEF Via
    <3> QED
      BY <3>2, <3>3
  <2>5. \A i \in 1..n : new[i].start < j => i <= k
    <3>1. \A i \in 1..n : stk[i].start < j => i <= k
      BY <1>3 DEF Belongs
    <3> QED
      BY <3>1 DEF PastTop
  <2> QED
    BY <2>3, <2>4, <2>5 DEF Belongs
<1>4. ASSUME NEW j \in 1..N2
      PROVE  Route(wrn2[j], 0) /\ \E k \in 1..n : Belongs(wrn2[j], j, new, n, k)
  <2>1. CASE j \in 1..N
    <3>1. wrn2[j] = wrn[j]
      BY <2>1 DEF Extends
    <3>2. Route(wrn[j], 0) /\ \E k \in 1..n : Belongs(wrn[j], j, stk, n, k)
      BY <2>1 DEF Sound
    <3> QED
      BY <1>3, <3>1, <3>2
  <2>2. CASE j \notin 1..N
    <3>1. PICK w : w = wrn2[j]
      OBVIOUS
    <3>2. j \in (N + 1)..N2
      BY <2>2
    <3>3. Route(w, 0) /\ Agrees(w, stk, n) /\ Chosen(w, n - 1, stk[n].at)
      BY <3>1, <3>2 DEF Fresh
    <3>4. Agrees(w, new, n)
      BY <3>3, AgreesSame DEF PastTop, SamePairs
    <3>5. Via(w, n - 1, new[n].at)
      BY <1>2, <3>3 DEF PastTop, Via
    <3>6. n \in 1..n /\ Belongs(w, j, new, n, n)
      BY <3>4, <3>5 DEF Belongs
    <3> QED
      BY <3>1, <3>3, <3>6
  <2> QED
    BY <2>1, <2>2
<1> QED
  BY <1>4 DEF Sound

LEMMA AdvancedComplete ==
    ASSUME World, NEW stk, NEW new, NEW n \in Nat, PastTop(stk, new, n), n >= 1,
           NEW wrn, NEW wrn2, NEW N \in Nat, NEW N2 \in Nat, Extends(wrn, N, wrn2, N2),
           Begun(stk, n, N), Complete(stk, n, wrn, N),
           Caught(stk, n, PairsAt(new, new[n].cuts), wrn2, N, N2)
    PROVE  Complete(new, n, wrn2, N2)
<1>1. DOMAIN stk = 1..n /\ Framed(stk)
  BY ListParts DEF Framed, PastTop
<1>2. stk[n].at \in Nat
  BY <1>1, FrameAsked
<1>3. \A i \in 1..n : stk[i].cuts \subseteq 2..(i - 1)
  BY <1>1 DEF Framed
<1>4. ASSUME NEW k \in 1..n, NEW x, NEW l,
             Covered(new[k].pair, PairsAt(new, new[k].cuts), x, l), Via(x, l, stk[k].at)
      PROVE  \E j \in 1..N2 : new[k].start < j /\ SameTail(wrn2[j], k - 1, x, l)
  <2>1. new[k].pair = stk[k].pair /\ new[k].start = stk[k].start
    BY DEF PastTop, SamePairs
  <2>2. stk[k].cuts \subseteq new[k].cuts /\ stk[k].cuts \subseteq 1..n
    <3>1. stk[k].cuts \subseteq 1..n
      <4>1. stk[k].cuts \subseteq 2..(k - 1)
        BY <1>3
      <4> QED
        BY <4>1
    <3>2. CASE k = n
      BY <3>1, <3>2 DEF PastTop
    <3>3. CASE k # n
      <4>1. k \in 1..(n - 1)
        BY <3>3
      <4> QED
        BY <3>1, <4>1 DEF PastTop
    <3> QED
      BY <3>2, <3>3
  <2>3. PairsAt(stk, stk[k].cuts) \subseteq PairsAt(new, new[k].cuts)
    <3>1. \A i \in stk[k].cuts : i \in new[k].cuts /\ new[i].pair = stk[i].pair
      BY <2>2 DEF PastTop, SamePairs
    <3> QED
      BY <3>1 DEF PairsAt
  <2>4. Covered(stk[k].pair, PairsAt(stk, stk[k].cuts), x, l)
    BY <1>4, <2>1, <2>3 DEF Covered, Avoids
  <2>5. PICK j \in 1..N : stk[k].start < j /\ SameTail(wrn[j], k - 1, x, l)
    BY <1>4, <2>4 DEF Complete
  <2>6. j \in 1..N2 /\ wrn2[j] = wrn[j]
    BY DEF Extends
  <2> QED
    BY <2>1, <2>5, <2>6
<1>5. ASSUME NEW k \in 1..n, NEW x, NEW l,
             Covered(new[k].pair, PairsAt(new, new[k].cuts), x, l), Via(x, l, new[k].at)
      PROVE  \E j \in 1..N2 : new[k].start < j /\ SameTail(wrn2[j], k - 1, x, l)
  <2>1. CASE Via(x, l, stk[k].at)
    BY <1>4, <1>5, <2>1
  <2>2. CASE ~Via(x, l, stk[k].at)
    <3>1. PICK i : Chosen(x, l, i) /\ i < new[k].at
      BY <1>5 DEF Via
    <3>2. k = n
      <4> SUFFICES ASSUME k # n PROVE FALSE
        OBVIOUS
      <4>1. k \in 1..(n - 1)
        OBVIOUS
      <4>2. new[k].at = stk[k].at
        BY <4>1 DEF PastTop
      <4> QED
        BY <2>2, <3>1, <4>2 DEF Via
    <3>3. Covered(stk[n].pair, PairsAt(new, new[n].cuts), x, l) /\ n \in DOMAIN stk
      BY <1>1, <1>5, <3>2 DEF PastTop, SamePairs
    <3>4. Asked(From(x, l)) = Todo(stk[n])
      <4>1. From(x, l) = stk[n].pair
        BY <3>3 DEF Covered
      <4> QED
        BY <1>1, <3>3, <4>1, FrameAsked
    <3>5. i \in 1..Len(Todo(stk[n])) /\ Len(Todo(stk[n])) \in Nat
      BY <1>1, <3>1, <3>4, FrameAsked DEF Chosen
    <3>6. i < stk[n].at + 1 /\ ~(i < stk[n].at)
      BY <2>2, <3>1, <3>2 DEF PastTop, Via
    <3>7. i = stk[n].at
      BY <1>2, <3>5, <3>6
    <3>8. PICK j \in (N + 1)..N2 : SameTail(wrn2[j], n - 1, x, l)
      BY <3>1, <3>3, <3>7 DEF Caught
    <3>9. new[n].start \in 0..N
      BY DEF PastTop, Begun
    <3>10. j \in 1..N2 /\ new[n].start < j
      BY <3>9
    <3> QED
      BY <3>2, <3>8, <3>10
  <2> QED
    BY <2>1, <2>2
<1> QED
  BY <1>5 DEF Complete

LEMMA AdvancedDistinct ==
    ASSUME World, NEW stk, NEW new, NEW n \in Nat, PastTop(stk, new, n), Sure(stk, n),
           NEW wrn, NEW wrn2, NEW N \in Nat, NEW N2 \in Nat, Extends(wrn, N, wrn2, N2),
           Sound(stk, n, wrn, N), Distinct(wrn, N), Fresh(stk, n, wrn2, N, N2)
    PROVE  Distinct(wrn2, N2)
<1>1. Framed(stk) /\ Linked(stk) /\ n <= Len(stk)
  BY DEF PastTop
<1>2. ASSUME NEW i \in 1..N, NEW j \in (N + 1)..N2
      PROVE  wrn2[i] # wrn2[j]
  <2>1. PICK w : w = wrn2[j]
    OBVIOUS
  <2>2. Agrees(w, stk, n) /\ Chosen(w, n - 1, stk[n].at)
    BY <2>1 DEF Fresh
  <2>3. wrn[i] # w
    BY <1>1, <2>2, NotAgain
  <2> QED
    BY <2>1, <2>3 DEF Extends
<1>3. ASSUME NEW i \in 1..N2, NEW j \in 1..N2, wrn2[i] = wrn2[j]
      PROVE  i = j
  <2>1. (i \in 1..N \/ i \in (N + 1)..N2) /\ (j \in 1..N \/ j \in (N + 1)..N2)
    BY DEF Extends
  <2>2. CASE i \in 1..N /\ j \in 1..N
    BY <1>3, <2>2 DEF Extends, Distinct
  <2>3. CASE i \in (N + 1)..N2 /\ j \in (N + 1)..N2
    BY <1>3, <2>3 DEF Fresh
  <2> QED
    BY <1>2, <1>3, <2>1, <2>2, <2>3
<1> QED
  BY <1>3 DEF Distinct

LEMMA RecordedOn ==
    ASSUME NEW K \in Nat, NEW wrn, NEW wrn2, NEW N \in Nat, NEW N2 \in Nat,
           Extends(wrn, N, wrn2, N2), NEW prv, NEW prv2, NEW D, NEW D2, Fewer(prv, D, prv2, D2),
           Recorded(K, wrn, N, prv, D)
    PROVE  Recorded(K, wrn2, N2, prv2, D2)
<1>1. ASSUME NEW pair \in D2
      PROVE  IsRecord(prv2[pair], pair, K, wrn2, N2)
  <2>1. PICK r : r = prv[pair]
    OBVIOUS
  <2>2. pair \in D /\ prv2[pair] = r
    BY <2>1 DEF Fewer
  <2>3. IsRecord(r, pair, K, wrn, N)
    BY <2>1, <2>2 DEF Recorded
  <2>4. IsRecord(r, pair, K, wrn2, N)
    BY <2>3, RecordSame DEF Extends
  <2>5. r.end \in 0..N => r.end \in 0..N2
    BY DEF Extends
  <2>6. IsRecord(r, pair, K, wrn2, N2)
    BY <2>4, <2>5 DEF IsRecord
  <2> QED
    BY <2>2, <2>6
<1> QED
  BY <1>1 DEF Recorded

LEMMA Advanced ==
    ASSUME World, NEW stk, NEW new, NEW n \in Nat, PastTop(stk, new, n), n >= 1,
           NEW wrn, NEW wrn2, NEW N \in Nat, NEW N2 \in Nat, Extends(wrn, N, wrn2, N2),
           NEW prv, NEW prv2, NEW D, NEW D2, Fewer(prv, D, prv2, D2), NEW trunc, NEW trunc2,
           Claims(stk, n, wrn, N, prv, D, trunc),
           Sure(stk, n) =>
              /\ Fresh(stk, n, wrn2, N, N2) /\ Bounded(wrn2, N2, trunc2)
              /\ ~trunc2 => ~trunc /\ Caught(stk, n, PairsAt(new, new[n].cuts), wrn2, N, N2)
    PROVE  Claims(new, n, wrn2, N2, prv2, D2, trunc2)
<1> SUFFICES ASSUME Sure(new, n)
             PROVE  /\ Sound(new, n, wrn2, N2) /\ Distinct(wrn2, N2) /\ Begun(new, n, N2)
                    /\ Recorded(n, wrn2, N2, prv2, D2) /\ Bounded(wrn2, N2, trunc2)
                    /\ ~trunc2 => /\ Complete(new, n, wrn2, N2)
                                  /\ Repeatable(new, wrn2, prv2, D2)
  BY DEF Claims
<1>1. SamePairs(stk, new, n)
  BY DEF PastTop
<1>2. Sure(stk, n)
  BY <1>1, SureSame
<1>3. /\ Sound(stk, n, wrn, N) /\ Distinct(wrn, N) /\ Begun(stk, n, N)
      /\ Recorded(n, wrn, N, prv, D)
      /\ ~trunc => Complete(stk, n, wrn, N) /\ Repeatable(stk, wrn, prv, D)
  BY <1>2 DEF Claims
<1>4. Sound(new, n, wrn2, N2)
  BY <1>2, <1>3, AdvancedSound
<1>5. Distinct(wrn2, N2)
  BY <1>2, <1>3, AdvancedDistinct
<1>6. Begun(new, n, N2)
  <2>1. \A k \in 1..n : new[k].start = stk[k].start
    BY DEF PastTop
  <2>2. ASSUME NEW k \in 1..n
        PROVE  new[k].start \in 0..N2
    <3>1. stk[k].start \in 0..N
      BY <1>3 DEF Begun
    <3> QED
      BY <2>1, <3>1 DEF Extends
  <2> QED
    BY <1>3, <2>1, <2>2 DEF Begun
<1>7. Recorded(n, wrn2, N2, prv2, D2)
  BY <1>3, RecordedOn
<1>8. ASSUME ~trunc2
      PROVE  Complete(new, n, wrn2, N2) /\ Repeatable(new, wrn2, prv2, D2)
  <2>1. Complete(new, n, wrn2, N2)
    BY <1>2, <1>3, <1>8, AdvancedComplete
  <2>2. Repeatable(new, wrn2, prv2, D2)
    <3>1. \A j \in 1..N : wrn2[j] = wrn[j]
      BY DEF Extends
    <3>2. ~trunc
      BY <1>2, <1>8
    <3> QED
      BY <1>1, <1>3, <3>1, <3>2, RepeatableSame
  <2> QED
    BY <2>1, <2>2
<1> QED
  BY <1>2, <1>4, <1>5, <1>6, <1>7, <1>8

-----------------------------------------------------------------------------
\* What is saved for a probe outlives what the steps inside it do.

SameMarks(old, new, K) == \A i \in 1..K : new[i].mark = old[i].mark
KeptAt(stk, k, wrn, wrn2, prv, prv2, lg, lg2) ==
    /\ stk[k].mark.log <= Len(lg2) /\ stk[k].mark.warnings <= Len(wrn2)
    /\ \A j \in 1..stk[k].mark.warnings : wrn2[j] = wrn[j]
    /\ Fewer(prv, Spared(prv, lg, stk[k].mark.log), prv2, Spared(prv2, lg2, stk[k].mark.log))

LEMMA SavedStays ==
    ASSUME NEW stk, Framed(stk), NEW new, NEW m \in Nat, m <= Len(stk),
           SameFrames(stk, new, m), SameMarks(stk, new, m), NEW T, T \subseteq 1..m,
           NEW wrn, NEW wrn2, NEW prv, NEW prv2, NEW lg, NEW lg2,
           Len(lg2) \in Nat, Len(wrn2) \in Nat, SavedAt(stk, T, wrn, prv, lg),
           \A k \in T : KeptAt(stk, k, wrn, wrn2, prv, prv2, lg, lg2)
    PROVE  SavedAt(new, T, wrn2, prv2, lg2)
<1>1. DOMAIN stk = 1..Len(stk) /\ Len(stk) \in Nat
  BY ListParts DEF Framed
<1>2. \A k \in T : new[k].mark = stk[k].mark /\ k \in 1..m
  BY DEF SameMarks
<1>3. ASSUME NEW k \in T
      PROVE  /\ new[k].mark.log \in 0..Len(lg2) /\ new[k].mark.warnings \in 0..Len(wrn2)
             /\ \A i \in T : k < i => Before(new[k].mark, new[i].mark)
             /\ SavedClaims(new, k, wrn2, prv2, lg2)
  <2>1. PICK mark : mark = stk[k].mark /\ mark = new[k].mark
    BY <1>2
  <2>0. /\ mark.log \in 0..Len(lg) /\ mark.warnings \in 0..Len(wrn)
        /\ \A i \in T : k < i => Before(mark, stk[i].mark)
        /\ SavedClaims(stk, k, wrn, prv, lg)
    BY <2>1 DEF SavedAt
  <2>2. /\ mark.log \in Nat /\ mark.warnings \in Nat
        /\ \A i \in T : k < i => Before(mark, stk[i].mark)
        /\ SavedClaims(stk, k, wrn, prv, lg)
    BY <2>0
  <2>3. /\ mark.log <= Len(lg2) /\ mark.warnings <= Len(wrn2)
        /\ \A j \in 1..mark.warnings : wrn2[j] = wrn[j]
        /\ Fewer(prv, Spared(prv, lg, mark.log), prv2, Spared(prv2, lg2, mark.log))
    BY <2>1 DEF KeptAt
  <2>4. PICK N \in Nat : N = mark.warnings
    BY <2>2
  <2>5. PICK D, D2 : D = Spared(prv, lg, mark.log) /\ D2 = Spared(prv2, lg2, mark.log)
    OBVIOUS
  <2>6. PICK trunc : trunc = mark.truncated
    OBVIOUS
  <2>7. Claims(stk, k, wrn, N, prv, D, trunc)
    BY <2>1, <2>2, <2>4, <2>5, <2>6 DEF SavedClaims
  <2>8. Shared(stk, new, wrn, wrn2, k, N)
    <3>1. \A i \in 1..k : i \in 1..m /\ i \in DOMAIN stk
      BY <1>1, <1>2
    <3>2. SameFrames(stk, new, k)
      BY <3>1 DEF SameFrames
    <3>3. CutsBelow(stk, k)
      BY <3>1 DEF CutsBelow, Framed
    <3> QED
      BY <2>3, <2>4, <3>2, <3>3 DEF Shared
  <2>9. k \in Nat /\ Fewer(prv, D, prv2, D2)
    BY <1>2, <2>3, <2>5
  <2>10. Claims(new, k, wrn2, N, prv2, D2, trunc)
    BY <2>7, <2>8, <2>9, ClaimsSame
  <2>11. SavedClaims(new, k, wrn2, prv2, lg2)
    BY <2>1, <2>4, <2>5, <2>6, <2>10 DEF SavedClaims
  <2>12. \A i \in T : k < i => Before(mark, new[i].mark)
    BY <1>2, <2>2
  <2> QED
    BY <2>1, <2>2, <2>3, <2>11, <2>12
<1> QED
  BY <1>3 DEF SavedAt

LEMMA SavedLess ==
    ASSUME NEW stk, NEW T, NEW S, S \subseteq T, NEW wrn, NEW prv, NEW lg,
           SavedAt(stk, T, wrn, prv, lg)
    PROVE  SavedAt(stk, S, wrn, prv, lg)
BY DEF SavedAt

\* A probe that begins saves what is claimed now.
LEMMA SavedMore ==
    ASSUME NEW stk, NEW n \in Nat, NEW T, T \subseteq 1..(n - 1), NEW wrn, NEW prv, NEW lg,
           NEW trunc, Len(lg) \in Nat, Len(wrn) \in Nat, SavedAt(stk, T, wrn, prv, lg),
           stk[n].mark = [log |-> Len(lg), warnings |-> Len(wrn), truncated |-> trunc],
           Claims(stk, n, wrn, Len(wrn), prv, DOMAIN prv, trunc)
    PROVE  SavedAt(stk, T \cup {n}, wrn, prv, lg)
<1>1. PICK mark : mark = stk[n].mark
  OBVIOUS
<1>2. mark.log = Len(lg) /\ mark.warnings = Len(wrn) /\ mark.truncated = trunc
  BY <1>1
<1>3. Spared(prv, lg, mark.log) = DOMAIN prv
  <2>1. (mark.log + 1)..Len(lg) = {}
    BY <1>2
  <2> QED
    BY <2>1 DEF Spared
<1>4. SavedClaims(stk, n, wrn, prv, lg)
  BY <1>1, <1>2, <1>3 DEF SavedClaims
<1>5. ASSUME NEW k \in T
      PROVE  Before(stk[k].mark, mark)
  BY <1>2 DEF SavedAt, Before
<1>6. ASSUME NEW k \in T \cup {n}
      PROVE  /\ stk[k].mark.log \in 0..Len(lg) /\ stk[k].mark.warnings \in 0..Len(wrn)
             /\ \A i \in T \cup {n} : k < i => Before(stk[k].mark, stk[i].mark)
             /\ SavedClaims(stk, k, wrn, prv, lg)
  <2>1. CASE k \in T
    BY <1>1, <1>5, <2>1 DEF SavedAt
  <2>2. CASE k = n
    <3>1. \A i \in T \cup {n} : ~(n < i)
      OBVIOUS
    <3> QED
      BY <1>1, <1>2, <1>4, <2>2, <3>1
  <2> QED
    BY <2>1, <2>2
<1> QED
  BY <1>6 DEF SavedAt

LEMMA AtProbeSame ==
    ASSUME NEW f, NEW g, f.pair = g.pair, f.at = g.at
    PROVE  AtProbe(f) = AtProbe(g)
BY SameTodo DEF AtProbe

\* The frames that still wait at a probe once the top got past its step.
LEMMA SavedBelow ==
    ASSUME NEW stk, NEW new, Len(stk) \in Nat, NEW m \in Nat, m <= Len(stk),
           SameFrames(stk, new, m), NEW flag, NEW flag2, Saved(new, flag2) \subseteq 1..m,
           m < Len(stk) \/ flag
    PROVE  Saved(new, flag2) \subseteq Saved(stk, flag)
<1> SUFFICES ASSUME NEW k \in Saved(new, flag2) PROVE k \in Saved(stk, flag)
  OBVIOUS
<1>1. k \in 1..m /\ AtProbe(new[k])
  BY DEF Saved
<1>2. new[k].pair = stk[k].pair /\ new[k].at = stk[k].at
  BY <1>1 DEF SameFrames
<1>3. AtProbe(stk[k])
  BY <1>1, <1>2, AtProbeSame
<1>4. k \in 1..Len(stk) /\ (k < Len(stk) \/ flag)
  BY <1>1
<1> QED
  BY <1>3, <1>4 DEF Saved

\* What the log still does not hold.
LEMMA SparedLess ==
    ASSUME NEW prv, NEW prv2, NEW lg, NEW lg2, NEW from, Len(lg) \in Nat, Len(lg2) \in Nat,
           \A pair \in DOMAIN prv2 :
              \/ pair \in DOMAIN prv /\ prv2[pair] = prv[pair]
              \/ \E i \in (from + 1)..Len(lg2) : lg2[i] = pair,
           \A pair \in DOMAIN prv2 : \A i \in (from + 1)..Len(lg) :
              lg[i] = pair => \E j \in (from + 1)..Len(lg2) : lg2[j] = pair
    PROVE  Fewer(prv, Spared(prv, lg, from), prv2, Spared(prv2, lg2, from))
BY DEF Fewer, Spared

-----------------------------------------------------------------------------
\* The top got past its step: what is claimed then, and what is still saved.

LEMMA RelyHolds ==
    ASSUME World, NEW A, A \cap Pair \subseteq Holding
    PROVE  Relies(A) \subseteq Holding
<1>1. Obeys(Holding) /\ \A R : Obeys(R) => R \subseteq Holding
  BY HoldingIsTheLargest
<1>2. Relies(A) \subseteq Pair /\ Carried(Relies(A), A)
  BY ReliesOnItself
<1>3. PICK R : R = Relies(A) \cup Holding
  OBVIOUS
<1>4. Holding \subseteq Pair /\ \A pair \in Holding : Fits(Holding, pair)
  BY <1>1 DEF Obeys
<1>5. ASSUME NEW pair \in R
      PROVE  pair \in Pair /\ Fits(R, pair)
  <2>1. CASE pair \in Holding
    <3>1. Fits(Holding, pair) /\ pair \in Pair /\ Holding \cap Pair \subseteq R
      BY <1>3, <1>4, <2>1
    <3> QED
      BY <3>1, FitsGrows
  <2>2. CASE pair \notin Holding
    <3>1. pair \in Relies(A) /\ pair \in Pair
      BY <1>2, <1>3, <2>2
    <3>2. Fits(Relies(A), pair)
      BY <1>2, <2>2, <3>1 DEF Carried
    <3>3. Relies(A) \cap Pair \subseteq R
      BY <1>3
    <3> QED
      BY <3>1, <3>2, <3>3, FitsGrows
  <2> QED
    BY <2>1, <2>2
<1>6. Obeys(R)
  BY <1>5 DEF Obeys
<1> QED
  BY <1>1, <1>3, <1>6

\* A proven pair holds if the walks it was cut at do.
LEMMA ProvenHolds ==
    ASSUME IInv, NEW n \in Nat, n = Len(stack), Sure(stack, n), NEW pair \in DOMAIN proven
    PROVE  pair \in Holding
<1>1. PICK cuts : cuts = proven[pair].cuts
  OBVIOUS
<1>2. cuts \subseteq 2..n /\ pair \in Relies(PairsAt(stack, cuts))
  BY <1>1 DEF IInv, Walking, Justified, Proof
<1>3. PairsAt(stack, cuts) \subseteq Holding
  BY <1>2 DEF PairsAt, Sure
<1>4. Relies(PairsAt(stack, cuts)) \subseteq Holding
  BY <1>3, RelyHolds DEF IInv
<1> QED
  BY <1>2, <1>4

LEMMA TopPast ==
    ASSUME IInv, NEW stk, NEW cuts, GotPast(stack, stk, cuts), SameRest(stack, stk),
           NEW n \in Nat, n = Len(stack)
    PROVE  PastTop(stack, stk, n) /\ SameMarks(stack, stk, n) /\ Len(stk) = n
<1>1. /\ Frames(stack) /\ DOMAIN stack = 1..n /\ n >= 1 /\ Framed(stack) /\ Linked(stack)
      /\ stack[n].cuts \subseteq 2..(n - 1)
  BY TopFacts DEF IInv, Walking, Top
<1>2. /\ Frames(stk) /\ Len(stk) = n
      /\ \A i \in 1..n :
            /\ stk[i].pair = stack[i].pair
            /\ stk[i].cuts = IF i = n THEN stack[i].cuts \cup Below(cuts, n) ELSE stack[i].cuts
            /\ stk[i].at = IF i = n THEN stack[i].at + 1 ELSE stack[i].at
  BY <1>1 DEF GotPast
<1>3. DOMAIN stk = 1..n
  BY <1>2, ListParts DEF Frames
<1>4. \A i \in 1..n : stk[i].start = stack[i].start /\ stk[i].mark = stack[i].mark
  BY <1>3 DEF SameRest
<1>5. \A i \in 1..(n - 1) : i \in 1..n /\ i # n
  OBVIOUS
<1>6. Below(cuts, n) \subseteq 2..(n - 1)
  BY DEF Below
<1>7. n \in 1..n
  BY <1>1
<1>8. \A i \in 1..(n - 1) : stk[i].at = stack[i].at /\ stk[i].cuts = stack[i].cuts
  BY <1>2, <1>5
<1>9. stk[n].at = stack[n].at + 1 /\ stk[n].cuts = stack[n].cuts \cup Below(cuts, n)
  BY <1>2, <1>7
<1>10. SamePairs(stack, stk, n) /\ SameMarks(stack, stk, n)
  BY <1>2, <1>4 DEF SamePairs, SameMarks
<1> QED
  BY <1>1, <1>2, <1>4, <1>6, <1>8, <1>9, <1>10 DEF PastTop

LEMMA PastSame ==
    ASSUME NEW stk, NEW new, NEW n \in Nat, PastTop(stk, new, n)
    PROVE  SameFrames(stk, new, n - 1)
<1>1. \A i \in 1..(n - 1) : i \in 1..n
  OBVIOUS
<1> QED
  BY <1>1 DEF PastTop, SameFrames, SamePairs

LEMMA WarningOn ==
    ASSUME IInv, NEW prv, NEW lg, NEW trunc0, NEW flag,
           Warning(stack, warnings, prv, lg, trunc0, flag),
           NEW stk, NEW n \in Nat, n = Len(stack), n >= 1,
           PastTop(stack, stk, n), SameMarks(stack, stk, n), Len(stk) = n, IsList(stk),
           NEW N \in Nat, NEW D, NEW trunc, NEW wrn2, NEW prv2, NEW lg2, NEW trunc2,
           IsList(wrn2), IsList(lg2), Extends(warnings, N, wrn2, Len(wrn2)),
           Fewer(prv, D, prv2, DOMAIN prv2), Fewer(prv, DOMAIN prv, prv2, DOMAIN prv2),
           Claims(stack, n, warnings, N, prv, D, trunc),
           Sure(stack, n) =>
              /\ Fresh(stack, n, wrn2, N, Len(wrn2)) /\ Bounded(wrn2, Len(wrn2), trunc2)
              /\ ~trunc2 => /\ ~trunc
                            /\ Caught(stack, n, PairsAt(stk, stk[n].cuts), wrn2, N, Len(wrn2)),
           \A k \in Saved(stack, flag) : k < n =>
              KeptAt(stack, k, warnings, wrn2, prv, prv2, lg, lg2)
    PROVE  Warning(stk, wrn2, prv2, lg2, trunc2, FALSE)
<1>1. DOMAIN stk = 1..n /\ DOMAIN stack = 1..n
  BY ListParts, TopFacts
<1>2. \A i \in 1..n : stk[i].pair = stack[i].pair /\ stk[i].start = stack[i].start
  BY DEF PastTop, SamePairs
<1>3. \A i \in 2..n : i \in 1..n
  OBVIOUS
<1>4. Once(stk)
  BY <1>2, <1>3 DEF Warning, Once
<1>5. Counted(stk, prv2)
  BY <1>1, <1>2 DEF Warning, Counted, Fewer
<1>6. Len(wrn2) \in Nat /\ Len(lg2) \in Nat
  BY ListParts
<1>7. Claims(stk, n, wrn2, Len(wrn2), prv2, DOMAIN prv2, trunc2)
  <2>1. PICK N2 \in Nat : N2 = Len(wrn2)
    BY <1>6
  <2>2. World
    BY DEF IInv
  <2>3. Claims(stk, n, wrn2, N2, prv2, DOMAIN prv2, trunc2)
    BY <2>1, <2>2, Advanced
  <2> QED
    BY <2>1, <2>3
<1>8. SavedAt(stk, Saved(stk, FALSE), wrn2, prv2, lg2)
  <2>1. PICK m \in Nat : m = n - 1
    OBVIOUS
  <2>2. SameFrames(stack, stk, m) /\ SameMarks(stack, stk, m) /\ m <= Len(stack)
    BY <2>1, PastSame DEF SameMarks
  <2>3. Saved(stk, FALSE) \subseteq 1..m
    BY <2>1 DEF Saved
  <2>4. Saved(stk, FALSE) \subseteq Saved(stack, flag)
    <3>1. m < Len(stack) /\ Len(stack) \in Nat
      BY <2>1
    <3> QED
      BY <2>2, <2>3, <3>1, SavedBelow
  <2>5. SavedAt(stack, Saved(stk, FALSE), warnings, prv, lg)
    BY <2>4, SavedLess DEF Warning
  <2>6. \A k \in Saved(stk, FALSE) : KeptAt(stack, k, warnings, wrn2, prv, prv2, lg, lg2)
    <3>1. ASSUME NEW k \in Saved(stk, FALSE)
          PROVE  KeptAt(stack, k, warnings, wrn2, prv, prv2, lg, lg2)
      <4>1. k \in 1..m /\ k \in Saved(stack, flag)
        BY <2>3, <2>4
      <4>2. k < n
        BY <2>1, <4>1
      <4> QED
        BY <4>1, <4>2
    <3> QED
      BY <3>1
  <2>7. Framed(stack)
    BY DEF IInv, Walking
  <2> QED
    BY <1>6, <2>2, <2>3, <2>5, <2>6, <2>7, SavedStays
<1> QED
  BY <1>4, <1>5, <1>7, <1>8 DEF Warning, Doubted

-----------------------------------------------------------------------------
\* The way to the top, where its step may end a path.

LEMMA TopCurrent ==
    ASSUME IInv, NEW n \in Nat, n = Len(stack), ~AtEnd
    PROVE  /\ World /\ Framed(stack) /\ Linked(stack) /\ n >= 1 /\ n \in DOMAIN stack
           /\ stack[n].at \in DOMAIN Todo(stack[n]) /\ Todo(stack[n])[stack[n].at] = Current
           /\ IsStep(Current) /\ (n > 1 => stack[n].pair \in Pair)
<1>1. /\ n >= 1 /\ n \in DOMAIN stack /\ Top = stack[n] /\ IsStep(Current)
      /\ DOMAIN Todo(Top) = 1..Len(Todo(Top)) /\ Len(Todo(Top)) \in Nat
      /\ Top.at \in 1..(Len(Todo(Top)) + 1) /\ Top.at <= Len(Todo(Top))
      /\ (n > 1 => Top.pair \in Pair)
  BY TopFacts DEF Top
<1>2. Top.at \in DOMAIN Todo(Top)
  BY <1>1
<1> QED
  BY <1>1, <1>2 DEF IInv, Walking, Current

LEMMA TrailAgrees ==
    ASSUME IInv, PathTold(stack, path), NEW n \in Nat, n = Len(stack),
           NEW w, w = [path |-> path, trail |-> Trail]
    PROVE  /\ IsPath(w) /\ Len(w.trail) = n - 1 /\ DOMAIN w.trail = 1..(n - 1)
           /\ \A i \in 1..(n - 1) : w.trail[i] = stack[i + 1].pair
           /\ Agrees(w, stack, n)
<1>1. n >= 1 /\ n - 1 \in Nat
  BY TopFacts
<1>2. PICK m \in Nat : m = n - 1
  BY <1>1
<1>3. PICK trail : trail = Trail
  OBVIOUS
<1>4. trail = [i \in 1..m |-> stack[i + 1].pair]
  BY <1>2, <1>3 DEF Trail
<1>5. DOMAIN trail = 1..m /\ trail = [i \in 1..m |-> trail[i]]
  BY <1>4
<1>6. IsList(trail) /\ Len(trail) = m
  BY <1>5, ListMade
<1>7. w.path = path /\ w.trail = trail /\ w = [path |-> w.path, trail |-> w.trail]
  BY <1>3
<1>8. IsList(path) /\ Len(path) = m
        /\ \A i \in 1..m : path[i] = Todo(stack[i])[stack[i].at].seg
  BY <1>2 DEF PathTold
<1>9. IsPath(w)
  BY <1>6, <1>7, <1>8 DEF IsPath
<1>10. \A i \in 1..m : w.trail[i] = stack[i + 1].pair
  BY <1>4, <1>7
<1>11. Agrees(w, stack, n)
  BY <1>2, <1>6, <1>7, <1>8, <1>10 DEF Agrees
<1> QED
  BY <1>2, <1>5, <1>6, <1>7, <1>9, <1>10, <1>11

\* A path that takes the steps of the stack and then the pairs of T.
LEMMA OnceSingle ==
    ASSUME NEW stk, Framed(stk), Once(stk), NEW n \in Nat, n = Len(stk), NEW w,
           DOMAIN w.trail = 1..(n - 1), \A i \in 1..(n - 1) : w.trail[i] = stk[i + 1].pair
    PROVE  Single(w, 0) /\ Known(w, 0)
<1>1. DOMAIN stk = 1..n
  BY ListParts DEF Framed
<1>2. ASSUME NEW i \in 1..(n - 1)
      PROVE  i + 1 \in 2..n /\ w.trail[i] \in Pair
  <2>1. i + 1 \in 2..n /\ i + 1 \in DOMAIN stk /\ i + 1 > 1
    BY <1>1
  <2> QED
    BY <2>1 DEF Framed
<1>3. ASSUME NEW i \in 1..(n - 1), NEW j \in 1..(n - 1), w.trail[i] = w.trail[j]
      PROVE  i = j
  <2>1. stk[i + 1].pair = stk[j + 1].pair
    BY <1>3
  <2>2. i + 1 = j + 1
    BY <1>2, <2>1 DEF Once
  <2> QED
    BY <2>2
<1> QED
  BY <1>2, <1>3 DEF Single, Known

LEMMA TrailWalk ==
    ASSUME IInv, PathTold(stack, path), Once(stack), NEW n \in Nat, n = Len(stack),
           Sure(stack, n), ~AtEnd, Nulls(Current), NEW w, w = [path |-> path, trail |-> Trail]
    PROVE  Route(w, 0) /\ Agrees(w, stack, n) /\ Chosen(w, n - 1, stack[n].at)
           /\ Len(w.trail) = n - 1
<1>1. /\ IsPath(w) /\ Len(w.trail) = n - 1 /\ DOMAIN w.trail = 1..(n - 1)
      /\ \A i \in 1..(n - 1) : w.trail[i] = stack[i + 1].pair
      /\ Agrees(w, stack, n)
  BY TrailAgrees
<1>2. /\ World /\ Framed(stack) /\ Linked(stack) /\ n >= 1 /\ n \in DOMAIN stack
      /\ stack[n].at \in DOMAIN Todo(stack[n]) /\ Todo(stack[n])[stack[n].at] = Current
  BY TopCurrent
<1>3. Single(w, 0) /\ Known(w, 0)
  BY <1>1, <1>2, OnceSingle
<1>4. Chosen(w, n - 1, stack[n].at)
  <2>1. n \in 1..n /\ From(w, n - 1) = stack[n].pair
    BY <1>1, <1>2, AgreesFrom
  <2>2. Asked(From(w, n - 1)) = Todo(stack[n])
    BY <1>2, <2>1, FrameAsked
  <2>3. Takes(w, n - 1, Current)
    BY <1>1 DEF Takes
  <2> QED
    BY <1>2, <2>2, <2>3 DEF Chosen
<1>5. ASSUME NEW m \in 0..Len(w.trail)
      PROVE  \E i : Chosen(w, m, i)
  <2>1. CASE m = n - 1
    BY <1>4, <2>1
  <2>2. CASE m # n - 1
    <3>1. PICK k \in 1..(n - 1) : k - 1 = m
      <4>1. m + 1 \in 1..(n - 1) /\ (m + 1) - 1 = m
        BY <1>1, <2>2
      <4> QED
        BY <4>1
    <3>2. Chosen(w, k - 1, stack[k].at)
      BY <1>1, <1>2, AgreesChosen
    <3> QED
      BY <3>1, <3>2
  <2> QED
    BY <2>1, <2>2
<1>6. 0 \in 0..Len(w.trail)
  BY <1>1, <1>2
<1>7. Route(w, 0)
  BY <1>1, <1>3, <1>5, <1>6 DEF Route
<1> QED
  BY <1>1, <1>4, <1>7

LEMMA WarnedList ==
    ASSUME NEW kept, IsList(kept), NEW N, N = Len(kept),
           \A j \in 1..N : kept[j] = warnings[j], MaxWarnings \in Nat
    PROVE  /\ IsList(Warned(kept)) /\ Extends(warnings, N, Warned(kept), Len(Warned(kept)))
           /\ N >= MaxWarnings => Warned(kept) = kept
           /\ N < MaxWarnings => /\ Len(Warned(kept)) = N + 1
                                 /\ Warned(kept)[N + 1] = [path |-> path, trail |-> Trail]
<1>1. N \in Nat
  BY ListParts
<1>2. PICK w : w = [path |-> path, trail |-> Trail]
  OBVIOUS
<1>3. PICK wrn : wrn = Warned(kept)
  OBVIOUS
<1>4. CASE N >= MaxWarnings
  <2>1. wrn = kept
    BY <1>3, <1>4 DEF Warned
  <2> QED
    BY <1>1, <1>3, <1>4, <2>1 DEF Extends
<1>5. CASE ~(N >= MaxWarnings)
  <2>1. IsList(kept) /\ wrn = Append(kept, w)
    BY <1>2, <1>3, <1>5 DEF Warned
  <2>2. /\ IsList(wrn) /\ Len(wrn) = N + 1 /\ \A j \in 1..N : wrn[j] = kept[j]
        /\ wrn[N + 1] = w
    BY <2>1, AppendedList
  <2>3. Extends(warnings, N, wrn, Len(wrn))
    BY <1>1, <2>2 DEF Extends
  <2> QED
    BY <1>2, <1>3, <1>5, <2>2, <2>3
<1> QED
  BY <1>4, <1>5

LEMMA EndsThere ==
    ASSUME IInv, NEW n \in Nat, n = Len(stack), ~AtEnd, NEW A, NEW x, NEW l,
           Covered(stack[n].pair, A, x, l), Chosen(x, l, stack[n].at)
    PROVE  /\ Takes(x, l, Current) /\ Len(x.trail) \in Nat /\ l \in 0..Len(x.trail)
           /\ Nulls(Current) => l = Len(x.trail)
           /\ Goes(Current) => l < Len(x.trail)
           /\ Goes(Current) \/ Nulls(Current)
<1>1. /\ World /\ Framed(stack) /\ n \in DOMAIN stack
      /\ Todo(stack[n])[stack[n].at] = Current /\ IsStep(Current)
  BY TopCurrent
<1>2. Len(x.trail) \in Nat /\ l \in 0..Len(x.trail)
  BY PathParts DEF Covered, Route
<1>3. Asked(From(x, l)) = Todo(stack[n])
  <2>1. From(x, l) = stack[n].pair
    BY DEF Covered
  <2> QED
    BY <1>1, <2>1, FrameAsked
<1>4. Takes(x, l, Current)
  BY <1>1, <1>3 DEF Chosen
<1>5. ~(Goes(Current) /\ Nulls(Current))
  BY DEF Goes, Nulls
<1>6. (l < Len(x.trail) => Goes(Current)) /\ (~(l < Len(x.trail)) => Nulls(Current))
  BY <1>4 DEF Takes
<1>7. ~(l < Len(x.trail)) => l = Len(x.trail)
  BY <1>2
<1> QED
  BY <1>2, <1>4, <1>5, <1>6, <1>7

LEMMA WarnedFresh ==
    ASSUME IInv, PathTold(stack, path), Once(stack), NEW n \in Nat, n = Len(stack),
           Sure(stack, n), ~AtEnd, Nulls(Current), NEW kept, IsList(kept),
           NEW N \in Nat, N = Len(kept), \A j \in 1..N : kept[j] = warnings[j],
           MaxWarnings \in Nat, Sound(stack, n, warnings, N), NEW A, NEW trunc,
           Bounded(warnings, N, trunc), NEW wrn2, wrn2 = Warned(kept),
           NEW trunc2, trunc2 = (trunc \/ N >= MaxWarnings)
    PROVE  /\ Fresh(stack, n, wrn2, N, Len(wrn2)) /\ Bounded(wrn2, Len(wrn2), trunc2)
           /\ ~trunc2 => ~trunc /\ Caught(stack, n, A, wrn2, N, Len(wrn2))
<1>1. PICK w : w = [path |-> path, trail |-> Trail]
  OBVIOUS
<1>2. Route(w, 0) /\ Agrees(w, stack, n) /\ Chosen(w, n - 1, stack[n].at)
           /\ Len(w.trail) = n - 1
  BY <1>1, TrailWalk
<1>3. /\ World /\ Framed(stack) /\ Linked(stack) /\ n >= 1
  BY TopCurrent
<1>4. \A j \in 1..N : warnings[j] # w
  BY <1>2, <1>3, NotAgain
<1>5. /\ N >= MaxWarnings => wrn2 = kept
      /\ N < MaxWarnings => Len(wrn2) = N + 1 /\ wrn2[N + 1] = w
      /\ \A j \in 1..N : wrn2[j] = warnings[j]
  BY <1>1, WarnedList DEF Extends
<1>6. CASE N >= MaxWarnings
  <2>1. wrn2 = kept /\ Len(wrn2) = N /\ N <= MaxWarnings
    BY <1>5, <1>6 DEF Bounded
  <2>2. Missing(wrn2, N)
    BY <1>2, <1>4, <1>5 DEF Missing
  <2>3. Bounded(wrn2, N, trunc2)
    BY <1>6, <2>1, <2>2 DEF Bounded
  <2>4. (N + 1)..N = {}
    OBVIOUS
  <2>5. Fresh(stack, n, wrn2, N, N)
    BY <2>4 DEF Fresh
  <2> QED
    BY <1>6, <2>1, <2>3, <2>5
<1>7. CASE ~(N >= MaxWarnings)
  <2>1. Len(wrn2) = N + 1 /\ wrn2[N + 1] = w
    BY <1>5, <1>7
  <2>2. trunc = FALSE \/ trunc
    OBVIOUS
  <2>3. ~trunc /\ ~trunc2
    BY <1>7 DEF Bounded
  <2>4. Bounded(wrn2, N + 1, trunc2)
    BY <1>7, <2>3 DEF Bounded
  <2>5. (N + 1)..(N + 1) = {N + 1}
    OBVIOUS
  <2>6. Fresh(stack, n, wrn2, N, N + 1)
    BY <1>2, <2>1, <2>5 DEF Fresh
  <2>7. Caught(stack, n, A, wrn2, N, N + 1)
    <3>1. ASSUME NEW x, NEW l, Covered(stack[n].pair, A, x, l), Chosen(x, l, stack[n].at)
          PROVE  \E j \in (N + 1)..(N + 1) : SameTail(wrn2[j], n - 1, x, l)
      <4>1. Len(x.trail) \in Nat /\ l = Len(x.trail)
        BY <3>1, EndsThere
      <4>2. 1..(Len(x.trail) - l) = {}
        BY <4>1
      <4>3. SameTail(w, n - 1, x, l)
        BY <1>2, <1>3, <4>1, <4>2 DEF SameTail
      <4> QED
        BY <2>1, <2>5, <4>3
    <3> QED
      BY <3>1 DEF Caught
  <2> QED
    BY <2>1, <2>3, <2>4, <2>6, <2>7
<1> QED
  BY <1>6, <1>7

-----------------------------------------------------------------------------
\* The steps that leave the walk where it is, and the proofs as they are.

Warns == Warning(stack, warnings, proven, log, truncated, failing)
WarningNext == Warning(stack', warnings', proven', log', truncated', failing')

LEMMA KeptOn ==
    ASSUME IInv, Warns, NEW wrn2, Len(wrn2) \in Nat,
           Extends(warnings, Len(warnings), wrn2, Len(wrn2)),
           NEW k \in Saved(stack, failing)
    PROVE  KeptAt(stack, k, warnings, wrn2, proven, proven, log, log)
<1>1. PICK mark : mark = stack[k].mark
  OBVIOUS
<1>2. mark.log \in 0..Len(log) /\ mark.warnings \in 0..Len(warnings)
  BY <1>1 DEF Warns, Warning, SavedAt
<1>3. Len(log) \in Nat /\ Len(warnings) \in Nat
  BY ListParts DEF Warns, Warning
<1>4. mark.log <= Len(log) /\ mark.warnings <= Len(wrn2)
      /\ \A j \in 1..mark.warnings : j \in 1..Len(warnings)
  BY <1>2, <1>3 DEF Extends
<1>5. \A j \in 1..mark.warnings : wrn2[j] = warnings[j]
  BY <1>4 DEF Extends
<1>6. \A S : Fewer(proven, S, proven, S)
  BY DEF Fewer
<1> QED
  BY <1>1, <1>4, <1>5, <1>6 DEF KeptAt

\* What such a step must show, and what it then has shown.
Onward(stk, wrn2, trunc2) ==
    Sure(stack, Len(stack)) =>
       /\ Fresh(stack, Len(stack), wrn2, Len(warnings), Len(wrn2))
       /\ Bounded(wrn2, Len(wrn2), trunc2)
       /\ ~trunc2 => /\ ~truncated
                     /\ Caught(stack, Len(stack), PairsAt(stk, stk[Len(stack)].cuts),
                               wrn2, Len(warnings), Len(wrn2))

LEMMA CalmWarning ==
    ASSUME IInv, Warns, failing = FALSE, NEW stk, NEW cuts, GotPast(stack, stk, cuts),
           SameRest(stack, stk), NEW wrn2, IsList(wrn2),
           Extends(warnings, Len(warnings), wrn2, Len(wrn2)), NEW trunc2,
           Onward(stk, wrn2, trunc2)
    PROVE  Warning(stk, wrn2, proven, log, trunc2, FALSE)
<1>1. PICK n \in Nat : n = Len(stack) /\ n >= 1
  BY TopFacts
<1>2. PICK N \in Nat : N = Len(warnings)
  BY ListParts DEF Warns, Warning
<1>3. PastTop(stack, stk, n) /\ SameMarks(stack, stk, n) /\ Len(stk) = n
  BY <1>1, TopPast
<1>4. IsList(stk) /\ IsList(log) /\ Len(wrn2) \in Nat
  BY ListParts DEF GotPast, Frames, Warns, Warning
<1>5. Claims(stack, n, warnings, N, proven, DOMAIN proven, truncated)
  BY <1>1, <1>2 DEF Warns, Warning
<1>6. \A k \in Saved(stack, failing) : KeptAt(stack, k, warnings, wrn2, proven, proven, log, log)
  BY <1>4, KeptOn
<1>7. Fewer(proven, DOMAIN proven, proven, DOMAIN proven)
  BY DEF Fewer
<1>8. Extends(warnings, N, wrn2, Len(wrn2))
  BY <1>2
<1>9. Sure(stack, n) =>
         /\ Fresh(stack, n, wrn2, N, Len(wrn2)) /\ Bounded(wrn2, Len(wrn2), trunc2)
         /\ ~trunc2 => /\ ~truncated
                       /\ Caught(stack, n, PairsAt(stk, stk[n].cuts), wrn2, N, Len(wrn2))
  BY <1>1, <1>2 DEF Onward
<1>10. Warning(stack, warnings, proven, log, truncated, failing)
  BY DEF Warns
<1> QED
  BY <1>1, <1>3, <1>4, <1>5, <1>6, <1>7, <1>8, <1>9, <1>10, WarningOn

\* No path goes on, or ends, by a step that is neither.
LEMMA NothingOn ==
    ASSUME IInv, Warns, failing = FALSE, NEW stk,
           \A x, l : ~(Covered(stack[Len(stack)].pair,
                               PairsAt(stk, stk[Len(stack)].cuts), x, l)
                       /\ Chosen(x, l, stack[Len(stack)].at) /\ Sure(stack, Len(stack)))
    PROVE  Onward(stk, warnings, truncated)
<1> SUFFICES ASSUME Sure(stack, Len(stack))
             PROVE  /\ Fresh(stack, Len(stack), warnings, Len(warnings), Len(warnings))
                    /\ Bounded(warnings, Len(warnings), truncated)
                    /\ Caught(stack, Len(stack), PairsAt(stk, stk[Len(stack)].cuts),
                              warnings, Len(warnings), Len(warnings))
  BY DEF Onward
<1>1. PICK N \in Nat : N = Len(warnings)
  BY ListParts DEF Warns, Warning
<1>2. (N + 1)..N = {}
  OBVIOUS
<1>3. Fresh(stack, Len(stack), warnings, N, N)
  BY <1>2 DEF Fresh
<1>4. Bounded(warnings, N, truncated)
  BY <1>1 DEF Warns, Warning, Claims
<1>5. Caught(stack, Len(stack), PairsAt(stk, stk[Len(stack)].cuts), warnings, N, N)
  BY DEF Caught
<1> QED
  BY <1>1, <1>3, <1>4, <1>5

LEMMA SameExtends ==
    ASSUME Warns
    PROVE  IsList(warnings) /\ Extends(warnings, Len(warnings), warnings, Len(warnings))
           /\ Len(warnings) \in Nat
<1>1. IsList(warnings)
  BY DEF Warns, Warning
<1>2. PICK N \in Nat : N = Len(warnings)
  BY <1>1, ListParts
<1>3. Extends(warnings, N, warnings, N)
  BY DEF Extends
<1> QED
  BY <1>1, <1>2, <1>3

LEMMA ResumedPast ==
    ASSUME IInv
    PROVE  GotPast(stack, Resumed(stack), {}) /\ SameRest(stack, Resumed(stack))
<1>1. PICK stk : stk = Resumed(stack)
  OBVIOUS
<1>2. Below({}, Len(stack)) = {}
  BY DEF Below
<1>3. /\ Frames(stk) /\ Len(stk) = Len(stack)
      /\ \A i \in DOMAIN stack :
            /\ stk[i].pair = stack[i].pair /\ stk[i].dependents = stack[i].dependents
            /\ stk[i].cuts = stack[i].cuts
            /\ stk[i].at = IF i = Len(stack) THEN stack[i].at + 1 ELSE stack[i].at
  BY <1>1, TopFacts, ResumedFrames
<1>4. \A i \in DOMAIN stack :
         stk[i].cuts = IF i = Len(stack) THEN stack[i].cuts \cup Below({}, Len(stack))
                       ELSE stack[i].cuts
  BY <1>2, <1>3
<1>5. GotPast(stack, stk, {})
  BY <1>3, <1>4 DEF GotPast
<1>6. SameRest(stack, Resumed(stack))
  BY TopFacts, ResumedRest
<1> QED
  BY <1>1, <1>5, <1>6

LEMMA PassOverWarns ==
    ASSUME IInv, Warns, PassOver PROVE WarningNext
<1>1. /\ failing = FALSE /\ ~AtEnd /\ Current.do = "skip" /\ stack' = Resumed(stack)
      /\ warnings' = warnings /\ proven' = proven /\ log' = log /\ truncated' = truncated
      /\ failing' = FALSE
  BY DEF PassOver, Meets, IInv, Walking, Failing
<1>2. PICK stk : stk = stack'
  OBVIOUS
<1>3. GotPast(stack, stk, {}) /\ SameRest(stack, stk)
  BY <1>1, <1>2, ResumedPast
<1>4. PICK n \in Nat : n = Len(stack)
  BY TopFacts
<1>5. ~Goes(Current) /\ ~Nulls(Current)
  BY <1>1 DEF Goes, Nulls
<1>6. \A A, x, l : ~(Covered(stack[n].pair, A, x, l) /\ Chosen(x, l, stack[n].at))
  BY <1>1, <1>4, <1>5, EndsThere
<1>7. Onward(stk, warnings, truncated)
  BY <1>1, <1>4, <1>6, NothingOn
<1>8. Warning(stk, warnings, proven, log, truncated, FALSE)
  BY <1>1, <1>3, <1>7, SameExtends, CalmWarning
<1> QED
  BY <1>1, <1>2, <1>8 DEF WarningNext

LEMMA WarnNullWarns ==
    ASSUME FailureInv, MaxWarnings \in Nat, Warns, WarnNull PROVE WarningNext
<1>1. /\ failing = FALSE /\ ~AtEnd /\ Current.do = "warn" /\ stack' = Resumed(stack)
      /\ warnings' = Warned(warnings) /\ proven' = proven /\ log' = log
      /\ truncated' = (truncated \/ Len(warnings) >= MaxWarnings)
      /\ failing' = FALSE /\ IInv /\ PathTold(stack, path)
  BY DEF WarnNull, Meets, FailureInv, IInv, Walking, Failing
<1>2. PICK stk, wrn2, trunc2 : stk = stack' /\ wrn2 = warnings' /\ trunc2 = truncated'
  OBVIOUS
<1>3. GotPast(stack, stk, {}) /\ SameRest(stack, stk)
  BY <1>1, <1>2, ResumedPast
<1>4. PICK n \in Nat : n = Len(stack)
  BY <1>1, TopFacts
<1>5. PICK N \in Nat : N = Len(warnings)
  BY SameExtends
<1>6. IsList(warnings) /\ \A j \in 1..N : warnings[j] = warnings[j]
  BY SameExtends
<1>7. IsList(wrn2) /\ Extends(warnings, N, wrn2, Len(wrn2))
  BY <1>1, <1>2, <1>5, <1>6, WarnedList
<1>8. Nulls(Current)
  BY <1>1 DEF Nulls
<1>9. PICK A : A = PairsAt(stk, stk[n].cuts)
  OBVIOUS
<1>10. ASSUME Sure(stack, n)
       PROVE  /\ Fresh(stack, n, wrn2, N, Len(wrn2)) /\ Bounded(wrn2, Len(wrn2), trunc2)
              /\ ~trunc2 => ~truncated /\ Caught(stack, n, A, wrn2, N, Len(wrn2))
  <2>1. Sound(stack, n, warnings, N) /\ Bounded(warnings, N, truncated) /\ Once(stack)
    BY <1>1, <1>4, <1>5, <1>10 DEF Warns, Warning, Claims
  <2>2. wrn2 = Warned(warnings) /\ trunc2 = (truncated \/ N >= MaxWarnings)
    BY <1>1, <1>2, <1>5
  <2> QED
    BY <1>1, <1>4, <1>5, <1>6, <1>8, <1>10, <2>1, <2>2, WarnedFresh
<1>11. Onward(stk, wrn2, trunc2)
  BY <1>4, <1>5, <1>9, <1>10 DEF Onward
<1>12. Warning(stk, wrn2, proven, log, trunc2, FALSE)
  BY <1>1, <1>3, <1>5, <1>7, <1>11, CalmWarning
<1> QED
  BY <1>1, <1>2, <1>12 DEF WarningNext

\* A pair that is met again inside its own walk is on none of them.
LEMMA NotRoundTop ==
    ASSUME IInv, NEW n \in Nat, n = Len(stack), ~AtEnd, NEW i \in 2..n,
           NEW A, i < n => stack[i].pair \in A, NEW x, NEW l,
           Covered(stack[n].pair, A, x, l), NEW h, h \in DOMAIN x.trail, l < h
    PROVE  x.trail[h] # stack[i].pair
<1> SUFFICES ASSUME x.trail[h] = stack[i].pair PROVE FALSE
  OBVIOUS
<1>1. Avoids(x, l, A) /\ Single(x, l)
  BY DEF Covered, Route
<1>2. i = n
  BY <1>1 DEF Avoids
<1>3. /\ World /\ Framed(stack) /\ n \in DOMAIN stack /\ n > 1
  BY <1>2, TopCurrent
<1>4. l \in 1..Len(x.trail) /\ x.trail[l] = stack[n].pair
      /\ DOMAIN x.trail = 1..Len(x.trail) /\ Len(x.trail) \in Nat
  BY <1>3, FrameRouted
<1>5. l = h
  BY <1>1, <1>2, <1>4 DEF Single
<1> QED
  BY <1>4, <1>5

LEMMA AnswerActiveWarns ==
    ASSUME IInv, Warns, AnswerActive PROVE WarningNext
<1>1. /\ failing = FALSE /\ ~AtEnd /\ Current.do \in {"visit", "probe"}
      /\ warnings' = warnings /\ proven' = proven /\ log' = log /\ truncated' = truncated
      /\ failing' = FALSE /\ Current.pair \in Active
  BY DEF AnswerActive, Meets, IInv, Walking, Failing, Assumed
<1>2. PICK cuts : cuts = DepthsOf({Current.pair})
  OBVIOUS
<1>3. PICK stk : stk = Resumed(Depending(stack, cuts))
  OBVIOUS
<1>4. stack' = stk
  BY <1>2, <1>3 DEF AnswerActive
<1>5. GotPast(stack, stk, cuts) /\ SameRest(stack, stk)
  BY <1>3, TopFacts, DependingResumed, DependingResumedRest
<1>6. PICK n \in Nat : n = Len(stack) /\ n \in DOMAIN stack
  BY TopFacts
<1>7. PICK i \in 2..n : stack[i].pair = Current.pair
  BY <1>1, <1>6 DEF Active
<1>8. stk[n].cuts = stack[n].cuts \cup Below(cuts, n)
  BY <1>5, <1>6 DEF GotPast
<1>9. PICK A : A = PairsAt(stk, stk[n].cuts)
  OBVIOUS
<1>10. i < n => stack[i].pair \in A
  <2> SUFFICES ASSUME i < n PROVE stack[i].pair \in A
    OBVIOUS
  <2>1. i \in Below(cuts, n)
    BY <1>2, <1>6, <1>7 DEF Below, DepthsOf
  <2>2. stk[i].pair = stack[i].pair
    <3>1. i \in DOMAIN stack
      BY <1>6, TopFacts
    <3> QED
      BY <1>5, <3>1 DEF GotPast
  <2> QED
    BY <1>8, <1>9, <2>1, <2>2 DEF PairsAt
<1>11. ASSUME NEW x, NEW l, Covered(stack[n].pair, A, x, l), Chosen(x, l, stack[n].at),
              Sure(stack, n)
       PROVE  FALSE
  <2>1. Goes(Current)
    BY <1>1, <1>7, <1>11 DEF Goes, Sure
  <2>2. /\ Takes(x, l, Current) /\ Len(x.trail) \in Nat /\ l \in 0..Len(x.trail)
        /\ l < Len(x.trail)
    BY <1>1, <1>6, <1>11, <2>1, EndsThere
  <2>3. PICK h : h = l + 1
    OBVIOUS
  <2>4. x.trail[h] = Current.pair
    BY <2>2, <2>3 DEF Takes
  <2>5. DOMAIN x.trail = 1..Len(x.trail)
    BY <1>11, PathParts DEF Covered, Route
  <2>6. h \in DOMAIN x.trail /\ l < h
    BY <2>2, <2>3, <2>5
  <2> QED
    BY <1>1, <1>6, <1>7, <1>10, <1>11, <2>4, <2>6, NotRoundTop
<1>12. Onward(stk, warnings, truncated)
  BY <1>1, <1>6, <1>9, <1>11, NothingOn
<1>13. Warning(stk, warnings, proven, log, truncated, FALSE)
  BY <1>1, <1>5, <1>12, SameExtends, CalmWarning
<1> QED
  BY <1>1, <1>4, <1>13 DEF WarningNext

-----------------------------------------------------------------------------
\* A probe that fails leaves what it saved, and its own path's warning.

LEMMA PartList ==
    ASSUME NEW s, IsList(s), NEW from \in Nat, NEW to \in Nat, to <= Len(s), from <= to
    PROVE  /\ IsList(SubSeq(s, from + 1, to)) /\ Len(SubSeq(s, from + 1, to)) = to - from
           /\ DOMAIN SubSeq(s, from + 1, to) = 1..(to - from)
           /\ \A i \in 1..(to - from) : SubSeq(s, from + 1, to)[i] = s[from + i]
<1>1. PICK t, n : t = SubSeq(s, from + 1, to) /\ n = to - from
  OBVIOUS
<1>2. n \in Nat /\ 1 + to - (from + 1) = n
  BY <1>1
<1>3. t = [i \in 1..n |-> s[i + (from + 1) - 1]]
  BY <1>1, <1>2
<1>4. \A i \in 1..n : i + (from + 1) - 1 = from + i
  OBVIOUS
<1>5. t = [i \in 1..n |-> s[from + i]]
  BY <1>3, <1>4
<1>6. DOMAIN t = 1..n /\ t = [i \in 1..n |-> t[i]] /\ \A i \in 1..n : t[i] = s[from + i]
  BY <1>5
<1>7. IsList(t) /\ Len(t) = n
  BY <1>2, <1>6, ListMade
<1> QED
  BY <1>1, <1>6, <1>7

LEMMA StartList ==
    ASSUME NEW s, IsList(s), NEW n \in Nat, n <= Len(s)
    PROVE  /\ IsList(SubSeq(s, 1, n)) /\ Len(SubSeq(s, 1, n)) = n
           /\ \A i \in 1..n : SubSeq(s, 1, n)[i] = s[i]
<1>1. PICK from \in Nat : from = 0
  OBVIOUS
<1>2. from + 1 = 1 /\ n - from = n /\ from <= n /\ \A i \in 1..n : from + i = i
  BY <1>1
<1>3. /\ IsList(SubSeq(s, from + 1, n)) /\ Len(SubSeq(s, from + 1, n)) = n - from
      /\ \A i \in 1..(n - from) : SubSeq(s, from + 1, n)[i] = s[from + i]
  BY <1>2, PartList
<1> QED
  BY <1>2, <1>3

\* What the proofs of a failed probe leave.
LEMMA UndoneSpares ==
    ASSUME IsList(log), NEW mark, NEW ml \in Nat, mark.log = ml, ml <= Len(log),
           NEW prv2, prv2 = Undone(mark), NEW lg2, lg2 = SubSeq(log, 1, ml)
    PROVE  /\ IsList(lg2) /\ Len(lg2) = ml
           /\ Fewer(proven, Spared(proven, log, ml), prv2, DOMAIN prv2)
           /\ Fewer(proven, DOMAIN proven, prv2, DOMAIN prv2)
           /\ \A from \in Nat : from <= ml =>
                 Fewer(proven, Spared(proven, log, from), prv2, Spared(prv2, lg2, from))
<1>1. Len(log) \in Nat
  BY ListParts
<1>2. IsList(lg2) /\ Len(lg2) = ml /\ \A i \in 1..ml : lg2[i] = log[i]
  BY StartList
<1>3. PICK gone : gone = SubSeq(log, ml + 1, Len(log))
  OBVIOUS
<1>4. /\ DOMAIN gone = 1..(Len(log) - ml)
      /\ \A i \in 1..(Len(log) - ml) : gone[i] = log[ml + i]
  BY <1>1, <1>3, PartList
<1>5. prv2 = Without(proven, Elements(gone))
  BY <1>3 DEF Undone
<1>6. /\ DOMAIN prv2 = DOMAIN proven \ Elements(gone)
      /\ \A pair \in DOMAIN prv2 : prv2[pair] = proven[pair]
  BY <1>5 DEF Without
<1>7. ASSUME NEW pair \in DOMAIN prv2, NEW i \in (ml + 1)..Len(log)
      PROVE  log[i] # pair
  <2>1. PICK h \in 1..(Len(log) - ml) : i = ml + h
    <3>1. i - ml \in 1..(Len(log) - ml) /\ i = ml + (i - ml)
      BY <1>1
    <3> QED
      BY <3>1
  <2>2. gone[h] = log[i] /\ h \in DOMAIN gone
    BY <1>4, <2>1
  <2>3. log[i] \in Elements(gone)
    BY <2>2 DEF Elements
  <2> QED
    BY <1>6, <2>3
<1>8. ASSUME NEW from \in Nat, from <= ml, NEW pair \in Spared(prv2, lg2, from)
      PROVE  pair \in Spared(proven, log, from)
  <2>1. pair \in DOMAIN prv2 /\ \A i \in (from + 1)..Len(lg2) : lg2[i] # pair
    BY DEF Spared
  <2>2. ASSUME NEW i \in (from + 1)..Len(log)
        PROVE  log[i] # pair
    <3>1. CASE i <= ml
      <4>1. i \in (from + 1)..Len(lg2) /\ i \in 1..ml
        BY <1>1, <1>2, <3>1
      <4> QED
        BY <1>2, <2>1, <4>1
    <3>2. CASE ~(i <= ml)
      <4>1. i \in (ml + 1)..Len(log)
        BY <1>1, <3>2
      <4> QED
        BY <1>7, <2>1, <4>1
    <3> QED
      BY <3>1, <3>2
  <2> QED
    BY <1>6, <2>1, <2>2 DEF Spared
<1>9. ASSUME NEW from \in Nat, from <= ml
      PROVE  Fewer(proven, Spared(proven, log, from), prv2, Spared(prv2, lg2, from))
  <2>1. \A pair \in Spared(prv2, lg2, from) : prv2[pair] = proven[pair]
    BY <1>6 DEF Spared
  <2> QED
    BY <1>8, <1>9, <2>1 DEF Fewer
<1>10. Fewer(proven, Spared(proven, log, ml), prv2, DOMAIN prv2)
  BY <1>6, <1>7 DEF Fewer, Spared
<1>11. Fewer(proven, DOMAIN proven, prv2, DOMAIN prv2)
  BY <1>6 DEF Fewer
<1> QED
  BY <1>2, <1>9, <1>10, <1>11

LEMMA ProbeFailsWarns ==
    ASSUME FailureInv, MaxWarnings \in Nat, Warns, ProbeFails PROVE WarningNext
<1>1. /\ failing = TRUE /\ ~AtEnd /\ Current.do = "probe" /\ stack' = Resumed(stack)
      /\ warnings' = Warned(KeptWarnings) /\ proven' = Undone(Top.mark)
      /\ log' = SubSeq(log, 1, Top.mark.log)
      /\ truncated' = (Top.mark.truncated \/ Top.mark.warnings >= MaxWarnings)
      /\ failing' = FALSE /\ IInv /\ PathTold(stack, path)
  BY DEF ProbeFails, Probing, TruncatedBefore, FailureInv, IInv, Walking, Failing
<1>2. PICK stk, wrn2, prv2, lg2, trunc2 : /\ stk = stack' /\ wrn2 = warnings' /\ prv2 = proven'
                                          /\ lg2 = log' /\ trunc2 = truncated'
  OBVIOUS
<1>3. GotPast(stack, stk, {}) /\ SameRest(stack, stk)
  BY <1>1, <1>2, ResumedPast
<1>4. PICK n \in Nat : n = Len(stack) /\ n >= 1
  BY <1>1, TopFacts
<1>5. PastTop(stack, stk, n) /\ SameMarks(stack, stk, n) /\ Len(stk) = n /\ IsList(stk)
  BY <1>1, <1>3, <1>4, TopPast DEF GotPast, Frames
<1>6. /\ World /\ n \in DOMAIN stack /\ stack[n].at \in DOMAIN Todo(stack[n])
      /\ Todo(stack[n])[stack[n].at] = Current /\ Top = stack[n]
      /\ stack[n].at <= Len(Todo(stack[n]))
  BY <1>1, <1>4, TopCurrent, TopFacts DEF Top
<1>7. AtProbe(stack[n]) /\ n \in Saved(stack, failing)
  BY <1>1, <1>4, <1>6 DEF AtProbe, Saved
<1>8. PICK mark : mark = stack[n].mark /\ mark = Top.mark
  BY <1>6
<1>9. /\ mark.log \in 0..Len(log) /\ mark.warnings \in 0..Len(warnings)
      /\ \A k \in Saved(stack, failing) : k < n => Before(stack[k].mark, mark)
      /\ SavedClaims(stack, n, warnings, proven, log)
  BY <1>7, <1>8 DEF Warns, Warning, SavedAt
<1>10. IsList(log) /\ IsList(warnings) /\ Len(log) \in Nat /\ Len(warnings) \in Nat
  BY ListParts DEF Warns, Warning
<1>11. PICK N, ml, trunc : /\ N \in Nat /\ ml \in Nat
                           /\ N = mark.warnings /\ ml = mark.log /\ trunc = mark.truncated
  BY <1>9, <1>10
<1>12. N <= Len(warnings) /\ ml <= Len(log)
  BY <1>9, <1>10, <1>11
<1>13. PICK kept : kept = SubSeq(warnings, 1, N)
  OBVIOUS
<1>14. IsList(kept) /\ N = Len(kept) /\ \A j \in 1..N : kept[j] = warnings[j]
  BY <1>10, <1>11, <1>12, <1>13, StartList
<1>15. wrn2 = Warned(kept) /\ trunc2 = (trunc \/ N >= MaxWarnings)
  BY <1>1, <1>2, <1>8, <1>11, <1>13 DEF KeptWarnings
<1>16. IsList(wrn2) /\ Extends(warnings, N, wrn2, Len(wrn2))
  BY <1>14, <1>15, WarnedList
<1>17. PICK D : D = Spared(proven, log, ml)
  OBVIOUS
<1>18. /\ IsList(lg2) /\ Len(lg2) = ml /\ Fewer(proven, D, prv2, DOMAIN prv2)
       /\ Fewer(proven, DOMAIN proven, prv2, DOMAIN prv2)
       /\ \A from \in Nat : from <= ml =>
             Fewer(proven, Spared(proven, log, from), prv2, Spared(prv2, lg2, from))
  <2>1. mark.log = ml /\ prv2 = Undone(mark) /\ lg2 = SubSeq(log, 1, ml)
    BY <1>1, <1>2, <1>8, <1>11
  <2> QED
    BY <1>10, <1>11, <1>12, <1>17, <2>1, UndoneSpares
<1>19. Claims(stack, n, warnings, N, proven, D, trunc)
  BY <1>8, <1>9, <1>11, <1>17 DEF SavedClaims
<1>20. Nulls(Current)
  BY <1>1, <1>4, <1>6, <1>7 DEF Warns, Warning, Doubted, Nulls
<1>21. PICK A : A = PairsAt(stk, stk[n].cuts)
  OBVIOUS
<1>22. ASSUME Sure(stack, n)
       PROVE  /\ Fresh(stack, n, wrn2, N, Len(wrn2)) /\ Bounded(wrn2, Len(wrn2), trunc2)
              /\ ~trunc2 => ~trunc /\ Caught(stack, n, A, wrn2, N, Len(wrn2))
  <2>1. Sound(stack, n, warnings, N) /\ Bounded(warnings, N, trunc) /\ Once(stack)
    BY <1>19, <1>22 DEF Warns, Warning, Claims
  <2> QED
    <3>1. IInv /\ PathTold(stack, path) /\ ~AtEnd /\ n = Len(stack) /\ N \in Nat
      BY <1>1, <1>4, <1>11
    <3>2. MaxWarnings \in Nat
      OBVIOUS
    <3> QED
      BY <1>14, <1>15, <1>20, <1>22, <2>1, <3>1, <3>2, WarnedFresh
<1>23. ASSUME NEW k \in Saved(stack, failing), k < n
       PROVE  KeptAt(stack, k, warnings, wrn2, proven, prv2, log, lg2)
  <2>1. PICK other : other = stack[k].mark
    OBVIOUS
  <2>2. other.log <= mark.log /\ other.warnings <= mark.warnings
    BY <1>9, <1>23, <2>1 DEF Before
  <2>3. other.log \in 0..Len(log) /\ other.warnings \in 0..Len(warnings)
    BY <2>1 DEF Warns, Warning, SavedAt
  <2>4. other.log \in Nat /\ other.log <= ml /\ other.warnings \in Nat /\ other.warnings <= N
    BY <1>10, <1>11, <2>2, <2>3
  <2>5. other.warnings <= Len(wrn2) /\ \A j \in 1..other.warnings : j \in 1..N
    <3>1. Len(wrn2) \in Nat /\ N <= Len(wrn2)
      BY <1>16, ListParts DEF Extends
    <3> QED
      BY <1>11, <2>4, <3>1
  <2>6. \A j \in 1..other.warnings : wrn2[j] = warnings[j]
    BY <1>16, <2>5 DEF Extends
  <2>7. Fewer(proven, Spared(proven, log, other.log), prv2, Spared(prv2, lg2, other.log))
    BY <1>18, <2>4
  <2> QED
    BY <1>18, <2>1, <2>4, <2>5, <2>6, <2>7 DEF KeptAt
<1>24. Warning(stack, warnings, proven, log, truncated, failing)
  BY DEF Warns
<1>25. Warning(stk, wrn2, prv2, lg2, trunc2, FALSE)
  BY <1>1, <1>4, <1>5, <1>11, <1>16, <1>18, <1>19, <1>21, <1>22, <1>23, <1>24, WarningOn
<1> QED
  BY <1>1, <1>2, <1>25 DEF WarningNext

-----------------------------------------------------------------------------
\* The folds of the module, one step after the other.

\* A proven pair's warning again: what follows the pair, where none of it is
\* active, after the way to it.
Rest(prefix, w) == SubSeq(w.trail, prefix + 1, Len(w.trail))
Clear(prefix, w) == ActiveOn(Rest(prefix, w)) = {}
Copy(prefix, met, trail, w) ==
    [path |-> met \o SubSeq(w.path, prefix + 1, Len(w.path)),
     trail |-> trail \o Rest(prefix, w)]
Again(prefix, met, trail, acc, w) ==
    LET looked == IF Rest(prefix, w) = << >> THEN 1 ELSE Len(Rest(prefix, w))
    IN  IF acc.full THEN acc
        ELSE IF ActiveOn(Rest(prefix, w)) # {}
        THEN [acc EXCEPT !.cost = @ + looked,
                         !.cuts = @ \cup {Outermost(ActiveOn(Rest(prefix, w)))}]
        ELSE IF Len(acc.warnings) >= MaxWarnings
        THEN [acc EXCEPT !.cost = @ + looked, !.full = TRUE]
        ELSE [acc EXCEPT !.cost = @ + looked + Len(met) + Len(Rest(prefix, w)),
                         !.warnings = Append(@, Copy(prefix, met, trail, w))]

\* The paths one step longer.
TodoOf(w) == IF w.trail = << >> THEN MethodObligations ELSE Obligations(Last(w.trail))
Into(todo) == {i \in DOMAIN todo : \/ todo[i].do = "visit"
                                   \/ (todo[i].do = "probe" /\ todo[i].pair \in Holding)}
Further(w) == {[path |-> Append(w.path, TodoOf(w)[i].seg),
                trail |-> Append(w.trail, TodoOf(w)[i].pair)] :
                 i \in {j \in Into(TodoOf(w)) : TodoOf(w)[j].pair \notin Elements(w.trail)}}
Longer(acc) ==
    LET next == UNION {Further(w) : w \in acc.last}
    IN  [all |-> acc.all \cup next, last |-> next]

StepOf(kind, env, acc, v) ==
    IF kind = "again" THEN Again(env.prefix, env.met, env.trail, acc, v) ELSE Longer(acc)

FoldAll(kind, env, base, list, it) ==
    [s \in SUBSET (DOMAIN list) |->
        IF s = {} THEN base ELSE StepOf(kind, env, it[s \ {Max(s)}], list[Max(s)])]
Chain(h, kind, env, base, list) ==
    /\ h[0] = base
    /\ \A k \in 1..Len(list) : h[k] = StepOf(kind, env, h[k - 1], list[k])

LEMMA FoldSolved ==
    ASSUME NEW kind, NEW env, NEW base, NEW list, IsList(list)
    PROVE  \E it : it = FoldAll(kind, env, base, list, it)
<1> DEFINE Solves(g, k) == \A s \in SUBSET (1..k) :
              g[s] = IF s = {} THEN base
                     ELSE StepOf(kind, env, g[s \ {Max(s)}], list[Max(s)])
           P == {k \in Nat : \E g : Solves(g, k)}
<1>1. 0 \in P
  <2>1. Solves([s \in SUBSET (1..0) |-> base], 0)
    <3>1. \A s \in SUBSET (1..0) : s = {}
      OBVIOUS
    <3> QED
      BY <3>1
  <2> HIDE DEF Solves
  <2> QED
    BY <2>1
<1>2. ASSUME NEW k \in Nat, k \in P PROVE k + 1 \in P
  <2>1. PICK g : Solves(g, k)
    BY <1>2
  <2> DEFINE f == [s \in SUBSET (1..(k + 1)) |->
                      IF k + 1 \in s THEN StepOf(kind, env, g[s \ {k + 1}], list[k + 1])
                      ELSE g[s]]
  <2>2. ASSUME NEW s \in SUBSET (1..(k + 1))
        PROVE  f[s] = IF s = {} THEN base
                      ELSE StepOf(kind, env, f[s \ {Max(s)}], list[Max(s)])
    <3>1. CASE k + 1 \in s
      <4>1. Max(s) = k + 1 /\ s \ {k + 1} \in SUBSET (1..k) /\ s # {}
        BY <3>1, HighestIs
      <4>2. s \ {k + 1} \in SUBSET (1..(k + 1)) /\ k + 1 \notin s \ {k + 1}
        OBVIOUS
      <4>3. f[s \ {k + 1}] = g[s \ {k + 1}]
        BY <4>2
      <4>4. f[s] = StepOf(kind, env, g[s \ {k + 1}], list[k + 1])
        BY <3>1
      <4> HIDE DEF f
      <4> QED
        BY <4>1, <4>3, <4>4
    <3>2. CASE k + 1 \notin s
      <4>1. s \in SUBSET (1..k) /\ f[s] = g[s]
        BY <3>2
      <4>2. CASE s = {}
        BY <2>1, <4>1, <4>2
      <4>3. CASE s # {}
        <5>1. PICK t : t = s \ {Max(s)}
          OBVIOUS
        <5>2. t \in SUBSET (1..(k + 1)) /\ k + 1 \notin t
          BY <3>2, <5>1
        <5>3. f[t] = g[t]
          BY <5>2
        <5>4. g[s] = StepOf(kind, env, g[t], list[Max(s)])
          BY <2>1, <4>1, <4>3, <5>1
        <5> HIDE DEF f
        <5> QED
          BY <4>1, <4>3, <5>1, <5>3, <5>4
      <4> QED
        BY <4>2, <4>3
    <3> QED
      BY <3>1, <3>2
  <2> HIDE DEF f
  <2>3. Solves(f, k + 1)
    BY <2>2
  <2> HIDE DEF Solves
  <2> QED
    BY <2>3
<1>3. Nat \subseteq P
  <2> HIDE DEF P
  <2> QED
    BY <1>1, <1>2, AllNumbers
<1>4. PICK n \in Nat : DOMAIN list = 1..n
  BY ListParts
<1>5. PICK g : Solves(g, n)
  BY <1>3
<1> DEFINE it == [s \in SUBSET (1..n) |-> g[s]]
<1>6. \A s \in SUBSET (1..n) :
          it[s] = IF s = {} THEN base ELSE StepOf(kind, env, it[s \ {Max(s)}], list[Max(s)])
  <2> TAKE s \in SUBSET (1..n)
  <2>1. s \ {Max(s)} \in SUBSET (1..n)
    OBVIOUS
  <2>2. it[s] = g[s] /\ it[s \ {Max(s)}] = g[s \ {Max(s)}]
    BY <2>1
  <2> HIDE DEF it
  <2> QED
    BY <1>5, <2>2
<1>7. it = FoldAll(kind, env, base, list, it)
  <2>1. it = [s \in SUBSET (1..n) |-> it[s]]
    OBVIOUS
  <2> HIDE DEF it
  <2> QED
    BY <1>4, <1>6, <2>1 DEF FoldAll
<1> HIDE DEF it
<1> QED
  BY <1>7

LEMMA FoldChain ==
    ASSUME NEW kind, NEW env, NEW base, NEW list, IsList(list),
           NEW it, it = FoldAll(kind, env, base, list, it)
    PROVE  \E h : Chain(h, kind, env, base, list) /\ it[DOMAIN list] = h[Len(list)]
<1>1. PICK n \in Nat : n = Len(list) /\ DOMAIN list = 1..n
  BY ListParts
<1>2. \A s \in SUBSET (1..n) :
          it[s] = IF s = {} THEN base ELSE StepOf(kind, env, it[s \ {Max(s)}], list[Max(s)])
  BY <1>1 DEF FoldAll
<1> DEFINE h == [k \in 0..n |-> it[1..k]]
<1>3. h[0] = base
  <2>1. 1..0 = {} /\ 0 \in 0..n /\ {} \in SUBSET (1..n)
    OBVIOUS
  <2> QED
    BY <1>2, <2>1
<1>4. ASSUME NEW k \in 1..n PROVE h[k] = StepOf(kind, env, h[k - 1], list[k])
  <2>1. PICK j \in Nat : k = j + 1
    <3>1. k - 1 \in Nat /\ k = (k - 1) + 1
      OBVIOUS
    <3> QED
      BY <3>1
  <2>2. /\ (1..k) \ {k} = 1..j /\ Max(1..k) = k /\ 1..k # {}
    BY <2>1, Beginnings
  <2>3. 1..k \in SUBSET (1..n) /\ k - 1 = j /\ j \in 0..n /\ k \in 0..n
    BY <2>1
  <2>4. it[1..k] = StepOf(kind, env, it[1..j], list[k])
    BY <1>2, <2>2, <2>3
  <2> QED
    BY <2>3, <2>4
<1>5. h[n] = it[1..n]
  OBVIOUS
<1> HIDE DEF h
<1>6. Chain(h, kind, env, base, list)
  BY <1>1, <1>3, <1>4 DEF Chain
<1> QED
  BY <1>1, <1>5, <1>6

\* What Repeated folds.
EnvOf(pair) == [prefix |-> proven[pair].prefix, met |-> Append(path, Current.seg),
                trail |-> Append(Trail, pair)]
KnownList(pair) == SubSeq(warnings, proven[pair].start + 1, proven[pair].end)
NoneYet == [warnings |-> warnings, cost |-> 0, cuts |-> {}, full |-> FALSE]

LEMMA RepeatedChain ==
    ASSUME NEW pair, IsList(KnownList(pair))
    PROVE  \E h : /\ Chain(h, "again", EnvOf(pair), NoneYet, KnownList(pair))
                  /\ Repeated(pair) = h[Len(KnownList(pair))]
<1>1. PICK env, base, list : env = EnvOf(pair) /\ base = NoneYet /\ list = KnownList(pair)
  OBVIOUS
<1> DEFINE Filled(g) ==
        [s \in SUBSET (DOMAIN KnownList(pair)) |->
            IF s = {} THEN NoneYet
            ELSE Again(proven[pair].prefix, Append(path, Current.seg), Append(Trail, pair),
                       g[s \ {Max(s)}], KnownList(pair)[Max(s)])]
<1>2. ASSUME NEW g PROVE Filled(g) = FoldAll("again", env, base, list, g)
  <2>1. /\ env.prefix = proven[pair].prefix /\ env.met = Append(path, Current.seg)
        /\ env.trail = Append(Trail, pair)
    BY <1>1 DEF EnvOf
  <2> QED
    BY <1>1, <2>1 DEF FoldAll, StepOf
<1>3. PICK it : it = CHOOSE g : g = Filled(g)
  OBVIOUS
<1>4. \E g : g = Filled(g)
  <2>1. PICK g : g = FoldAll("again", env, base, list, g)
    BY <1>1, FoldSolved
  <2>2. g = Filled(g)
    <3> HIDE DEF Filled
    <3> QED
      BY <1>2, <2>1
  <2> QED
    BY <2>2
<1>5. it = Filled(it)
  <2> HIDE DEF Filled
  <2> QED
    BY <1>3, <1>4
<1>6. PICK h : Chain(h, "again", env, base, list) /\ it[DOMAIN list] = h[Len(list)]
  <2>1. it = FoldAll("again", env, base, list, it)
    <3> HIDE DEF Filled
    <3> QED
      BY <1>2, <1>5
  <2> QED
    BY <1>1, <2>1, FoldChain
<1>7. Repeated(pair) = it[DOMAIN KnownList(pair)]
  BY <1>3 DEF Repeated, FoldLeft, MapThenFoldSet, Again, Rest, Copy, NoneYet, KnownList
<1> QED
  BY <1>1, <1>6, <1>7

-----------------------------------------------------------------------------
\* What repeating a proof's warnings keeps, and what it finds.

IsAcc(acc) == acc = [warnings |-> acc.warnings, cost |-> acc.cost, cuts |-> acc.cuts,
                     full |-> acc.full]

\* What one warning changes.
Passes(acc, new, cuts) == new.warnings = acc.warnings /\ new.full = acc.full /\ new.cuts = cuts
Fills(acc, new) == new.warnings = acc.warnings /\ new.full = TRUE /\ new.cuts = acc.cuts
Adds(acc, new, copy) == /\ new.warnings = Append(acc.warnings, copy)
                        /\ new.full = acc.full /\ new.cuts = acc.cuts
Looks(prefix, w, acc, new, copy) ==
    /\ IsAcc(new)
    /\ (acc.full = TRUE) => new = acc
    /\ acc.full = FALSE =>
          /\ ~Clear(prefix, w) =>
                Passes(acc, new, acc.cuts \cup {Outermost(ActiveOn(Rest(prefix, w)))})
          /\ Clear(prefix, w) => IF Len(acc.warnings) >= MaxWarnings THEN Fills(acc, new)
                                 ELSE Adds(acc, new, copy)

LEMMA AgainLooks ==
    ASSUME NEW prefix, NEW met, NEW trail, NEW acc, IsAcc(acc), NEW w,
           NEW new, new = Again(prefix, met, trail, acc, w)
    PROVE  Looks(prefix, w, acc, new, Copy(prefix, met, trail, w))
<1>1. PICK looked : looked = IF Rest(prefix, w) = << >> THEN 1 ELSE Len(Rest(prefix, w))
  OBVIOUS
<1>2. PICK cost, cuts, copy : /\ cost = acc.cost + looked + Len(met) + Len(Rest(prefix, w))
                              /\ cuts = acc.cuts \cup {Outermost(ActiveOn(Rest(prefix, w)))}
                              /\ copy = Copy(prefix, met, trail, w)
  OBVIOUS
<1>3. PICK spent : spent = acc.cost + looked
  OBVIOUS
<1>4. new = IF acc.full THEN acc
            ELSE IF ActiveOn(Rest(prefix, w)) # {}
            THEN [acc EXCEPT !.cost = spent, !.cuts = cuts]
            ELSE IF Len(acc.warnings) >= MaxWarnings
            THEN [acc EXCEPT !.cost = spent, !.full = TRUE]
            ELSE [acc EXCEPT !.cost = cost, !.warnings = Append(acc.warnings, copy)]
  BY <1>1, <1>2, <1>3 DEF Again
<1>5. PICK wrn, old, from, full : acc = [warnings |-> wrn, cost |-> old, cuts |-> from,
                                         full |-> full]
  BY DEF IsAcc
<1>6. \A c, v : [acc EXCEPT !.cost = c, !.cuts = v]
                   = [warnings |-> wrn, cost |-> c, cuts |-> v, full |-> full]
  <2> TAKE c, v
  <2>1. PICK mid : mid = [acc EXCEPT !.cost = c]
    OBVIOUS
  <2>2. mid = [warnings |-> wrn, cost |-> c, cuts |-> from, full |-> full]
    BY <1>5, <2>1
  <2>3. [mid EXCEPT !.cuts = v] = [warnings |-> wrn, cost |-> c, cuts |-> v, full |-> full]
    BY <2>2
  <2>4. [acc EXCEPT !.cost = c, !.cuts = v] = [mid EXCEPT !.cuts = v]
    BY <2>1
  <2> QED
    BY <2>3, <2>4
<1>7. \A c, v : [acc EXCEPT !.cost = c, !.full = v]
                   = [warnings |-> wrn, cost |-> c, cuts |-> from, full |-> v]
  <2> TAKE c, v
  <2>1. PICK mid : mid = [acc EXCEPT !.cost = c]
    OBVIOUS
  <2>2. mid = [warnings |-> wrn, cost |-> c, cuts |-> from, full |-> full]
    BY <1>5, <2>1
  <2>3. [mid EXCEPT !.full = v] = [warnings |-> wrn, cost |-> c, cuts |-> from, full |-> v]
    BY <2>2
  <2>4. [acc EXCEPT !.cost = c, !.full = v] = [mid EXCEPT !.full = v]
    BY <2>1
  <2> QED
    BY <2>3, <2>4
<1>8. \A c, v : [acc EXCEPT !.cost = c, !.warnings = v]
                   = [warnings |-> v, cost |-> c, cuts |-> from, full |-> full]
  <2> TAKE c, v
  <2>1. PICK mid : mid = [acc EXCEPT !.cost = c]
    OBVIOUS
  <2>2. mid = [warnings |-> wrn, cost |-> c, cuts |-> from, full |-> full]
    BY <1>5, <2>1
  <2>3. [mid EXCEPT !.warnings = v] = [warnings |-> v, cost |-> c, cuts |-> from, full |-> full]
    BY <2>2
  <2>4. [acc EXCEPT !.cost = c, !.warnings = v] = [mid EXCEPT !.warnings = v]
    BY <2>1
  <2> QED
    BY <2>3, <2>4
<1>9. wrn = acc.warnings /\ from = acc.cuts /\ full = acc.full
  BY <1>5
<1>10. ASSUME NEW w1, NEW c, NEW v, NEW f,
              new = [warnings |-> w1, cost |-> c, cuts |-> v, full |-> f]
       PROVE  IsAcc(new) /\ new.warnings = w1 /\ new.cuts = v /\ new.full = f
  BY <1>10 DEF IsAcc
<1>11. IsAcc(new)
  <2>1. \/ new = acc
        \/ new = [acc EXCEPT !.cost = spent, !.cuts = cuts]
        \/ new = [acc EXCEPT !.cost = spent, !.full = TRUE]
        \/ new = [acc EXCEPT !.cost = cost, !.warnings = Append(acc.warnings, copy)]
    BY <1>4
  <2> QED
    BY <1>6, <1>7, <1>8, <1>10, <2>1
<1>12. ASSUME acc.full = FALSE, ~Clear(prefix, w)
       PROVE  Passes(acc, new, cuts)
  <2>1. new = [acc EXCEPT !.cost = spent, !.cuts = cuts]
    BY <1>4, <1>12 DEF Clear
  <2>2. new = [warnings |-> wrn, cost |-> spent, cuts |-> cuts, full |-> full]
    BY <1>6, <2>1
  <2> QED
    BY <1>9, <1>10, <2>2 DEF Passes
<1>13. ASSUME acc.full = FALSE, Clear(prefix, w), Len(acc.warnings) >= MaxWarnings
       PROVE  Fills(acc, new)
  <2>1. new = [acc EXCEPT !.cost = spent, !.full = TRUE]
    BY <1>4, <1>13 DEF Clear
  <2>2. new = [warnings |-> wrn, cost |-> spent, cuts |-> from, full |-> TRUE]
    BY <1>7, <2>1
  <2> QED
    BY <1>9, <1>10, <2>2 DEF Fills
<1>14. ASSUME acc.full = FALSE, Clear(prefix, w), ~(Len(acc.warnings) >= MaxWarnings)
       PROVE  Adds(acc, new, copy)
  <2>1. PICK longer : longer = Append(acc.warnings, copy)
    OBVIOUS
  <2>2. new = [acc EXCEPT !.cost = cost, !.warnings = longer]
    BY <1>4, <1>14, <2>1 DEF Clear
  <2>3. new = [warnings |-> longer, cost |-> cost, cuts |-> from, full |-> full]
    BY <1>8, <2>2
  <2> QED
    BY <1>9, <1>10, <2>1, <2>3 DEF Adds
<1>15. acc.full = TRUE => new = acc
  BY <1>4
<1> QED
  BY <1>2, <1>11, <1>12, <1>13, <1>14, <1>15 DEF Looks

\* After k of the warnings: those repeated are the clear ones' copies.
Copies(env, list, wrn, N, k) ==
    \A j \in (N + 1)..Len(wrn) : \E i \in 1..k :
       Clear(env.prefix, list[i]) /\ wrn[j] = Copy(env.prefix, env.met, env.trail, list[i])
Copied(env, w, wrn, N) ==
    \E j \in (N + 1)..Len(wrn) : wrn[j] = Copy(env.prefix, env.met, env.trail, w)
Looked(env, list, acc, N, k) ==
    \A i \in 1..k : IF Clear(env.prefix, list[i]) THEN Copied(env, list[i], acc.warnings, N)
                    ELSE Outermost(ActiveOn(Rest(env.prefix, list[i]))) \in acc.cuts
Unlike(env, list) ==
    \A i, j \in 1..Len(list) :
       Copy(env.prefix, env.met, env.trail, list[i]) = Copy(env.prefix, env.met, env.trail, list[j])
          => i = j
NewOnes(wrn, N) == \A i, j \in (N + 1)..Len(wrn) : wrn[i] = wrn[j] => i = j
LeftOut(env, list, wrn, N, k) ==
    /\ Len(wrn) >= MaxWarnings
    /\ \E i \in 1..k : Clear(env.prefix, list[i]) /\ ~Copied(env, list[i], wrn, N)

Repeating(env, list, acc, N, k) ==
    /\ IsAcc(acc) /\ acc.full \in BOOLEAN /\ IsList(acc.warnings)
    /\ Extends(warnings, N, acc.warnings, Len(acc.warnings))
    /\ (N <= MaxWarnings => Len(acc.warnings) <= MaxWarnings)
    /\ Copies(env, list, acc.warnings, N, k)
    /\ (~acc.full => Looked(env, list, acc, N, k))
    /\ Unlike(env, list) =>
          /\ NewOnes(acc.warnings, N)
          /\ acc.full => LeftOut(env, list, acc.warnings, N, k)

LEMMA RepeatStart ==
    ASSUME IsList(warnings), NEW N \in Nat, N = Len(warnings), NEW env, NEW list
    PROVE  Repeating(env, list, NoneYet, N, 0)
<1>1. PICK acc : acc = NoneYet
  OBVIOUS
<1>2. IsAcc(acc) /\ acc.warnings = warnings /\ acc.full = FALSE
  BY <1>1 DEF NoneYet, IsAcc
<1>3. (N + 1)..N = {} /\ 1..0 = {}
  OBVIOUS
<1>4. Extends(warnings, N, warnings, N)
  BY DEF Extends
<1>5. Copies(env, list, acc.warnings, N, 0) /\ NewOnes(acc.warnings, N)
  BY <1>2, <1>3 DEF Copies, NewOnes
<1>6. Looked(env, list, acc, N, 0)
  BY <1>3 DEF Looked
<1>7. Repeating(env, list, acc, N, 0)
  BY <1>2, <1>4, <1>5, <1>6 DEF Repeating
<1> QED
  BY <1>1, <1>7

LEMMA RepeatFurther ==
    ASSUME MaxWarnings \in Nat, NEW N \in Nat, NEW env, NEW list, IsList(list),
           NEW k \in Nat, k + 1 <= Len(list),
           NEW acc, Repeating(env, list, acc, N, k),
           NEW new, new = Again(env.prefix, env.met, env.trail, acc, list[k + 1])
    PROVE  Repeating(env, list, new, N, k + 1)
<1>1. /\ IsAcc(acc) /\ acc.full \in BOOLEAN /\ IsList(acc.warnings)
      /\ Extends(warnings, N, acc.warnings, Len(acc.warnings))
      /\ (N <= MaxWarnings => Len(acc.warnings) <= MaxWarnings)
      /\ Copies(env, list, acc.warnings, N, k)
      /\ (~acc.full => Looked(env, list, acc, N, k))
      /\ (Unlike(env, list) =>
            /\ NewOnes(acc.warnings, N)
            /\ acc.full => LeftOut(env, list, acc.warnings, N, k))
  BY DEF Repeating
<1>2. PICK w, L : w = list[k + 1] /\ L = Len(acc.warnings)
  OBVIOUS
<1>3. PICK copy : copy = Copy(env.prefix, env.met, env.trail, w)
  OBVIOUS
<1>4. Looks(env.prefix, w, acc, new, copy)
  <2>1. new = Again(env.prefix, env.met, env.trail, acc, w)
    BY <1>2
  <2> QED
    BY <1>1, <1>3, <2>1, AgainLooks
<1>5. L \in Nat /\ Len(list) \in Nat
  BY <1>1, <1>2, ListParts
<1>6. \A i \in 1..k : i \in 1..(k + 1)
  OBVIOUS
<1>7. k + 1 \in 1..(k + 1) /\ \A i \in 1..(k + 1) : i \in 1..k \/ i = k + 1
  OBVIOUS
<1>8. \A wrn : /\ Copies(env, list, wrn, N, k) => Copies(env, list, wrn, N, k + 1)
               /\ LeftOut(env, list, wrn, N, k) => LeftOut(env, list, wrn, N, k + 1)
  BY <1>6 DEF Copies, LeftOut
<1>9. CASE acc.full
  <2>1. new = acc
    BY <1>1, <1>4, <1>9 DEF Looks
  <2> QED
    BY <1>1, <1>8, <1>9, <2>1 DEF Repeating
<1>10. CASE ~acc.full /\ ~Clear(env.prefix, w)
  <2>1. /\ new.warnings = acc.warnings /\ new.full = acc.full
        /\ new.cuts = acc.cuts \cup {Outermost(ActiveOn(Rest(env.prefix, w)))}
    BY <1>1, <1>4, <1>10 DEF Looks, Passes
  <2>2. Looked(env, list, new, N, k + 1)
    <3>1. ASSUME NEW i \in 1..(k + 1)
          PROVE  IF Clear(env.prefix, list[i]) THEN Copied(env, list[i], new.warnings, N)
                 ELSE Outermost(ActiveOn(Rest(env.prefix, list[i]))) \in new.cuts
      <4>1. CASE i = k + 1
        BY <1>2, <1>10, <2>1, <4>1
      <4>2. CASE i \in 1..k
        BY <1>1, <1>10, <2>1, <4>2 DEF Looked
      <4> QED
        BY <1>7, <4>1, <4>2
    <3> QED
      BY <3>1 DEF Looked
  <2> QED
    BY <1>1, <1>4, <1>8, <1>10, <2>1, <2>2 DEF Repeating, Looks
<1>11. CASE ~acc.full /\ Clear(env.prefix, w) /\ L >= MaxWarnings
  <2>1. new.warnings = acc.warnings /\ new.full = TRUE /\ new.cuts = acc.cuts
    BY <1>1, <1>2, <1>4, <1>11 DEF Looks, Fills
  <2>2. ASSUME Unlike(env, list)
        PROVE  LeftOut(env, list, acc.warnings, N, k + 1)
    <3>1. ASSUME Copied(env, w, acc.warnings, N) PROVE FALSE
      <4>1. PICK j \in (N + 1)..L : acc.warnings[j] = copy
        BY <1>2, <1>3, <3>1 DEF Copied
      <4>2. PICK i \in 1..k : acc.warnings[j] = Copy(env.prefix, env.met, env.trail, list[i])
        BY <1>1, <1>2, <4>1 DEF Copies
      <4>3. i \in 1..Len(list) /\ k + 1 \in 1..Len(list)
        BY <1>5, <4>2
      <4>4. i = k + 1
        BY <1>2, <1>3, <2>2, <4>1, <4>2, <4>3 DEF Unlike
      <4> QED
        BY <4>2, <4>4
    <3> QED
      BY <1>2, <1>7, <1>11, <3>1 DEF LeftOut
  <2> QED
    BY <1>1, <1>4, <1>8, <2>1, <2>2 DEF Repeating, Looks
<1>12. CASE ~acc.full /\ Clear(env.prefix, w) /\ ~(L >= MaxWarnings)
  <2>1. new.warnings = Append(acc.warnings, copy) /\ new.full = acc.full /\ new.cuts = acc.cuts
    BY <1>1, <1>2, <1>4, <1>12 DEF Looks, Adds
  <2>2. PICK wrn : wrn = new.warnings
    OBVIOUS
  <2>3. IsList(acc.warnings) /\ wrn = Append(acc.warnings, copy)
    BY <1>1, <2>1, <2>2
  <2>4. /\ IsList(wrn) /\ Len(wrn) = L + 1 /\ \A j \in 1..L : wrn[j] = acc.warnings[j]
        /\ wrn[L + 1] = copy
    BY <1>2, <2>3, AppendedList
  <2>5. N <= L /\ Extends(warnings, N, wrn, Len(wrn))
    <3>1. N <= L /\ \A j \in 1..N : acc.warnings[j] = warnings[j]
      BY <1>1, <1>2 DEF Extends
    <3>2. \A j \in 1..N : j \in 1..L
      BY <1>5, <3>1
    <3> QED
      BY <1>5, <2>4, <3>1, <3>2 DEF Extends
  <2>6. Len(wrn) <= MaxWarnings
    BY <1>5, <1>12, <2>4
  <2>7. ASSUME NEW j \in (N + 1)..(L + 1)
        PROVE  j = L + 1 \/ (j \in (N + 1)..L /\ wrn[j] = acc.warnings[j])
    BY <1>5, <2>4
  <2>8. Copies(env, list, wrn, N, k + 1)
    <3>1. ASSUME NEW j \in (N + 1)..(L + 1)
          PROVE  \E i \in 1..(k + 1) : /\ Clear(env.prefix, list[i])
                    /\ wrn[j] = Copy(env.prefix, env.met, env.trail, list[i])
      <4>1. CASE j = L + 1
        BY <1>2, <1>3, <1>7, <1>12, <2>4, <4>1
      <4>2. CASE j \in (N + 1)..L /\ wrn[j] = acc.warnings[j]
        BY <1>1, <1>2, <1>6, <4>2 DEF Copies
      <4> QED
        BY <2>7, <4>1, <4>2
    <3> QED
      BY <2>4, <3>1 DEF Copies
  <2>9. \A v : Copied(env, v, acc.warnings, N) => Copied(env, v, wrn, N)
    <3>1. ASSUME NEW j \in (N + 1)..L
          PROVE  j \in (N + 1)..Len(wrn) /\ wrn[j] = acc.warnings[j]
      BY <1>5, <2>4
    <3> QED
      BY <1>2, <3>1 DEF Copied
  <2>10. Copied(env, w, wrn, N)
    <3>1. L + 1 \in (N + 1)..Len(wrn)
      BY <1>5, <2>4, <2>5
    <3> QED
      BY <1>3, <2>4, <3>1 DEF Copied
  <2>11. Looked(env, list, new, N, k + 1)
    <3>1. ASSUME NEW i \in 1..(k + 1)
          PROVE  IF Clear(env.prefix, list[i]) THEN Copied(env, list[i], new.warnings, N)
                 ELSE Outermost(ActiveOn(Rest(env.prefix, list[i]))) \in new.cuts
      <4>1. CASE i = k + 1
        BY <1>2, <1>12, <2>2, <2>10, <4>1
      <4>2. CASE i \in 1..k
        BY <1>1, <1>12, <2>1, <2>2, <2>9, <4>2 DEF Looked
      <4> QED
        BY <1>7, <4>1, <4>2
    <3> QED
      BY <3>1 DEF Looked
  <2>12. ASSUME Unlike(env, list)
         PROVE  NewOnes(wrn, N)
    <3>1. ASSUME NEW j \in (N + 1)..L PROVE acc.warnings[j] # copy
      <4>1. PICK i \in 1..k : acc.warnings[j] = Copy(env.prefix, env.met, env.trail, list[i])
        BY <1>1, <1>2 DEF Copies
      <4>2. i \in 1..Len(list) /\ k + 1 \in 1..Len(list) /\ i # k + 1
        BY <1>5, <4>1
      <4> QED
        BY <1>2, <1>3, <2>12, <4>1, <4>2 DEF Unlike
    <3>2. \A i, j \in (N + 1)..L : acc.warnings[i] = acc.warnings[j] => i = j
      BY <1>1, <1>2, <2>12 DEF NewOnes
    <3>3. ASSUME NEW i \in (N + 1)..(L + 1), NEW j \in (N + 1)..(L + 1), wrn[i] = wrn[j]
          PROVE  i = j
      <4>1. i = L + 1 \/ (i \in (N + 1)..L /\ wrn[i] = acc.warnings[i])
        BY <2>7
      <4>2. j = L + 1 \/ (j \in (N + 1)..L /\ wrn[j] = acc.warnings[j])
        BY <2>7
      <4> QED
        BY <2>4, <3>1, <3>2, <3>3, <4>1, <4>2
    <3> QED
      BY <2>4, <3>3 DEF NewOnes
  <2> QED
    BY <1>1, <1>4, <1>12, <2>1, <2>2, <2>4, <2>5, <2>6, <2>8, <2>11, <2>12 DEF Repeating, Looks
<1> QED
  BY <1>2, <1>9, <1>10, <1>11, <1>12

LEMMA RepeatedFacts ==
    ASSUME MaxWarnings \in Nat, IsList(warnings), NEW N \in Nat, N = Len(warnings),
           NEW pair, IsList(KnownList(pair))
    PROVE  Repeating(EnvOf(pair), KnownList(pair), Repeated(pair), N, Len(KnownList(pair)))
<1>1. PICK env, list : env = EnvOf(pair) /\ list = KnownList(pair)
  OBVIOUS
<1>2. PICK h : Chain(h, "again", env, NoneYet, list) /\ Repeated(pair) = h[Len(list)]
  BY <1>1, RepeatedChain
<1>3. PICK n \in Nat : n = Len(list)
  BY <1>1, ListParts
<1> DEFINE P == {k \in Nat : k <= n => Repeating(env, list, h[k], N, k)}
<1>4. 0 \in P
  BY <1>2, RepeatStart DEF Chain
<1>5. ASSUME NEW k \in Nat, k \in P PROVE k + 1 \in P
  <2> SUFFICES ASSUME k + 1 <= n PROVE Repeating(env, list, h[k + 1], N, k + 1)
    OBVIOUS
  <2>1. Repeating(env, list, h[k], N, k)
    BY <1>5
  <2>2. k + 1 \in 1..Len(list) /\ (k + 1) - 1 = k /\ k + 1 <= Len(list)
    BY <1>3
  <2>3. PICK i : i = k + 1 /\ i \in 1..Len(list) /\ i - 1 = k
    BY <2>2
  <2>4. h[i] = StepOf("again", env, h[i - 1], list[i])
    BY <1>2, <2>3 DEF Chain
  <2>5. h[k + 1] = Again(env.prefix, env.met, env.trail, h[k], list[k + 1])
    BY <2>3, <2>4 DEF StepOf
  <2> QED
    BY <1>1, <2>1, <2>2, <2>5, RepeatFurther
<1>6. Nat \subseteq P
  <2> HIDE DEF P
  <2> QED
    BY <1>4, <1>5, AllNumbers
<1>7. Repeating(env, list, h[n], N, n)
  BY <1>6
<1> QED
  BY <1>1, <1>2, <1>3, <1>7

-----------------------------------------------------------------------------
\* A copy is a path: the way to the top, its step, and what followed before.

LEMMA Joined ==
    ASSUME NEW s, NEW t, IsList(s), IsList(t)
    PROVE  /\ IsList(s \o t) /\ Len(s \o t) = Len(s) + Len(t)
           /\ \A i \in 1..Len(s) : (s \o t)[i] = s[i]
           /\ \A i \in 1..Len(t) : (s \o t)[Len(s) + i] = t[i]
<1> DEFINE A == {s[i] : i \in DOMAIN s} \cup {t[i] : i \in DOMAIN t}
<1>1. /\ Len(s) \in Nat /\ DOMAIN s = 1..Len(s) /\ s = [i \in 1..Len(s) |-> s[i]]
      /\ Len(t) \in Nat /\ DOMAIN t = 1..Len(t) /\ t = [i \in 1..Len(t) |-> t[i]]
  BY ListParts
<1>2. s \in Seq(A) /\ t \in Seq(A)
  <2>1. \A i \in 1..Len(s) : s[i] \in A
    BY <1>1
  <2>2. \A i \in 1..Len(t) : t[i] \in A
    BY <1>1
  <2> HIDE DEF A
  <2>3. s \in [1..Len(s) -> A] /\ t \in [1..Len(t) -> A]
    BY <1>1, <2>1, <2>2
  <2> QED
    BY <1>1, <2>3
<1> HIDE DEF A
<1>3. PICK st : st = s \o t
  OBVIOUS
<1>4. /\ st \in Seq(A) /\ Len(st) = Len(s) + Len(t)
      /\ \A i \in 1..Len(s) : st[i] = s[i]
      /\ \A i \in 1..Len(t) : st[Len(s) + i] = t[i]
  BY <1>1, <1>2, <1>3
<1>5. DOMAIN st = 1..Len(st) /\ st = [i \in 1..Len(st) |-> st[i]] /\ Len(st) \in Nat
  BY <1>1, <1>4
<1>6. IsList(st)
  BY <1>5, ListMade
<1> QED
  BY <1>3, <1>4, <1>6

LEMMA SamePath ==
    ASSUME NEW w, NEW v, IsPath(w), IsPath(v), Len(w.trail) = Len(v.trail),
           \A i \in 1..Len(w.trail) : w.trail[i] = v.trail[i] /\ w.path[i] = v.path[i]
    PROVE  w = v
<1>1. PICK n \in Nat : n = Len(w.trail)
  BY PathParts
<1>2. /\ w = [path |-> w.path, trail |-> w.trail] /\ v = [path |-> v.path, trail |-> v.trail]
      /\ IsList(w.trail) /\ IsList(v.trail) /\ IsList(w.path) /\ IsList(v.path)
      /\ Len(w.path) = n /\ Len(v.path) = n /\ Len(v.trail) = n
  BY <1>1 DEF IsPath
<1>3. /\ w.trail = [i \in 1..n |-> w.trail[i]] /\ v.trail = [i \in 1..n |-> v.trail[i]]
      /\ w.path = [i \in 1..n |-> w.path[i]] /\ v.path = [i \in 1..n |-> v.path[i]]
  <2>1. \A s : IsList(s) => s = [i \in 1..Len(s) |-> s[i]]
    BY ListParts
  <2> QED
    BY <1>1, <1>2, <2>1
<1>4. [i \in 1..n |-> w.trail[i]] = [i \in 1..n |-> v.trail[i]]
  BY <1>1
<1>5. [i \in 1..n |-> w.path[i]] = [i \in 1..n |-> v.path[i]]
  BY <1>1
<1>6. w.trail = v.trail /\ w.path = v.path
  BY <1>3, <1>4, <1>5
<1> QED
  BY <1>2, <1>6

\* A path through a pair, and what repeats the rest of it after the top's step.
Through(w, prefix, pair) == IsPath(w) /\ prefix \in 1..Len(w.trail) /\ w.trail[prefix] = pair
IsCopy(c, pair, prefix, w) ==
    c = Copy(prefix, Append(path, Current.seg), Append(Trail, pair), w)
Continues(c, n, pair, prefix, w) ==
    /\ IsPath(c) /\ Len(c.trail) = n + (Len(w.trail) - prefix)
    /\ Agrees(c, stack, n) /\ c.trail[n] = pair /\ c.path[n] = Current.seg
    /\ SameTail(c, n, w, prefix)

LEMMA CopyParts ==
    ASSUME IInv, PathTold(stack, path), NEW n \in Nat, n = Len(stack), NEW pair,
           NEW w, NEW prefix, Through(w, prefix, pair), NEW c, IsCopy(c, pair, prefix, w)
    PROVE  Continues(c, n, pair, prefix, w)
<1>0. IsPath(w) /\ prefix \in Nat /\ prefix <= Len(w.trail)
  BY PathParts DEF Through
<1>1. PICK m, q : m \in Nat /\ m + 1 = n /\ m = n - 1 /\ q = Len(w.trail) - prefix
  <2>1. n >= 1
    BY TopFacts
  <2> QED
    BY <2>1
<1>2. PICK v : v = [path |-> path, trail |-> Trail]
  OBVIOUS
<1>3. /\ IsPath(v) /\ Len(v.trail) = m /\ Agrees(v, stack, n)
  BY <1>1, <1>2, TrailAgrees
<1>4. v.path = path /\ v.trail = Trail /\ IsList(path) /\ IsList(Trail) /\ Len(path) = m
      /\ Len(Trail) = m
  BY <1>2, <1>3 DEF IsPath
<1>5. PICK met, trail : met = Append(path, Current.seg) /\ trail = Append(Trail, pair)
  OBVIOUS
<1>6. /\ IsList(met) /\ Len(met) = n /\ \A i \in 1..m : met[i] = path[i]
      /\ met[n] = Current.seg
  <2>1. IsList(path) /\ met = Append(path, Current.seg)
    BY <1>4, <1>5
  <2>2. /\ IsList(met) /\ Len(met) = Len(path) + 1 /\ \A i \in 1..Len(path) : met[i] = path[i]
        /\ met[Len(path) + 1] = Current.seg
    BY <2>1, AppendedList
  <2> QED
    BY <1>1, <1>4, <2>2
<1>7. /\ IsList(trail) /\ Len(trail) = n /\ \A i \in 1..m : trail[i] = Trail[i]
      /\ trail[n] = pair
  <2>1. PICK old : old = Trail
    OBVIOUS
  <2>2. IsList(old) /\ trail = Append(old, pair)
    BY <1>4, <1>5, <2>1
  <2>3. /\ IsList(trail) /\ Len(trail) = Len(old) + 1 /\ \A i \in 1..Len(old) : trail[i] = old[i]
        /\ trail[Len(old) + 1] = pair
    BY <2>2, AppendedList
  <2> QED
    BY <1>1, <1>4, <2>1, <2>3
<1>8. /\ IsList(w.trail) /\ IsList(w.path) /\ Len(w.trail) \in Nat /\ Len(w.path) = Len(w.trail)
  BY <1>0, PathParts DEF IsPath
<1>9. PICK r, p : r = SubSeq(w.trail, prefix + 1, Len(w.trail))
                  /\ p = SubSeq(w.path, prefix + 1, Len(w.path))
  OBVIOUS
<1>10. /\ IsList(r) /\ Len(r) = q /\ \A i \in 1..q : r[i] = w.trail[prefix + i]
       /\ IsList(p) /\ Len(p) = q /\ \A i \in 1..q : p[i] = w.path[prefix + i]
       /\ q \in Nat
  <2>1. PICK L \in Nat : L = Len(w.trail)
    BY <1>8
  <2>2. L = Len(w.path) /\ prefix <= L /\ prefix \in Nat /\ q = L - prefix /\ q \in Nat
    BY <1>0, <1>1, <1>8, <2>1
  <2>3. PICK ts, ps : ts = w.trail /\ ps = w.path
    OBVIOUS
  <2>4. IsList(ts) /\ L <= Len(ts) /\ IsList(ps) /\ L <= Len(ps)
    BY <1>8, <2>1, <2>2, <2>3
  <2>5. /\ IsList(SubSeq(ts, prefix + 1, L)) /\ Len(SubSeq(ts, prefix + 1, L)) = L - prefix
        /\ \A i \in 1..(L - prefix) : SubSeq(ts, prefix + 1, L)[i] = ts[prefix + i]
    BY <2>2, <2>4, PartList
  <2>6. /\ IsList(SubSeq(ps, prefix + 1, L)) /\ Len(SubSeq(ps, prefix + 1, L)) = L - prefix
        /\ \A i \in 1..(L - prefix) : SubSeq(ps, prefix + 1, L)[i] = ps[prefix + i]
    BY <2>2, <2>4, PartList
  <2>7. r = SubSeq(ts, prefix + 1, L) /\ p = SubSeq(ps, prefix + 1, L)
    BY <1>9, <2>1, <2>2, <2>3
  <2> QED
    BY <2>2, <2>3, <2>5, <2>6, <2>7
<1>11. c = [path |-> met \o p, trail |-> trail \o r]
  BY <1>5, <1>9 DEF IsCopy, Copy, Rest
<1>12. PICK cp, ct : cp = met \o p /\ ct = trail \o r
  OBVIOUS
<1>13. /\ IsList(cp) /\ Len(cp) = n + q /\ \A i \in 1..n : cp[i] = met[i]
       /\ \A i \in 1..q : cp[n + i] = p[i]
  <2>1. IsList(met) /\ IsList(p)
    BY <1>6, <1>10
  <2>2. /\ IsList(met \o p) /\ Len(met \o p) = Len(met) + Len(p)
        /\ \A i \in 1..Len(met) : (met \o p)[i] = met[i]
        /\ \A i \in 1..Len(p) : (met \o p)[Len(met) + i] = p[i]
    BY <2>1, Joined
  <2>3. Len(met) = n /\ Len(p) = q
    BY <1>6, <1>10
  <2> QED
    BY <1>12, <2>2, <2>3
<1>14. /\ IsList(ct) /\ Len(ct) = n + q /\ \A i \in 1..n : ct[i] = trail[i]
       /\ \A i \in 1..q : ct[n + i] = r[i]
  <2>1. IsList(trail) /\ IsList(r)
    BY <1>7, <1>10
  <2>2. /\ IsList(trail \o r) /\ Len(trail \o r) = Len(trail) + Len(r)
        /\ \A i \in 1..Len(trail) : (trail \o r)[i] = trail[i]
        /\ \A i \in 1..Len(r) : (trail \o r)[Len(trail) + i] = r[i]
    BY <2>1, Joined
  <2>3. Len(trail) = n /\ Len(r) = q
    BY <1>7, <1>10
  <2> QED
    BY <1>12, <2>2, <2>3
<1>15. c.path = cp /\ c.trail = ct /\ c = [path |-> c.path, trail |-> c.trail]
  BY <1>11, <1>12
<1>16. IsPath(c)
  BY <1>13, <1>14, <1>15 DEF IsPath
<1>17. \A i \in 1..m : i \in 1..n
  BY <1>1
<1>18. Agrees(c, stack, n)
  <2>1. Len(c.trail) >= n - 1
    BY <1>10, <1>14, <1>15
  <2>2. ASSUME NEW i \in 1..(n - 1)
        PROVE  c.trail[i] = stack[i + 1].pair /\ c.path[i] = Todo(stack[i])[stack[i].at].seg
    <3>1. i \in 1..m /\ i \in 1..n
      BY <1>1
    <3>2. c.trail[i] = v.trail[i] /\ c.path[i] = v.path[i]
      BY <1>4, <1>6, <1>7, <1>13, <1>14, <1>15, <3>1
    <3> QED
      BY <1>3, <3>2 DEF Agrees
  <2> QED
    BY <2>1, <2>2 DEF Agrees
<1>19. n \in 1..n
  BY <1>1
<1>20. c.trail[n] = pair /\ c.path[n] = Current.seg
  BY <1>6, <1>7, <1>13, <1>14, <1>15, <1>19
<1>21. SameTail(c, n, w, prefix)
  <2>1. Len(c.trail) - n = q
    BY <1>10, <1>14, <1>15
  <2>2. \A i \in 1..q : c.trail[n + i] = w.trail[prefix + i] /\ c.path[n + i] = w.path[prefix + i]
    BY <1>10, <1>13, <1>14, <1>15
  <2> QED
    BY <1>1, <2>1, <2>2 DEF SameTail
<1> QED
  BY <1>1, <1>10, <1>14, <1>15, <1>16, <1>18, <1>20, <1>21 DEF Continues

\* Two paths with the same tail take the same steps on it.
LEMMA TailChosen ==
    ASSUME NEW c, NEW w, IsPath(c), IsPath(w), NEW n \in Nat, NEW p \in Nat,
           n <= Len(c.trail), p <= Len(w.trail),
           SameTail(c, n, w, p), From(c, n) = From(w, p), NEW h \in 0..(Len(w.trail) - p)
    PROVE  /\ From(c, n + h) = From(w, p + h)
           /\ \A i : Chosen(w, p + h, i) => Chosen(c, n + h, i)
<1>1. /\ Len(c.trail) \in Nat /\ Len(w.trail) \in Nat
      /\ Len(c.trail) - n = Len(w.trail) - p
  BY PathParts DEF SameTail
<1>2. From(c, n + h) = From(w, p + h)
  <2>1. CASE h = 0
    <3>1. n + h = n /\ p + h = p
      BY <2>1
    <3> QED
      BY <3>1
  <2>2. CASE h # 0
    <3>1. h \in 1..(Len(w.trail) - p) /\ n + h # 0 /\ p + h # 0
      BY <2>2
    <3> QED
      BY <3>1 DEF From, SameTail
  <2> QED
    BY <2>1, <2>2
<1>3. ASSUME NEW i, Chosen(w, p + h, i)
      PROVE  Chosen(c, n + h, i)
  <2>1. PICK o : o = Asked(From(w, p + h))[i]
    OBVIOUS
  <2>2. Takes(w, p + h, o)
    BY <1>3, <2>1 DEF Chosen
  <2>3. p + h < Len(w.trail) <=> n + h < Len(c.trail)
    BY <1>1
  <2>4. Takes(c, n + h, o)
    <3>1. CASE p + h < Len(w.trail)
      <4>1. PICK k : k = h + 1
        OBVIOUS
      <4>2. k \in 1..(Len(w.trail) - p) /\ (p + h) + 1 = p + k /\ (n + h) + 1 = n + k
        BY <1>1, <3>1, <4>1
      <4>3. c.trail[n + k] = w.trail[p + k] /\ c.path[n + k] = w.path[p + k]
        BY <4>2 DEF SameTail
      <4>4. Goes(o) /\ w.path[p + k] = o.seg /\ w.trail[p + k] = o.pair
        BY <2>2, <3>1, <4>2 DEF Takes
      <4> QED
        BY <2>3, <3>1, <4>2, <4>3, <4>4 DEF Takes
    <3>2. CASE ~(p + h < Len(w.trail))
      BY <2>2, <2>3, <3>2 DEF Takes
    <3> QED
      BY <3>1, <3>2
  <2> QED
    BY <1>2, <1>3, <2>1, <2>4 DEF Chosen
<1> QED
  BY <1>2, <1>3

\* Where a warning that is not clear comes round.
Round(n, prefix, w) ==
    \E o \in 2..n : \E h \in 1..(Len(w.trail) - prefix) :
       /\ o = Outermost(ActiveOn(Rest(prefix, w)))
       /\ stack[o].pair = w.trail[prefix + h]

LEMMA ClearAway ==
    ASSUME IInv, NEW n \in Nat, n = Len(stack), NEW w, IsPath(w),
           NEW prefix \in Nat, prefix <= Len(w.trail)
    PROVE  /\ Clear(prefix, w) => \A h \in 1..(Len(w.trail) - prefix) :
                                     w.trail[prefix + h] \notin Active
           /\ ~Clear(prefix, w) => Round(n, prefix, w)
<1>1. IsList(w.trail) /\ Len(w.trail) \in Nat
  BY PathParts DEF IsPath
<1>2. PICK r, q : r = Rest(prefix, w) /\ q = Len(w.trail) - prefix
  OBVIOUS
<1>3. DOMAIN r = 1..q /\ \A i \in 1..q : r[i] = w.trail[prefix + i]
  BY <1>1, <1>2, PartList DEF Rest
<1>4. PICK T : T = ActiveOn(r)
  OBVIOUS
<1>5. T = {i \in 2..n : stack[i].pair \in Elements(r)}
  BY <1>4 DEF ActiveOn, DepthsOf
<1>6. ASSUME T = {}, NEW h \in 1..q
      PROVE  w.trail[prefix + h] \notin Active
  <2>1. w.trail[prefix + h] \in Elements(r)
    BY <1>3 DEF Elements
  <2> QED
    BY <1>5, <1>6, <2>1 DEF Active
<1>7. ASSUME T # {}
      PROVE  \E o \in 2..n : \E h \in 1..q :
                o = Outermost(T) /\ stack[o].pair = w.trail[prefix + h]
  <2>1. T \subseteq Nat
    BY <1>5
  <2>2. PICK m \in T : \A j \in T : m <= j
    BY <1>7, <2>1, LeastNumber
  <2>3. PICK o : o = Outermost(T)
    OBVIOUS
  <2>4. o \in T
    BY <2>2, <2>3 DEF Outermost
  <2>5. o \in 2..n /\ stack[o].pair \in Elements(r)
    BY <1>5, <2>4
  <2>6. PICK h \in 1..q : stack[o].pair = r[h]
    BY <1>3, <2>5 DEF Elements
  <2> QED
    BY <1>3, <2>3, <2>5, <2>6
<1> QED
  BY <1>2, <1>4, <1>6, <1>7 DEF Clear, Round

-----------------------------------------------------------------------------
\* What a proof's warnings are, and that each of them repeated is a path.

IsSlice(t, s, from, to) ==
    /\ IsList(t)
    /\ \A i \in 1..Len(t) : from + i \in (from + 1)..to /\ t[i] = s[from + i]
    /\ \A j \in (from + 1)..to : \E i \in 1..Len(t) : j = from + i

LEMMA SliceList ==
    ASSUME NEW s, NEW from \in Nat, NEW to \in Nat, NEW t, t = SubSeq(s, from + 1, to)
    PROVE  IsSlice(t, s, from, to)
<1>1. PICK k : k = 1 + to - (from + 1)
  OBVIOUS
<1>2. t = [i \in 1..k |-> s[i + (from + 1) - 1]]
  BY <1>1
<1>3. PICK n : n = IF from <= to THEN to - from ELSE 0
  OBVIOUS
<1>9. n \in Nat /\ 1..k = 1..n
  BY <1>1, <1>3
<1>4. \A i \in 1..n : i + (from + 1) - 1 = from + i
  OBVIOUS
<1>5. t = [i \in 1..n |-> s[from + i]]
  BY <1>2, <1>4, <1>9
<1>6. DOMAIN t = 1..n /\ t = [i \in 1..n |-> t[i]] /\ \A i \in 1..n : t[i] = s[from + i]
  BY <1>5
<1>7. IsList(t) /\ Len(t) = n
  BY <1>6, <1>9, ListMade
<1>8. ASSUME NEW j \in (from + 1)..to PROVE \E i \in 1..n : j = from + i
  <2>1. PICK i : i = j - from
    OBVIOUS
  <2>2. i \in 1..n
    BY <1>3, <2>1
  <2>3. j = from + i
    BY <2>1
  <2> QED
    BY <2>2, <2>3
<1>10. \A i \in 1..n : from + i \in (from + 1)..to
  BY <1>3
<1> QED
  BY <1>6, <1>7, <1>8, <1>10 DEF IsSlice

\* The top answers its step with a proof.
Answers(n, pair) ==
    /\ n = Len(stack) /\ ~AtEnd /\ Current.do \in {"visit", "probe"} /\ Current.pair = pair
    /\ pair \in DOMAIN proven /\ pair \notin Active /\ PathTold(stack, path) /\ Once(stack)
    /\ Sure(stack, n)

LEMMA AnswersGoes ==
    ASSUME IInv, NEW n \in Nat, NEW pair, Answers(n, pair)
    PROVE  Goes(Current) /\ pair \in Pair
<1>1. pair \in Pair
  BY DEF Answers, IInv, Walking, Justified
<1>2. pair \in Holding
  BY ProvenHolds DEF Answers
<1> QED
  BY <1>1, <1>2 DEF Goes, Answers

LEMMA CopyStep ==
    ASSUME IInv, NEW n \in Nat, NEW pair, Answers(n, pair), NEW c, IsPath(c),
           Agrees(c, stack, n), Len(c.trail) >= n, c.trail[n] = pair, c.path[n] = Current.seg
    PROVE  Chosen(c, n - 1, stack[n].at) /\ n >= 1
<1>1. /\ World /\ Framed(stack) /\ Linked(stack) /\ n >= 1 /\ n \in DOMAIN stack
      /\ stack[n].at \in DOMAIN Todo(stack[n]) /\ Todo(stack[n])[stack[n].at] = Current
  BY TopCurrent DEF Answers
<1>2. n \in 1..n /\ (n - 1) + 1 = n
  BY <1>1
<1>3. From(c, n - 1) = stack[n].pair
  BY <1>1, <1>2, AgreesFrom
<1>4. Asked(From(c, n - 1)) = Todo(stack[n])
  BY <1>1, <1>3, FrameAsked
<1>5. n - 1 < Len(c.trail)
  BY PathParts
<1>6. Takes(c, n - 1, Current)
  BY <1>2, <1>5, AnswersGoes DEF Takes, Answers
<1> QED
  BY <1>1, <1>4, <1>6 DEF Chosen

LEMMA CopyPlaces ==
    ASSUME IInv, NEW n \in Nat, NEW pair, Answers(n, pair),
           NEW w, NEW prefix, Through(w, prefix, pair), NEW c, Continues(c, n, pair, prefix, w),
           NEW i \in DOMAIN c.trail
    PROVE  \/ i \in 1..(n - 1) /\ i + 1 \in 2..n /\ c.trail[i] = stack[i + 1].pair
           \/ \E h \in 0..(Len(w.trail) - prefix) :
                 i = n + h /\ prefix + h \in DOMAIN w.trail /\ c.trail[i] = w.trail[prefix + h]
<1>0. /\ IsPath(w) /\ prefix \in 1..Len(w.trail) /\ w.trail[prefix] = pair
      /\ IsPath(c) /\ Len(c.trail) = n + (Len(w.trail) - prefix) /\ Agrees(c, stack, n)
      /\ c.trail[n] = pair /\ SameTail(c, n, w, prefix)
  BY DEF Through, Continues
<1>1. /\ Len(w.trail) \in Nat /\ DOMAIN w.trail = 1..Len(w.trail)
      /\ DOMAIN c.trail = 1..(n + (Len(w.trail) - prefix)) /\ i \in Nat
  BY <1>0, PathParts
<1>2. CASE i < n
  <2>1. i \in 1..(n - 1) /\ i + 1 \in 2..n
    BY <1>1, <1>2
  <2> QED
    BY <1>0, <2>1 DEF Agrees
<1>3. CASE i = n
  <2>1. i = n + 0 /\ 0 \in 0..(Len(w.trail) - prefix) /\ prefix + 0 = prefix
        /\ prefix \in DOMAIN w.trail
    BY <1>0, <1>1, <1>3
  <2> QED
    BY <1>0, <1>3, <2>1
<1>4. CASE i > n
  <2>1. PICK h \in 1..(Len(w.trail) - prefix) : i = n + h
    <3>1. i - n \in 1..(Len(w.trail) - prefix) /\ i = n + (i - n)
      BY <1>0, <1>1, <1>4
    <3> QED
      BY <3>1
  <2>2. c.trail[i] = w.trail[prefix + h]
    BY <1>0, <2>1 DEF SameTail
  <2>3. prefix + h \in DOMAIN w.trail /\ h \in 0..(Len(w.trail) - prefix)
    BY <1>0, <1>1, <2>1
  <2> QED
    BY <2>1, <2>2, <2>3
<1> QED
  BY <1>1, <1>2, <1>3, <1>4

LEMMA CopySingle ==
    ASSUME IInv, NEW n \in Nat, NEW pair, Answers(n, pair),
           NEW w, Route(w, 0), NEW prefix, Through(w, prefix, pair), Clear(prefix, w),
           NEW c, Continues(c, n, pair, prefix, w)
    PROVE  Single(c, 0) /\ Known(c, 0)
<1> DEFINE Ours(i) == i \in 1..(n - 1) /\ i + 1 \in 2..n /\ c.trail[i] = stack[i + 1].pair
           Theirs(i) == \E h \in 0..(Len(w.trail) - prefix) :
              i = n + h /\ prefix + h \in DOMAIN w.trail /\ c.trail[i] = w.trail[prefix + h]
<1>0. prefix \in 1..Len(w.trail) /\ w.trail[prefix] = pair
  BY DEF Through
<1>1. IsPath(w) /\ Single(w, 0) /\ Known(w, 0) /\ n = Len(stack)
  BY DEF Route, Answers
<1>2. Len(w.trail) \in Nat /\ DOMAIN w.trail = 1..Len(w.trail)
  BY <1>1, PathParts
<1>3. \A i \in DOMAIN c.trail : Ours(i) \/ Theirs(i)
  <2> TAKE i \in DOMAIN c.trail
  <2>1. IsPath(c)
    BY DEF Continues
  <2>2. \/ i \in 1..(n - 1) /\ i + 1 \in 2..n /\ c.trail[i] = stack[i + 1].pair
        \/ \E h \in 0..(Len(w.trail) - prefix) :
              i = n + h /\ prefix + h \in DOMAIN w.trail /\ c.trail[i] = w.trail[prefix + h]
    BY CopyPlaces
  <2> QED
    BY <2>2
<1>4. \A k \in 2..n : stack[k].pair \in Pair /\ stack[k].pair \in Active
  <2>1. Framed(stack) /\ DOMAIN stack = 1..n
    BY <1>1, ListParts DEF IInv, Walking, Framed
  <2>2. \A k \in 2..n : k \in DOMAIN stack /\ k > 1
    BY <2>1
  <2>3. \A k \in 2..n : stack[k].pair \in Pair
    BY <2>1, <2>2 DEF Framed
  <2>4. \A k \in 2..n : stack[k].pair \in Active
    BY <1>1 DEF Active
  <2> QED
    BY <2>3, <2>4
<1>5. \A h \in 0..(Len(w.trail) - prefix) : w.trail[prefix + h] \notin Active
  <2>1. prefix \in Nat /\ prefix <= Len(w.trail)
    BY <1>0, <1>2
  <2>2. \A h \in 1..(Len(w.trail) - prefix) : w.trail[prefix + h] \notin Active
    BY <1>1, <2>1, ClearAway
  <2>3. ASSUME NEW h \in 0..(Len(w.trail) - prefix) PROVE w.trail[prefix + h] \notin Active
    <3>1. CASE h = 0
      <4>1. prefix + h = prefix
        BY <2>1, <3>1
      <4> QED
        BY <1>0, <4>1 DEF Answers
    <3>2. CASE h # 0
      <4>1. h \in 1..(Len(w.trail) - prefix)
        BY <3>2
      <4> QED
        BY <2>2, <4>1
    <3> QED
      BY <3>1, <3>2
  <2> QED
    BY <2>3
<1>6. ASSUME NEW i, Ours(i), NEW j, Theirs(j) PROVE c.trail[i] # c.trail[j]
  BY <1>4, <1>5, <1>6
<1>7. ASSUME NEW i, Ours(i), NEW j, Ours(j), c.trail[i] = c.trail[j] PROVE i = j
  <2>1. stack[i + 1].pair = stack[j + 1].pair /\ i + 1 \in 2..n /\ j + 1 \in 2..n
    BY <1>7
  <2>2. i + 1 = j + 1
    BY <1>1, <2>1 DEF Answers, Once
  <2> QED
    BY <1>7, <2>2
<1>8. ASSUME NEW i, Theirs(i), NEW j, Theirs(j), c.trail[i] = c.trail[j] PROVE i = j
  <2>1. PICK g \in 0..(Len(w.trail) - prefix) :
           i = n + g /\ prefix + g \in DOMAIN w.trail /\ c.trail[i] = w.trail[prefix + g]
    BY <1>8
  <2>2. PICK h \in 0..(Len(w.trail) - prefix) :
           j = n + h /\ prefix + h \in DOMAIN w.trail /\ c.trail[j] = w.trail[prefix + h]
    BY <1>8
  <2>3. 0 <= prefix + g /\ 0 <= prefix + h
    BY <1>0, <1>2
  <2>4. prefix + g = prefix + h
    BY <1>1, <1>8, <2>1, <2>2, <2>3 DEF Single
  <2> QED
    BY <1>0, <1>2, <2>1, <2>2, <2>4
<1>9. Single(c, 0)
  <2> HIDE DEF Ours, Theirs
  <2> QED
    BY <1>3, <1>6, <1>7, <1>8 DEF Single
<1>10. ASSUME NEW i \in DOMAIN c.trail PROVE c.trail[i] \in Pair
  <2>1. CASE Ours(i)
    BY <1>4, <2>1
  <2>2. CASE Theirs(i)
    <3>1. PICK h \in 0..(Len(w.trail) - prefix) :
           i = n + h /\ prefix + h \in DOMAIN w.trail /\ c.trail[i] = w.trail[prefix + h]
      BY <2>2
    <3>2. 0 <= prefix + h
      BY <1>0, <1>2
    <3> QED
      BY <1>1, <3>1, <3>2 DEF Known
  <2> QED
    BY <1>3, <2>1, <2>2
<1> QED
  BY <1>9, <1>10 DEF Known

LEMMA CopyRoute ==
    ASSUME IInv, NEW n \in Nat, NEW pair, Answers(n, pair),
           NEW w, Route(w, 0), NEW prefix, Through(w, prefix, pair),
           NEW c, IsCopy(c, pair, prefix, w)
    PROVE  /\ Continues(c, n, pair, prefix, w) /\ n >= 1
           /\ Clear(prefix, w) =>
                 Route(c, 0) /\ Agrees(c, stack, n) /\ Chosen(c, n - 1, stack[n].at)
<1>1. IsPath(w) /\ n = Len(stack) /\ PathTold(stack, path)
  BY DEF Route, Answers
<1>0. prefix \in 1..Len(w.trail) /\ w.trail[prefix] = pair
  BY DEF Through
<1>2. PICK L \in Nat : L = Len(w.trail) /\ DOMAIN w.trail = 1..L
  BY <1>1, PathParts
<1>3. prefix \in Nat /\ prefix <= Len(w.trail) /\ prefix \in 1..L
  BY <1>0, <1>2
<1>9. Continues(c, n, pair, prefix, w)
  BY <1>1, CopyParts
<1>4. /\ IsPath(c) /\ Len(c.trail) = n + (Len(w.trail) - prefix)
      /\ Agrees(c, stack, n) /\ c.trail[n] = pair /\ c.path[n] = Current.seg
      /\ SameTail(c, n, w, prefix)
  BY <1>9 DEF Continues
<1>5. Len(c.trail) >= n
  BY <1>2, <1>3, <1>4
<1>6. Chosen(c, n - 1, stack[n].at) /\ n >= 1
  BY <1>4, <1>5, CopyStep
<1>7. ASSUME Clear(prefix, w) PROVE Route(c, 0)
  <2>1. Single(c, 0) /\ Known(c, 0)
    BY <1>7, <1>9, CopySingle
  <2>2. ASSUME NEW m \in 0..Len(c.trail) PROVE \E i : Chosen(c, m, i)
    <3>0. m \in Nat
      BY <1>2, <1>3, <1>4
    <3>1. CASE m < n - 1
      <4>1. PICK k \in 1..(n - 1) : k - 1 = m
        <5>1. m + 1 \in 1..(n - 1) /\ (m + 1) - 1 = m
          BY <3>0, <3>1
        <5> QED
          BY <5>1
      <4>2. World /\ Framed(stack) /\ Linked(stack) /\ n <= Len(stack) /\ Sure(stack, n)
        BY <1>1 DEF IInv, Walking, Answers
      <4>3. Chosen(c, k - 1, stack[k].at)
        BY <1>4, <4>2, AgreesChosen
      <4> QED
        BY <4>1, <4>3
    <3>2. CASE m = n - 1
      BY <1>6, <3>2
    <3>3. CASE m >= n
      <4>1. PICK h \in 0..(L - prefix) : m = n + h
        <5>1. m - n \in 0..(L - prefix) /\ m = n + (m - n)
          BY <1>2, <1>3, <1>4, <3>0, <3>3
        <5> QED
          BY <5>1
      <4>2. From(c, n) = From(w, prefix)
        BY <1>0, <1>3, <1>4, <1>6 DEF From
      <4>3. prefix + h \in 0..L
        BY <1>3, <4>1
      <4>4. PICK i : Chosen(w, prefix + h, i)
        BY <1>2, <4>3 DEF Route
      <4>5. n <= Len(c.trail) /\ h \in 0..(Len(w.trail) - prefix)
        BY <1>2, <1>5, <4>1
      <4>6. Chosen(c, n + h, i)
        BY <1>1, <1>3, <1>4, <4>2, <4>4, <4>5, TailChosen
      <4> QED
        BY <4>1, <4>6
    <3> QED
      BY <3>0, <3>1, <3>2, <3>3
  <2>3. 0 \in 0..Len(c.trail)
    BY <1>2, <1>3, <1>4
  <2> QED
    BY <1>4, <2>1, <2>2, <2>3 DEF Route
<1> QED
  BY <1>4, <1>6, <1>7, <1>9

-----------------------------------------------------------------------------
\* A pair that is proven is answered with its proof's warnings.

Repeats(n, pair, N) == /\ Answers(n, pair) /\ Warns /\ failing = FALSE /\ N \in Nat
                       /\ N = Len(warnings) /\ MaxWarnings \in Nat

LEMMA KnownIsList ==
    ASSUME Warns, NEW pair \in DOMAIN proven
    PROVE  /\ IsList(KnownList(pair))
           /\ \A i \in 1..Len(KnownList(pair)) :
                 /\ proven[pair].start + i \in (proven[pair].start + 1)..proven[pair].end
                 /\ KnownList(pair)[i] = warnings[proven[pair].start + i]
           /\ \A j \in (proven[pair].start + 1)..proven[pair].end :
                 \E i \in 1..Len(KnownList(pair)) : j = proven[pair].start + i
<1>1. PICK from, to : from = proven[pair].start /\ to = proven[pair].end
  OBVIOUS
<1>2. from \in Nat /\ to \in Nat
  BY <1>1 DEF Warns, Warning, Counted
<1>3. PICK list : list = KnownList(pair)
  OBVIOUS
<1>4. list = SubSeq(warnings, from + 1, to)
  BY <1>1, <1>3 DEF KnownList
<1>5. IsSlice(list, warnings, from, to)
  BY <1>2, <1>4, SliceList
<1> QED
  BY <1>1, <1>3, <1>5 DEF IsSlice

LEMMA RepeatsFacts ==
    ASSUME IInv, NEW n, NEW pair, NEW N, Repeats(n, pair, N)
    PROVE  /\ n \in Nat /\ n = Len(stack) /\ Sure(stack, n) /\ pair \in DOMAIN proven
           /\ Sound(stack, n, warnings, N) /\ Distinct(warnings, N)
           /\ IsRecord(proven[pair], pair, n, warnings, N) /\ Bounded(warnings, N, truncated)
           /\ ~truncated => Repeatable(stack, warnings, proven, DOMAIN proven)
           /\ Repeating(EnvOf(pair), KnownList(pair), Repeated(pair), N, Len(KnownList(pair)))
<1>1. n = Len(stack) /\ Sure(stack, n) /\ pair \in DOMAIN proven
  BY DEF Repeats, Answers
<1>2. n \in Nat
  BY <1>1, TopFacts
<1>3. Claims(stack, n, warnings, N, proven, DOMAIN proven, truncated)
  BY <1>1 DEF Repeats, Warns, Warning
<1>4. Repeating(EnvOf(pair), KnownList(pair), Repeated(pair), N, Len(KnownList(pair)))
  <2>1. IsList(warnings) /\ MaxWarnings \in Nat /\ N \in Nat /\ N = Len(warnings) /\ Warns
    BY DEF Repeats, Warns, Warning
  <2>2. IsList(KnownList(pair))
    BY <1>1, <2>1, KnownIsList
  <2> QED
    BY <2>1, <2>2, RepeatedFacts
<1> QED
  BY <1>1, <1>2, <1>3, <1>4 DEF Claims, Recorded

LEMMA EnvCopy ==
    ASSUME NEW pair, NEW w
    PROVE  /\ IsCopy(Copy(EnvOf(pair).prefix, EnvOf(pair).met, EnvOf(pair).trail, w), pair,
                     proven[pair].prefix, w)
           /\ EnvOf(pair).prefix = proven[pair].prefix
<1>1. PICK env : env = EnvOf(pair)
  OBVIOUS
<1>2. /\ env.prefix = proven[pair].prefix /\ env.met = Append(path, Current.seg)
      /\ env.trail = Append(Trail, pair)
  BY <1>1 DEF EnvOf
<1> QED
  BY <1>1, <1>2 DEF IsCopy

LEMMA KnownThrough ==
    ASSUME IInv, NEW n, NEW pair, NEW N, Repeats(n, pair, N),
           NEW j, j \in (proven[pair].start + 1)..proven[pair].end
    PROVE  /\ j \in 1..N /\ Route(warnings[j], 0)
           /\ Through(warnings[j], proven[pair].prefix, pair)
<1>1. /\ Sound(stack, n, warnings, N) /\ IsRecord(proven[pair], pair, n, warnings, N)
      /\ N \in Nat
  BY RepeatsFacts DEF Repeats
<1>2. PICK r, w : r = proven[pair] /\ w = warnings[j]
  OBVIOUS
<1>3. r.start \in Nat /\ r.end \in 0..N /\ r.prefix \in Nat \ {0} /\ j \in (r.start + 1)..r.end
  BY <1>1, <1>2 DEF IsRecord
<1>4. j \in 1..N
  BY <1>1, <1>3
<1>5. Route(w, 0)
  BY <1>1, <1>2, <1>4 DEF Sound
<1>6. Len(w.trail) >= r.prefix /\ w.trail[r.prefix] = pair
  BY <1>1, <1>2, <1>3 DEF IsRecord
<1>7. IsPath(w) /\ Len(w.trail) \in Nat
  BY <1>5, PathParts DEF Route
<1>8. r.prefix \in 1..Len(w.trail)
  BY <1>3, <1>6, <1>7
<1> QED
  BY <1>2, <1>4, <1>5, <1>6, <1>7, <1>8 DEF Through

\* The copies differ, as the warnings they are made of do.
LEMMA KnownUnlike ==
    ASSUME IInv, NEW n, NEW pair, NEW N, Repeats(n, pair, N)
    PROVE  Unlike(EnvOf(pair), KnownList(pair))
<1>1. PICK r, list, env : r = proven[pair] /\ list = KnownList(pair) /\ env = EnvOf(pair)
  OBVIOUS
<1>2. /\ pair \in DOMAIN proven /\ Warns /\ n \in Nat /\ n = Len(stack)
      /\ PathTold(stack, path) /\ Distinct(warnings, N)
      /\ IsRecord(r, pair, n, warnings, N)
  BY <1>1, RepeatsFacts DEF Repeats, Answers
<1>3. \A i \in 1..Len(list) : r.start + i \in (r.start + 1)..r.end
                              /\ list[i] = warnings[r.start + i]
  BY <1>1, <1>2, KnownIsList
<1>4. ASSUME NEW i \in 1..Len(list), NEW j \in 1..Len(list),
             Copy(env.prefix, env.met, env.trail, list[i])
                = Copy(env.prefix, env.met, env.trail, list[j])
      PROVE  i = j
  <2>1. PICK a, b : a = r.start + i /\ b = r.start + j
    OBVIOUS
  <2>2. PICK w, v, c : /\ w = warnings[a] /\ v = warnings[b]
                       /\ c = Copy(env.prefix, env.met, env.trail, w)
    OBVIOUS
  <2>3. /\ a \in (r.start + 1)..r.end /\ b \in (r.start + 1)..r.end
        /\ list[i] = w /\ list[j] = v
    BY <1>3, <2>1, <2>2
  <2>4. c = Copy(env.prefix, env.met, env.trail, v)
    BY <1>4, <2>2, <2>3
  <2>5. IsCopy(c, pair, r.prefix, w) /\ IsCopy(c, pair, r.prefix, v)
    BY <1>1, <2>2, <2>4, EnvCopy
  <2>6. /\ a \in 1..N /\ Through(w, r.prefix, pair) /\ b \in 1..N /\ Through(v, r.prefix, pair)
    BY <1>1, <2>2, <2>3, KnownThrough
  <2>7. Continues(c, n, pair, r.prefix, w) /\ Continues(c, n, pair, r.prefix, v)
    BY <1>2, <2>5, <2>6, CopyParts
  <2>8. PICK p, L, M : p = r.prefix /\ L = Len(w.trail) /\ M = Len(v.trail)
    OBVIOUS
  <2>9. /\ IsPath(w) /\ IsPath(v) /\ L \in Nat /\ M \in Nat /\ p \in 1..L /\ p \in 1..M
    BY <2>6, <2>8, PathParts DEF Through
  <2>10. L = M
    <3>1. Len(c.trail) = n + (L - p) /\ Len(c.trail) = n + (M - p)
      BY <2>7, <2>8 DEF Continues
    <3> QED
      BY <1>2, <2>9, <3>1
  <2>11. \A h \in 1..p : w.trail[h] = v.trail[h] /\ w.path[h] = v.path[h]
    <3>1. \A h \in 1..r.prefix : warnings[a].trail[h] = warnings[b].trail[h]
                                 /\ warnings[a].path[h] = warnings[b].path[h]
      BY <1>2, <2>3 DEF IsRecord
    <3> QED
      BY <2>2, <2>8, <3>1
  <2>12. \A h \in 1..(L - p) : w.trail[p + h] = v.trail[p + h] /\ w.path[p + h] = v.path[p + h]
    <3>1. /\ \A h \in 1..(L - p) : c.trail[n + h] = w.trail[p + h]
                                   /\ c.path[n + h] = w.path[p + h]
          /\ \A h \in 1..(L - p) : c.trail[n + h] = v.trail[p + h]
                                   /\ c.path[n + h] = v.path[p + h]
      BY <2>7, <2>8, <2>10 DEF Continues, SameTail
    <3> QED
      BY <3>1
  <2>13. ASSUME NEW h \in 1..L
         PROVE  w.trail[h] = v.trail[h] /\ w.path[h] = v.path[h]
    <3>1. CASE h <= p
      <4>1. h \in 1..p
        BY <2>9, <3>1
      <4> QED
        BY <2>11, <4>1
    <3>2. CASE h > p
      <4>1. PICK g : g = h - p
        OBVIOUS
      <4>2. g \in 1..(L - p) /\ h = p + g
        BY <2>9, <3>2, <4>1
      <4> QED
        BY <2>12, <4>2
    <3> QED
      BY <2>9, <3>1, <3>2
  <2>14. w = v
    BY <2>8, <2>9, <2>10, <2>13, SamePath
  <2>15. a = b
    BY <1>2, <2>2, <2>6, <2>14 DEF Distinct
  <2>16. r.start \in Nat
    BY <1>2 DEF IsRecord
  <2> QED
    BY <2>1, <2>15, <2>16
<1> QED
  BY <1>1, <1>4 DEF Unlike

\* What is repeated goes on by the top's step.
LEMMA CopyGoes ==
    ASSUME IInv, NEW n, NEW pair, NEW N, Repeats(n, pair, N),
           NEW i, i \in 1..Len(KnownList(pair)), NEW w, w = KnownList(pair)[i],
           Clear(EnvOf(pair).prefix, w),
           NEW c, c = Copy(EnvOf(pair).prefix, EnvOf(pair).met, EnvOf(pair).trail, w)
    PROVE  Route(c, 0) /\ Agrees(c, stack, n) /\ Chosen(c, n - 1, stack[n].at)
<1>1. PICK r : r = proven[pair]
  OBVIOUS
<1>2. Warns /\ pair \in DOMAIN proven /\ n \in Nat /\ Answers(n, pair)
  BY RepeatsFacts DEF Repeats
<1>3. r.start + i \in (r.start + 1)..r.end /\ w = warnings[r.start + i]
  BY <1>1, <1>2, KnownIsList
<1>4. PICK j : j = r.start + i
  OBVIOUS
<1>5. Route(w, 0) /\ Through(w, r.prefix, pair)
  BY <1>1, <1>3, <1>4, KnownThrough
<1>6. IsCopy(c, pair, r.prefix, w) /\ EnvOf(pair).prefix = r.prefix
  BY <1>1, EnvCopy
<1> QED
  BY <1>2, <1>5, <1>6, CopyRoute

LEMMA RepeatsFresh ==
    ASSUME IInv, NEW n, NEW pair, NEW N, Repeats(n, pair, N),
           NEW wrn2, wrn2 = Repeated(pair).warnings
    PROVE  Fresh(stack, n, wrn2, N, Len(wrn2))
<1>1. PICK env, list : env = EnvOf(pair) /\ list = KnownList(pair)
  OBVIOUS
<1>2. Copies(env, list, wrn2, N, Len(list)) /\ NewOnes(wrn2, N)
  BY <1>1, RepeatsFacts, KnownUnlike DEF Repeating
<1>3. ASSUME NEW j \in (N + 1)..Len(wrn2)
      PROVE  /\ Route(wrn2[j], 0) /\ Agrees(wrn2[j], stack, n)
             /\ Chosen(wrn2[j], n - 1, stack[n].at)
  <2>1. PICK i \in 1..Len(list) : /\ Clear(env.prefix, list[i])
                                  /\ wrn2[j] = Copy(env.prefix, env.met, env.trail, list[i])
    BY <1>2 DEF Copies
  <2>2. PICK c, w : c = wrn2[j] /\ w = list[i]
    OBVIOUS
  <2> QED
    BY <1>1, <2>1, <2>2, CopyGoes
<1> QED
  BY <1>2, <1>3 DEF Fresh, NewOnes

LEMMA RepeatsBounded ==
    ASSUME IInv, NEW n, NEW pair, NEW N, Repeats(n, pair, N),
           NEW wrn2, wrn2 = Repeated(pair).warnings,
           NEW trunc2, trunc2 = (truncated \/ Repeated(pair).full)
    PROVE  Bounded(wrn2, Len(wrn2), trunc2)
<1>1. PICK env, list, acc : /\ env = EnvOf(pair) /\ list = KnownList(pair)
                            /\ acc = Repeated(pair)
  OBVIOUS
<1>2. /\ IsList(acc.warnings) /\ Extends(warnings, N, acc.warnings, Len(acc.warnings))
      /\ (N <= MaxWarnings => Len(acc.warnings) <= MaxWarnings)
      /\ acc.full \in BOOLEAN
      /\ acc.full => LeftOut(env, list, acc.warnings, N, Len(list))
  BY <1>1, RepeatsFacts, KnownUnlike DEF Repeating
<1>3. /\ Bounded(warnings, N, truncated) /\ N \in Nat /\ MaxWarnings \in Nat
      /\ Sound(stack, n, warnings, N) /\ n \in Nat /\ n = Len(stack) /\ Sure(stack, n)
  BY RepeatsFacts DEF Repeats
<1>4. PICK M \in Nat : M = Len(wrn2)
  BY <1>1, <1>2, ListParts
<1>5. N <= MaxWarnings /\ M <= MaxWarnings /\ M >= N /\ \A j \in 1..N : wrn2[j] = warnings[j]
  BY <1>1, <1>2, <1>3, <1>4 DEF Bounded, Extends
<1>6. ASSUME acc.full
      PROVE  M >= MaxWarnings /\ Missing(wrn2, M)
  <2>1. PICK i \in 1..Len(list) : Clear(env.prefix, list[i]) /\ ~Copied(env, list[i], wrn2, N)
    BY <1>1, <1>2, <1>6 DEF LeftOut
  <2>2. PICK w, c : w = list[i] /\ c = Copy(env.prefix, env.met, env.trail, w)
    OBVIOUS
  <2>3. Route(c, 0) /\ Agrees(c, stack, n) /\ Chosen(c, n - 1, stack[n].at)
    BY <1>1, <2>1, <2>2, CopyGoes
  <2>4. \A j \in 1..N : warnings[j] # c
    BY <1>3, <2>3, NotAgain DEF IInv, Walking
  <2>5. ASSUME NEW j \in 1..M PROVE wrn2[j] # c
    <3>1. CASE j \in 1..N
      BY <1>5, <2>4, <3>1
    <3>2. CASE j \in (N + 1)..M
      BY <1>4, <2>1, <2>2, <3>2 DEF Copied
    <3> QED
      BY <1>3, <3>1, <3>2
  <2> QED
    BY <1>1, <1>2, <1>4, <1>6, <2>3, <2>5 DEF Missing, LeftOut
<1>7. ASSUME truncated
      PROVE  M >= MaxWarnings /\ Missing(wrn2, M)
  <2>1. N >= MaxWarnings /\ Missing(warnings, N)
    BY <1>3, <1>7 DEF Bounded
  <2>2. M = N
    BY <1>3, <1>5, <2>1
  <2>3. Missing(wrn2, N)
    BY <1>5, <2>1, MissingSame
  <2> QED
    BY <2>1, <2>2, <2>3
<1> QED
  BY <1>1, <1>4, <1>5, <1>6, <1>7 DEF Bounded

\* A path goes on as the one that was repeated does.
LEMMA TailOn ==
    ASSUME NEW c, NEW n \in Nat, n >= 1, NEW pair, NEW p, NEW w, Continues(c, n, pair, p, w),
           NEW x, NEW l \in Nat, NEW k, k = l + 1, l < Len(x.trail), Len(x.trail) \in Nat,
           SameTail(w, p, x, k), x.trail[k] = pair, x.path[k] = Current.seg
    PROVE  SameTail(c, n - 1, x, l)
<1>1. PICK q : q = Len(x.trail) - k
  OBVIOUS
<1>2. q \in Nat /\ Len(w.trail) - p = q /\ Len(x.trail) - l = q + 1
  BY <1>1 DEF SameTail
<1>3. /\ Len(c.trail) = n + q /\ c.trail[n] = pair /\ c.path[n] = Current.seg
      /\ \A g \in 1..q : c.trail[n + g] = w.trail[p + g] /\ c.path[n + g] = w.path[p + g]
  <2>1. /\ Len(c.trail) = n + (Len(w.trail) - p) /\ c.trail[n] = pair /\ c.path[n] = Current.seg
        /\ SameTail(c, n, w, p)
    BY DEF Continues
  <2> QED
    BY <1>2, <2>1 DEF SameTail
<1>4. \A g \in 1..q : w.trail[p + g] = x.trail[k + g] /\ w.path[p + g] = x.path[k + g]
  BY <1>1 DEF SameTail
<1>5. ASSUME NEW i \in 1..(q + 1)
      PROVE  c.trail[(n - 1) + i] = x.trail[l + i] /\ c.path[(n - 1) + i] = x.path[l + i]
  <2>1. CASE i = 1
    <3>1. (n - 1) + i = n /\ l + i = k
      BY <2>1
    <3> QED
      BY <1>3, <3>1
  <2>2. CASE i # 1
    <3>1. PICK g : g = i - 1
      OBVIOUS
    <3>2. g \in 1..q /\ (n - 1) + i = n + g /\ l + i = k + g
      BY <1>2, <2>2, <3>1
    <3> QED
      BY <1>3, <1>4, <3>2
  <2> QED
    BY <2>1, <2>2
<1>6. Len(c.trail) - (n - 1) = Len(x.trail) - l
  BY <1>2, <1>3
<1> QED
  BY <1>2, <1>5, <1>6 DEF SameTail

LEMMA CutAmong ==
    ASSUME IInv, NEW stk, NEW cuts, GotPast(stack, stk, cuts), NEW n \in Nat, n = Len(stack),
           NEW i \in 2..n, i \in cuts, i < n
    PROVE  stack[i].pair \in PairsAt(stk, stk[n].cuts)
<1>1. DOMAIN stack = 1..n
  BY TopFacts
<1>2. i \in DOMAIN stack /\ n \in DOMAIN stack
  BY <1>1
<1>3. stk[n].cuts = stack[n].cuts \cup Below(cuts, n) /\ stk[i].pair = stack[i].pair
  BY <1>2 DEF GotPast
<1>4. i \in Below(cuts, n)
  BY DEF Below
<1> QED
  BY <1>3, <1>4 DEF PairsAt

\* A path by the top's step is among those repeated.
LEMMA RepeatsCaught ==
    ASSUME IInv, NEW n, NEW pair, NEW N, Repeats(n, pair, N),
           NEW cuts, cuts = proven[pair].cuts \cup Repeated(pair).cuts,
           NEW stk, GotPast(stack, stk, cuts), NEW A, A = PairsAt(stk, stk[n].cuts),
           NEW wrn2, wrn2 = Repeated(pair).warnings, ~truncated, ~Repeated(pair).full
    PROVE  Caught(stack, n, A, wrn2, N, Len(wrn2))
<1>1. PICK env, list, acc, r : /\ env = EnvOf(pair) /\ list = KnownList(pair)
                               /\ acc = Repeated(pair) /\ r = proven[pair]
  OBVIOUS
<1>2. /\ n \in Nat /\ n = Len(stack) /\ pair \in DOMAIN proven /\ Answers(n, pair) /\ ~AtEnd
      /\ Current.pair = pair /\ Warns
      /\ Repeatable(stack, warnings, proven, DOMAIN proven)
      /\ r.cuts \subseteq 2..n
  BY <1>1, RepeatsFacts DEF Repeats, Answers, IsRecord
<1>3. Looked(env, list, acc, N, Len(list))
  BY <1>1, RepeatsFacts DEF Repeating
<1>4. Goes(Current)
  BY <1>2, AnswersGoes
<1>5. \A i \in 2..n : i \in cuts /\ i < n => stack[i].pair \in A
  BY <1>2, CutAmong
<1>6. ASSUME NEW x, NEW l, Covered(stack[n].pair, A, x, l), Chosen(x, l, stack[n].at)
      PROVE  \E j \in (N + 1)..Len(wrn2) : SameTail(wrn2[j], n - 1, x, l)
  <2>1. /\ Takes(x, l, Current) /\ Len(x.trail) \in Nat /\ l \in 0..Len(x.trail)
        /\ l < Len(x.trail)
    BY <1>2, <1>4, <1>6, EndsThere
  <2>2. PICK k : k = l + 1
    OBVIOUS
  <2>3. k \in l..Len(x.trail) /\ k \in Nat /\ k # 0 /\ l \in Nat
    BY <2>1, <2>2
  <2>4. x.trail[k] = pair /\ x.path[k] = Current.seg
    BY <1>2, <2>1, <2>2 DEF Takes
  <2>5. Route(x, l)
    BY <1>6 DEF Covered
  <2>6. Route(x, k) /\ IsPath(x)
    BY <2>3, <2>5, RouteOn DEF Route
  <2>7. DOMAIN x.trail = 1..Len(x.trail)
    BY <2>6, PathParts
  <2>8. \A i \in 2..n, h \in DOMAIN x.trail : i \in cuts /\ l < h => x.trail[h] # stack[i].pair
    <3> TAKE i \in 2..n, h \in DOMAIN x.trail
    <3> SUFFICES ASSUME i \in cuts, l < h PROVE x.trail[h] # stack[i].pair
      OBVIOUS
    <3>1. i < n => stack[i].pair \in A
      BY <1>5
    <3> QED
      BY <1>2, <1>6, <3>1, NotRoundTop
  <2>9. Avoids(x, k, PairsAt(stack, r.cuts))
    <3> SUFFICES ASSUME NEW h \in DOMAIN x.trail, k < h, NEW i \in r.cuts,
                        x.trail[h] = stack[i].pair
                 PROVE  FALSE
      BY DEF Avoids, PairsAt
    <3>1. i \in 2..n /\ i \in cuts /\ l < h
      BY <1>1, <1>2, <2>2, <2>3, <2>7
    <3> QED
      BY <2>8, <3>1
  <2>10. Covered(pair, PairsAt(stack, r.cuts), x, k)
    BY <2>3, <2>4, <2>6, <2>9 DEF Covered, From
  <2>11. PICK j \in (r.start + 1)..r.end : SameTail(warnings[j], r.prefix, x, k)
    BY <1>1, <1>2, <2>10 DEF Repeatable
  <2>12. PICK i \in 1..Len(list) : j = r.start + i /\ list[i] = warnings[j]
    <3>1. PICK i \in 1..Len(list) : j = r.start + i
      BY <1>1, <1>2, KnownIsList
    <3>2. list[i] = warnings[r.start + i]
      BY <1>1, <1>2, KnownIsList
    <3> QED
      BY <3>1, <3>2
  <2>13. PICK w, c : w = list[i] /\ c = Copy(env.prefix, env.met, env.trail, w)
    OBVIOUS
  <2>14. /\ Route(w, 0) /\ Through(w, r.prefix, pair) /\ IsPath(w)
         /\ SameTail(w, r.prefix, x, k)
    BY <1>1, <2>11, <2>12, <2>13, KnownThrough DEF Through
  <2>15. IsCopy(c, pair, r.prefix, w) /\ env.prefix = r.prefix
    BY <1>1, <2>13, EnvCopy
  <2>16. Continues(c, n, pair, r.prefix, w) /\ n >= 1
    BY <1>2, <2>14, <2>15, CopyRoute
  <2>17. SameTail(c, n - 1, x, l)
    BY <1>2, <2>1, <2>2, <2>3, <2>4, <2>14, <2>16, TailOn
  <2>18. Clear(env.prefix, w)
    <3> SUFFICES ASSUME ~Clear(env.prefix, w) PROVE FALSE
      OBVIOUS
    <3>1. PICK L \in Nat : L = Len(w.trail)
      BY <2>14, PathParts
    <3>2. r.prefix \in Nat /\ r.prefix <= Len(w.trail)
      BY <2>14, <3>1 DEF Through
    <3>8. PICK p : p = r.prefix
      OBVIOUS
    <3>9. p \in Nat /\ p <= Len(w.trail) /\ IsPath(w) /\ ~Clear(p, w)
      BY <2>14, <2>15, <3>2, <3>8
    <3>10. Round(n, p, w)
      BY <1>2, <3>9, ClearAway
    <3>3. PICK o \in 2..n, h \in 1..(Len(w.trail) - r.prefix) :
             o = Outermost(ActiveOn(Rest(r.prefix, w))) /\ stack[o].pair = w.trail[r.prefix + h]
      BY <3>8, <3>10 DEF Round
    <3>4. o \in cuts
      BY <1>1, <1>3, <2>13, <2>15, <3>3 DEF Looked
    <3>5. Len(w.trail) - r.prefix = Len(x.trail) - k
      BY <2>14 DEF SameTail
    <3>6. x.trail[k + h] = stack[o].pair
      BY <2>14, <3>3, <3>5 DEF SameTail
    <3>7. k + h \in DOMAIN x.trail /\ l < k + h
      BY <2>1, <2>2, <2>3, <2>7, <3>3, <3>5
    <3> QED
      BY <2>8, <3>4, <3>6, <3>7
  <2>19. PICK g \in (N + 1)..Len(wrn2) : wrn2[g] = c
    BY <1>1, <1>3, <2>13, <2>18 DEF Looked, Copied
  <2> QED
    BY <2>17, <2>19
<1> QED
  BY <1>6 DEF Caught

LEMMA AnswerProvenWarns ==
    ASSUME FailureInv, MaxWarnings \in Nat, Warns, AnswerProven PROVE WarningNext
<1>1. /\ failing = FALSE /\ ~AtEnd /\ Current.do \in {"visit", "probe"}
      /\ proven' = proven /\ log' = log /\ failing' = FALSE
      /\ Current.pair \in DOMAIN proven /\ Current.pair \notin Active
      /\ IInv /\ PathTold(stack, path)
  BY DEF AnswerProven, Meets, FailureInv, IInv, Walking, Failing, Assumed
<1>2. PICK pair, acc, cuts : /\ pair = Current.pair /\ acc = Repeated(pair)
                             /\ cuts = proven[pair].cuts \cup acc.cuts
  OBVIOUS
<1>3. PICK stk, wrn2, trunc2 : /\ stk = Resumed(Depending(stack, cuts))
                               /\ wrn2 = acc.warnings /\ trunc2 = (truncated \/ acc.full)
  OBVIOUS
<1>4. stack' = stk /\ warnings' = wrn2 /\ truncated' = trunc2
  BY <1>2, <1>3 DEF AnswerProven
<1>5. GotPast(stack, stk, cuts) /\ SameRest(stack, stk)
  BY <1>1, <1>3, TopFacts, DependingResumed, DependingResumedRest
<1>6. PICK n \in Nat : n = Len(stack)
  BY <1>1, TopFacts
<1>7. PICK N \in Nat : N = Len(warnings)
  BY SameExtends
<1>8. IsList(wrn2) /\ Extends(warnings, N, wrn2, Len(wrn2))
  <2>1. IsList(warnings) /\ IsList(KnownList(pair))
    BY <1>1, <1>2, KnownIsList DEF Warns, Warning
  <2> QED
    BY <1>2, <1>3, <1>7, <2>1, RepeatedFacts DEF Repeating
<1>9. ASSUME Sure(stack, n)
      PROVE  /\ Fresh(stack, n, wrn2, N, Len(wrn2)) /\ Bounded(wrn2, Len(wrn2), trunc2)
             /\ ~trunc2 => ~truncated
                           /\ Caught(stack, n, PairsAt(stk, stk[n].cuts), wrn2, N, Len(wrn2))
  <2>1. Once(stack)
    BY DEF Warns, Warning
  <2>2. Answers(n, pair)
    BY <1>1, <1>2, <1>6, <1>9, <2>1 DEF Answers
  <2>3. Repeats(n, pair, N)
    BY <1>1, <1>7, <2>2 DEF Repeats
  <2>4. Fresh(stack, n, wrn2, N, Len(wrn2)) /\ Bounded(wrn2, Len(wrn2), trunc2)
    BY <1>1, <1>2, <1>3, <2>3, RepeatsFresh, RepeatsBounded
  <2>5. ~trunc2 => Caught(stack, n, PairsAt(stk, stk[n].cuts), wrn2, N, Len(wrn2))
    BY <1>1, <1>2, <1>3, <1>5, <2>3, RepeatsCaught
  <2> QED
    BY <1>3, <2>4, <2>5
<1>10. Onward(stk, wrn2, trunc2)
  BY <1>6, <1>7, <1>9 DEF Onward
<1>11. Warning(stk, wrn2, proven, log, trunc2, FALSE)
  BY <1>1, <1>5, <1>7, <1>8, <1>10, CalmWarning
<1> QED
  BY <1>1, <1>4, <1>11 DEF WarningNext

-----------------------------------------------------------------------------
\* The top waits: for a pair's walk, or for its failure to be told.

LEMMA TopAtProbe ==
    ASSUME IInv, NEW n \in Nat, n = Len(stack), ~AtEnd
    PROVE  AtProbe(stack[n]) <=> Current.do = "probe"
<1>1. n \in DOMAIN stack /\ Top = stack[n] /\ Top.at <= Len(Todo(Top))
  BY TopFacts DEF Top
<1> QED
  BY <1>1 DEF AtProbe, Current

Began(mid, n) ==
    /\ IsList(mid) /\ Len(mid) = n /\ SameFrames(stack, mid, n) /\ SameMarks(stack, mid, n - 1)
    /\ Current.do # "visit" =>
          mid[n].mark = [log |-> Len(log), warnings |-> Len(warnings), truncated |-> truncated]

LEMMA MarkedBegan ==
    ASSUME IInv, NEW n \in Nat, n = Len(stack), NEW mid, mid = Marked
    PROVE  Began(mid, n)
<1>1. Frames(stack) /\ DOMAIN stack = 1..n /\ n \in 1..n
  BY TopFacts
<1>2. /\ Frames(mid) /\ Len(mid) = n
      /\ \A i \in 1..n :
            mid[i].pair = stack[i].pair /\ mid[i].cuts = stack[i].cuts /\ mid[i].at = stack[i].at
  BY <1>1, MarkedFrames
<1>3. PICK v : v = [log |-> Len(log), warnings |-> Len(warnings), truncated |-> truncated]
  OBVIOUS
<1>4. \A i \in 1..n : /\ mid[i].start = stack[i].start
                      /\ mid[i].mark = IF i = n /\ Current.do # "visit" THEN v
                                       ELSE stack[i].mark
  BY <1>1, <1>3, MarkedRest
<1>5. \A i \in 1..(n - 1) : i \in 1..n /\ i # n
  OBVIOUS
<1>6. SameMarks(stack, mid, n - 1)
  BY <1>4, <1>5 DEF SameMarks
<1>7. SameFrames(stack, mid, n)
  BY <1>2, <1>4 DEF SameFrames
<1>8. Current.do # "visit" => mid[n].mark = v
  BY <1>1, <1>4
<1> QED
  BY <1>2, <1>3, <1>6, <1>7, <1>8 DEF Began, Frames

LEMMA StackCutsBelow ==
    ASSUME IInv, NEW n \in Nat, n <= Len(stack)
    PROVE  CutsBelow(stack, n)
<1>1. Framed(stack) /\ \A i \in 1..n : i \in DOMAIN stack
  BY TopFacts DEF IInv, Walking
<1> QED
  BY <1>1 DEF Framed, CutsBelow

LEMMA SameClaims ==
    ASSUME IInv, Warns, failing = FALSE, NEW n \in Nat, n = Len(stack),
           NEW new, SameFrames(stack, new, n)
    PROVE  Claims(new, n, warnings, Len(warnings), proven, DOMAIN proven, truncated)
<1>1. PICK N \in Nat : N = Len(warnings)
  BY SameExtends
<1>2. Claims(stack, n, warnings, N, proven, DOMAIN proven, truncated)
  BY <1>1 DEF Warns, Warning
<1>3. Shared(stack, new, warnings, warnings, n, N)
  BY StackCutsBelow DEF Shared
<1>4. Fewer(proven, DOMAIN proven, proven, DOMAIN proven)
  BY DEF Fewer
<1>5. Claims(new, n, warnings, N, proven, DOMAIN proven, truncated)
  BY <1>2, <1>3, <1>4, ClaimsSame
<1> QED
  BY <1>1, <1>5

LEMMA MarkedSaved ==
    ASSUME IInv, Warns, failing = FALSE, ~AtEnd, Current.do \in {"visit", "probe"},
           NEW n \in Nat, n = Len(stack), NEW mid, Began(mid, n)
    PROVE  SavedAt(mid, Saved(mid, TRUE), warnings, proven, log)
<1>1. PICK m \in Nat : m = n - 1 /\ m <= Len(stack) /\ m < n
  BY TopFacts
<1>2. Len(log) \in Nat /\ Len(warnings) \in Nat
  BY ListParts DEF Warns, Warning
<1>3. PICK S : S = Saved(stack, FALSE)
  OBVIOUS
<1>4. S \subseteq 1..m /\ SavedAt(stack, S, warnings, proven, log)
  <2>1. Saved(stack, FALSE) \subseteq 1..m
    BY <1>1 DEF Saved
  <2> QED
    BY <1>3, <2>1 DEF Warns, Warning
<1>5. SameFrames(stack, mid, m) /\ SameMarks(stack, mid, m)
  <2>1. SameFrames(stack, mid, n) /\ SameMarks(stack, mid, n - 1)
    BY DEF Began
  <2>2. \A i \in 1..m : i \in 1..n
    BY <1>1
  <2> QED
    BY <1>1, <2>1, <2>2 DEF SameFrames
<1>6. \A k \in S : KeptAt(stack, k, warnings, warnings, proven, proven, log, log)
  <2>1. ASSUME NEW k \in S
        PROVE  KeptAt(stack, k, warnings, warnings, proven, proven, log, log)
    <3>1. k \in Saved(stack, failing)
      BY <1>3
    <3> QED
      BY <3>1, SameExtends, KeptOn
  <2> QED
    BY <2>1
<1>7. SavedAt(mid, S, warnings, proven, log)
  <2>1. Framed(stack)
    BY DEF IInv, Walking
  <2> QED
    BY <1>1, <1>2, <1>4, <1>5, <1>6, <2>1, SavedStays
<1>8. ASSUME NEW k \in Saved(mid, TRUE)
      PROVE  k \in S \/ (k = n /\ Current.do = "probe")
  <2>1. k \in 1..n /\ AtProbe(mid[k])
    BY DEF Saved, Began
  <2>2. mid[k].pair = stack[k].pair /\ mid[k].at = stack[k].at
    BY <2>1 DEF Began, SameFrames
  <2>3. AtProbe(stack[k])
    BY <2>1, <2>2, AtProbeSame
  <2>4. CASE k = n
    BY <2>3, <2>4, TopAtProbe
  <2>5. CASE k # n
    <3>1. k < n /\ k \in 1..Len(stack)
      BY <2>1, <2>5
    <3> QED
      BY <1>3, <2>3, <3>1 DEF Saved
  <2> QED
    BY <2>4, <2>5
<1>9. CASE Current.do = "visit"
  <2>1. Saved(mid, TRUE) \subseteq S
    BY <1>8, <1>9
  <2> QED
    BY <1>7, <2>1, SavedLess
<1>10. CASE Current.do = "probe"
  <2>1. Claims(mid, n, warnings, Len(warnings), proven, DOMAIN proven, truncated)
    BY SameClaims DEF Began
  <2>2. mid[n].mark = [log |-> Len(log), warnings |-> Len(warnings), truncated |-> truncated]
    BY <1>10 DEF Began
  <2>3. S \subseteq 1..(n - 1)
    BY <1>1, <1>4
  <2>4. SavedAt(mid, S \cup {n}, warnings, proven, log)
    BY <1>2, <1>7, <2>1, <2>2, <2>3, SavedMore
  <2>5. Saved(mid, TRUE) \subseteq S \cup {n}
    BY <1>8
  <2> QED
    BY <2>4, <2>5, SavedLess
<1> QED
  BY <1>9, <1>10

LEMMA FindLackWarns ==
    ASSUME IInv, Warns, FindLack PROVE WarningNext
<1>1. /\ failing = FALSE /\ ~AtEnd /\ Current.do = "lack" /\ stack' = stack
      /\ warnings' = warnings /\ proven' = proven /\ log' = log /\ truncated' = truncated
      /\ failing' = TRUE
  BY DEF FindLack, Meets, IInv, Walking, Failing
<1>2. PICK n \in Nat : n = Len(stack)
  BY TopFacts
<1>3. ~AtProbe(stack[n])
  BY <1>1, <1>2, TopAtProbe
<1>4. Saved(stack, TRUE) \subseteq Saved(stack, FALSE)
  <2>1. \A k \in 1..n : k = n \/ k < n
    BY <1>2
  <2> QED
    BY <1>2, <1>3, <2>1 DEF Saved
<1>5. SavedAt(stack, Saved(stack, TRUE), warnings, proven, log)
  BY <1>1, <1>4, SavedLess DEF Warns, Warning
<1>6. Warning(stack, warnings, proven, log, truncated, TRUE)
  BY <1>2, <1>3, <1>5 DEF Warns, Warning, Doubted
<1> QED
  BY <1>1, <1>6 DEF WarningNext

LEMMA AnswerFailedWarns ==
    ASSUME IInv, Warns, AnswerFailed PROVE WarningNext
<1>1. /\ failing = FALSE /\ ~AtEnd /\ Current.do \in {"visit", "probe"} /\ stack' = Marked
      /\ warnings' = warnings /\ proven' = proven /\ log' = log /\ truncated' = truncated
      /\ failing' = TRUE /\ Current.pair \in DOMAIN failed
  BY DEF AnswerFailed, Meets, IInv, Walking, Failing
<1>2. PICK n \in Nat : n = Len(stack)
  BY TopFacts
<1>3. PICK mid : mid = Marked
  OBVIOUS
<1>4. Began(mid, n)
  BY <1>2, <1>3, MarkedBegan
<1>5. SavedAt(mid, Saved(mid, TRUE), warnings, proven, log)
  BY <1>1, <1>2, <1>4, MarkedSaved
<1>6. /\ DOMAIN mid = 1..n /\ Len(mid) = n /\ DOMAIN stack = 1..n /\ n \in 1..n
      /\ \A i \in 1..n : mid[i].pair = stack[i].pair /\ mid[i].start = stack[i].start
                         /\ mid[i].at = stack[i].at
  BY <1>2, <1>4, ListParts, TopFacts DEF Began, SameFrames
<1>7. \A i \in 2..n : i \in 1..n
  OBVIOUS
<1>8. Once(mid)
  BY <1>2, <1>6, <1>7 DEF Warns, Warning, Once
<1>9. Counted(mid, proven)
  BY <1>6 DEF Warns, Warning, Counted
<1>10. Doubted(mid, TRUE)
  <2>1. Todo(mid[n]) = Todo(stack[n]) /\ mid[n].at = stack[n].at
    BY <1>6, SameTodo
  <2>2. Todo(stack[n])[stack[n].at] = Current
    BY <1>1, <1>2, TopCurrent
  <2>3. Current.pair \notin Holding
    BY <1>1 DEF IInv, Walking, Refuted
  <2> QED
    BY <1>6, <2>1, <2>2, <2>3 DEF Doubted
<1>11. Warning(mid, warnings, proven, log, truncated, TRUE)
  BY <1>5, <1>8, <1>9, <1>10 DEF Warns, Warning
<1> QED
  BY <1>1, <1>3, <1>11 DEF WarningNext

-----------------------------------------------------------------------------
\* A pair's own walk begins with nothing found yet.

Begins(stk, n, N) == /\ stk[n + 1].at = 1 /\ stk[n + 1].start = N /\ stk[n + 1].cuts = {}
                     /\ n \in Nat /\ N \in Nat /\ n >= 1 /\ Len(stk) = n + 1

LEMMA DeeperSound ==
    ASSUME NEW stk, NEW n, NEW N, Begins(stk, n, N), NEW wrn, Sound(stk, n, wrn, N)
    PROVE  Sound(stk, n + 1, wrn, N)
<1>1. ASSUME NEW j \in 1..N
      PROVE  Route(wrn[j], 0) /\ \E k \in 1..(n + 1) : Belongs(wrn[j], j, stk, n + 1, k)
  <2>1. PICK w : w = wrn[j]
    OBVIOUS
  <2>2. Route(w, 0) /\ \E k \in 1..n : Belongs(w, j, stk, n, k)
    BY <2>1 DEF Sound
  <2>3. PICK k \in 1..n : Belongs(w, j, stk, n, k)
    BY <2>2
  <2>4. k \in 1..(n + 1)
    BY DEF Begins
  <2>5. ASSUME NEW i \in 1..(n + 1), stk[i].start < j
        PROVE  i <= k
    <3>1. i # n + 1
      BY <2>5 DEF Begins
    <3>2. i \in 1..n
      BY <3>1 DEF Begins
    <3> QED
      BY <2>3, <2>5, <3>2 DEF Belongs
  <2>6. Belongs(w, j, stk, n + 1, k)
    BY <2>3, <2>5 DEF Belongs
  <2> QED
    BY <2>1, <2>2, <2>4, <2>6
<1> QED
  BY <1>1 DEF Sound

LEMMA DeeperComplete ==
    ASSUME World, NEW stk, Framed(stk), NEW n, NEW N, Begins(stk, n, N), NEW wrn,
           Complete(stk, n, wrn, N)
    PROVE  Complete(stk, n + 1, wrn, N)
<1>1. n \in Nat /\ Len(stk) = n + 1 /\ DOMAIN stk = 1..(n + 1)
  BY ListParts DEF Begins, Framed
<1>2. ASSUME NEW k \in 1..(n + 1), NEW x, NEW l,
             Covered(stk[k].pair, PairsAt(stk, stk[k].cuts), x, l), Via(x, l, stk[k].at)
      PROVE  \E j \in 1..N : stk[k].start < j /\ SameTail(wrn[j], k - 1, x, l)
  <2>1. PICK i : Chosen(x, l, i) /\ i < stk[k].at
    BY <1>2 DEF Via
  <2>2. k \in DOMAIN stk
    BY <1>1
  <2>3. DOMAIN Asked(From(x, l)) = 1..Len(Todo(stk[k])) /\ Len(Todo(stk[k])) \in Nat
    <3>1. From(x, l) = stk[k].pair
      BY <1>2 DEF Covered
    <3> QED
      BY <2>2, <3>1, FrameAsked
  <2>4. i >= 1 /\ i \in Nat
    BY <2>1, <2>3 DEF Chosen
  <2>5. k # n + 1
    BY <2>1, <2>4 DEF Begins
  <2>6. k \in 1..n
    BY <1>1, <2>5
  <2> QED
    BY <1>2, <2>6 DEF Complete
<1> QED
  BY <1>2 DEF Complete

LEMMA DeeperClaims ==
    ASSUME World, NEW stk, Framed(stk), NEW n, NEW N, Begins(stk, n, N), NEW wrn, NEW prv, NEW D,
           NEW trunc, Claims(stk, n, wrn, N, prv, D, trunc)
    PROVE  Claims(stk, n + 1, wrn, N, prv, D, trunc)
<1> SUFFICES ASSUME Sure(stk, n + 1)
             PROVE  /\ Sound(stk, n + 1, wrn, N) /\ Distinct(wrn, N) /\ Begun(stk, n + 1, N)
                    /\ Recorded(n + 1, wrn, N, prv, D) /\ Bounded(wrn, N, trunc)
                    /\ ~trunc => Complete(stk, n + 1, wrn, N) /\ Repeatable(stk, wrn, prv, D)
  BY DEF Claims
<1>1. n \in Nat /\ N \in Nat /\ stk[n + 1].start = N
  BY DEF Begins
<1>2. \A i \in 2..n : i \in 2..(n + 1)
  BY <1>1
<1>3. Sure(stk, n)
  BY <1>2 DEF Sure
<1>4. /\ Sound(stk, n, wrn, N) /\ Distinct(wrn, N) /\ Begun(stk, n, N)
      /\ Recorded(n, wrn, N, prv, D) /\ Bounded(wrn, N, trunc)
      /\ ~trunc => Complete(stk, n, wrn, N) /\ Repeatable(stk, wrn, prv, D)
  BY <1>3 DEF Claims
<1>5. Begun(stk, n + 1, N)
  <2>1. /\ \A k \in 1..n : stk[k].start \in 0..N
        /\ \A i, k \in 1..n : i <= k => stk[i].start <= stk[k].start
    BY <1>4 DEF Begun
  <2>2. \A k \in 1..(n + 1) : k = n + 1 \/ k \in 1..n
    BY <1>1
  <2>3. \A k \in 1..(n + 1) : stk[k].start \in 0..N
    BY <1>1, <2>1, <2>2
  <2>4. ASSUME NEW i \in 1..(n + 1), NEW k \in 1..(n + 1), i <= k
        PROVE  stk[i].start <= stk[k].start
    <3>1. CASE k = n + 1
      BY <1>1, <2>3, <3>1
    <3>2. CASE k # n + 1
      <4>1. k \in 1..n /\ i \in 1..n
        BY <1>1, <2>4, <3>2
      <4> QED
        BY <2>1, <2>4, <4>1
    <3> QED
      BY <3>1, <3>2
  <2> QED
    BY <2>3, <2>4 DEF Begun
<1>6. Recorded(n + 1, wrn, N, prv, D)
  <2>1. ASSUME NEW r, NEW pair, IsRecord(r, pair, n, wrn, N)
        PROVE  IsRecord(r, pair, n + 1, wrn, N)
    <3>1. r.cuts \subseteq 2..n
      BY <2>1 DEF IsRecord
    <3>2. r.cuts \subseteq 2..(n + 1)
      BY <1>2, <3>1
    <3> QED
      BY <2>1, <3>2 DEF IsRecord
  <2> QED
    BY <1>4, <2>1 DEF Recorded
<1>7. Sound(stk, n + 1, wrn, N)
  BY <1>4, DeeperSound
<1>8. ~trunc => Complete(stk, n + 1, wrn, N)
  BY <1>4, DeeperComplete
<1> QED
  BY <1>4, <1>5, <1>6, <1>7, <1>8

\* The walk of the pair asked for, on top of the marked stack.
Deeper(mid, stk, n) ==
    /\ IsList(stk) /\ DOMAIN stk = 1..(n + 1) /\ Begins(stk, n, Len(warnings))
    /\ stk[n + 1].pair = Current.pair /\ \A i \in 1..n : stk[i] = mid[i]

LEMMA DescendDeeper ==
    ASSUME IInv, Warns, Descend, NEW n \in Nat, n = Len(stack), NEW mid, mid = Marked
    PROVE  Deeper(mid, stack', n)
<1>1. PICK new, stk : new = Frame(Current.pair) /\ stk = stack'
  OBVIOUS
<1>2. stk = Append(mid, new)
  BY <1>1 DEF Descend
<1>3. IsList(mid) /\ Len(mid) = n /\ n >= 1
  BY MarkedBegan, TopFacts DEF Began
<1>4. /\ new.pair = Current.pair /\ new.at = 1 /\ new.cuts = {} /\ new.start = Len(warnings)
  BY <1>1 DEF Frame
<1>5. IsList(mid) /\ stk = Append(mid, new)
  BY <1>2, <1>3
<1>6. /\ IsList(stk) /\ Len(stk) = Len(mid) + 1 /\ stk[Len(mid) + 1] = new
      /\ \A i \in 1..Len(mid) : stk[i] = mid[i]
  BY <1>5, AppendedList
<1>7. DOMAIN stk = 1..(n + 1) /\ Len(stk) = n + 1
  BY <1>3, <1>6, ListParts
<1>8. Len(warnings) \in Nat
  BY SameExtends
<1> QED
  BY <1>1, <1>3, <1>4, <1>6, <1>7, <1>8 DEF Deeper, Begins

LEMMA DescendWarns ==
    ASSUME IInv, Warns, Descend PROVE WarningNext
<1>1. /\ failing = FALSE /\ ~AtEnd /\ Current.do \in {"visit", "probe"}
      /\ warnings' = warnings /\ proven' = proven /\ log' = log /\ truncated' = truncated
      /\ failing' = FALSE /\ Current.pair \notin Active
  BY DEF Descend, Meets, IInv, Walking, Failing, Unanswered, Assumed
<1>2. PICK n \in Nat : n = Len(stack)
  BY TopFacts
<1>3. PICK mid, stk : mid = Marked /\ stk = stack'
  OBVIOUS
<1>4. Began(mid, n) /\ Deeper(mid, stk, n)
  BY <1>2, <1>3, MarkedBegan, DescendDeeper
<1>5. PICK N \in Nat : N = Len(warnings)
  BY SameExtends
<1>6. /\ DOMAIN stack = 1..n /\ n \in 1..n /\ Framed(stk) /\ World /\ Framed(stack)
      /\ Begins(stk, n, N) /\ Len(stk) = n + 1 /\ Len(log) \in Nat
  BY <1>2, <1>3, <1>4, <1>5, TopFacts, DescendKeeps, ListParts
     DEF IInv, Walking, Deeper, Begins, Warns, Warning
<1>7. SameFrames(stack, stk, n) /\ SameFrames(mid, stk, n) /\ SameMarks(mid, stk, n)
  <2>1. \A i \in 1..n : stk[i] = mid[i]
    BY <1>4 DEF Deeper
  <2>2. SameFrames(stack, mid, n)
    BY <1>4 DEF Began
  <2> QED
    BY <2>1, <2>2 DEF SameFrames, SameMarks
<1>8. Once(stk)
  <2>1. ASSUME NEW i \in 2..(n + 1), NEW k \in 2..(n + 1), stk[i].pair = stk[k].pair, i < k
        PROVE  FALSE
    <3>1. i \in 1..n /\ i \in 2..n
      BY <2>1
    <3>2. stk[i].pair = stack[i].pair
      BY <1>7, <3>1 DEF SameFrames
    <3>3. CASE k = n + 1
      <4>1. stack[i].pair = Current.pair
        BY <1>4, <2>1, <3>2, <3>3 DEF Deeper
      <4> QED
        BY <1>1, <1>2, <3>1, <4>1 DEF Active
    <3>4. CASE k # n + 1
      <4>1. k \in 1..n /\ k \in 2..n
        BY <3>4
      <4>2. stk[k].pair = stack[k].pair
        BY <1>7, <4>1 DEF SameFrames
      <4>3. i = k
        BY <1>2, <2>1, <3>1, <3>2, <4>1, <4>2 DEF Warns, Warning, Once
      <4> QED
        BY <2>1, <4>3
    <3> QED
      BY <3>3, <3>4
  <2>2. ASSUME NEW i \in 2..(n + 1), NEW k \in 2..(n + 1), stk[i].pair = stk[k].pair
        PROVE  i = k
    <3>1. i < k \/ k < i \/ i = k
      OBVIOUS
    <3> QED
      BY <2>1, <2>2, <3>1
  <2> QED
    BY <1>6, <2>2 DEF Once
<1>9. Counted(stk, proven)
  <2>1. /\ \A i \in 1..n : stack[i].start \in Nat
        /\ \A pair \in DOMAIN proven : /\ proven[pair].start \in Nat /\ proven[pair].end \in Nat
                                       /\ proven[pair].prefix \in Nat
    BY <1>6 DEF Warns, Warning, Counted
  <2>2. \A i \in 1..(n + 1) : i = n + 1 \/ i \in 1..n
    OBVIOUS
  <2>3. DOMAIN stk = 1..(n + 1) /\ stk[n + 1].start = N
    BY <1>4, <1>6 DEF Deeper, Begins
  <2>4. \A i \in 1..(n + 1) : stk[i].start \in Nat
    BY <1>7, <2>1, <2>2, <2>3 DEF SameFrames
  <2> QED
    BY <2>1, <2>3, <2>4 DEF Counted
<1>10. Claims(stk, n + 1, warnings, N, proven, DOMAIN proven, truncated)
  <2>1. Claims(stk, n, warnings, N, proven, DOMAIN proven, truncated)
    BY <1>1, <1>2, <1>5, <1>7, SameClaims
  <2> QED
    BY <1>6, <2>1, DeeperClaims
<1>11. SavedAt(stk, Saved(stk, FALSE), warnings, proven, log)
  <2>1. SavedAt(mid, Saved(mid, TRUE), warnings, proven, log)
    BY <1>1, <1>2, <1>4, MarkedSaved
  <2>2. PICK S : S = Saved(stk, FALSE)
    OBVIOUS
  <2>3. S \subseteq 1..n
    BY <1>6, <2>2 DEF Saved
  <2>4. S \subseteq Saved(mid, TRUE)
    <3>1. SameFrames(mid, stk, n) /\ Len(mid) = n /\ n <= Len(mid)
      BY <1>4, <1>7 DEF Began
    <3>2. ASSUME NEW k \in S PROVE k \in Saved(mid, TRUE)
      <4>1. k \in 1..n /\ AtProbe(stk[k])
        BY <2>2, <2>3 DEF Saved
      <4>2. stk[k].pair = mid[k].pair /\ stk[k].at = mid[k].at
        BY <1>7, <4>1 DEF SameFrames
      <4>3. AtProbe(mid[k])
        BY <4>1, <4>2, AtProbeSame
      <4> QED
        BY <3>1, <4>1, <4>3 DEF Saved
    <3> QED
      BY <3>2
  <2>5. SavedAt(mid, S, warnings, proven, log)
    BY <2>1, <2>4, SavedLess
  <2>6. \A k \in S : KeptAt(mid, k, warnings, warnings, proven, proven, log, log)
    <3>1. ASSUME NEW k \in S
          PROVE  KeptAt(mid, k, warnings, warnings, proven, proven, log, log)
      <4>1. PICK mark : mark = mid[k].mark
        OBVIOUS
      <4>2. mark.log \in 0..Len(log) /\ mark.warnings \in 0..Len(warnings)
        BY <2>5, <4>1 DEF SavedAt
      <4>3. mark.log <= Len(log) /\ mark.warnings <= Len(warnings)
        BY <1>5, <1>6, <4>2
      <4>4. \A R : Fewer(proven, R, proven, R)
        BY DEF Fewer
      <4> QED
        BY <4>1, <4>3, <4>4 DEF KeptAt
    <3> QED
      BY <3>1
  <2>7. Framed(mid) /\ Len(mid) = n /\ n <= Len(mid) /\ Len(warnings) \in Nat
    <3>1. /\ Frames(mid) /\ Len(mid) = Len(stack)
          /\ \A i \in DOMAIN stack :
                /\ mid[i].pair = stack[i].pair /\ mid[i].dependents = stack[i].dependents
                /\ mid[i].cuts = stack[i].cuts /\ mid[i].at = stack[i].at
      BY <1>3, TopFacts, MarkedFrames
    <3>2. Framed(mid)
      BY <3>1, Waits
    <3> QED
      BY <1>2, <1>5, <3>1, <3>2
  <2>8. SavedAt(stk, S, warnings, proven, log)
    BY <1>6, <1>7, <2>3, <2>5, <2>6, <2>7, SavedStays
  <2> QED
    BY <2>2, <2>8
<1>12. IsList(stk) /\ IsList(log) /\ IsList(warnings) /\ Doubted(stk, FALSE)
  BY <1>4 DEF Deeper, Warns, Warning, Doubted
<1>13. Warning(stk, warnings, proven, log, truncated, FALSE)
  BY <1>5, <1>6, <1>8, <1>9, <1>10, <1>11, <1>12 DEF Warning
<1> QED
  BY <1>1, <1>3, <1>13 DEF WarningNext

-----------------------------------------------------------------------------
\* A failure leaves the walk it ended, and the proofs that needed it.

Remains(f, g) == DOMAIN g \subseteq DOMAIN f /\ \A x \in DOMAIN g : g[x] = f[x]

LEMMA WithoutRemains == ASSUME NEW f, NEW S PROVE Remains(f, Without(f, S))
BY DEF Without, Remains

\* Fewer proofs, and the same log: no more than before are spared.
LEMMA KeptFewer ==
    ASSUME IInv, Warns, NEW prv, Remains(proven, prv), NEW k \in Saved(stack, failing)
    PROVE  KeptAt(stack, k, warnings, warnings, proven, prv, log, log)
<1>1. PICK mark : mark = stack[k].mark
  OBVIOUS
<1>2. mark.log \in 0..Len(log) /\ mark.warnings \in 0..Len(warnings)
  BY <1>1 DEF Warns, Warning, SavedAt
<1>3. Len(log) \in Nat /\ Len(warnings) \in Nat
  BY ListParts DEF Warns, Warning
<1>4. mark.log <= Len(log) /\ mark.warnings <= Len(warnings)
  BY <1>2, <1>3
<1>5. Fewer(proven, Spared(proven, log, mark.log), prv, Spared(prv, log, mark.log))
  BY DEF Fewer, Spared, Remains
<1> QED
  BY <1>1, <1>4, <1>5 DEF KeptAt

LEMMA FinishFailsWarns ==
    ASSUME IInv, Warns, FinishFails PROVE WarningNext
<1>1. /\ failing = TRUE /\ Len(stack) > 1
      /\ warnings' = warnings /\ log' = log /\ truncated' = truncated /\ failing' = TRUE
  BY DEF FinishFails, IInv, Walking, Failing
<1>2. PICK n \in Nat : n = Len(stack) /\ n > 1
  BY <1>1, TopFacts
<1>3. PICK m \in Nat : m = n - 1 /\ m >= 1 /\ m < n /\ m \in 1..n /\ m + 1 = n
  BY <1>2
<1>4. PICK stk, prv, fld : stk = stack' /\ prv = proven' /\ fld = failed'
  OBVIOUS
<1>5. IsList(stk) /\ Len(stk) = m /\ \A i \in 1..m : stk[i] = stack[i]
  <2>1. stk = Front(stack) /\ IsList(stack)
    BY <1>4, TopFacts DEF FinishFails, Frames
  <2> QED
    BY <1>1, <1>2, <1>3, <2>1, FrontList
<1>6. DOMAIN stk = 1..m /\ DOMAIN stack = 1..n /\ \A i \in 1..m : i \in 1..n
      /\ Framed(stack) /\ IsList(log) /\ IsList(warnings)
      /\ Len(log) \in Nat /\ Len(warnings) \in Nat
  BY <1>2, <1>3, <1>5, TopFacts, ListParts DEF IInv, Walking, Warns, Warning
<1>7. Remains(proven, prv)
  BY <1>4, WithoutRemains DEF FinishFails, ForgetDependents
<1>8. Once(stk)
  <2>1. \A i \in 2..m : i \in 2..n /\ i \in 1..m
    BY <1>3
  <2>2. \A i \in 2..m : stk[i] = stack[i]
    BY <1>5, <2>1
  <2> QED
    BY <1>2, <1>5, <2>1, <2>2 DEF Warns, Warning, Once
<1>9. Doubted(stk, TRUE)
  <2>1. Top.pair \in DOMAIN fld
    BY <1>4 DEF FinishFails, Extended
  <2>2. Refuted(fld)
    BY <1>4, FinishFailsKeeps DEF Walking
  <2>3. Top.pair \notin Holding
    BY <2>1, <2>2 DEF Refuted
  <2>4. Awaits(stack[m], stack[m + 1].pair)
    <3>1. m \in 1..(Len(stack) - 1)
      BY <1>2, <1>3
    <3> QED
      BY <3>1 DEF IInv, Walking, Linked
  <2>5. stk[m] = stack[m] /\ stack[m + 1] = Top
    BY <1>2, <1>3, <1>5 DEF Top
  <2> QED
    BY <1>5, <2>3, <2>4, <2>5 DEF Doubted, Awaits
<1>10. Counted(stk, prv)
  BY <1>5, <1>6, <1>7 DEF Warns, Warning, Counted, Remains
<1>11. SavedAt(stk, Saved(stk, TRUE), warnings, prv, log)
  <2>1. PICK S : S = Saved(stk, TRUE)
    OBVIOUS
  <2>2. SameFrames(stack, stk, m) /\ SameMarks(stack, stk, m)
    BY <1>5 DEF SameFrames, SameMarks
  <2>9. Len(stack) \in Nat /\ m \in Nat /\ m <= Len(stack) /\ m < Len(stack)
        /\ Framed(stack) /\ Len(log) \in Nat /\ Len(warnings) \in Nat
    BY <1>2, <1>3, <1>6
  <2>3. S \subseteq 1..m
    BY <1>5, <2>1 DEF Saved
  <2>4. S \subseteq Saved(stack, failing)
    BY <1>1, <2>1, <2>2, <2>3, <2>9, SavedBelow
  <2>5. SavedAt(stack, S, warnings, proven, log)
    BY <2>4, SavedLess DEF Warns, Warning
  <2>6. \A k \in S : KeptAt(stack, k, warnings, warnings, proven, prv, log, log)
    BY <1>7, <2>4, KeptFewer
  <2>8. SavedAt(stk, S, warnings, prv, log)
    BY <2>2, <2>3, <2>5, <2>6, <2>9, SavedStays
  <2> QED
    BY <2>1, <2>8
<1>12. IsList(log) /\ IsList(warnings)
  BY DEF Warns, Warning
<1>13. Warning(stk, warnings, prv, log, truncated, TRUE)
  BY <1>8, <1>9, <1>10, <1>11, <1>12 DEF Warning
<1> QED
  BY <1>1, <1>4, <1>13 DEF WarningNext

-----------------------------------------------------------------------------
\* A walk that got to its end: what it kept becomes what its proof repeats.

Closing(old, new, m, N, pair, cuts) ==
    /\ m \in Nat /\ m >= 1 /\ N \in Nat /\ Framed(old) /\ Linked(old) /\ Len(old) = m + 1
    /\ old[m + 1].pair = pair /\ old[m + 1].cuts = cuts /\ cuts \subseteq 2..m
    /\ old[m + 1].at > Len(Todo(old[m + 1]))
    /\ SamePairs(old, new, m) /\ \A i \in 1..m : new[i].start = old[i].start
    /\ \A i \in 1..(m - 1) : new[i].at = old[i].at /\ new[i].cuts = old[i].cuts
    /\ new[m].at = old[m].at + 1 /\ new[m].cuts = old[m].cuts \cup Below(cuts, m)
Learnt(prv, prv2, pair, rec) ==
    /\ pair \in DOMAIN prv2 /\ prv2[pair] = rec
    /\ \A p \in DOMAIN prv2 : p # pair => p \in DOMAIN prv /\ prv2[p] = prv[p]

LEMMA ClosingList ==
    ASSUME NEW old, NEW new, NEW m, NEW N, NEW pair, NEW cuts, Closing(old, new, m, N, pair, cuts)
    PROVE  /\ DOMAIN old = 1..(m + 1) /\ m \in DOMAIN old /\ m + 1 \in DOMAIN old
           /\ m \in 1..(m + 1) /\ m + 1 \in 1..(m + 1) /\ \A i \in 1..m : i \in 1..(m + 1)
BY ListParts DEF Closing, Framed

LEMMA ClosedSound ==
    ASSUME World, NEW old, NEW new, NEW m, NEW N, NEW pair, NEW cuts,
           Closing(old, new, m, N, pair, cuts), Sure(old, m + 1), NEW wrn,
           Sound(old, m + 1, wrn, N)
    PROVE  Sound(new, m, wrn, N)
<1>1. m \in Nat /\ m >= 1 /\ Framed(old) /\ Linked(old) /\ Len(old) = m + 1
  BY DEF Closing
<1>2. DOMAIN old = 1..(m + 1) /\ m \in DOMAIN old
  BY ClosingList
<1>3. old[m].at \in Nat /\ new[m].at = old[m].at + 1
  BY <1>2, <1>1, FrameAsked DEF Closing
<1>4. ASSUME NEW w, NEW k \in 1..m, Agrees(w, old, k)
      PROVE  Agrees(w, new, k)
  <2>1. \A i \in 1..k : i \in 1..m
    BY <1>1
  <2>2. \A i \in 1..(k - 1) : i \in 1..(m - 1)
    BY <1>1
  <2>3. \A i \in 1..k : new[i].pair = old[i].pair
    BY <2>1 DEF Closing, SamePairs
  <2>4. \A i \in 1..(k - 1) : new[i].at = old[i].at
    BY <2>2 DEF Closing
  <2>5. k \in Nat
    BY <1>1
  <2> QED
    BY <1>4, <2>3, <2>4, <2>5, AgreesSame
<1>5. ASSUME NEW w, NEW i, Chosen(w, m - 1, i), i = old[m].at \/ i < old[m].at,
             Agrees(w, old, m)
      PROVE  Via(w, m - 1, new[m].at)
  <2>1. From(w, m - 1) = old[m].pair
    <3>1. m \in 1..m
      BY <1>1
    <3> QED
      BY <1>1, <1>5, <3>1, AgreesFrom
  <2>2. DOMAIN Asked(From(w, m - 1)) = 1..Len(Todo(old[m])) /\ Len(Todo(old[m])) \in Nat
    BY <1>1, <1>2, <2>1, FrameAsked
  <2>3. i \in Nat
    BY <1>5, <2>2 DEF Chosen
  <2> QED
    BY <1>3, <1>5, <2>3 DEF Via
<1>6. ASSUME NEW j \in 1..N
      PROVE  Route(wrn[j], 0) /\ \E k \in 1..m : Belongs(wrn[j], j, new, m, k)
  <2>1. PICK w : w = wrn[j]
    OBVIOUS
  <2>2. Route(w, 0) /\ \E k \in 1..(m + 1) : Belongs(w, j, old, m + 1, k)
    BY <2>1 DEF Sound
  <2>3. PICK k \in 1..(m + 1) : Belongs(w, j, old, m + 1, k)
    BY <2>2
  <2>4. CASE k = m + 1
    <3>1. Agrees(w, old, m + 1)
      BY <2>3, <2>4 DEF Belongs
    <3>2. Agrees(w, old, m)
      BY <1>1, <3>1 DEF Agrees
    <3>3. Chosen(w, m - 1, old[m].at)
      <4>1. m + 1 \in Nat /\ m + 1 <= Len(old) /\ m \in 1..((m + 1) - 1)
        BY <1>1
      <4> QED
        BY <1>1, <3>1, <4>1, AgreesChosen
    <3>4. Via(w, m - 1, new[m].at)
      BY <1>3, <1>5, <3>2, <3>3
    <3>5. m \in 1..m /\ \A i \in 1..m : i <= m
      BY <1>1
    <3>6. Belongs(w, j, new, m, m)
      BY <1>4, <3>2, <3>4, <3>5 DEF Belongs
    <3> QED
      BY <2>1, <2>2, <3>5, <3>6
  <2>5. CASE k # m + 1
    <3>1. k \in 1..m
      BY <1>1, <2>5
    <3>2. Agrees(w, old, k) /\ Agrees(w, new, k)
      BY <1>4, <2>3, <3>1 DEF Belongs
    <3>3. Via(w, k - 1, new[k].at)
      <4>1. PICK i : Chosen(w, k - 1, i) /\ i < old[k].at
        BY <2>3 DEF Belongs, Via
      <4>2. CASE k = m
        BY <1>3, <1>5, <3>2, <4>1, <4>2
      <4>3. CASE k # m
        <5>1. k \in 1..(m - 1)
          BY <1>1, <3>1, <4>3
        <5>2. new[k].at = old[k].at
          BY <5>1 DEF Closing
        <5> QED
          BY <4>1, <5>2 DEF Via
      <4> QED
        BY <4>2, <4>3
    <3>4. \A i \in 1..m : new[i].start < j => i <= k
      <4>1. \A i \in 1..(m + 1) : old[i].start < j => i <= k
        BY <2>3 DEF Belongs
      <4> QED
        BY <4>1, ClosingList DEF Closing
    <3>5. Belongs(w, j, new, m, k)
      BY <3>2, <3>3, <3>4 DEF Belongs
    <3> QED
      BY <2>1, <2>2, <3>1, <3>5
  <2> QED
    BY <2>4, <2>5
<1> QED
  BY <1>6 DEF Sound

\* What it found since it began took all the steps to it.
LEMMA FoundInside ==
    ASSUME NEW old, NEW new, NEW m, NEW N, NEW pair, NEW cuts,
           Closing(old, new, m, N, pair, cuts), NEW wrn, Sound(old, m + 1, wrn, N),
           NEW j \in 1..N, old[m + 1].start < j
    PROVE  Agrees(wrn[j], old, m + 1)
<1>1. PICK k \in 1..(m + 1) : Belongs(wrn[j], j, old, m + 1, k)
  BY DEF Sound
<1>2. m \in Nat /\ m + 1 \in 1..(m + 1)
  BY DEF Closing
<1>3. m + 1 <= k
  BY <1>1, <1>2 DEF Belongs
<1>4. k = m + 1
  BY <1>2, <1>3
<1> QED
  BY <1>1, <1>4 DEF Belongs

LEMMA ClosedRecord ==
    ASSUME NEW old, NEW new, NEW m, NEW N, NEW pair, NEW cuts,
           Closing(old, new, m, N, pair, cuts), NEW wrn, Sound(old, m + 1, wrn, N),
           old[m + 1].start \in 0..N, NEW rec,
           rec = [start |-> old[m + 1].start, end |-> N, prefix |-> m, cuts |-> cuts]
    PROVE  IsRecord(rec, pair, m, wrn, N)
<1>1. PICK s : s = old[m + 1].start
  OBVIOUS
<1>2. /\ m \in Nat /\ m >= 1 /\ N \in Nat /\ s \in 0..N /\ old[m + 1].pair = pair
      /\ cuts \subseteq 2..m /\ (m + 1) - 1 = m
  BY <1>1 DEF Closing
<1>3. rec.start = s /\ rec.end = N /\ rec.prefix = m /\ rec.cuts = cuts
  BY <1>1
<1>4. ASSUME NEW j \in (s + 1)..N
      PROVE  /\ Len(wrn[j].trail) >= m
             /\ \A h \in 1..m : wrn[j].trail[h] = old[h + 1].pair
                                /\ wrn[j].path[h] = Todo(old[h])[old[h].at].seg
  <2>1. j \in 1..N /\ old[m + 1].start < j
    BY <1>1, <1>2
  <2>2. Agrees(wrn[j], old, m + 1)
    BY <2>1, FoundInside
  <2> QED
    BY <1>2, <2>2 DEF Agrees
<1>5. ASSUME NEW j \in (s + 1)..N
      PROVE  /\ Len(wrn[j].trail) >= m /\ wrn[j].trail[m] = pair
             /\ \A i \in (s + 1)..N : \A h \in 1..m :
                   wrn[i].trail[h] = wrn[j].trail[h] /\ wrn[i].path[h] = wrn[j].path[h]
  <2>1. m \in 1..m
    BY <1>2
  <2>2. Len(wrn[j].trail) >= m /\ wrn[j].trail[m] = pair
    BY <1>2, <1>4, <2>1
  <2>3. ASSUME NEW i \in (s + 1)..N, NEW h \in 1..m
        PROVE  wrn[i].trail[h] = wrn[j].trail[h] /\ wrn[i].path[h] = wrn[j].path[h]
    <3>1. wrn[i].trail[h] = old[h + 1].pair /\ wrn[i].path[h] = Todo(old[h])[old[h].at].seg
      BY <1>4
    <3>2. wrn[j].trail[h] = old[h + 1].pair /\ wrn[j].path[h] = Todo(old[h])[old[h].at].seg
      BY <1>4
    <3> QED
      BY <3>1, <3>2
  <2> QED
    BY <2>2, <2>3
<1>6. s \in Nat /\ m \in Nat \ {0} /\ N \in 0..N
  BY <1>2
<1> QED
  BY <1>2, <1>3, <1>5, <1>6 DEF IsRecord

-----------------------------------------------------------------------------
\* It left no path out that avoids the pairs it was cut at.

LEMMA TailBack ==
    ASSUME NEW w, NEW x, NEW m \in Nat, m >= 1, NEW l \in Nat, NEW h, h = l + 1,
           Len(x.trail) \in Nat, Len(w.trail) \in Nat, l < Len(x.trail),
           SameTail(w, m, x, h), w.trail[m] = x.trail[h], w.path[m] = x.path[h]
    PROVE  SameTail(w, m - 1, x, l)
<1>1. PICK q : q = Len(x.trail) - h
  OBVIOUS
<1>2. q \in Nat /\ Len(w.trail) - m = q /\ Len(x.trail) - l = q + 1
      /\ \A g \in 1..q : w.trail[m + g] = x.trail[h + g] /\ w.path[m + g] = x.path[h + g]
  BY <1>1 DEF SameTail
<1>3. Len(w.trail) - (m - 1) = q + 1
  <2>1. q \in Nat /\ Len(w.trail) - m = q
    BY <1>2
  <2> QED
    BY <2>1
<1>4. ASSUME NEW i \in 1..(q + 1)
      PROVE  w.trail[(m - 1) + i] = x.trail[l + i] /\ w.path[(m - 1) + i] = x.path[l + i]
  <2>1. CASE i = 1
    <3>1. (m - 1) + i = m /\ l + i = h
      BY <2>1
    <3> QED
      BY <3>1
  <2>2. CASE i # 1
    <3>1. PICK g : g = i - 1
      OBVIOUS
    <3>2. g \in 1..q /\ (m - 1) + i = m + g /\ l + i = h + g
      BY <1>2, <2>2, <3>1
    <3> QED
      BY <1>2, <3>2
  <2> QED
    BY <2>1, <2>2
<1> QED
  BY <1>2, <1>3, <1>4 DEF SameTail

LEMMA FoundAll ==
    ASSUME World, NEW old, NEW new, NEW m, NEW N, NEW pair, NEW cuts,
           Closing(old, new, m, N, pair, cuts), NEW wrn, Complete(old, m + 1, wrn, N),
           NEW x, NEW l, Covered(pair, PairsAt(old, cuts), x, l)
    PROVE  \E j \in 1..N : old[m + 1].start < j /\ SameTail(wrn[j], m, x, l)
<1>1. PICK k : k = m + 1
  OBVIOUS
<1>2. /\ k \in DOMAIN old /\ k \in 1..(m + 1) /\ k - 1 = m /\ Framed(old)
      /\ old[k].pair = pair /\ old[k].cuts = cuts /\ old[k].at > Len(Todo(old[k]))
  BY <1>1, ClosingList DEF Closing
<1>3. Covered(old[k].pair, PairsAt(old, old[k].cuts), x, l)
  BY <1>2
<1>9. PICK A : A = PairsAt(old, old[k].cuts)
  OBVIOUS
<1>10. Framed(old) /\ k \in DOMAIN old /\ Covered(old[k].pair, A, x, l)
  BY <1>2, <1>3, <1>9
<1>4. Len(x.trail) \in Nat /\ l \in 0..Len(x.trail) /\ Asked(From(x, l)) = Todo(old[k])
  BY <1>10, FrameRouted
<1>5. PICK i : Chosen(x, l, i)
  <2>1. l \in l..Len(x.trail)
    BY <1>4
  <2> QED
    BY <1>3, <2>1 DEF Covered, Route
<1>6. i \in 1..Len(Todo(old[k])) /\ Len(Todo(old[k])) \in Nat /\ old[k].at \in Nat
  BY <1>2, <1>4, <1>5, FrameAsked DEF Chosen
<1>7. Via(x, l, old[k].at)
  BY <1>2, <1>5, <1>6 DEF Via
<1>8. \E j \in 1..N : old[k].start < j /\ SameTail(wrn[j], k - 1, x, l)
  BY <1>1, <1>2, <1>3, <1>7 DEF Complete
<1> QED
  BY <1>1, <1>2, <1>8

\* A path that goes on by the step the caller waited at goes on from the pair.
LEMMA GoesInside ==
    ASSUME World, NEW old, NEW new, NEW m, NEW N, NEW pair, NEW cuts,
           Closing(old, new, m, N, pair, cuts), Sure(old, m + 1), NEW x, NEW l,
           Covered(old[m].pair, PairsAt(new, new[m].cuts), x, l), Chosen(x, l, old[m].at)
    PROVE  /\ l \in Nat /\ Len(x.trail) \in Nat /\ l < Len(x.trail)
           /\ x.trail[l + 1] = pair /\ x.path[l + 1] = Todo(old[m])[old[m].at].seg
           /\ Covered(pair, PairsAt(old, cuts), x, l + 1)
<1>1. /\ m \in Nat /\ m >= 1 /\ Framed(old) /\ Linked(old) /\ Len(old) = m + 1
      /\ old[m + 1].pair = pair /\ cuts \subseteq 2..m
      /\ new[m].cuts = old[m].cuts \cup Below(cuts, m) /\ SamePairs(old, new, m)
  BY DEF Closing
<1>2. m \in DOMAIN old
  BY ClosingList
<1>3. PICK o : o = Todo(old[m])[old[m].at]
  OBVIOUS
<1>4. Goes(o) /\ o.pair = pair /\ old[m].at \in DOMAIN Todo(old[m]) /\ pair \in Holding
  <2>1. m + 1 \in Nat /\ m + 1 <= Len(old) /\ m \in 1..((m + 1) - 1) /\ m + 1 \in 2..(m + 1)
    BY <1>1
  <2>2. pair \in Holding
    BY <1>1, <2>1 DEF Sure
  <2> QED
    BY <1>1, <1>3, <2>1, <2>2, WaitsAt
<1>5. /\ Len(x.trail) \in Nat /\ l \in 0..Len(x.trail) /\ DOMAIN x.trail = 1..Len(x.trail)
      /\ Asked(From(x, l)) = Todo(old[m])
      /\ m > 1 => l \in 1..Len(x.trail) /\ x.trail[l] = old[m].pair
  <2>1. PICK A : A = PairsAt(new, new[m].cuts)
    OBVIOUS
  <2>2. Framed(old) /\ m \in DOMAIN old /\ Covered(old[m].pair, A, x, l)
    BY <1>1, <1>2, <2>1
  <2> QED
    BY <2>2, FrameRouted
<1>6. Takes(x, l, o)
  BY <1>3, <1>5 DEF Chosen
<1>7. ~Nulls(o)
  BY <1>4 DEF Goes, Nulls
<1>8. l < Len(x.trail) /\ x.trail[l + 1] = pair /\ x.path[l + 1] = o.seg
  BY <1>4, <1>6, <1>7 DEF Takes
<1>9. PICK h : h = l + 1
  OBVIOUS
<1>10. h \in l..Len(x.trail) /\ h \in Nat /\ h # 0 /\ l \in Nat /\ l < h
  BY <1>5, <1>8, <1>9
<1>11. Route(x, h)
  <2>1. Route(x, l)
    BY DEF Covered
  <2> QED
    BY <1>10, <2>1, RouteOn
<1>12. From(x, h) = pair
  BY <1>8, <1>9, <1>10 DEF From
<1>13. ASSUME NEW g \in DOMAIN x.trail, h < g, x.trail[g] \in PairsAt(old, cuts)
       PROVE  FALSE
  <2>1. PICK i \in cuts : x.trail[g] = old[i].pair
    BY <1>13 DEF PairsAt
  <2>2. i \in 2..m /\ i \in 1..m
    BY <1>1
  <2>3. l < g /\ l <= g
    BY <1>5, <1>10, <1>13
  <2>4. CASE i = m
    <3>1. l \in DOMAIN x.trail /\ x.trail[l] = x.trail[g] /\ l <= l
      BY <1>1, <1>5, <2>1, <2>2, <2>4
    <3>2. Single(x, l)
      BY DEF Covered, Route
    <3>3. l = g
      BY <2>3, <3>1, <3>2 DEF Single
    <3> QED
      BY <1>10, <2>3, <3>3
  <2>5. CASE i # m
    <3>1. i \in new[m].cuts
      BY <1>1, <2>2, <2>5 DEF Below
    <3>2. new[i].pair = old[i].pair
      BY <1>1, <2>2 DEF SamePairs
    <3>3. x.trail[g] \in PairsAt(new, new[m].cuts)
      BY <2>1, <3>1, <3>2 DEF PairsAt
    <3> QED
      BY <2>3, <3>3 DEF Covered, Avoids
  <2> QED
    BY <2>4, <2>5
<1>14. Covered(pair, PairsAt(old, cuts), x, h)
  BY <1>11, <1>12, <1>13 DEF Covered, Avoids
<1> QED
  BY <1>3, <1>5, <1>8, <1>9, <1>10, <1>14

LEMMA ClosedComplete ==
    ASSUME World, NEW old, NEW new, NEW m, NEW N, NEW pair, NEW cuts,
           Closing(old, new, m, N, pair, cuts), Sure(old, m + 1), NEW wrn,
           Sound(old, m + 1, wrn, N), Begun(old, m + 1, N), Complete(old, m + 1, wrn, N)
    PROVE  Complete(new, m, wrn, N)
<1>1. /\ m \in Nat /\ m >= 1 /\ Framed(old) /\ Linked(old) /\ Len(old) = m + 1
      /\ m \in DOMAIN old /\ m + 1 \in 1..(m + 1) /\ m \in 1..(m + 1)
      /\ \A i \in 1..m : i \in 1..(m + 1)
  BY ClosingList DEF Closing
<1>2. ASSUME NEW k \in 1..m, NEW x, NEW l,
             Covered(new[k].pair, PairsAt(new, new[k].cuts), x, l), Via(x, l, old[k].at)
      PROVE  \E j \in 1..N : new[k].start < j /\ SameTail(wrn[j], k - 1, x, l)
  <2>1. new[k].pair = old[k].pair /\ new[k].start = old[k].start /\ k \in 1..(m + 1)
    BY <1>1 DEF Closing, SamePairs
  <2>2. old[k].cuts \subseteq new[k].cuts
    <3>1. CASE k = m
      BY <3>1 DEF Closing
    <3>2. CASE k # m
      <4>1. k \in 1..(m - 1)
        BY <1>1, <3>2
      <4> QED
        BY <4>1 DEF Closing
    <3> QED
      BY <3>1, <3>2
  <2>3. \A i \in old[k].cuts : i \in 1..m
    <3>1. k \in DOMAIN old
      BY <2>1, ClosingList
    <3>2. old[k].cuts \subseteq 2..(k - 1)
      BY <1>1, <3>1 DEF Framed
    <3> QED
      BY <1>1, <3>2
  <2>4. PairsAt(old, old[k].cuts) \subseteq PairsAt(new, new[k].cuts)
    <3>1. \A i \in old[k].cuts : i \in new[k].cuts /\ new[i].pair = old[i].pair
      BY <2>2, <2>3 DEF Closing, SamePairs
    <3> QED
      BY <3>1 DEF PairsAt
  <2>5. Covered(old[k].pair, PairsAt(old, old[k].cuts), x, l)
    BY <1>2, <2>1, <2>4 DEF Covered, Avoids
  <2>6. \E j \in 1..N : old[k].start < j /\ SameTail(wrn[j], k - 1, x, l)
    BY <1>2, <2>1, <2>5 DEF Complete
  <2> QED
    BY <2>1, <2>6
<1>3. ASSUME NEW x, NEW l, Covered(old[m].pair, PairsAt(new, new[m].cuts), x, l),
             Chosen(x, l, old[m].at)
      PROVE  \E j \in 1..N : old[m].start < j /\ SameTail(wrn[j], m - 1, x, l)
  <2>1. PICK h : h = l + 1
    OBVIOUS
  <2>2. /\ l \in Nat /\ Len(x.trail) \in Nat /\ l < Len(x.trail)
        /\ x.trail[h] = pair /\ x.path[h] = Todo(old[m])[old[m].at].seg
        /\ Covered(pair, PairsAt(old, cuts), x, h)
    BY <1>3, <2>1, GoesInside
  <2>3. PICK j \in 1..N : old[m + 1].start < j /\ SameTail(wrn[j], m, x, h)
    BY <2>2, FoundAll
  <2>4. PICK w : w = wrn[j]
    OBVIOUS
  <2>5. Agrees(w, old, m + 1) /\ Len(w.trail) \in Nat
    <3>1. Route(w, 0)
      BY <2>4 DEF Sound
    <3>2. Len(w.trail) \in Nat
      BY <3>1, PathParts DEF Route
    <3> QED
      BY <2>3, <2>4, <3>2, FoundInside
  <2>6. w.trail[m] = pair /\ w.path[m] = Todo(old[m])[old[m].at].seg
    <3>1. m \in 1..((m + 1) - 1)
      BY <1>1
    <3> QED
      BY <2>5, <3>1 DEF Agrees, Closing
  <2>7. SameTail(w, m - 1, x, l)
    BY <1>1, <2>1, <2>2, <2>3, <2>4, <2>5, <2>6, TailBack
  <2>8. old[m].start < j
    <3>1. old[m].start <= old[m + 1].start /\ old[m].start \in 0..N /\ old[m + 1].start \in 0..N
      <4>1. m <= m + 1
        BY <1>1
      <4> QED
        BY <1>1, <4>1 DEF Begun
    <3> QED
      BY <2>3, <3>1
  <2> QED
    BY <2>4, <2>7, <2>8
<1>4. ASSUME NEW k \in 1..m, NEW x, NEW l,
             Covered(new[k].pair, PairsAt(new, new[k].cuts), x, l), Via(x, l, new[k].at)
      PROVE  \E j \in 1..N : new[k].start < j /\ SameTail(wrn[j], k - 1, x, l)
  <2>1. CASE Via(x, l, old[k].at)
    BY <1>2, <1>4, <2>1
  <2>2. CASE ~Via(x, l, old[k].at)
    <3>1. PICK i : Chosen(x, l, i) /\ i < new[k].at
      BY <1>4 DEF Via
    <3>2. k = m
      <4> SUFFICES ASSUME k # m PROVE FALSE
        OBVIOUS
      <4>1. k \in 1..(m - 1)
        BY <1>1
      <4>2. new[k].at = old[k].at
        BY <4>1 DEF Closing
      <4> QED
        BY <2>2, <3>1, <4>2 DEF Via
    <3>3. new[m].pair = old[m].pair /\ new[m].start = old[m].start /\ new[m].at = old[m].at + 1
      BY <3>2 DEF Closing, SamePairs
    <3>4. Covered(old[m].pair, PairsAt(new, new[m].cuts), x, l)
      BY <1>4, <3>2, <3>3
    <3>5. /\ DOMAIN Asked(From(x, l)) = 1..Len(Todo(old[m])) /\ Len(Todo(old[m])) \in Nat
          /\ old[m].at \in Nat
      <4>1. From(x, l) = old[m].pair
        BY <3>4 DEF Covered
      <4> QED
        BY <1>1, <4>1, FrameAsked
    <3>6. i \in Nat /\ i < old[m].at + 1 /\ ~(i < old[m].at)
      BY <2>2, <3>1, <3>2, <3>3, <3>5 DEF Chosen, Via
    <3>7. i = old[m].at
      BY <3>5, <3>6
    <3>8. \E j \in 1..N : old[m].start < j /\ SameTail(wrn[j], m - 1, x, l)
      BY <1>3, <3>1, <3>4, <3>7
    <3> QED
      BY <3>2, <3>3, <3>8
  <2> QED
    BY <2>1, <2>2
<1> QED
  BY <1>4 DEF Complete

-----------------------------------------------------------------------------
\* The proof of a walk that got to its end.

LEMMA ClosedRepeatable ==
    ASSUME World, NEW old, NEW new, NEW m, NEW N, NEW pair, NEW cuts,
           Closing(old, new, m, N, pair, cuts), NEW wrn, Complete(old, m + 1, wrn, N),
           NEW prv, NEW prv2, NEW rec,
           rec = [start |-> old[m + 1].start, end |-> N, prefix |-> m, cuts |-> cuts],
           old[m + 1].start \in 0..N, Learnt(prv, prv2, pair, rec),
           \A p \in DOMAIN prv2 : p # pair => prv2[p].cuts \subseteq 2..m,
           Repeatable(old, wrn, prv, DOMAIN prv)
    PROVE  Repeatable(new, wrn, prv2, DOMAIN prv2)
<1>1. rec.start = old[m + 1].start /\ rec.end = N /\ rec.prefix = m /\ rec.cuts = cuts
  OBVIOUS
<1>2. SamePairs(old, new, m) /\ m \in Nat /\ N \in Nat /\ cuts \subseteq 2..m
  BY DEF Closing
<1>3. ASSUME NEW c, c \subseteq 2..m
      PROVE  PairsAt(new, c) = PairsAt(old, c)
  <2>1. \A i \in c : i \in 1..m
    BY <1>2, <1>3
  <2>2. \A i \in c : new[i].pair = old[i].pair
    BY <1>2, <2>1 DEF SamePairs
  <2> QED
    BY <2>2 DEF PairsAt
<1>4. ASSUME NEW p \in DOMAIN prv2, NEW x, NEW l, Covered(p, PairsAt(new, prv2[p].cuts), x, l)
      PROVE  \E j \in (prv2[p].start + 1)..prv2[p].end : SameTail(wrn[j], prv2[p].prefix, x, l)
  <2>1. CASE p = pair
    <3>1. prv2[p] = rec
      BY <2>1 DEF Learnt
    <3>2. Covered(pair, PairsAt(old, cuts), x, l)
      BY <1>1, <1>2, <1>3, <1>4, <2>1, <3>1
    <3>3. PICK j \in 1..N : old[m + 1].start < j /\ SameTail(wrn[j], m, x, l)
      BY <3>2, FoundAll
    <3>4. j \in (old[m + 1].start + 1)..N
      BY <1>2, <3>3
    <3> QED
      BY <1>1, <3>1, <3>3, <3>4
  <2>2. CASE p # pair
    <3>1. PICK r : r = prv[p]
      OBVIOUS
    <3>2. p \in DOMAIN prv /\ prv2[p] = r
      BY <2>2, <3>1 DEF Learnt
    <3>3. r.cuts \subseteq 2..m
      BY <2>2, <3>2
    <3>4. PairsAt(new, r.cuts) = PairsAt(old, r.cuts)
      BY <1>3, <3>3
    <3>5. Covered(p, PairsAt(old, r.cuts), x, l)
      BY <1>4, <3>2, <3>4
    <3>6. \E j \in (r.start + 1)..r.end : SameTail(wrn[j], r.prefix, x, l)
      BY <3>1, <3>2, <3>5 DEF Repeatable
    <3> QED
      BY <3>2, <3>6
  <2> QED
    BY <2>1, <2>2
<1> QED
  BY <1>4 DEF Repeatable

LEMMA ClosedRecorded ==
    ASSUME NEW old, NEW new, NEW m, NEW N, NEW pair, NEW cuts,
           Closing(old, new, m, N, pair, cuts), NEW wrn, Sound(old, m + 1, wrn, N),
           old[m + 1].start \in 0..N,
           NEW prv, NEW prv2, NEW rec,
           rec = [start |-> old[m + 1].start, end |-> N, prefix |-> m, cuts |-> cuts],
           Learnt(prv, prv2, pair, rec),
           \A p \in DOMAIN prv2 : p # pair => prv2[p].cuts \subseteq 2..m,
           Recorded(m + 1, wrn, N, prv, DOMAIN prv)
    PROVE  Recorded(m, wrn, N, prv2, DOMAIN prv2)
<1>1. IsRecord(rec, pair, m, wrn, N)
  BY ClosedRecord
<1>2. ASSUME NEW r, NEW p, IsRecord(r, p, m + 1, wrn, N), r.cuts \subseteq 2..m
      PROVE  IsRecord(r, p, m, wrn, N)
  BY <1>2 DEF IsRecord
<1>3. ASSUME NEW p \in DOMAIN prv2
      PROVE  IsRecord(prv2[p], p, m, wrn, N)
  <2>1. CASE p = pair
    BY <1>1, <2>1 DEF Learnt
  <2>2. CASE p # pair
    <3>1. p \in DOMAIN prv /\ prv2[p] = prv[p]
      BY <2>2 DEF Learnt
    <3>2. IsRecord(prv[p], p, m + 1, wrn, N)
      BY <3>1 DEF Recorded
    <3> QED
      BY <1>2, <2>2, <3>1, <3>2
  <2> QED
    BY <2>1, <2>2
<1> QED
  BY <1>3 DEF Recorded

\* What is proven holds if the pairs of the stack do.
LEMMA HeldNow ==
    ASSUME World, NEW stk, NEW prv, Justified(stk, prv), Sure(stk, Len(stk)),
           NEW pair \in DOMAIN prv
    PROVE  pair \in Holding
<1>1. PICK cuts : cuts = prv[pair].cuts
  OBVIOUS
<1>2. cuts \subseteq 2..Len(stk) /\ pair \in Relies(PairsAt(stk, cuts))
  BY <1>1 DEF Justified, Proof
<1>3. PairsAt(stk, cuts) \subseteq Holding
  BY <1>2 DEF PairsAt, Sure
<1>4. Relies(PairsAt(stk, cuts)) \subseteq Holding
  BY <1>3, RelyHolds
<1> QED
  BY <1>2, <1>4

LEMMA ClosedClaims ==
    ASSUME World, NEW old, NEW new, NEW m, NEW N, NEW pair, NEW cuts,
           Closing(old, new, m, N, pair, cuts), Len(new) = m,
           NEW prv, NEW prv2, NEW rec, NEW wrn, NEW trunc,
           rec = [start |-> old[m + 1].start, end |-> N, prefix |-> m, cuts |-> cuts],
           Learnt(prv, prv2, pair, rec), Justified(new, prv2),
           \A p \in DOMAIN prv2 : p # pair => prv2[p].cuts \subseteq 2..m,
           Claims(old, m + 1, wrn, N, prv, DOMAIN prv, trunc)
    PROVE  Claims(new, m, wrn, N, prv2, DOMAIN prv2, trunc)
<1> SUFFICES ASSUME Sure(new, m)
             PROVE  /\ Sound(new, m, wrn, N) /\ Distinct(wrn, N) /\ Begun(new, m, N)
                    /\ Recorded(m, wrn, N, prv2, DOMAIN prv2) /\ Bounded(wrn, N, trunc)
                    /\ ~trunc => /\ Complete(new, m, wrn, N)
                                 /\ Repeatable(new, wrn, prv2, DOMAIN prv2)
  BY DEF Claims
<1>1. m \in Nat /\ m >= 1 /\ old[m + 1].pair = pair /\ SamePairs(old, new, m)
      /\ \A i \in 1..m : new[i].start = old[i].start
  BY DEF Closing
<1>2. pair \in Holding
  BY HeldNow DEF Learnt
<1>3. Sure(old, m + 1)
  <2>1. ASSUME NEW i \in 2..(m + 1)
        PROVE  old[i].pair \in Holding
    <3>1. CASE i = m + 1
      BY <1>1, <1>2, <3>1
    <3>2. CASE i # m + 1
      <4>1. i \in 2..m /\ i \in 1..m
        BY <1>1, <3>2
      <4>2. new[i].pair = old[i].pair
        BY <1>1, <4>1 DEF SamePairs
      <4> QED
        BY <4>1, <4>2 DEF Sure
    <3> QED
      BY <3>1, <3>2
  <2> QED
    BY <2>1 DEF Sure
<1>4. /\ Sound(old, m + 1, wrn, N) /\ Distinct(wrn, N) /\ Begun(old, m + 1, N)
      /\ Recorded(m + 1, wrn, N, prv, DOMAIN prv) /\ Bounded(wrn, N, trunc)
      /\ ~trunc => Complete(old, m + 1, wrn, N) /\ Repeatable(old, wrn, prv, DOMAIN prv)
  BY <1>3 DEF Claims
<1>5. Sound(new, m, wrn, N)
  BY <1>3, <1>4, ClosedSound
<1>6. \A i \in 1..m : i \in 1..(m + 1)
  BY <1>1
<1>7. Begun(new, m, N)
  BY <1>1, <1>4, <1>6 DEF Begun
<1>8. old[m + 1].start \in 0..N
  <2>1. m + 1 \in 1..(m + 1)
    BY <1>1
  <2> QED
    BY <1>4, <2>1 DEF Begun
<1>9. Recorded(m, wrn, N, prv2, DOMAIN prv2)
  BY <1>4, <1>8, ClosedRecorded
<1>10. ~trunc => Complete(new, m, wrn, N)
  BY <1>3, <1>4, ClosedComplete
<1>11. ~trunc => Repeatable(new, wrn, prv2, DOMAIN prv2)
  BY <1>4, <1>8, ClosedRepeatable
<1> QED
  BY <1>4, <1>5, <1>7, <1>9, <1>10, <1>11

-----------------------------------------------------------------------------
\* The step that closes a walk.

LEMMA FinishCloses ==
    ASSUME FailureInv, Warns, FinishHolds, NEW n \in Nat, n = Len(stack), NEW m \in Nat, m = n - 1,
           m >= 1, NEW N \in Nat, N = Len(warnings)
    PROVE  /\ Closing(stack, stack', m, N, Top.pair, Top.cuts) /\ Len(stack') = m
           /\ IsList(stack') /\ SameMarks(stack, stack', m) /\ Len(path) = m
<1>1. IInv /\ Len(stack) > 1 /\ AtEnd /\ PathTold(stack, path)
  BY DEF FinishHolds, FailureInv
<1>2. PICK stk : stk = stack'
  OBVIOUS
<1>3. stk = Resumed(Closed(Top.cuts, Top.pair))
  BY <1>2 DEF FinishHolds
<1>4. Told(stk, m)
  <2>1. m = Len(stack) - 1
    OBVIOUS
  <2> QED
    BY <1>1, <1>3, <2>1, ClosedFrames
<1>5. SameRest(stack, stk)
  BY <1>1, <1>3, ClosedRest
<1>6. IsList(stk) /\ Len(stk) = m /\ DOMAIN stk = 1..m
  BY <1>4, ListParts DEF Told, Frames
<1>7. \A i \in 1..m : stk[i].start = stack[i].start /\ stk[i].mark = stack[i].mark
  BY <1>5, <1>6 DEF SameRest
<1>8. m + 1 = n /\ Top = stack[n] /\ Top.cuts \subseteq 2..m /\ Framed(stack) /\ Linked(stack)
      /\ Top.at > Len(Todo(Top))
  <2>1. m + 1 = n /\ Len(stack) - 1 = m
    OBVIOUS
  <2>2. Top.cuts \subseteq 2..(Len(stack) - 1)
    BY <1>1, TopFacts
  <2>3. Framed(stack) /\ Linked(stack) /\ Top.at > Len(Todo(Top))
    BY <1>1 DEF IInv, Walking, AtEnd
  <2> QED
    BY <2>1, <2>2, <2>3 DEF Top
<1>9. /\ SamePairs(stack, stk, m)
      /\ \A i \in 1..(m - 1) : stk[i].at = stack[i].at /\ stk[i].cuts = stack[i].cuts
      /\ stk[m].at = stack[m].at + 1 /\ stk[m].cuts = stack[m].cuts \cup Below(Top.cuts, m)
  BY <1>4 DEF Told, SamePairs
<1>10. PICK pair, cuts : pair = Top.pair /\ cuts = Top.cuts
  OBVIOUS
<1>11. Closing(stack, stk, m, N, pair, cuts)
  <2>1. stack[m + 1].pair = pair /\ stack[m + 1].cuts = cuts /\ cuts \subseteq 2..m
        /\ stack[m + 1].at > Len(Todo(stack[m + 1])) /\ Len(stack) = m + 1
    BY <1>8, <1>10
  <2>2. \A i \in 1..m : stk[i].start = stack[i].start
    BY <1>7
  <2> QED
    BY <1>8, <1>9, <1>10, <2>1, <2>2 DEF Closing
<1>12. SameMarks(stack, stk, m)
  BY <1>7 DEF SameMarks
<1>13. Len(path) = m
  BY <1>1 DEF PathTold
<1> QED
  BY <1>2, <1>6, <1>10, <1>11, <1>12, <1>13

LEMMA ExtendedLearnt ==
    ASSUME NEW prv, NEW S, NEW pair, NEW rec
    PROVE  Learnt(prv, Extended(Without(prv, S), pair, rec), pair, rec)
           /\ \A p \in DOMAIN Extended(Without(prv, S), pair, rec) : p # pair => p \notin S
<1>1. PICK old : old = Without(prv, S)
  OBVIOUS
<1>2. DOMAIN old = DOMAIN prv \ S /\ \A p \in DOMAIN old : old[p] = prv[p]
  BY <1>1 DEF Without
<1>3. PICK new : new = Extended(old, pair, rec)
  OBVIOUS
<1>4. /\ DOMAIN new = DOMAIN old \cup {pair}
      /\ \A p \in DOMAIN new : new[p] = IF p = pair THEN rec ELSE old[p]
  BY <1>3 DEF Extended
<1>5. Learnt(prv, new, pair, rec) /\ \A p \in DOMAIN new : p # pair => p \notin S
  BY <1>2, <1>4 DEF Learnt
<1> QED
  BY <1>1, <1>3, <1>5

\* One more proof, the last of the log: what was saved spares it.
LEMMA KeptLearnt ==
    ASSUME IInv, Warns, NEW prv, NEW pair, NEW rec, Learnt(proven, prv, pair, rec),
           NEW lg, lg = Append(log, pair), NEW k \in Saved(stack, failing)
    PROVE  KeptAt(stack, k, warnings, warnings, proven, prv, log, lg)
<1>1. PICK mark : mark = stack[k].mark
  OBVIOUS
<1>2. mark.log \in 0..Len(log) /\ mark.warnings \in 0..Len(warnings)
  BY <1>1 DEF Warns, Warning, SavedAt
<1>3. IsList(log) /\ Len(warnings) \in Nat
  BY ListParts DEF Warns, Warning
<1>4. PICK L \in Nat : L = Len(log)
  BY <1>3, ListParts
<1>5. Len(lg) = L + 1 /\ lg[L + 1] = pair /\ \A i \in 1..L : lg[i] = log[i]
  <2>1. IsList(log) /\ lg = Append(log, pair)
    BY <1>3
  <2> QED
    BY <1>4, <2>1, AppendedList
<1>6. PICK from \in Nat : from = mark.log /\ from <= L
  BY <1>2, <1>4
<1>7. mark.log <= Len(lg) /\ mark.warnings <= Len(warnings)
  BY <1>2, <1>3, <1>4, <1>5, <1>6
<1>8. L + 1 \in (from + 1)..(L + 1)
      /\ \A i \in (from + 1)..L : i \in (from + 1)..(L + 1) /\ i \in 1..L
  BY <1>6
<1>9. Fewer(proven, Spared(proven, log, from), prv, Spared(prv, lg, from))
  <2>1. ASSUME NEW p \in Spared(prv, lg, from)
        PROVE  p \in Spared(proven, log, from) /\ prv[p] = proven[p]
    <3>1. p \in DOMAIN prv /\ \A i \in (from + 1)..(L + 1) : lg[i] # p
      BY <1>5 DEF Spared
    <3>2. p # pair
      BY <1>5, <1>8, <3>1
    <3>3. p \in DOMAIN proven /\ prv[p] = proven[p]
      BY <3>1, <3>2 DEF Learnt
    <3>4. \A i \in (from + 1)..L : log[i] # p
      BY <1>5, <1>8, <3>1
    <3> QED
      BY <1>4, <3>3, <3>4 DEF Spared
  <2> QED
    BY <2>1 DEF Fewer
<1> QED
  BY <1>1, <1>6, <1>7, <1>9 DEF KeptAt

LEMMA FinishHoldsWarns ==
    ASSUME FailureInv, Warns, FinishHolds PROVE WarningNext
<1>1. /\ IInv /\ failing = FALSE /\ Len(stack) > 1 /\ World
      /\ warnings' = warnings /\ truncated' = truncated /\ failing' = FALSE
  BY DEF FinishHolds, FailureInv, IInv, Walking, Failing
<1>2. PICK n \in Nat : n = Len(stack) /\ n > 1
  BY <1>1, TopFacts
<1>3. PICK m \in Nat : m = n - 1 /\ m >= 1 /\ m < n /\ m + 1 = n
  BY <1>2
<1>4. PICK N \in Nat : N = Len(warnings)
  BY SameExtends
<1>5. PICK stk, prv, lg, pair, cuts :
         stk = stack' /\ prv = proven' /\ lg = log' /\ pair = Top.pair /\ cuts = Top.cuts
  OBVIOUS
<1>6. /\ Closing(stack, stk, m, N, pair, cuts) /\ Len(stk) = m
      /\ IsList(stk) /\ SameMarks(stack, stk, m) /\ Len(path) = m
  BY <1>2, <1>3, <1>4, <1>5, FinishCloses
<1>7. PICK rec : rec = [start |-> stack[m + 1].start, end |-> N, prefix |-> m, cuts |-> cuts]
  OBVIOUS
<1>8. prv = Extended(Without(proven, Top.dependents), pair, rec) /\ lg = Append(log, pair)
  <2>1. [start |-> Top.start, end |-> Len(warnings), prefix |-> Len(path), cuts |-> Top.cuts] = rec
    BY <1>2, <1>3, <1>4, <1>5, <1>6, <1>7 DEF Top
  <2> QED
    BY <1>5, <2>1 DEF FinishHolds, ForgetDependents
<1>9. Learnt(proven, prv, pair, rec) /\ \A p \in DOMAIN prv : p # pair => p \notin Top.dependents
  BY <1>8, ExtendedLearnt
<1>10. \A p \in DOMAIN prv : p # pair => prv[p].cuts \subseteq 2..m
  <2>1. ASSUME NEW p \in DOMAIN prv, p # pair
        PROVE  prv[p].cuts \subseteq 2..m
    <3>1. p \in DOMAIN proven /\ prv[p] = proven[p] /\ p \notin Top.dependents
      BY <1>9, <2>1 DEF Learnt
    <3>2. proven[p].cuts \subseteq 2..(Len(stack) - 1)
      BY <1>1, <3>1, Survives
    <3> QED
      BY <1>2, <1>3, <3>1, <3>2
  <2> QED
    BY <2>1
<1>11. Justified(stk, prv)
  BY <1>1, <1>5, FinishHoldsKeeps DEF Walking
<1>12. Claims(stk, m, warnings, N, prv, DOMAIN prv, truncated)
  <2>1. Claims(stack, m + 1, warnings, N, proven, DOMAIN proven, truncated)
    BY <1>1, <1>2, <1>3, <1>4 DEF Warns, Warning
  <2> QED
    BY <1>1, <1>6, <1>7, <1>9, <1>10, <1>11, <2>1, ClosedClaims
<1>13. SamePairs(stack, stk, m) /\ \A i \in 1..m : stk[i].start = stack[i].start
  BY <1>6 DEF Closing
<1>14. \A i \in 1..m : i \in 1..n
  BY <1>3
<1>15. Once(stk)
  <2>1. \A i \in 2..m : i \in 2..n /\ i \in 1..m
    BY <1>3
  <2>2. \A i \in 2..m : stk[i].pair = stack[i].pair
    BY <1>13, <2>1 DEF SamePairs
  <2> QED
    BY <1>2, <1>6, <2>1, <2>2 DEF Warns, Warning, Once
<1>16. Counted(stk, prv)
  <2>1. DOMAIN stk = 1..m /\ DOMAIN stack = 1..n /\ n \in 1..n
    BY <1>1, <1>2, <1>6, ListParts, TopFacts
  <2>2. \A i \in DOMAIN stk : stk[i].start \in Nat
    BY <1>13, <1>14, <2>1 DEF Warns, Warning, Counted
  <2>3. rec.start \in Nat /\ rec.end \in Nat /\ rec.prefix \in Nat
    BY <1>3, <1>7, <2>1 DEF Warns, Warning, Counted
  <2>4. ASSUME NEW p \in DOMAIN prv
        PROVE  prv[p].start \in Nat /\ prv[p].end \in Nat /\ prv[p].prefix \in Nat
    <3>1. CASE p = pair
      BY <1>9, <2>3, <3>1 DEF Learnt
    <3>2. CASE p # pair
      <4>1. p \in DOMAIN proven /\ prv[p] = proven[p]
        BY <1>9, <3>2 DEF Learnt
      <4> QED
        BY <4>1 DEF Warns, Warning, Counted
    <3> QED
      BY <3>1, <3>2
  <2> QED
    BY <2>2, <2>4 DEF Counted
<1>17. IsList(log) /\ IsList(lg) /\ IsList(warnings) /\ Len(lg) \in Nat
  <2>1. IsList(log) /\ lg = Append(log, pair) /\ IsList(warnings)
    BY <1>8 DEF Warns, Warning
  <2>2. IsList(lg)
    BY <2>1, AppendedList
  <2> QED
    BY <2>1, <2>2, ListParts
<1>18. SavedAt(stk, Saved(stk, FALSE), warnings, prv, lg)
  <2>1. PICK S, b : S = Saved(stk, FALSE) /\ b = m - 1
    OBVIOUS
  <2>2. /\ b \in Nat /\ b <= Len(stack) /\ b < Len(stack) /\ Len(stack) \in Nat
        /\ Len(warnings) \in Nat /\ Framed(stack)
    BY <1>1, <1>2, <1>3, <1>4, <2>1 DEF IInv, Walking
  <2>3. SameFrames(stack, stk, b) /\ SameMarks(stack, stk, b)
    <3>1. \A i \in 1..b : i \in 1..m /\ i \in 1..(m - 1)
      BY <2>1
    <3>2. \A i \in 1..(m - 1) : stk[i].at = stack[i].at /\ stk[i].cuts = stack[i].cuts
      BY <1>6 DEF Closing
    <3> QED
      BY <1>6, <1>13, <3>1, <3>2 DEF SameFrames, SameMarks, SamePairs
  <2>4. S \subseteq 1..b
    <3>1. \A k \in 1..m : k < m => k \in 1..b
      BY <1>3, <2>1
    <3> QED
      BY <1>6, <2>1, <3>1 DEF Saved
  <2>5. S \subseteq Saved(stack, failing)
    BY <2>1, <2>2, <2>3, <2>4, SavedBelow
  <2>6. SavedAt(stack, S, warnings, proven, log)
    BY <2>5, SavedLess DEF Warns, Warning
  <2>7. \A k \in S : KeptAt(stack, k, warnings, warnings, proven, prv, log, lg)
    BY <1>1, <1>8, <1>9, <2>5, KeptLearnt
  <2>8. SavedAt(stk, S, warnings, prv, lg)
    BY <1>17, <2>2, <2>3, <2>4, <2>6, <2>7, SavedStays
  <2> QED
    BY <2>1, <2>8
<1>19. Doubted(stk, FALSE)
  BY DEF Doubted
<1>20. Claims(stk, Len(stk), warnings, Len(warnings), prv, DOMAIN prv, truncated)
  BY <1>4, <1>6, <1>12
<1>21. IsList(lg) /\ IsList(warnings)
  BY <1>17
<1>22. Warning(stk, warnings, prv, lg, truncated, FALSE)
  BY <1>15, <1>16, <1>18, <1>19, <1>20, <1>21 DEF Warning
<1> QED
  BY <1>1, <1>5, <1>22 DEF WarningNext

-----------------------------------------------------------------------------
\* The invariant of the next state, in terms of this one.

LEMMA SteadyRoutes ==
    ASSUME input' = input
    PROVE  /\ \A o : Goes(o)' = Goes(o)
           /\ \A x, l, i : Chosen(x, l, i)' = Chosen(x, l, i)
           /\ \A x, l, n : Via(x, l, n)' = Via(x, l, n)
           /\ \A x, l : Route(x, l)' = Route(x, l)
<1>1. Pair' = Pair /\ Holding' = Holding /\ \A f : Todo(f)' = Todo(f)
  BY Steady
<1>2. ASSUME NEW o
      PROVE  Goes(o)' = Goes(o) /\ Nulls(o)' = Nulls(o)
  BY <1>1 DEF Goes, Nulls
<1>3. ASSUME NEW pair
      PROVE  Asked(pair)' = Asked(pair)
  BY <1>1 DEF Asked
<1>4. ASSUME NEW x, NEW l, NEW o
      PROVE  Takes(x, l, o)' = Takes(x, l, o)
  BY <1>2 DEF Takes
<1>5. ASSUME NEW x, NEW l, NEW i
      PROVE  Chosen(x, l, i)' = Chosen(x, l, i)
  BY <1>3, <1>4 DEF Chosen
<1>6. ASSUME NEW x, NEW l, NEW n
      PROVE  Via(x, l, n)' = Via(x, l, n)
  BY <1>5 DEF Via
<1>7. ASSUME NEW x, NEW l
      PROVE  Known(x, l)' = Known(x, l)
  BY <1>1 DEF Known
<1>8. ASSUME NEW x, NEW l
      PROVE  Route(x, l)' = Route(x, l)
  BY <1>5, <1>7 DEF Route
<1> QED
  BY <1>2, <1>5, <1>6, <1>8

LEMMA SteadyClaims ==
    ASSUME input' = input
    PROVE  \A stk, K, wrn, N, prv, D, trunc :
              Claims(stk, K, wrn, N, prv, D, trunc)' = Claims(stk, K, wrn, N, prv, D, trunc)
<1>1. Holding' = Holding /\ MaxWarnings' = MaxWarnings /\ \A f : Todo(f)' = Todo(f)
  BY Steady DEF MaxWarnings
<1>2. /\ \A x, l, n : Via(x, l, n)' = Via(x, l, n)
      /\ \A x, l : Route(x, l)' = Route(x, l)
  BY SteadyRoutes
<1>3. ASSUME NEW stk, NEW K
      PROVE  Sure(stk, K)' = Sure(stk, K)
  BY <1>1 DEF Sure
<1>4. ASSUME NEW w, NEW stk, NEW k
      PROVE  Agrees(w, stk, k)' = Agrees(w, stk, k)
  BY <1>1 DEF Agrees
<1>5. ASSUME NEW w, NEW j, NEW stk, NEW K, NEW k
      PROVE  Belongs(w, j, stk, K, k)' = Belongs(w, j, stk, K, k)
  BY <1>2, <1>4 DEF Belongs
<1>6. ASSUME NEW stk, NEW K, NEW wrn, NEW N
      PROVE  Sound(stk, K, wrn, N)' = Sound(stk, K, wrn, N)
  BY <1>2, <1>5 DEF Sound
<1>7. ASSUME NEW wrn, NEW N, NEW trunc
      PROVE  Bounded(wrn, N, trunc)' = Bounded(wrn, N, trunc)
  BY <1>1, <1>2 DEF Bounded, Missing
<1>8. ASSUME NEW pair, NEW A, NEW x, NEW l
      PROVE  Covered(pair, A, x, l)' = Covered(pair, A, x, l)
  BY <1>2 DEF Covered
<1>9. ASSUME NEW stk, NEW K, NEW wrn, NEW N
      PROVE  Complete(stk, K, wrn, N)' = Complete(stk, K, wrn, N)
  BY <1>2, <1>8 DEF Complete
<1>10. ASSUME NEW stk, NEW wrn, NEW prv, NEW D
       PROVE  Repeatable(stk, wrn, prv, D)' = Repeatable(stk, wrn, prv, D)
  BY <1>8 DEF Repeatable
<1> QED
  BY <1>3, <1>6, <1>7, <1>9, <1>10 DEF Claims

LEMMA SteadyWarning ==
    ASSUME input' = input
    PROVE  \A stk, wrn, prv, lg, trunc, flag :
              Warning(stk, wrn, prv, lg, trunc, flag)' = Warning(stk, wrn, prv, lg, trunc, flag)
<1>1. Holding' = Holding /\ \A f : Todo(f)' = Todo(f)
  BY Steady
<1>2. \A stk, K, wrn, N, prv, D, trunc :
         Claims(stk, K, wrn, N, prv, D, trunc)' = Claims(stk, K, wrn, N, prv, D, trunc)
  BY SteadyClaims
<1>3. ASSUME NEW f
      PROVE  AtProbe(f)' = AtProbe(f)
  BY <1>1 DEF AtProbe
<1>4. ASSUME NEW stk, NEW flag
      PROVE  Doubted(stk, flag)' = Doubted(stk, flag) /\ Saved(stk, flag)' = Saved(stk, flag)
  BY <1>1, <1>3 DEF Doubted, Saved
<1>5. ASSUME NEW stk, NEW k, NEW wrn, NEW prv, NEW lg
      PROVE  SavedClaims(stk, k, wrn, prv, lg)' = SavedClaims(stk, k, wrn, prv, lg)
  BY <1>2 DEF SavedClaims
<1>6. ASSUME NEW stk, NEW T, NEW wrn, NEW prv, NEW lg
      PROVE  SavedAt(stk, T, wrn, prv, lg)' = SavedAt(stk, T, wrn, prv, lg)
  BY <1>5 DEF SavedAt
<1> QED
  BY <1>2, <1>4, <1>6 DEF Warning

LEMMA WarningTransfers ==
    ASSUME WarningInv, FailureInv', input' = input, Ended(outcome', stack', failing'),
           outcome' \in {"running", "compatible"} => WarningNext
    PROVE  WarningInv'
<1>1. \A stk, wrn, prv, lg, trunc, flag :
         Warning(stk, wrn, prv, lg, trunc, flag)' = Warning(stk, wrn, prv, lg, trunc, flag)
  BY SteadyWarning
<1>2. \A f : Todo(f)' = Todo(f)
  BY Steady
<1>3. Ended(outcome, stack, failing)'
  BY <1>2 DEF Ended
<1>4. MaxWarnings' \in Nat
  BY DEF WarningInv, MaxWarnings
<1>5. (outcome \in {"running", "compatible"} =>
          Warning(stack, warnings, proven, log, truncated, failing))'
  BY <1>1 DEF WarningNext
<1> QED
  BY <1>3, <1>4, <1>5 DEF WarningInv

LEMMA WarningStep == WarningInv /\ [Next]_vars => WarningInv'
<1> SUFFICES ASSUME WarningInv, [Next]_vars PROVE WarningInv'
  OBVIOUS
<1>1. input' = input
  BY DEF vars, Next, PassOver, FindLack, WarnNull, AnswerFailed, AnswerActive, AnswerProven,
         Descend, FinishHolds, FinishFails, ProbeFails, MethodHolds, MethodFails, Exhaust,
         Spend, Decide
<1>2. FailureInv /\ IInv /\ MaxWarnings \in Nat /\ FailureInv'
  BY FailureStep DEF WarningInv, FailureInv
<1>3. outcome = "running" => Warns
  BY DEF WarningInv, Warns
<1>4. ASSUME outcome = "running", outcome' = outcome, WarningNext
      PROVE  WarningInv'
  BY <1>1, <1>2, <1>4, WarningTransfers DEF Ended
<1>5. CASE PassOver
  BY <1>2, <1>3, <1>4, <1>5, PassOverWarns DEF PassOver, Meets, Running, Spend
<1>6. CASE FindLack
  BY <1>2, <1>3, <1>4, <1>6, FindLackWarns DEF FindLack, Meets, Running, Spend
<1>7. CASE WarnNull
  BY <1>2, <1>3, <1>4, <1>7, WarnNullWarns DEF WarnNull, Meets, Running, Spend
<1>8. CASE AnswerFailed
  BY <1>2, <1>3, <1>4, <1>8, AnswerFailedWarns DEF AnswerFailed, Meets, Running, Spend
<1>9. CASE AnswerActive
  BY <1>2, <1>3, <1>4, <1>9, AnswerActiveWarns DEF AnswerActive, Meets, Running, Spend
<1>10. CASE AnswerProven
  BY <1>2, <1>3, <1>4, <1>10, AnswerProvenWarns DEF AnswerProven, Meets, Running, Spend
<1>11. CASE Descend
  BY <1>2, <1>3, <1>4, <1>11, DescendWarns DEF Descend, Meets, Running, Spend
<1>12. CASE FinishHolds
  BY <1>2, <1>3, <1>4, <1>12, FinishHoldsWarns DEF FinishHolds, Running, Spend
<1>13. CASE FinishFails
  BY <1>2, <1>3, <1>4, <1>13, FinishFailsWarns DEF FinishFails, Running, Spend
<1>14. CASE ProbeFails
  BY <1>2, <1>3, <1>4, <1>14, ProbeFailsWarns DEF ProbeFails, Running, Spend
<1>15. CASE MethodHolds
  <2>1. outcome = "running" /\ stack' = stack /\ warnings' = warnings /\ proven' = proven
        /\ log' = log /\ truncated' = truncated /\ failing' = failing
        /\ Len(stack) = 1 /\ AtEnd /\ ~failing
    BY <1>15 DEF MethodHolds, Decide, Running
  <2>2. WarningNext
    BY <1>3, <2>1 DEF Warns, WarningNext
  <2>3. Ended(outcome', stack', failing')
    BY <2>1 DEF Ended, AtEnd, Top
  <2> QED
    BY <1>1, <1>2, <2>2, <2>3, WarningTransfers
<1>16. CASE MethodFails \/ Exhaust
  <2>1. outcome' \notin {"running", "compatible"}
    BY <1>16 DEF MethodFails, Decide, Exhaust
  <2>2. Ended(outcome', stack', failing')
    BY <2>1 DEF Ended
  <2> QED
    BY <1>1, <1>2, <2>1, <2>2, WarningTransfers
<1>17. CASE UNCHANGED vars
  <2>1. outcome' = outcome /\ stack' = stack /\ warnings' = warnings /\ proven' = proven
        /\ log' = log /\ truncated' = truncated /\ failing' = failing
    BY <1>17 DEF vars
  <2>2. outcome' \in {"running", "compatible"} => WarningNext
    BY <2>1 DEF WarningInv, WarningNext
  <2>3. Ended(outcome', stack', failing')
    BY <2>1 DEF WarningInv
  <2> QED
    BY <1>1, <1>2, <2>2, <2>3, WarningTransfers
<1> QED
  BY <1>5, <1>6, <1>7, <1>8, <1>9, <1>10, <1>11, <1>12, <1>13, <1>14, <1>15, <1>16, <1>17
     DEF Next

LEMMA WarningInit == Init => WarningInv
<1> SUFFICES ASSUME Init PROVE WarningInv
  OBVIOUS
<1>1. FailureInv /\ World
  BY FailureInit, WorldHolds
<1>2. MaxWarnings \in Nat
  <2>1. PICK family \in Families : input.bounds = family.bounds
    BY DEF Init
  <2>2. family.bounds \in [depth : Nat, steps : Nat, warnings : Nat]
    BY FamiliesAssumption
  <2> QED
    BY <2>1, <2>2 DEF MaxWarnings
<1>3. warnings = << >> /\ proven = << >> /\ log = << >> /\ truncated = FALSE /\ failing = FALSE
      /\ outcome = "running"
  BY DEF Init
<1>4. IsList(<< >>) /\ Len(<< >>) = 0 /\ DOMAIN << >> = {}
  BY EmptyList
<1>5. PICK f : f = Frame(NoPair)
  OBVIOUS
<1>6. stack = <<f>> /\ f.start = 0 /\ f.at = 1
  BY <1>3, <1>4, <1>5 DEF Init, Frame
<1>7. PICK stk : stk = stack
  OBVIOUS
<1>8. Len(stk) = 1 /\ DOMAIN stk = 1..1 /\ stk[1] = f
  BY <1>6, <1>7
<1>9. Framed(stk)
  BY <1>1, <1>7 DEF FailureInv, IInv, Walking
<1>10. PICK e : e = << >> /\ IsList(e) /\ Len(e) = 0 /\ DOMAIN e = {}
  BY <1>4
<1>11. ASSUME NEW x, NEW l, From(x, l) = stk[1].pair
       PROVE  ~Via(x, l, 1)
  <2>1. DOMAIN Asked(From(x, l)) = 1..Len(Todo(stk[1])) /\ Len(Todo(stk[1])) \in Nat
    BY <1>1, <1>8, <1>9, <1>11, FrameAsked
  <2>2. \A i \in 1..Len(Todo(stk[1])) : ~(i < 1)
    BY <2>1
  <2> QED
    BY <2>1, <2>2 DEF Via, Chosen
<1>12. Claims(stk, 1, e, 0, e, DOMAIN e, FALSE)
  <2>1. Sound(stk, 1, e, 0) /\ Distinct(e, 0)
    BY DEF Sound, Distinct
  <2>2. Begun(stk, 1, 0)
    <3>1. \A k \in 1..1 : stk[k].start = 0
      BY <1>6, <1>8
    <3> QED
      BY <3>1 DEF Begun
  <2>3. Recorded(1, e, 0, e, DOMAIN e) /\ Repeatable(stk, e, e, DOMAIN e)
    BY <1>10 DEF Recorded, Repeatable
  <2>4. Bounded(e, 0, FALSE)
    BY <1>2 DEF Bounded
  <2>5. Complete(stk, 1, e, 0)
    <3>1. \A k \in 1..1 : k = 1
      OBVIOUS
    <3>2. stk[1].at = 1
      BY <1>6, <1>8
    <3> QED
      BY <1>11, <3>1, <3>2 DEF Complete, Covered
  <2> QED
    BY <2>1, <2>2, <2>3, <2>4, <2>5 DEF Claims
<1>13. Once(stk)
  <2>1. 2..1 = {}
    OBVIOUS
  <2> QED
    BY <1>8, <2>1 DEF Once
<1>14. Counted(stk, e)
  BY <1>6, <1>8, <1>10 DEF Counted
<1>15. SavedAt(stk, Saved(stk, FALSE), e, e, e)
  <2>1. Saved(stk, FALSE) = {}
    BY <1>8 DEF Saved
  <2> QED
    BY <2>1 DEF SavedAt
<1>16. Warning(stk, e, e, e, FALSE, FALSE)
  BY <1>8, <1>10, <1>12, <1>13, <1>14, <1>15 DEF Warning, Doubted
<1> QED
  BY <1>1, <1>2, <1>3, <1>7, <1>10, <1>16 DEF WarningInv, Ended

-----------------------------------------------------------------------------
(***************************************************************************)
(* Walks, where what is asked is repeated as often as there are pairs, are *)
(* the routes from the method.                                             *)
(***************************************************************************)

Root == [path |-> << >>, trail |-> << >>]
Start == [all |-> {Root}, last |-> {Root}]
Ends(w) == \E i \in DOMAIN TodoOf(w) : Nulls(TodoOf(w)[i])
Grown(w, o) == [path |-> Append(w.path, o.seg), trail |-> Append(w.trail, o.pair)]

\* A route, but for its last step.
Partial(w) == /\ IsPath(w) /\ Single(w, 0) /\ Known(w, 0)
              /\ \A m \in 0..(Len(w.trail) - 1) : \E i : Chosen(w, m, i)

LEMMA Same ==
    ASSUME NEW s, NEW t, IsList(s), IsList(t), Len(s) = Len(t),
           \A i \in 1..Len(s) : s[i] = t[i]
    PROVE  s = t
<1>1. PICK n \in Nat : n = Len(s)
  BY ListParts
<1>2. s = [i \in 1..n |-> s[i]] /\ t = [i \in 1..n |-> t[i]]
  BY <1>1, ListParts
<1>3. \A i \in 1..n : s[i] = t[i]
  BY <1>1
<1>4. [i \in 1..n |-> s[i]] = [i \in 1..n |-> t[i]]
  BY <1>3
<1> QED
  BY <1>2, <1>4

LEMMA LastOff ==
    ASSUME NEW s, IsList(s), NEW n \in Nat, Len(s) = n + 1
    PROVE  \E t : IsList(t) /\ Len(t) = n /\ s = Append(t, s[n + 1])
                  /\ \A i \in 1..n : t[i] = s[i]
<1> DEFINE t == [i \in 1..n |-> s[i]]
<1>1. DOMAIN t = 1..n /\ t = [i \in 1..n |-> t[i]] /\ \A i \in 1..n : t[i] = s[i]
  OBVIOUS
<1> HIDE DEF t
<1>2. IsList(t) /\ Len(t) = n
  BY <1>1, ListMade
<1>3. PICK v : v = s[n + 1]
  OBVIOUS
<1>4. PICK u : u = Append(t, v)
  OBVIOUS
<1>5. IsList(u) /\ Len(u) = n + 1 /\ (\A i \in 1..n : u[i] = t[i]) /\ u[n + 1] = v
  BY <1>2, <1>4, AppendedList
<1>6. ASSUME NEW i \in 1..(n + 1) PROVE s[i] = u[i]
  <2>1. i \in 1..n \/ i = n + 1
    OBVIOUS
  <2>2. i \in 1..n => u[i] = t[i] /\ t[i] = s[i]
    BY <1>1, <1>5
  <2> QED
    BY <1>3, <1>5, <2>1, <2>2
<1>7. s = u
  BY <1>5, <1>6, Same
<1> QED
  BY <1>1, <1>2, <1>3, <1>4, <1>7

LEMMA RoundsList ==
    ASSUME World
    PROVE  IsList(Rounds) /\ Len(Rounds) = Cardinality(Pair) /\ Cardinality(Pair) \in Nat
<1>1. PICK n \in Nat : n = Cardinality(Pair)
  BY PairsFinite, FS_CardinalityType
<1>2. PICK s : s = Rounds
  OBVIOUS
<1>3. s = [k \in 1..n |-> k]
  BY <1>1, <1>2 DEF Rounds
<1>4. DOMAIN s = 1..n /\ s = [i \in 1..n |-> s[i]]
  BY <1>3
<1> QED
  BY <1>1, <1>2, <1>4, ListMade

LEMMA WalksChain ==
    ASSUME World, NEW env
    PROVE  \E h : Chain(h, "longer", env, Start, Rounds)
                  /\ Walks = {w \in h[Len(Rounds)].all : Ends(w)}
<1>1. PICK base, list : base = Start /\ list = Rounds
  OBVIOUS
<1>2. IsList(list)
  BY <1>1, RoundsList
<1> DEFINE Filled(g) ==
        [s \in SUBSET (DOMAIN Rounds) |->
            IF s = {} THEN Start ELSE Longer(g[s \ {Max(s)}])]
<1>3. ASSUME NEW g PROVE Filled(g) = FoldAll("longer", env, base, list, g)
  BY <1>1 DEF FoldAll, StepOf
<1>4. PICK it : it = CHOOSE g : g = Filled(g)
  OBVIOUS
<1>5. \E g : g = Filled(g)
  <2>1. PICK g : g = FoldAll("longer", env, base, list, g)
    BY <1>2, FoldSolved
  <2>2. g = Filled(g)
    <3> HIDE DEF Filled
    <3> QED
      BY <1>3, <2>1
  <2> QED
    BY <2>2
<1>6. it = Filled(it)
  <2> HIDE DEF Filled
  <2> QED
    BY <1>4, <1>5
<1>7. PICK h : Chain(h, "longer", env, base, list) /\ it[DOMAIN list] = h[Len(list)]
  <2>1. it = FoldAll("longer", env, base, list, it)
    <3> HIDE DEF Filled
    <3> QED
      BY <1>3, <1>6
  <2> QED
    BY <1>2, <2>1, FoldChain
<1>8. Walks = {w \in it[DOMAIN Rounds].all : Ends(w)}
  BY <1>4 DEF Walks, FoldLeft, MapThenFoldSet, Longer, Further, Into, TodoOf, Root, Start,
              Ends, Nulls
<1> QED
  BY <1>1, <1>7, <1>8

LEMMA PartialTodo ==
    ASSUME World, NEW w, Partial(w)
    PROVE  /\ TodoOf(w) = Asked(From(w, Len(w.trail)))
           /\ From(w, Len(w.trail)) \in Pair \cup {NoPair}
<1>1. PICK n \in Nat : n = Len(w.trail) /\ DOMAIN w.trail = 1..n
  BY PathParts DEF Partial
<1>2. \A pair : Asked(pair) = IF pair = NoPair THEN MethodObligations ELSE Obligations(pair)
  BY DEF Asked, Todo
<1>3. CASE n = 0
  <2>1. w.trail = << >>
    <3>1. IsList(w.trail) /\ IsList(<< >>) /\ Len(<< >>) = 0
      BY EmptyList DEF Partial, IsPath
    <3>2. PICK s : s = w.trail
      OBVIOUS
    <3>3. \A i \in 1..Len(s) : FALSE
      <4>1. Len(s) = n
        BY <1>1, <3>2
      <4> QED
        BY <1>3, <4>1
    <3> QED
      BY <1>1, <1>3, <3>1, <3>2, <3>3, Same
  <2>2. From(w, n) = NoPair
    BY <1>3 DEF From
  <2> QED
    BY <1>1, <1>2, <2>1, <2>2 DEF TodoOf
<1>4. CASE n # 0
  <2>1. n \in 1..n /\ n \in DOMAIN w.trail /\ 0 <= n
    BY <1>1, <1>4
  <2>2. w.trail[n] \in Pair
    BY <2>1 DEF Partial, Known
  <2>3. From(w, n) = w.trail[n] /\ w.trail[n] # NoPair
    BY <1>4, <2>2, PairParts DEF From
  <2>4. w.trail # << >>
    <3>1. DOMAIN << >> = {}
      OBVIOUS
    <3> QED
      BY <2>1, <3>1
  <2>5. Last(w.trail) = w.trail[n]
    BY <1>1 DEF Last
  <2> QED
    BY <1>1, <1>2, <2>2, <2>3, <2>4, <2>5 DEF TodoOf
<1> QED
  BY <1>3, <1>4

LEMMA FurtherIs ==
    ASSUME NEW w, NEW x
    PROVE  x \in Further(w) <=>
              \E i \in DOMAIN TodoOf(w) :
                 Goes(TodoOf(w)[i]) /\ TodoOf(w)[i].pair \notin Elements(w.trail)
                 /\ x = Grown(w, TodoOf(w)[i])
BY DEF Further, Into, Goes, Grown

\* What a path and the same path grown by a step have in common.
OneMore(w, x, o) ==
    /\ IsPath(x) /\ Len(x.trail) = Len(w.trail) + 1
    /\ \A i \in 1..Len(w.trail) : x.trail[i] = w.trail[i] /\ x.path[i] = w.path[i]
    /\ x.trail[Len(w.trail) + 1] = o.pair /\ x.path[Len(w.trail) + 1] = o.seg

LEMMA GrownParts ==
    ASSUME NEW w, IsPath(w), NEW o
    PROVE  OneMore(w, Grown(w, o), o)
<1>1. PICK n \in Nat : n = Len(w.trail) /\ n = Len(w.path)
  BY PathParts
<1>2. PICK x : x = Grown(w, o)
  OBVIOUS
<1>3. PICK a, b, u, v : a = w.path /\ b = w.trail /\ u = o.seg /\ v = o.pair
  OBVIOUS
<1>4. PICK s, t : s = Append(a, u) /\ t = Append(b, v)
  OBVIOUS
<1>5. x = [path |-> s, trail |-> t] /\ x.path = s /\ x.trail = t
  BY <1>2, <1>3, <1>4 DEF Grown
<1>6. IsList(a) /\ IsList(b) /\ Len(a) = n /\ Len(b) = n
  BY <1>1, <1>3 DEF IsPath
<1>7. IsList(s) /\ Len(s) = n + 1 /\ (\A i \in 1..n : s[i] = a[i]) /\ s[n + 1] = u
  BY <1>4, <1>6, AppendedList
<1>8. IsList(t) /\ Len(t) = n + 1 /\ (\A i \in 1..n : t[i] = b[i]) /\ t[n + 1] = v
  BY <1>4, <1>6, AppendedList
<1>9. IsPath(x)
  BY <1>5, <1>7, <1>8 DEF IsPath
<1>10. \A i \in 1..n : x.trail[i] = w.trail[i] /\ x.path[i] = w.path[i]
  BY <1>3, <1>5, <1>7, <1>8
<1>11. Len(x.trail) = n + 1 /\ x.trail[n + 1] = o.pair /\ x.path[n + 1] = o.seg
  BY <1>3, <1>5, <1>7, <1>8
<1> QED
  BY <1>1, <1>2, <1>9, <1>10, <1>11 DEF OneMore

LEMMA GrownBack ==
    ASSUME NEW x, IsPath(x), NEW n \in Nat, Len(x.trail) = n + 1
    PROVE  \E w : IsPath(w) /\ Len(w.trail) = n
                  /\ \A o : o.seg = x.path[n + 1] /\ o.pair = x.trail[n + 1] => x = Grown(w, o)
<1>1. IsList(x.path) /\ IsList(x.trail) /\ Len(x.path) = n + 1
  BY PathParts DEF IsPath
<1>2. PICK s : IsList(s) /\ Len(s) = n /\ x.path = Append(s, x.path[n + 1])
  BY <1>1, LastOff
<1>3. PICK t : IsList(t) /\ Len(t) = n /\ x.trail = Append(t, x.trail[n + 1])
  BY <1>1, LastOff
<1>4. PICK w : w = [path |-> s, trail |-> t]
  OBVIOUS
<1>5. w.path = s /\ w.trail = t
  BY <1>4
<1>6. IsPath(w) /\ Len(w.trail) = n
  BY <1>2, <1>3, <1>4, <1>5 DEF IsPath
<1>7. ASSUME NEW o, o.seg = x.path[n + 1], o.pair = x.trail[n + 1]
      PROVE  x = Grown(w, o)
  <2>1. x = [path |-> x.path, trail |-> x.trail]
    BY DEF IsPath
  <2>2. x.path = Append(s, o.seg) /\ x.trail = Append(t, o.pair)
    BY <1>2, <1>3, <1>7
  <2> QED
    BY <1>5, <2>1, <2>2 DEF Grown
<1> QED
  BY <1>6, <1>7

\* A path and the same path grown choose the same steps, but for the last.
LEMMA ChosenSame ==
    ASSUME NEW w, NEW x, NEW o, IsPath(w), OneMore(w, x, o),
           NEW m \in Nat, m < Len(w.trail), NEW i
    PROVE  Chosen(w, m, i) <=> Chosen(x, m, i)
<1>1. PICK n \in Nat : n = Len(w.trail)
  BY PathParts
<1>2. m + 1 \in 1..n /\ m < n /\ m < n + 1 /\ Len(x.trail) = n + 1
  BY <1>1 DEF OneMore
<1>3. From(w, m) = From(x, m)
  <2>1. CASE m = 0
    BY <2>1 DEF From
  <2>2. CASE m # 0
    <3>1. m \in 1..n
      BY <1>2, <2>2
    <3>2. x.trail[m] = w.trail[m]
      BY <1>1, <3>1 DEF OneMore
    <3> QED
      BY <2>2, <3>2 DEF From
  <2> QED
    BY <2>1, <2>2
<1>4. x.trail[m + 1] = w.trail[m + 1] /\ x.path[m + 1] = w.path[m + 1]
  BY <1>1, <1>2 DEF OneMore
<1>5. \A s : Takes(w, m, s) <=> Takes(x, m, s)
  BY <1>1, <1>2, <1>4 DEF Takes
<1> QED
  BY <1>3, <1>5 DEF Chosen

LEMMA FromGrown ==
    ASSUME NEW w, NEW x, NEW o, IsPath(w), OneMore(w, x, o)
    PROVE  From(w, Len(w.trail)) = From(x, Len(w.trail))
<1>1. PICK n \in Nat : n = Len(w.trail)
  BY PathParts
<1>2. CASE n = 0
  BY <1>1, <1>2 DEF From
<1>3. CASE n # 0
  <2>1. n \in 1..n
    BY <1>3
  <2>2. x.trail[n] = w.trail[n]
    BY <1>1, <2>1 DEF OneMore
  <2> QED
    BY <1>1, <1>3, <2>2 DEF From
<1> QED
  BY <1>2, <1>3

\* What is asked for is in the relation's domain.
LEMMA GoesToPair ==
    ASSUME World, NEW pair \in Pair \cup {NoPair}, NEW i, i \in DOMAIN Asked(pair),
           Goes(Asked(pair)[i])
    PROVE  Asked(pair)[i].pair \in Pair
<1>1. IsStep(Asked(pair)[i])
  BY AskedSteps
<1>2. Asked(pair)[i].do \in {"visit", "probe"}
  BY DEF Goes
<1> QED
  BY <1>1, <1>2 DEF IsStep

LEMMA PartialOn ==
    ASSUME World, NEW w, Partial(w), NEW x, x \in Further(w)
    PROVE  Partial(x) /\ Len(x.trail) = Len(w.trail) + 1
<1>1. PICK n \in Nat : n = Len(w.trail)
  BY PathParts DEF Partial
<1>2. DOMAIN w.trail = 1..n
  BY <1>1, PathParts DEF Partial
<1>3. PICK todo : todo = TodoOf(w)
  OBVIOUS
<1>4. PICK i \in DOMAIN todo : /\ Goes(todo[i]) /\ todo[i].pair \notin Elements(w.trail)
                               /\ x = Grown(w, todo[i])
  BY <1>3, FurtherIs
<1>5. PICK o : o = todo[i]
  OBVIOUS
<1>6. /\ Goes(o) /\ o.pair \notin Elements(w.trail) /\ x = Grown(w, o)
  BY <1>4, <1>5
<1>7. IsPath(w)
  BY DEF Partial
<1>8. OneMore(w, x, o)
  BY <1>6, <1>7, GrownParts
<1>9. IsPath(x) /\ Len(x.trail) = n + 1 /\ DOMAIN x.trail = 1..(n + 1)
  BY <1>1, <1>8, PathParts DEF OneMore
<1>10. x.trail[n + 1] = o.pair /\ x.path[n + 1] = o.seg
       /\ \A j \in 1..n : x.trail[j] = w.trail[j]
  BY <1>1, <1>8 DEF OneMore
<1>11. todo = Asked(From(w, n)) /\ From(w, n) \in Pair \cup {NoPair} /\ From(x, n) = From(w, n)
  BY <1>1, <1>3, <1>7, <1>8, PartialTodo, FromGrown
<1>12. o.pair \in Pair
  BY <1>4, <1>5, <1>11, GoesToPair
<1>13. \A j \in 1..(n + 1) : j \in 1..n \/ j = n + 1
  OBVIOUS
<1>14. Known(x, 0)
  <2> SUFFICES ASSUME NEW j \in 1..(n + 1) PROVE x.trail[j] \in Pair
    BY <1>9 DEF Known
  <2>1. CASE j \in 1..n
    <3>1. 0 <= j /\ j \in DOMAIN w.trail
      BY <1>2, <2>1
    <3>2. w.trail[j] \in Pair
      BY <3>1 DEF Partial, Known
    <3> QED
      BY <1>10, <2>1, <3>2
  <2>2. CASE j = n + 1
    BY <1>10, <1>12, <2>2
  <2> QED
    BY <1>13, <2>1, <2>2
<1>15. \A j \in 1..n : w.trail[j] # o.pair
  BY <1>2, <1>6 DEF Elements
<1>16. \A j, k \in 1..n : w.trail[j] = w.trail[k] => j = k
  <2>1. \A j, k \in 1..n : 0 <= j /\ 0 <= k
    OBVIOUS
  <2> QED
    BY <1>2, <2>1 DEF Partial, Single
<1>17. Single(x, 0)
  <2> SUFFICES ASSUME NEW j \in 1..(n + 1), NEW k \in 1..(n + 1), x.trail[j] = x.trail[k]
               PROVE  j = k
    BY <1>9 DEF Single
  <2>1. CASE j \in 1..n /\ k \in 1..n
    BY <1>10, <1>16, <2>1
  <2>2. CASE j \in 1..n /\ k = n + 1
    BY <1>10, <1>15, <2>2
  <2>3. CASE j = n + 1 /\ k \in 1..n
    BY <1>10, <1>15, <2>3
  <2> QED
    BY <1>13, <2>1, <2>2, <2>3
<1>18. ASSUME NEW m \in 0..n PROVE \E j : Chosen(x, m, j)
  <2>1. CASE m = n
    <3>1. n < Len(x.trail)
      BY <1>9
    <3>2. Takes(x, n, o)
      BY <1>6, <1>10, <3>1 DEF Takes
    <3>3. Chosen(x, n, i)
      BY <1>4, <1>5, <1>11, <3>2 DEF Chosen
    <3> QED
      BY <2>1, <3>3
  <2>2. CASE m # n
    <3>1. m \in 0..(n - 1) /\ m \in Nat /\ m < n
      BY <2>2
    <3>2. PICK j : Chosen(w, m, j)
      BY <1>1, <3>1 DEF Partial
    <3>3. Chosen(x, m, j)
      BY <1>1, <1>7, <1>8, <3>1, <3>2, ChosenSame
    <3> QED
      BY <3>3
  <2> QED
    BY <2>1, <2>2
<1>19. Len(x.trail) - 1 = n
  BY <1>9
<1> QED
  BY <1>1, <1>9, <1>14, <1>17, <1>18, <1>19 DEF Partial

LEMMA PartialBack ==
    ASSUME World, NEW x, Partial(x), NEW n \in Nat, Len(x.trail) = n + 1
    PROVE  \E w : Partial(w) /\ Len(w.trail) = n /\ x \in Further(w)
<1>1. IsPath(x) /\ DOMAIN x.trail = 1..(n + 1)
  BY PathParts DEF Partial
<1>2. PICK w : IsPath(w) /\ Len(w.trail) = n
               /\ \A o : o.seg = x.path[n + 1] /\ o.pair = x.trail[n + 1] => x = Grown(w, o)
  BY <1>1, GrownBack
<1>3. n \in 0..(Len(x.trail) - 1) /\ n < Len(x.trail)
  OBVIOUS
<1>4. PICK i : Chosen(x, n, i)
  BY <1>3 DEF Partial
<1>5. PICK o : o = Asked(From(x, n))[i]
  OBVIOUS
<1>6. i \in DOMAIN Asked(From(x, n)) /\ Takes(x, n, o)
  BY <1>4, <1>5 DEF Chosen
<1>7. Goes(o) /\ x.path[n + 1] = o.seg /\ x.trail[n + 1] = o.pair
  BY <1>3, <1>6 DEF Takes
<1>8. x = Grown(w, o)
  BY <1>2, <1>7
<1>9. OneMore(w, x, o)
  BY <1>2, <1>8, GrownParts
<1>10. \A j \in 1..n : x.trail[j] = w.trail[j]
  BY <1>2, <1>9 DEF OneMore
<1>11. DOMAIN w.trail = 1..n /\ \A j \in 1..n : j \in 1..(n + 1) /\ 0 <= j
  BY <1>2, PathParts
<1>12. Known(w, 0)
  BY <1>1, <1>10, <1>11 DEF Partial, Known
<1>13. Single(w, 0)
  BY <1>1, <1>10, <1>11 DEF Partial, Single
<1>14. ASSUME NEW m \in 0..(n - 1) PROVE \E j : Chosen(w, m, j)
  <2>1. m \in 0..(Len(x.trail) - 1) /\ m \in Nat /\ m < n
    OBVIOUS
  <2>2. PICK j : Chosen(x, m, j)
    BY <2>1 DEF Partial
  <2> QED
    BY <1>2, <1>9, <2>1, <2>2, ChosenSame
<1>15. Partial(w)
  BY <1>2, <1>12, <1>13, <1>14 DEF Partial
<1>16. TodoOf(w) = Asked(From(x, n))
  BY <1>2, <1>9, <1>15, PartialTodo, FromGrown
<1>17. o.pair \notin Elements(w.trail)
  <2> SUFFICES ASSUME NEW j \in 1..n, w.trail[j] = o.pair PROVE FALSE
    BY <1>11 DEF Elements
  <2>1. x.trail[j] = x.trail[n + 1] /\ j \in 1..(n + 1) /\ n + 1 \in 1..(n + 1)
    BY <1>7, <1>10
  <2>2. 0 <= j /\ 0 <= n + 1
    OBVIOUS
  <2>3. j = n + 1
    BY <1>1, <2>1, <2>2 DEF Partial, Single
  <2> QED
    BY <2>3
<1>18. x \in Further(w)
  BY <1>5, <1>6, <1>7, <1>8, <1>16, <1>17, FurtherIs
<1> QED
  BY <1>2, <1>15, <1>18

LEMMA FurtherFinite ==
    ASSUME World, NEW w, Partial(w)
    PROVE  IsFiniteSet(Further(w))
<1>1. PICK todo : todo = TodoOf(w)
  OBVIOUS
<1>2. PICK n \in Nat : DOMAIN todo = 1..n
  BY <1>1, PartialTodo, AskedSteps
<1> DEFINE I == {i \in 1..n : Goes(todo[i]) /\ todo[i].pair \notin Elements(w.trail)}
           f == [i \in I |-> Grown(w, todo[i])]
<1>3. IsFiniteSet(I)
  <2>1. 1 \in Int /\ n \in Int
    OBVIOUS
  <2>2. IsFiniteSet(1..n)
    BY <2>1, FS_Interval
  <2>3. I \in SUBSET (1..n)
    OBVIOUS
  <2> HIDE DEF I
  <2> QED
    BY <2>2, <2>3, FS_Subset
<1>4. \A x : x \in Further(w) <=> \E i \in I : x = f[i]
  BY <1>1, <1>2, FurtherIs
<1>5. f = [i \in I |-> f[i]]
  OBVIOUS
<1>6. f \in Surjection(I, Further(w))
  <2> HIDE DEF f, I
  <2>1. \A i \in I : f[i] \in Further(w)
    BY <1>4
  <2>2. f \in [I -> Further(w)]
    BY <1>5, <2>1
  <2> QED
    BY <1>4, <2>2 DEF Surjection
<1> HIDE DEF f, I
<1> QED
  BY <1>3, <1>6, FS_Surjection

\* No pair is repeated, so there are no more steps than pairs.
LEMMA PartialShort ==
    ASSUME World, NEW w, Partial(w)
    PROVE  Len(w.trail) <= Cardinality(Pair)
<1>1. PICK n, t : n \in Nat /\ n = Len(w.trail) /\ t = w.trail
  BY PathParts DEF Partial
<1>2. DOMAIN t = 1..n /\ t = [i \in 1..n |-> t[i]]
  BY <1>1, ListParts DEF Partial, IsPath
<1>3. \A i \in 1..n : 0 <= i
  BY <1>1
<1>4. (\A i \in 1..n : t[i] \in Pair) /\ \A i, j \in 1..n : t[i] = t[j] => i = j
  BY <1>1, <1>2, <1>3 DEF Partial, Known, Single
<1>5. t \in [1..n -> Pair]
  BY <1>2, <1>4
<1>6. t \in Injection(1..n, Pair)
  BY <1>2, <1>4, <1>5 DEF Injection, IsInjective
<1>7. Cardinality(1..n) <= Cardinality(Pair)
  BY <1>6, PairsFinite, FS_Injection
<1>8. Cardinality(1..n) = n
  <2>1. 1 \in Int /\ n \in Int
    BY <1>1
  <2>2. Cardinality(1..n) = IF 1 > n THEN 0 ELSE n - 1 + 1
    BY <2>1, FS_Interval
  <2> QED
    BY <1>1, <2>2
<1> QED
  BY <1>1, <1>7, <1>8

LEMMA RootPartial ==
    /\ Partial(Root) /\ Len(Root.trail) = 0
    /\ \A w : IsPath(w) /\ Len(w.trail) = 0 => w = Root
<1>1. IsList(<< >>) /\ Len(<< >>) = 0 /\ DOMAIN << >> = {}
  BY EmptyList
<1>2. Root.path = << >> /\ Root.trail = << >> /\ Root = [path |-> << >>, trail |-> << >>]
  BY DEF Root
<1>3. IsPath(Root) /\ Single(Root, 0) /\ Known(Root, 0) /\ Len(Root.trail) = 0
  BY <1>1, <1>2 DEF IsPath, Single, Known
<1>4. 0..(Len(Root.trail) - 1) = {}
  BY <1>3
<1>5. ASSUME NEW w, IsPath(w), Len(w.trail) = 0 PROVE w = Root
  <2>1. PICK s, t : s = w.path /\ t = w.trail
    OBVIOUS
  <2>2. IsList(s) /\ IsList(t) /\ Len(s) = 0 /\ Len(t) = 0
    BY <1>5, <2>1 DEF IsPath
  <2>3. \A i \in 1..0 : FALSE
    OBVIOUS
  <2>4. s = << >> /\ t = << >>
    BY <1>1, <2>2, <2>3, Same
  <2>5. w = [path |-> s, trail |-> t]
    BY <1>5, <2>1 DEF IsPath
  <2> QED
    BY <1>2, <2>4, <2>5
<1> QED
  BY <1>3, <1>4, <1>5 DEF Partial

\* After k rounds all the routes, but for their last steps, of at most k
\* segments are there.
Walked(acc, k) ==
    /\ IsFiniteSet(acc.all) /\ IsFiniteSet(acc.last)
    /\ \A w : w \in acc.last <=> Partial(w) /\ Len(w.trail) = k
    /\ \A w : w \in acc.all <=> Partial(w) /\ Len(w.trail) <= k

LEMMA StartWalked == Walked(Start, 0)
<1>1. Start.all = {Root} /\ Start.last = {Root}
  BY DEF Start
<1>2. IsFiniteSet({Root})
  BY FS_Singleton
<1>3. ASSUME NEW w, Partial(w) PROVE Len(w.trail) \in Nat /\ IsPath(w)
  BY <1>3, PathParts DEF Partial
<1>4. \A w : Partial(w) /\ Len(w.trail) = 0 <=> w = Root
  BY <1>3, RootPartial
<1>5. \A w : Partial(w) /\ Len(w.trail) <= 0 <=> w = Root
  BY <1>3, <1>4
<1> QED
  BY <1>1, <1>2, <1>4, <1>5 DEF Walked

LEMMA LongerWalked ==
    ASSUME World, NEW k \in Nat, NEW acc, Walked(acc, k)
    PROVE  Walked(Longer(acc), k + 1)
<1> DEFINE next == UNION {Further(w) : w \in acc.last}
<1>1. Longer(acc).all = acc.all \cup next /\ Longer(acc).last = next
  BY DEF Longer
<1>2. \A w \in acc.last : Partial(w) /\ Len(w.trail) = k
  BY DEF Walked
<1>3. \A x : x \in next <=> \E w \in acc.last : x \in Further(w)
  OBVIOUS
<1>4. IsFiniteSet(next)
  <2> DEFINE F == {Further(w) : w \in acc.last}
             f == [w \in acc.last |-> Further(w)]
  <2>1. \A T \in F : IsFiniteSet(T)
    BY <1>2, FurtherFinite
  <2>2. f \in Surjection(acc.last, F)
    BY DEF Surjection
  <2>3. IsFiniteSet(acc.last)
    BY DEF Walked
  <2> HIDE DEF f, F
  <2>4. IsFiniteSet(F)
    BY <2>2, <2>3, FS_Surjection
  <2>5. IsFiniteSet(UNION F)
    BY <2>1, <2>4, FS_UNION
  <2> QED
    BY <2>5 DEF F
<1> HIDE DEF next
<1>5. ASSUME NEW x PROVE x \in next <=> Partial(x) /\ Len(x.trail) = k + 1
  <2>1. ASSUME x \in next PROVE Partial(x) /\ Len(x.trail) = k + 1
    <3>1. PICK w \in acc.last : x \in Further(w)
      BY <1>3, <2>1
    <3> QED
      BY <1>2, <3>1, PartialOn
  <2>2. ASSUME Partial(x), Len(x.trail) = k + 1 PROVE x \in next
    <3>1. PICK w : Partial(w) /\ Len(w.trail) = k /\ x \in Further(w)
      BY <2>2, PartialBack
    <3>2. w \in acc.last
      BY <3>1 DEF Walked
    <3> QED
      BY <1>3, <3>1, <3>2
  <2> QED
    BY <2>1, <2>2
<1>6. ASSUME NEW x PROVE x \in acc.all \cup next <=> Partial(x) /\ Len(x.trail) <= k + 1
  <2>1. x \in acc.all <=> Partial(x) /\ Len(x.trail) <= k
    BY DEF Walked
  <2>2. CASE Partial(x)
    <3>1. PICK n \in Nat : n = Len(x.trail)
      BY <2>2, PathParts DEF Partial
    <3>2. n <= k + 1 <=> n <= k \/ n = k + 1
      OBVIOUS
    <3> QED
      BY <1>5, <2>1, <2>2, <3>1, <3>2
  <2>3. CASE ~Partial(x)
    BY <1>5, <2>1, <2>3
  <2> QED
    BY <2>2, <2>3
<1>7. IsFiniteSet(acc.all \cup next)
  <2>1. IsFiniteSet(acc.all)
    BY DEF Walked
  <2> QED
    BY <1>4, <2>1, FS_Union
<1> QED
  BY <1>1, <1>4, <1>5, <1>6, <1>7 DEF Walked

LEMMA ChainWalked ==
    ASSUME World, NEW h, NEW env, Chain(h, "longer", env, Start, Rounds)
    PROVE  Walked(h[Len(Rounds)], Len(Rounds))
<1>1. PICK n \in Nat : n = Len(Rounds)
  BY RoundsList
<1>2. h[0] = Start /\ \A k \in 1..n : h[k] = Longer(h[k - 1])
  BY <1>1 DEF Chain, StepOf
<1> DEFINE P == {k \in Nat : k <= n => Walked(h[k], k)}
<1>3. 0 \in P
  BY <1>2, StartWalked
<1>4. ASSUME NEW k \in Nat, k \in P PROVE k + 1 \in P
  <2> SUFFICES ASSUME k + 1 <= n PROVE Walked(h[k + 1], k + 1)
    OBVIOUS
  <2>1. k <= n /\ k + 1 \in 1..n /\ (k + 1) - 1 = k
    OBVIOUS
  <2>2. Walked(h[k], k) /\ h[k + 1] = Longer(h[k])
    BY <1>2, <1>4, <2>1
  <2> QED
    BY <2>2, LongerWalked
<1>5. Nat \subseteq P
  <2> HIDE DEF P
  <2> QED
    BY <1>3, <1>4, AllNumbers
<1>6. n \in P /\ n <= n
  BY <1>5
<1>7. Walked(h[n], n)
  BY <1>6
<1> QED
  BY <1>1, <1>7

\* A route is what ends after steps that go on.
LEMMA RouteIsPartial ==
    ASSUME World, NEW w
    PROVE  Route(w, 0) <=> Partial(w) /\ Ends(w)
<1> SUFFICES ASSUME IsPath(w), Single(w, 0), Known(w, 0)
             PROVE  Route(w, 0) <=> Partial(w) /\ Ends(w)
  BY DEF Route, Partial
<1>1. PICK n \in Nat : n = Len(w.trail)
  BY PathParts
<1>2. 0 \in 0..n /\ n \in 0..n /\ ~(n < n)
      /\ \A m : m \in 0..n <=> m \in 0..(n - 1) \/ m = n
  OBVIOUS
<1>3. Route(w, 0) <=> \A m \in 0..n : \E i : Chosen(w, m, i)
  BY <1>1, <1>2 DEF Route
<1>4. Partial(w) <=> \A m \in 0..(n - 1) : \E i : Chosen(w, m, i)
  BY <1>1 DEF Partial
<1>5. Route(w, 0) <=> Partial(w) /\ \E i : Chosen(w, n, i)
  BY <1>2, <1>3, <1>4
<1>6. \A o : Takes(w, n, o) <=> Nulls(o)
  BY <1>1, <1>2 DEF Takes
<1>7. Partial(w) => TodoOf(w) = Asked(From(w, n))
  BY <1>1, PartialTodo
<1>8. Partial(w) => ((\E i : Chosen(w, n, i)) <=> Ends(w))
  BY <1>6, <1>7 DEF Ends, Chosen
<1> QED
  BY <1>5, <1>8

LEMMA WalksAreRoutes ==
    ASSUME World
    PROVE  IsFiniteSet(Walks) /\ \A w : w \in Walks <=> Route(w, 0)
<1>1. PICK env : env = Root
  OBVIOUS
<1>2. PICK h : /\ Chain(h, "longer", env, Start, Rounds)
               /\ Walks = {w \in h[Len(Rounds)].all : Ends(w)}
  BY WalksChain
<1>3. PICK n \in Nat : n = Len(Rounds) /\ n = Cardinality(Pair)
  BY RoundsList
<1>4. Walked(h[n], n)
  BY <1>2, <1>3, ChainWalked
<1>5. PICK A : A = h[n].all
  OBVIOUS
<1>6. IsFiniteSet(A) /\ \A w : w \in A <=> Partial(w)
  <2>1. \A w : Partial(w) => Len(w.trail) <= n
    BY <1>3, PartialShort
  <2> QED
    BY <1>4, <1>5, <2>1 DEF Walked
<1>7. Walks = {w \in A : Ends(w)}
  BY <1>2, <1>3, <1>5
<1>8. Walks \in SUBSET A
  BY <1>7
<1>9. IsFiniteSet(Walks)
  BY <1>6, <1>8, FS_Subset
<1> QED
  BY <1>6, <1>7, <1>9, RouteIsPartial

\* At the end of a compatible method nothing is assumed and nothing was cut, so
\* what the walk claims of the warnings is what is to be shown.
AtTheEnd(wrn, N, trunc) ==
    /\ N \in Nat /\ \A j \in 1..N : Route(wrn[j], 0)
    /\ \A i, j \in 1..N : wrn[i] = wrn[j] => i = j
    /\ Bounded(wrn, N, trunc)
    /\ ~trunc => \A x : Route(x, 0) => \E j \in 1..N : wrn[j] = x

\* A whole path with the same steps is the same path.
LEMMA WholeTail ==
    ASSUME NEW w, NEW x, IsPath(w), IsPath(x), SameTail(w, 0, x, 0)
    PROVE  w = x
<1>1. PICK n, m : n = Len(x.trail) /\ m = Len(w.trail)
  OBVIOUS
<1>2. n \in Nat /\ m \in Nat
  BY <1>1, PathParts
<1>3. m - 0 = n - 0
  BY <1>1 DEF SameTail
<1>4. n = m /\ n - 0 = n
  BY <1>2, <1>3
<1>5. \A i \in 1..n : w.trail[0 + i] = x.trail[0 + i] /\ w.path[0 + i] = x.path[0 + i]
  BY <1>1, <1>4 DEF SameTail
<1>6. \A i \in 1..n : 0 + i = i
  OBVIOUS
<1>7. \A i \in 1..n : w.trail[i] = x.trail[i] /\ w.path[i] = x.path[i]
  BY <1>5, <1>6
<1>8. Len(w.trail) = n /\ Len(w.path) = n /\ Len(x.trail) = n /\ Len(x.path) = n
  BY <1>1, <1>4, PathParts
<1>9. w.trail = x.trail /\ w.path = x.path
  BY <1>7, <1>8, Same DEF IsPath
<1>10. /\ w = [path |-> w.path, trail |-> w.trail]
       /\ x = [path |-> x.path, trail |-> x.trail]
  BY DEF IsPath
<1> QED
  BY <1>9, <1>10

LEMMA EndReached ==
    ASSUME WarningInv, outcome = "compatible"
    PROVE  AtTheEnd(warnings, Len(warnings), truncated)
<1>1. Len(stack) = 1 /\ stack[1].at > Len(Todo(stack[1])) /\ failing = FALSE
  <2>1. failing \in BOOLEAN
    BY DEF WarningInv, FailureInv, IInv, Walking, Failing
  <2> QED
    BY <2>1 DEF WarningInv, Ended
<1>2. Warning(stack, warnings, proven, log, truncated, FALSE)
  BY <1>1 DEF WarningInv
<1>3. PICK N \in Nat : N = Len(warnings)
  BY <1>2, ListParts DEF Warning
<1>4. PICK stk, f : stk = stack /\ f = stack[1]
  OBVIOUS
<1>5. Claims(stk, 1, warnings, N, proven, DOMAIN proven, truncated)
  BY <1>1, <1>2, <1>3, <1>4 DEF Warning
<1>6. 2..1 = {} /\ 1 - 1 = 0 /\ 2..0 = {} /\ 1 \in 1..1 /\ \A k \in 1..1 : k = 1
  OBVIOUS
<1>7. Sure(stk, 1)
  BY <1>6 DEF Sure
<1>8. /\ Sound(stk, 1, warnings, N) /\ Distinct(warnings, N) /\ Bounded(warnings, N, truncated)
      /\ ~truncated => Complete(stk, 1, warnings, N)
  BY <1>5, <1>7 DEF Claims
<1>9. f.pair = NoPair /\ f.cuts = {} /\ f.at > Len(Todo(f)) /\ World
  <2>1. Framed(stack) /\ World
    BY DEF WarningInv, FailureInv, IInv, Walking
  <2>2. DOMAIN stack = 1..1
    BY <1>1, <2>1, ListParts DEF Framed
  <2>3. 1 \in DOMAIN stack
    BY <2>2
  <2>4. stack[1].cuts \subseteq 2..(1 - 1) /\ stack[1].pair = NoPair
    BY <2>1, <2>3 DEF Framed
  <2> QED
    BY <1>1, <1>4, <1>6, <2>1, <2>4
<1>10. ASSUME NEW x, Route(x, 0), ~truncated
       PROVE  \E j \in 1..N : warnings[j] = x
  <2>1. PICK A : A = PairsAt(stk, f.cuts)
    OBVIOUS
  <2>2. A = {}
    BY <1>9, <2>1 DEF PairsAt
  <2>3. From(x, 0) = f.pair
    BY <1>9 DEF From
  <2>4. Covered(f.pair, A, x, 0)
    BY <1>10, <2>2, <2>3 DEF Covered, Avoids
  <2>5. Via(x, 0, f.at)
    <3>1. IsPath(x) /\ \A m \in 0..Len(x.trail) : \E i : Chosen(x, m, i)
      BY <1>10 DEF Route
    <3>2. Len(x.trail) \in Nat
      BY <3>1, PathParts
    <3>3. 0 \in 0..Len(x.trail)
      BY <3>2
    <3>4. PICK i : Chosen(x, 0, i)
      BY <3>1, <3>3
    <3>5. PICK todo : todo = Todo(f)
      OBVIOUS
    <3>6. todo = Asked(From(x, 0))
      BY <2>3, <3>5, TodoAsked
    <3>7. i \in DOMAIN todo
      BY <3>4, <3>6 DEF Chosen
    <3>8. From(x, 0) \in Pair \cup {NoPair}
      BY <1>9, <2>3
    <3>9. Len(todo) \in Nat /\ DOMAIN todo = 1..Len(todo)
      BY <1>9, <3>6, <3>8, AskedSteps
    <3>10. f.at \in Nat
      <4>1. Framed(stack)
        BY DEF WarningInv, FailureInv, IInv, Walking
      <4>2. 1 \in DOMAIN stack
        BY <1>1, <4>1, ListParts DEF Framed
      <4>3. stack[1].at \in 1..(Len(Todo(stack[1])) + 1)
        BY <4>1, <4>2 DEF Framed
      <4>4. f.at \in 1..(Len(todo) + 1)
        BY <1>4, <3>5, <4>3
      <4> QED
        BY <3>9, <4>4
    <3>11. f.at > Len(todo)
      BY <1>9, <3>5
    <3>12. i < f.at
      BY <3>7, <3>9, <3>10, <3>11
    <3> QED
      BY <3>4, <3>12 DEF Via
  <2>6. Complete(stk, 1, warnings, N)
    BY <1>8, <1>10
  <2>7. \A y, l : Covered(stk[1].pair, PairsAt(stk, stk[1].cuts), y, l) /\ Via(y, l, stk[1].at)
            => \E j \in 1..N : stk[1].start < j /\ SameTail(warnings[j], 1 - 1, y, l)
    BY <1>6, <2>6 DEF Complete
  <2>8. stk[1] = f
    BY <1>4
  <2>9. PICK j \in 1..N : SameTail(warnings[j], 0, x, 0)
    BY <1>6, <2>1, <2>4, <2>5, <2>7, <2>8
  <2>10. Route(warnings[j], 0)
    BY <1>8 DEF Sound
  <2>11. warnings[j] = x
    BY <1>10, <2>9, <2>10, WholeTail DEF Route
  <2> QED
    BY <2>11
<1>11. \A j \in 1..N : Route(warnings[j], 0)
  BY <1>8 DEF Sound
<1>12. \A i, j \in 1..N : warnings[i] = warnings[j] => i = j
  BY <1>8 DEF Distinct
<1> QED
  BY <1>3, <1>8, <1>10, <1>11, <1>12 DEF AtTheEnd

\* A list that repeats nothing has as many elements as it is long.
LEMMA DistinctCount ==
    ASSUME NEW s, NEW n \in Nat, IsList(s), Len(s) = n,
           \A i, j \in 1..n : s[i] = s[j] => i = j
    PROVE  IsFiniteSet(Elements(s)) /\ Cardinality(Elements(s)) = n
<1>1. DOMAIN s = 1..n /\ s = [i \in 1..n |-> s[i]]
  BY ListParts
<1>2. PICK E : E = Elements(s)
  OBVIOUS
<1>3. (\A i \in 1..n : s[i] \in E) /\ \A e \in E : \E i \in 1..n : s[i] = e
  BY <1>1, <1>2 DEF Elements
<1>4. s \in [1..n -> E]
  BY <1>1, <1>3
<1>5. s \in Injection(1..n, E) /\ s \in Surjection(1..n, E)
  BY <1>1, <1>3, <1>4 DEF Injection, IsInjective, Surjection
<1>6. ExistsBijection(1..n, E)
  BY <1>5 DEF ExistsBijection, Bijection
<1>7. IsFiniteSet(1..n) /\ Cardinality(1..n) = n
  <2>1. 1 \in Int /\ n \in Int
    OBVIOUS
  <2>2. IsFiniteSet(1..n) /\ Cardinality(1..n) = IF 1 > n THEN 0 ELSE n - 1 + 1
    BY <2>1, FS_Interval
  <2> QED
    BY <2>2
<1>8. IsFiniteSet(E) /\ Cardinality(E) = n
  BY <1>6, <1>7, FS_Bijection
<1> QED
  BY <1>2, <1>8

LEMMA WarningsExact == WarningInv => WarningsAreExact
<1> SUFFICES ASSUME WarningInv, outcome = "compatible" PROVE WarningsAreExact
  BY DEF WarningsAreExact
<1>1. AtTheEnd(warnings, Len(warnings), truncated)
  BY EndReached
<1>2. PICK N, W : N = Len(warnings) /\ W = Walks
  OBVIOUS
<1>3. /\ N \in Nat /\ \A j \in 1..N : Route(warnings[j], 0)
      /\ \A i, j \in 1..N : warnings[i] = warnings[j] => i = j
      /\ Bounded(warnings, N, truncated)
      /\ ~truncated => \A x : Route(x, 0) => \E j \in 1..N : warnings[j] = x
  BY <1>1, <1>2 DEF AtTheEnd
<1>4. World /\ MaxWarnings \in Nat
  BY DEF WarningInv, FailureInv, IInv
<1>5. IsFiniteSet(W) /\ \A w : w \in W <=> Route(w, 0)
  BY <1>2, <1>4, WalksAreRoutes
<1>6. IsList(warnings) /\ DOMAIN warnings = 1..N
  <2>1. IsList(warnings)
    BY DEF WarningInv, Warning
  <2> QED
    BY <1>2, <2>1, ListParts
<1>7. PICK E : E = Elements(warnings)
  OBVIOUS
<1>8. \A w : w \in E <=> \E j \in 1..N : warnings[j] = w
  BY <1>6, <1>7 DEF Elements
<1>9. E \subseteq W
  BY <1>3, <1>5, <1>8
<1>10. IsFiniteSet(E) /\ Cardinality(E) = N
  BY <1>2, <1>3, <1>6, <1>7, DistinctCount
<1>11. ASSUME ~truncated PROVE E = W
  <2>1. \A w \in W : w \in E
    BY <1>3, <1>5, <1>8, <1>11
  <2> QED
    BY <1>9, <2>1
<1>12. ASSUME truncated PROVE N = MaxWarnings /\ Cardinality(W) > MaxWarnings
  <2>1. N <= MaxWarnings /\ N >= MaxWarnings /\ Missing(warnings, N)
    BY <1>3, <1>12 DEF Bounded
  <2>2. N = MaxWarnings
    BY <1>3, <1>4, <2>1
  <2>3. PICK w : Route(w, 0) /\ \A j \in 1..N : warnings[j] # w
    BY <2>1 DEF Missing
  <2>4. w \in W /\ w \notin E
    BY <1>5, <1>8, <2>3
  <2>5. E \cup {w} \in SUBSET W
    BY <1>9, <2>4
  <2>6. Cardinality(E \cup {w}) = N + 1
    BY <1>10, <2>4, FS_AddElement
  <2>7. Cardinality(E \cup {w}) <= Cardinality(W)
    BY <1>5, <2>5, FS_Subset
  <2>8. Cardinality(W) \in Nat
    BY <1>5, FS_CardinalityType
  <2> QED
    BY <1>3, <2>2, <2>6, <2>7, <2>8
<1>13. /\ E \subseteq W /\ N = Cardinality(E)
       /\ IF truncated THEN N = MaxWarnings /\ Cardinality(W) > MaxWarnings ELSE E = W
  BY <1>9, <1>10, <1>11, <1>12
<1> QED
  BY <1>2, <1>7, <1>13 DEF WarningsAreExact

\* For all arenas, functions and bounds: a compatible method reports exactly the
\* paths at which an optional type stops fitting and a value decodes as null,
\* each once, or as many as the bound allows if there are more, however the walk
\* repeated the warnings of a proven pair, was cut at an active one or took back
\* what a failed probe had added (compat.rs: warn, repeat, finish, probe); and an
\* incompatible one reports a path to a real reason (within, fails).
THEOREM ReportsAreReal == Spec => []ReportedPathsAreReal
<1>1. WarningInv => ReportedPathsAreReal
  BY WarningsExact, ReachedIsReached DEF WarningInv, ReportedPathsAreReal
<1> QED
  BY <1>1, WarningInit, WarningStep, PTL DEF Spec
=============================================================================
