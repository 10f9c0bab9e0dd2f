-------------------------- MODULE CompatWalk_proofs --------------------------
(***************************************************************************)
(* For all arenas, functions and bounds: a method that is not refused for  *)
(* work or depth is compatible exactly if the largest relation that obeys  *)
(* the rules says so.                                                      *)
(*                                                                         *)
(* A finished walk may have been cut at pairs that are still in progress.  *)
(* Relies(A) is what holds once the pairs of A do; it is the invariant's   *)
(* word for "proven so far".  What a walk got past is in Relies of the     *)
(* pairs it was cut at and its own (Passed); when it finishes it drops its *)
(* own pair (ReliesOnLess, the step that makes the argument coinductive);  *)
(* what is kept as proven relies on pairs of the stack, and the deepest of *)
(* them knows to forget it (Justified).  Failures are of pairs outside the *)
(* largest relation (Refuted, Failing), as every walk waits for a pair its *)
(* caller cannot do without, probes apart (Linked, Stuck).                 *)
(***************************************************************************)
EXTENDS CompatWalk, FiniteSetTheorems, WellFoundedInduction, TLAPS

-----------------------------------------------------------------------------
\* What is compared.

World ==
    \A side \in Side :
        /\ IsFiniteSet(DOMAIN input[side])
        /\ \A n \in DOMAIN input[side] : IsNode(input[side][n], DOMAIN input[side])
        /\ input.fn[side].args \in Seq(DOMAIN input[side])
        /\ input.fn[side].results \in Seq(DOMAIN input[side])

LEMMA WorldHolds == Init => World
<1> SUFFICES ASSUME Init PROVE World
  OBVIOUS
<1>1. PICK family \in Families : \E live \in family.live, written \in family.written :
          input = [live |-> live, written |-> written, fn |-> family.fn, bounds |-> family.bounds]
  BY DEF Init
<1>2. \A side \in Side : \A arena \in family[side] :
          /\ IsFiniteSet(DOMAIN arena)
          /\ \A n \in DOMAIN arena : IsNode(arena[n], DOMAIN arena)
          /\ family.fn[side].args \in Seq(DOMAIN arena)
          /\ family.fn[side].results \in Seq(DOMAIN arena)
  BY FamiliesAssumption
<1>3. \A side \in Side : input[side] \in family[side]
  <2>1. PICK live \in family.live, written \in family.written :
          input = [live |-> live, written |-> written, fn |-> family.fn, bounds |-> family.bounds]
    BY <1>1
  <2> QED
    BY <2>1 DEF Side
<1>4. input.fn = family.fn
  BY <1>1
<1> QED
  BY <1>2, <1>3, <1>4 DEF World

LEMMA PairParts ==
    ASSUME NEW pair \in Pair
    PROVE  /\ pair = <<pair[1], pair[2], pair[3]>> /\ pair[1] \in Side
           /\ pair[2] \in DOMAIN input[pair[1]] /\ pair[3] \in DOMAIN input[Other(pair[1])]
           /\ Other(pair[1]) \in Side /\ pair # NoPair
<1>1. PICK side \in Side : \E sub \in DOMAIN input[side], sup \in DOMAIN input[Other(side)] :
          pair = <<side, sub, sup>>
  BY DEF Pair
<1> QED
  BY <1>1 DEF Other, Side, NoPair

LEMMA PairMade ==
    ASSUME NEW side \in Side, NEW sub \in DOMAIN input[side],
           NEW sup \in DOMAIN input[Other(side)]
    PROVE  <<side, sub, sup>> \in Pair
BY DEF Pair

LEMMA Opposite ==
    ASSUME NEW side \in Side
    PROVE  Other(side) \in Side /\ Other(Other(side)) = side
BY DEF Other, Side

-----------------------------------------------------------------------------
\* The obligations of a pair are what the rule of its types asks.

\* A step is met by the pairs that hold, and a list of steps if all of them are.
Met(o, S) == o.do # "lack" /\ (o.do = "visit" => o.pair \in S)
AllMet(todo, S) == \A i \in DOMAIN todo : Met(todo[i], S)

IsStep(o) == /\ o.do \in {"visit", "probe", "skip", "lack", "warn"}
             /\ o.do \in {"visit", "probe"} => o.pair \in Pair
IsList(s) == s \in Seq({s[i] : i \in DOMAIN s})
Listed(todo) == IsList(todo) /\ \A i \in DOMAIN todo : IsStep(todo[i])

LEMMA ListMade ==
    ASSUME NEW n \in Nat, NEW s, DOMAIN s = 1..n, s = [i \in 1..n |-> s[i]]
    PROVE  IsList(s) /\ Len(s) = n
<1> DEFINE T == {s[i] : i \in 1..n}
<1>1. s \in [1..n -> T]
  <2>1. \A i \in 1..n : s[i] \in T
    OBVIOUS
  <2> HIDE DEF T
  <2> QED
    BY <2>1
<1>2. T = {s[i] : i \in DOMAIN s}
  OBVIOUS
<1> HIDE DEF T
<1>3. s \in Seq(T)
  BY <1>1
<1> QED
  BY <1>1, <1>2, <1>3 DEF IsList

LEMMA ListParts ==
    ASSUME NEW s, IsList(s)
    PROVE  Len(s) \in Nat /\ DOMAIN s = 1..Len(s) /\ s = [i \in 1..Len(s) |-> s[i]]
<1> DEFINE T == {s[i] : i \in DOMAIN s}
<1>1. s \in Seq(T)
  BY DEF IsList
<1> HIDE DEF T
<1> QED
  BY <1>1

LEMMA StepFields ==
    ASSUME NEW seg, NEW pair, NEW cost
    PROVE  /\ Visit(seg, pair, cost).do = "visit" /\ Visit(seg, pair, cost).pair = pair
           /\ Probe(pair).do = "probe" /\ Probe(pair).pair = pair
           /\ Skip(cost).do = "skip" /\ Lack(seg, cost).do = "lack" /\ Warn.do = "warn"
BY DEF Visit, Probe, Skip, Lack, Warn

LEMMA MembersParts ==
    ASSUME NEW refs, NEW members, IsMembers(members, refs)
    PROVE  /\ DOMAIN members = 1..Len(members) /\ Len(members) \in Nat
           /\ \A i \in DOMAIN members : members[i].ty \in refs
<1> DEFINE Member == [key : Nat, ty : refs]
<1>1. members \in Seq(Member)
  BY DEF IsMembers
<1>2. \A i \in DOMAIN members : members[i] \in Member
  <2> HIDE DEF Member
  <2> QED
    BY <1>1
<1>3. Len(members) \in Nat /\ DOMAIN members = 1..Len(members)
  BY <1>1
<1> QED
  BY <1>2, <1>3

LEMMA NamedAt ==
    ASSUME NEW refs, NEW members, IsMembers(members, refs), NEW i \in DOMAIN members
    PROVE  With(members, members[i].key) = {i} /\ Named(members, members[i].key) = members[i].ty
<1>1. With(members, members[i].key) = {i}
  BY DEF IsMembers, With
<1> QED
  BY <1>1 DEF Named

LEMMA RecordSteps ==
    ASSUME NEW side \in Side, NEW have, NEW want,
           IsMembers(have, DOMAIN input[side]), IsMembers(want, DOMAIN input[Other(side)])
    PROVE  /\ Listed(RecordRule(side, have, want))
           /\ \A S : FieldsFit(S, side, have, want)
                        <=> AllMet(RecordRule(side, have, want), S)
<1> DEFINE todo == RecordRule(side, have, want)
           fits(S, i) == \/ \E j \in DOMAIN have : /\ have[j].key = want[i].key
                                                   /\ <<side, have[j].ty, want[i].ty>> \in S
                         \/ /\ \A j \in DOMAIN have : have[j].key # want[i].key
                            /\ OptLike(Other(side), want[i].ty)
<1>1. /\ DOMAIN want = 1..Len(want) /\ Len(want) \in Nat
      /\ \A i \in DOMAIN want : want[i].ty \in DOMAIN input[Other(side)]
      /\ \A i \in DOMAIN have : have[i].ty \in DOMAIN input[side]
  BY MembersParts
<1>2. DOMAIN todo = 1..Len(want) /\ todo = [i \in 1..Len(want) |-> todo[i]]
  BY <1>1 DEF RecordRule
<1>3. ASSUME NEW i \in DOMAIN want
      PROVE  IsStep(todo[i]) /\ \A S : Met(todo[i], S) <=> fits(S, i)
  <2>1. PICK seg, cost : todo[i] =
            IF With(have, want[i].key) # {}
            THEN Visit(seg, <<side, Named(have, want[i].key), want[i].ty>>, cost)
            ELSE IF OptLike(Other(side), want[i].ty) THEN Skip(cost) ELSE Lack(seg, cost)
    BY DEF RecordRule
  <2>2. CASE With(have, want[i].key) # {}
    <3>1. PICK j \in DOMAIN have : have[j].key = want[i].key
      BY <2>2 DEF With
    <3>2. todo[i] = Visit(seg, <<side, have[j].ty, want[i].ty>>, cost)
      BY <2>1, <2>2, <3>1, NamedAt
    <3>3. todo[i].do = "visit" /\ todo[i].pair = <<side, have[j].ty, want[i].ty>>
      BY <3>2, StepFields
    <3>4. \A k \in DOMAIN have : have[k].key = want[i].key => k = j
      BY <3>1 DEF IsMembers
    <3>5. <<side, have[j].ty, want[i].ty>> \in Pair
      BY <1>1, PairMade
    <3> QED
      BY <3>1, <3>3, <3>4, <3>5 DEF Met, IsStep
  <2>3. CASE With(have, want[i].key) = {}
    <3>1. \A j \in DOMAIN have : have[j].key # want[i].key
      BY <2>3 DEF With
    <3>2. CASE OptLike(Other(side), want[i].ty)
      <4>1. todo[i].do = "skip"
        BY <2>1, <2>3, <3>2, StepFields
      <4> QED
        BY <3>1, <3>2, <4>1 DEF Met, IsStep
    <3>3. CASE ~OptLike(Other(side), want[i].ty)
      <4>1. todo[i].do = "lack"
        BY <2>1, <2>3, <3>3, StepFields
      <4> QED
        BY <3>1, <3>3, <4>1 DEF Met, IsStep
    <3> QED
      BY <3>2, <3>3
  <2> QED
    BY <2>2, <2>3
<1> HIDE DEF todo
<1>4. Listed(todo)
  BY <1>1, <1>2, <1>3, ListMade DEF Listed
<1>5. ASSUME NEW S
      PROVE  FieldsFit(S, side, have, want) <=> \A i \in DOMAIN want : fits(S, i)
  <2> DEFINE fit(w) == \/ \E h \in Elements(have) : h.key = w.key /\ <<side, h.ty, w.ty>> \in S
                       \/ /\ \A h \in Elements(have) : h.key # w.key
                          /\ OptLike(Other(side), w.ty)
  <2>1. FieldsFit(S, side, have, want) <=> \A w \in Elements(want) : fit(w)
    BY DEF FieldsFit
  <2>2. \A i \in DOMAIN want : fit(want[i]) <=> fits(S, i)
    BY DEF Elements
  <2> HIDE DEF fit, fits
  <2> QED
    BY <2>1, <2>2 DEF Elements
<1> QED
  BY <1>1, <1>2, <1>3, <1>4, <1>5 DEF AllMet, todo

LEMMA VariantSteps ==
    ASSUME NEW side \in Side, NEW have, NEW want,
           IsMembers(have, DOMAIN input[side]), IsMembers(want, DOMAIN input[Other(side)])
    PROVE  /\ Listed(VariantRule(side, have, want))
           /\ \A S : (\A h \in Elements(have) :
                          \E w \in Elements(want) : w.key = h.key /\ <<side, h.ty, w.ty>> \in S)
                        <=> AllMet(VariantRule(side, have, want), S)
<1> DEFINE todo == VariantRule(side, have, want)
           fits(S, i) == \E j \in DOMAIN want : /\ want[j].key = have[i].key
                                                /\ <<side, have[i].ty, want[j].ty>> \in S
<1>1. /\ DOMAIN have = 1..Len(have) /\ Len(have) \in Nat
      /\ \A i \in DOMAIN want : want[i].ty \in DOMAIN input[Other(side)]
      /\ \A i \in DOMAIN have : have[i].ty \in DOMAIN input[side]
  BY MembersParts
<1>2. DOMAIN todo = 1..Len(have) /\ todo = [i \in 1..Len(have) |-> todo[i]]
  BY <1>1 DEF VariantRule
<1>3. ASSUME NEW i \in DOMAIN have
      PROVE  IsStep(todo[i]) /\ \A S : Met(todo[i], S) <=> fits(S, i)
  <2>1. PICK seg, cost : todo[i] =
            IF With(want, have[i].key) # {}
            THEN Visit(seg, <<side, have[i].ty, Named(want, have[i].key)>>, cost)
            ELSE Lack(seg, cost)
    BY DEF VariantRule
  <2>2. CASE With(want, have[i].key) # {}
    <3>1. PICK j \in DOMAIN want : want[j].key = have[i].key
      BY <2>2 DEF With
    <3>2. todo[i] = Visit(seg, <<side, have[i].ty, want[j].ty>>, cost)
      BY <2>1, <2>2, <3>1, NamedAt
    <3>3. todo[i].do = "visit" /\ todo[i].pair = <<side, have[i].ty, want[j].ty>>
      BY <3>2, StepFields
    <3>4. \A k \in DOMAIN want : want[k].key = have[i].key => k = j
      BY <3>1 DEF IsMembers
    <3>5. <<side, have[i].ty, want[j].ty>> \in Pair
      BY <1>1, PairMade
    <3> QED
      BY <3>1, <3>3, <3>4, <3>5 DEF Met, IsStep
  <2>3. CASE With(want, have[i].key) = {}
    <3>1. \A j \in DOMAIN want : want[j].key # have[i].key
      BY <2>3 DEF With
    <3>2. todo[i].do = "lack"
      BY <2>1, <2>3, StepFields
    <3> QED
      BY <3>1, <3>2 DEF Met, IsStep
  <2> QED
    BY <2>2, <2>3
<1> HIDE DEF todo
<1>4. Listed(todo)
  BY <1>1, <1>2, <1>3, ListMade DEF Listed
<1>5. ASSUME NEW S
      PROVE  (\A h \in Elements(have) :
                 \E w \in Elements(want) : w.key = h.key /\ <<side, h.ty, w.ty>> \in S)
                <=> \A i \in DOMAIN have : fits(S, i)
  <2> DEFINE fit(h) == \E w \in Elements(want) : w.key = h.key /\ <<side, h.ty, w.ty>> \in S
  <2>1. \A i \in DOMAIN have : fit(have[i]) <=> fits(S, i)
    BY DEF Elements
  <2> SUFFICES (\A h \in Elements(have) : fit(h)) <=> \A i \in DOMAIN have : fits(S, i)
    OBVIOUS
  <2> HIDE DEF fit, fits
  <2> QED
    BY <2>1 DEF Elements
<1> QED
  BY <1>1, <1>2, <1>3, <1>4, <1>5 DEF AllMet, todo

LEMMA ServiceSteps ==
    ASSUME NEW side \in Side, NEW have, NEW want,
           IsMembers(have, DOMAIN input[side]), IsMembers(want, DOMAIN input[Other(side)])
    PROVE  /\ Listed(ServiceRule(side, have, want))
           /\ \A S : (\A w \in Elements(want) :
                          \E h \in Elements(have) : h.key = w.key /\ <<side, h.ty, w.ty>> \in S)
                        <=> AllMet(ServiceRule(side, have, want), S)
<1> DEFINE todo == ServiceRule(side, have, want)
           fits(S, i) == \E j \in DOMAIN have : /\ have[j].key = want[i].key
                                                /\ <<side, have[j].ty, want[i].ty>> \in S
<1>1. /\ DOMAIN want = 1..Len(want) /\ Len(want) \in Nat
      /\ \A i \in DOMAIN want : want[i].ty \in DOMAIN input[Other(side)]
      /\ \A i \in DOMAIN have : have[i].ty \in DOMAIN input[side]
  BY MembersParts
<1>2. DOMAIN todo = 1..Len(want) /\ todo = [i \in 1..Len(want) |-> todo[i]]
  BY <1>1 DEF ServiceRule
<1>3. ASSUME NEW i \in DOMAIN want
      PROVE  IsStep(todo[i]) /\ \A S : Met(todo[i], S) <=> fits(S, i)
  <2>1. PICK seg, cost : todo[i] =
            IF With(have, want[i].key) # {}
            THEN Visit(seg, <<side, Named(have, want[i].key), want[i].ty>>, cost)
            ELSE Lack(seg, cost)
    BY DEF ServiceRule
  <2>2. CASE With(have, want[i].key) # {}
    <3>1. PICK j \in DOMAIN have : have[j].key = want[i].key
      BY <2>2 DEF With
    <3>2. todo[i] = Visit(seg, <<side, have[j].ty, want[i].ty>>, cost)
      BY <2>1, <2>2, <3>1, NamedAt
    <3>3. todo[i].do = "visit" /\ todo[i].pair = <<side, have[j].ty, want[i].ty>>
      BY <3>2, StepFields
    <3>4. \A k \in DOMAIN have : have[k].key = want[i].key => k = j
      BY <3>1 DEF IsMembers
    <3>5. <<side, have[j].ty, want[i].ty>> \in Pair
      BY <1>1, PairMade
    <3> QED
      BY <3>1, <3>3, <3>4, <3>5 DEF Met, IsStep
  <2>3. CASE With(have, want[i].key) = {}
    <3>1. \A j \in DOMAIN have : have[j].key # want[i].key
      BY <2>3 DEF With
    <3>2. todo[i].do = "lack"
      BY <2>1, <2>3, StepFields
    <3> QED
      BY <3>1, <3>2 DEF Met, IsStep
  <2> QED
    BY <2>2, <2>3
<1> HIDE DEF todo
<1>4. Listed(todo)
  BY <1>1, <1>2, <1>3, ListMade DEF Listed
<1>5. ASSUME NEW S
      PROVE  (\A w \in Elements(want) :
                 \E h \in Elements(have) : h.key = w.key /\ <<side, h.ty, w.ty>> \in S)
                <=> \A i \in DOMAIN want : fits(S, i)
  <2> DEFINE fit(w) == \E h \in Elements(have) : h.key = w.key /\ <<side, h.ty, w.ty>> \in S
  <2>1. \A i \in DOMAIN want : fit(want[i]) <=> fits(S, i)
    BY DEF Elements
  <2> SUFFICES (\A w \in Elements(want) : fit(w)) <=> \A i \in DOMAIN want : fits(S, i)
    OBVIOUS
  <2> HIDE DEF fit, fits
  <2> QED
    BY <2>1 DEF Elements
<1> QED
  BY <1>1, <1>2, <1>3, <1>4, <1>5 DEF AllMet, todo

\* A tuple's steps, none of them a probe.
LEMMA TupleSteps ==
    ASSUME NEW side \in Side, NEW tag,
           NEW have \in Seq(DOMAIN input[side]), NEW want \in Seq(DOMAIN input[Other(side)])
    PROVE  /\ Listed(Tuple(side, have, want, tag))
           /\ \A i \in DOMAIN Tuple(side, have, want, tag) :
                 Tuple(side, have, want, tag)[i].do # "probe"
           /\ \A S : TupleFits(S, side, have, want) <=> AllMet(Tuple(side, have, want, tag), S)
<1> DEFINE todo == Tuple(side, have, want, tag)
           fits(S, i) == IF i \in DOMAIN have THEN <<side, have[i], want[i]>> \in S
                         ELSE OptLike(Other(side), want[i])
           Ours == DOMAIN input[side]
           Theirs == DOMAIN input[Other(side)]
<1>1. /\ DOMAIN want = 1..Len(want) /\ Len(want) \in Nat
      /\ DOMAIN have = 1..Len(have) /\ Len(have) \in Nat
      /\ \A i \in DOMAIN want : want[i] \in Theirs
      /\ \A i \in DOMAIN have : have[i] \in Ours
  <2>1. have \in Seq(Ours) /\ want \in Seq(Theirs)
    OBVIOUS
  <2> HIDE DEF Ours, Theirs
  <2> QED
    BY <2>1
<1>2. DOMAIN todo = 1..Len(want) /\ todo = [i \in 1..Len(want) |-> todo[i]]
  BY <1>1 DEF Tuple
<1>3. ASSUME NEW i \in DOMAIN want
      PROVE  /\ IsStep(todo[i]) /\ todo[i].do # "probe"
             /\ \A S : Met(todo[i], S) <=> fits(S, i)
  <2>1. todo[i] =
            IF i <= Len(have) THEN Visit(<<tag, i>>, <<side, have[i], want[i]>>, 1)
            ELSE IF OptLike(Other(side), want[i]) THEN Skip(1) ELSE Lack(<<tag, i>>, 1)
    BY DEF Tuple
  <2>2. CASE i \in DOMAIN have
    <3>1. todo[i] = Visit(<<tag, i>>, <<side, have[i], want[i]>>, 1)
      BY <1>1, <2>1, <2>2
    <3>2. todo[i].do = "visit" /\ todo[i].pair = <<side, have[i], want[i]>>
      BY <3>1, StepFields
    <3>3. <<side, have[i], want[i]>> \in Pair
      BY <1>1, <2>2, PairMade
    <3> QED
      BY <2>2, <3>2, <3>3 DEF Met, IsStep
  <2>3. CASE i \notin DOMAIN have
    <3>1. todo[i] = IF OptLike(Other(side), want[i]) THEN Skip(1) ELSE Lack(<<tag, i>>, 1)
      BY <1>1, <2>1, <2>3
    <3>2. CASE OptLike(Other(side), want[i])
      <4>1. todo[i].do = "skip"
        BY <3>1, <3>2, StepFields
      <4> QED
        BY <2>3, <3>2, <4>1 DEF Met, IsStep
    <3>3. CASE ~OptLike(Other(side), want[i])
      <4>1. todo[i].do = "lack"
        BY <3>1, <3>3, StepFields
      <4> QED
        BY <2>3, <3>3, <4>1 DEF Met, IsStep
    <3> QED
      BY <3>2, <3>3
  <2> QED
    BY <2>2, <2>3
<1> HIDE DEF todo
<1>4. Listed(todo)
  BY <1>1, <1>2, <1>3, ListMade DEF Listed
<1>5. ASSUME NEW S
      PROVE  TupleFits(S, side, have, want) <=> \A i \in DOMAIN want : fits(S, i)
  BY DEF TupleFits
<1> QED
  BY <1>1, <1>2, <1>3, <1>4, <1>5 DEF AllMet, todo

LEMMA Concatenated ==
    ASSUME NEW s, NEW t, Listed(s), Listed(t)
    PROVE  /\ Listed(s \o t)
           /\ \A S : AllMet(s \o t, S) <=> AllMet(s, S) /\ AllMet(t, S)
           /\ \A i \in DOMAIN (s \o t) : \/ \E j \in DOMAIN s : (s \o t)[i] = s[j]
                                         \/ \E j \in DOMAIN t : (s \o t)[i] = t[j]
<1> DEFINE A == {s[i] : i \in DOMAIN s}
           B == {t[i] : i \in DOMAIN t}
<1>1. s \in Seq(A) /\ t \in Seq(B)
  BY DEF Listed, IsList
<1> HIDE DEF A, B
<1>2. s \in Seq(A \cup B) /\ t \in Seq(A \cup B)
  BY <1>1
<1>3. /\ s \o t \in Seq(A \cup B) /\ Len(s \o t) = Len(s) + Len(t)
      /\ Len(s) \in Nat /\ Len(t) \in Nat
      /\ DOMAIN s = 1..Len(s) /\ DOMAIN t = 1..Len(t)
      /\ DOMAIN (s \o t) = 1..(Len(s) + Len(t))
      /\ \A i \in 1..Len(s) : (s \o t)[i] = s[i]
      /\ \A i \in 1..Len(t) : (s \o t)[Len(s) + i] = t[i]
  BY <1>2
<1> DEFINE u == s \o t
<1>4. u = [i \in 1..Len(u) |-> u[i]] /\ Len(u) \in Nat /\ DOMAIN u = 1..Len(u)
  <2>1. u \in Seq(A \cup B)
    BY <1>3
  <2> HIDE DEF u
  <2> QED
    BY <2>1
<1> HIDE DEF u
<1>5. IsList(u)
  BY <1>4, ListMade
<1>6. \A i \in DOMAIN u : \/ i \in DOMAIN s /\ u[i] = s[i]
                          \/ i - Len(s) \in DOMAIN t /\ u[i] = t[i - Len(s)]
  <2> SUFFICES ASSUME NEW i \in DOMAIN u
               PROVE  \/ i \in DOMAIN s /\ u[i] = s[i]
                      \/ i - Len(s) \in DOMAIN t /\ u[i] = t[i - Len(s)]
    OBVIOUS
  <2>1. i \in 1..(Len(s) + Len(t))
    BY <1>3 DEF u
  <2>2. CASE i <= Len(s)
    BY <1>3, <2>1, <2>2 DEF u
  <2>3. CASE i > Len(s)
    <3>1. i - Len(s) \in 1..Len(t) /\ Len(s) + (i - Len(s)) = i
      BY <1>3, <2>1, <2>3
    <3> QED
      BY <1>3, <3>1 DEF u
  <2> QED
    BY <1>3, <2>1, <2>2, <2>3
<1>7. \A i \in DOMAIN s : i \in DOMAIN u /\ u[i] = s[i]
  BY <1>3 DEF u
<1>8. \A i \in DOMAIN t : Len(s) + i \in DOMAIN u /\ u[Len(s) + i] = t[i]
  BY <1>3 DEF u
<1>9. \A i \in DOMAIN u : IsStep(u[i])
  BY <1>6 DEF Listed
<1>10. \A S : AllMet(u, S) <=> AllMet(s, S) /\ AllMet(t, S)
  BY <1>6, <1>7, <1>8 DEF AllMet
<1> QED
  BY <1>5, <1>6, <1>9, <1>10 DEF Listed, u

LEMMA SignatureSteps ==
    ASSUME NEW side \in Side, NEW left, NEW right,
           left.args \in Seq(DOMAIN input[side]), left.results \in Seq(DOMAIN input[side]),
           right.args \in Seq(DOMAIN input[Other(side)]),
           right.results \in Seq(DOMAIN input[Other(side)])
    PROVE  /\ Listed(Signature(side, left, right))
           /\ \A i \in DOMAIN Signature(side, left, right) :
                 Signature(side, left, right)[i].do # "probe"
           /\ \A S : SignatureFits(S, side, left, right)
                        <=> AllMet(Signature(side, left, right), S)
<1> DEFINE args == Tuple(Other(side), right.args, left.args, "arg")
           results == Tuple(side, left.results, right.results, "result")
<1>1. Other(side) \in Side /\ Other(Other(side)) = side
  BY Opposite
<1>2. /\ Listed(args) /\ \A i \in DOMAIN args : args[i].do # "probe"
      /\ \A S : TupleFits(S, Other(side), right.args, left.args) <=> AllMet(args, S)
  BY <1>1, TupleSteps
<1>3. /\ Listed(results) /\ \A i \in DOMAIN results : results[i].do # "probe"
      /\ \A S : TupleFits(S, side, left.results, right.results) <=> AllMet(results, S)
  BY TupleSteps
<1>4. Signature(side, left, right) = args \o results
  BY DEF Signature
<1> HIDE DEF args, results
<1> QED
  BY <1>2, <1>3, <1>4, Concatenated, SMTT(30) DEF SignatureFits

\* Two steps that are not lists by themselves.
LEMMA ShortSteps ==
    ASSUME NEW o, IsStep(o)
    PROVE  Listed(<<o>>) /\ \A S : AllMet(<<o>>, S) <=> Met(o, S)
<1> DEFINE s == <<o>>
<1>1. DOMAIN s = 1..1 /\ s[1] = o /\ s = [i \in 1..1 |-> s[i]]
  OBVIOUS
<1> HIDE DEF s
<1>2. IsList(s)
  BY <1>1, ListMade
<1> QED
  BY <1>1, <1>2 DEF Listed, AllMet, s

LEMMA NoSteps == Listed(<< >>) /\ \A S : AllMet(<< >>, S)
<1> DEFINE s == << >>
<1>1. DOMAIN s = 1..0 /\ s = [i \in 1..0 |-> s[i]]
  OBVIOUS
<1> HIDE DEF s
<1>2. IsList(s)
  BY <1>1, ListMade
<1> QED
  BY <1>1, <1>2 DEF Listed, AllMet, s

LEMMA MismatchSteps == Listed(Mismatch) /\ \A S : ~AllMet(Mismatch, S)
<1>1. IsStep(Lack(<< >>, 0)) /\ \A S : ~Met(Lack(<< >>, 0), S)
  BY StepFields DEF IsStep, Met
<1> QED
  BY <1>1, ShortSteps DEF Mismatch

\* The fields of a node that its rule reads.
LEMMA NodeParts ==
    ASSUME NEW node, NEW refs, IsNode(node, refs)
    PROVE  /\ node.kind \in Primitives \cup {"class", "opt", "vec", "record", "variant",
                                             "service", "func"}
           /\ node.kind \in {"opt", "vec"} => node.inner \in refs
           /\ node.kind \in {"record", "variant", "service"} => IsMembers(node.members, refs)
           /\ node.kind = "func" => node.args \in Seq(refs) /\ node.results \in Seq(refs)
BY DEF IsNode, Primitives

LEMMA OptSteps ==
    ASSUME NEW side \in Side, NEW sub \in DOMAIN input[side],
           NEW inner \in DOMAIN input[Other(side)], World
    PROVE  Listed(OptRule(side, sub, inner)) /\ \A S : AllMet(OptRule(side, sub, inner), S)
<1>1. CASE Node(side, sub).kind = "opt"
  <2>1. Node(side, sub).inner \in DOMAIN input[side]
    BY <1>1, NodeParts DEF World, Node
  <2>2. <<side, Node(side, sub).inner, inner>> \in Pair
    BY <2>1, PairMade
  <2>3. PICK o : o = Probe(<<side, Node(side, sub).inner, inner>>)
    OBVIOUS
  <2>4. IsStep(o) /\ \A S : Met(o, S)
    BY <2>2, <2>3, StepFields DEF IsStep, Met
  <2>5. OptRule(side, sub, inner) = <<o>>
    BY <1>1, <2>3 DEF OptRule
  <2> QED
    BY <2>4, <2>5, ShortSteps
<1>2. CASE Node(side, sub).kind # "opt" /\ OptLike(Other(side), inner)
  <2>1. IsStep(Warn) /\ \A S : Met(Warn, S)
    BY StepFields DEF IsStep, Met
  <2>2. OptRule(side, sub, inner) = <<Warn>>
    BY <1>2 DEF OptRule
  <2> QED
    BY <2>1, <2>2, ShortSteps
<1>3. CASE Node(side, sub).kind # "opt" /\ ~OptLike(Other(side), inner)
  <2>1. <<side, sub, inner>> \in Pair
    BY PairMade
  <2>2. PICK o : o = Probe(<<side, sub, inner>>)
    OBVIOUS
  <2>3. IsStep(o) /\ \A S : Met(o, S)
    BY <2>1, <2>2, StepFields DEF IsStep, Met
  <2>4. OptRule(side, sub, inner) = <<o>>
    BY <1>3, <2>2 DEF OptRule
  <2> QED
    BY <2>3, <2>4, ShortSteps
<1> QED
  BY <1>1, <1>2, <1>3

\* The walk asks of a pair exactly what the rules of subtyping do.
THEOREM ObligationsAreTheRules ==
    ASSUME World, NEW pair \in Pair
    PROVE  /\ Listed(Obligations(pair))
           /\ \A S : Fits(S, pair) <=> AllMet(Obligations(pair), S)
<1> DEFINE side == pair[1]
           left == Node(side, pair[2])
           right == Node(Other(side), pair[3])
           Ours == DOMAIN input[side]
           Theirs == DOMAIN input[Other(side)]
           todo == Obligations(pair)
<1>1. /\ side \in Side /\ Other(side) \in Side /\ Other(Other(side)) = side
      /\ pair[2] \in Ours /\ pair[3] \in Theirs
  BY PairParts, Opposite
<1>2. IsNode(left, Ours) /\ IsNode(right, Theirs)
  BY <1>1 DEF World, Node
<1>3. /\ left.kind \in Primitives \cup {"class", "opt", "vec", "record", "variant",
                                        "service", "func"}
      /\ left.kind = "vec" => left.inner \in Ours
      /\ left.kind \in {"record", "variant", "service"} => IsMembers(left.members, Ours)
      /\ left.kind = "func" => left.args \in Seq(Ours) /\ left.results \in Seq(Ours)
  BY <1>2, NodeParts
<1>4. /\ right.kind \in {"opt", "vec"} => right.inner \in Theirs
      /\ right.kind \in {"record", "variant", "service"} => IsMembers(right.members, Theirs)
      /\ right.kind = "func" => right.args \in Seq(Theirs) /\ right.results \in Seq(Theirs)
  BY <1>2, NodeParts
<1>5. todo =
        IF right.kind = "reserved" \/ left.kind = "empty" THEN << >>
        ELSE IF right.kind = "opt" THEN
            IF left.kind = "null" THEN << >> ELSE OptRule(side, pair[2], right.inner)
        ELSE IF left.kind = "nat" /\ right.kind = "int" THEN << >>
        ELSE IF left.kind # right.kind THEN Mismatch
        ELSE IF left.kind = "vec" THEN
            <<Visit(<<"element">>, <<side, left.inner, right.inner>>, 0)>>
        ELSE IF left.kind = "record" THEN RecordRule(side, left.members, right.members)
        ELSE IF left.kind = "variant" THEN VariantRule(side, left.members, right.members)
        ELSE IF left.kind = "service" THEN ServiceRule(side, left.members, right.members)
        ELSE IF left.kind = "func" THEN FuncRule(side, left, right)
        ELSE IF left.kind = "class" THEN Mismatch
        ELSE << >>
  BY DEF Obligations
<1> DEFINE
      free == \/ right.kind \in {"reserved", "opt"}
              \/ left.kind = "empty"
              \/ left.kind = "nat" /\ right.kind = "int"
              \/ left.kind = right.kind /\ left.kind \in Primitives
      all(S) == \A h \in Elements(left.members) :
                   \E w \in Elements(right.members) : w.key = h.key /\ <<side, h.ty, w.ty>> \in S
      every(S) == \A w \in Elements(right.members) :
                     \E h \in Elements(left.members) : h.key = w.key /\ <<side, h.ty, w.ty>> \in S
      inner(S) == <<side, left.inner, right.inner>> \in S
      record(S) == FieldsFit(S, side, left.members, right.members)
      func(S) == SignatureFits(S, side, left, right)
<1>6. ASSUME NEW S
      PROVE  Fits(S, pair) <=>
                \/ free
                \/ left.kind = "vec" /\ right.kind = "vec" /\ inner(S)
                \/ left.kind = "record" /\ right.kind = "record" /\ record(S)
                \/ left.kind = "variant" /\ right.kind = "variant" /\ all(S)
                \/ left.kind = "service" /\ right.kind = "service" /\ every(S)
                \/ left.kind = "func" /\ right.kind = "func" /\ left.mode = right.mode /\ func(S)
  BY DEF Fits
<1> HIDE DEF inner, record, all, every, func, todo
<1>7. CASE right.kind = "reserved" \/ left.kind = "empty"
  <2>1. todo = << >> /\ free
    BY <1>5, <1>7
  <2> QED
    BY <1>6, <2>1, NoSteps DEF todo
<1>8. CASE ~(right.kind = "reserved" \/ left.kind = "empty") /\ right.kind = "opt"
  <2>1. free
    BY <1>8
  <2>2. todo = IF left.kind = "null" THEN << >> ELSE OptRule(side, pair[2], right.inner)
    BY <1>5, <1>8
  <2>3. Listed(OptRule(side, pair[2], right.inner))
        /\ \A S : AllMet(OptRule(side, pair[2], right.inner), S)
    BY <1>1, <1>4, <1>8, OptSteps
  <2>4. Listed(todo) /\ \A S : AllMet(todo, S)
    BY <2>2, <2>3, NoSteps
  <2> QED
    BY <1>6, <2>1, <2>4 DEF todo
<1> DEFINE plain == ~(right.kind = "reserved" \/ left.kind = "empty" \/ right.kind = "opt")
<1>9. CASE plain /\ left.kind = "nat" /\ right.kind = "int"
  <2>1. todo = << >> /\ free
    BY <1>5, <1>9
  <2> QED
    BY <1>6, <2>1, NoSteps DEF todo
<1>10. CASE /\ plain /\ ~(left.kind = "nat" /\ right.kind = "int")
            /\ left.kind # right.kind
  <2>1. todo = Mismatch /\ ~free
    BY <1>5, <1>10
  <2> QED
    BY <1>6, <1>10, <2>1, MismatchSteps DEF todo
<1> DEFINE same(kind) == plain /\ left.kind = kind /\ right.kind = kind
<1>11. CASE same("vec")
  <2>1. PICK o : o = Visit(<<"element">>, <<side, left.inner, right.inner>>, 0)
    OBVIOUS
  <2>2. todo = <<o>> /\ ~free
    BY <1>5, <1>11, <2>1 DEF Primitives
  <2>3. <<side, left.inner, right.inner>> \in Pair
    BY <1>1, <1>3, <1>4, <1>11, PairMade
  <2>4. IsStep(o) /\ \A S : Met(o, S) <=> inner(S)
    BY <2>1, <2>3, StepFields DEF IsStep, Met, inner
  <2>5. Listed(todo) /\ \A S : AllMet(todo, S) <=> inner(S)
    BY <2>2, <2>4, ShortSteps
  <2>6. \A S : Fits(S, pair) <=> inner(S)
    BY <1>6, <1>11, <2>2
  <2> QED
    BY <2>5, <2>6 DEF todo
<1>12. CASE same("record")
  <2>1. todo = RecordRule(side, left.members, right.members) /\ ~free
    BY <1>5, <1>12 DEF Primitives
  <2>2. Listed(todo) /\ \A S : record(S) <=> AllMet(todo, S)
    BY <1>1, <1>3, <1>4, <1>12, <2>1, RecordSteps DEF record
  <2>3. \A S : Fits(S, pair) <=> record(S)
    BY <1>6, <1>12, <2>1
  <2> QED
    BY <2>2, <2>3 DEF todo
<1>13. CASE same("variant")
  <2>1. todo = VariantRule(side, left.members, right.members) /\ ~free
    BY <1>5, <1>13 DEF Primitives
  <2>2. Listed(todo) /\ \A S : all(S) <=> AllMet(todo, S)
    BY <1>1, <1>3, <1>4, <1>13, <2>1, VariantSteps DEF all
  <2>3. \A S : Fits(S, pair) <=> all(S)
    BY <1>6, <1>13, <2>1
  <2> QED
    BY <2>2, <2>3 DEF todo
<1>14. CASE same("service")
  <2>1. todo = ServiceRule(side, left.members, right.members) /\ ~free
    BY <1>5, <1>14 DEF Primitives
  <2>2. Listed(todo) /\ \A S : every(S) <=> AllMet(todo, S)
    BY <1>1, <1>3, <1>4, <1>14, <2>1, ServiceSteps DEF every
  <2>3. \A S : Fits(S, pair) <=> every(S)
    BY <1>6, <1>14, <2>1
  <2> QED
    BY <2>2, <2>3 DEF todo
<1>15. CASE same("func")
  <2>1. todo = FuncRule(side, left, right) /\ ~free
    BY <1>5, <1>15 DEF Primitives
  <2>2. \A S : Fits(S, pair) <=> left.mode = right.mode /\ func(S)
    BY <1>6, <1>15, <2>1
  <2>3. CASE left.mode # right.mode
    <3>1. todo = Mismatch
      BY <2>1, <2>3 DEF FuncRule
    <3> QED
      BY <2>2, <2>3, <3>1, MismatchSteps DEF todo
  <2>4. CASE left.mode = right.mode
    <3>1. todo = Signature(side, left, right)
      BY <2>1, <2>4 DEF FuncRule
    <3>2. Listed(todo) /\ \A S : func(S) <=> AllMet(todo, S)
      BY <1>1, <1>3, <1>4, <1>15, <3>1, SignatureSteps DEF func
    <3> QED
      BY <2>2, <2>4, <3>2 DEF todo
  <2> QED
    BY <2>3, <2>4
<1>16. CASE same("class")
  <2>1. todo = Mismatch /\ ~free
    BY <1>5, <1>16 DEF Primitives
  <2> QED
    BY <1>6, <1>16, <2>1, MismatchSteps DEF todo
<1>17. CASE plain /\ left.kind = right.kind /\ left.kind \in Primitives
  <2>1. todo = << >> /\ free
    BY <1>5, <1>17 DEF Primitives
  <2> QED
    BY <1>6, <2>1, NoSteps DEF todo
<1> QED
  BY <1>3, <1>7, <1>8, <1>9, <1>10, <1>11, <1>12, <1>13, <1>14, <1>15, <1>16, <1>17

LEMMA MethodSteps ==
    ASSUME World
    PROVE  /\ Listed(MethodObligations)
           /\ \A i \in DOMAIN MethodObligations : MethodObligations[i].do # "probe"
           /\ \A S : MethodFits(S) <=> AllMet(MethodObligations, S)
<1>1. "live" \in Side /\ Other("live") = "written" /\ "written" \in Side
  BY DEF Side, Other
<1>2. /\ input.fn["live"].args \in Seq(DOMAIN input["live"])
      /\ input.fn["live"].results \in Seq(DOMAIN input["live"])
      /\ input.fn["written"].args \in Seq(DOMAIN input["written"])
      /\ input.fn["written"].results \in Seq(DOMAIN input["written"])
  BY <1>1 DEF World
<1>3. PICK left, right : left = input.fn.live /\ right = input.fn.written
  OBVIOUS
<1>4. /\ left.args \in Seq(DOMAIN input["live"]) /\ left.results \in Seq(DOMAIN input["live"])
      /\ right.args \in Seq(DOMAIN input[Other("live")])
      /\ right.results \in Seq(DOMAIN input[Other("live")])
  BY <1>1, <1>2, <1>3
<1>5. MethodObligations = Signature("live", left, right)
  BY <1>3 DEF MethodObligations
<1>6. \A S : MethodFits(S) <=> SignatureFits(S, "live", left, right)
  BY <1>3 DEF MethodFits
<1> QED
  BY <1>1, <1>4, <1>5, <1>6, SignatureSteps

-----------------------------------------------------------------------------
\* The relation: the largest set of pairs that obey the rules, and what holds
\* when some pairs are taken for granted.

LEMMA MetGrows ==
    ASSUME NEW o, IsStep(o), NEW S, NEW T, S \cap Pair \subseteq T, Met(o, S)
    PROVE  Met(o, T)
BY DEF IsStep, Met

LEMMA FitsGrows ==
    ASSUME World, NEW pair \in Pair, NEW S, NEW T, S \cap Pair \subseteq T, Fits(S, pair)
    PROVE  Fits(T, pair)
<1>1. Listed(Obligations(pair)) /\ AllMet(Obligations(pair), S)
  BY ObligationsAreTheRules
<1>2. AllMet(Obligations(pair), T)
  BY <1>1, MetGrows DEF Listed, AllMet
<1> QED
  BY <1>2, ObligationsAreTheRules

LEMMA SmallestSet ==
    ASSUME NEW S, IsFiniteSet(S), NEW T, T \subseteq SUBSET S, T # {}
    PROVE  \E m \in T : \A k \in T : k \subseteq m => k = m
<1>1. IsWellFoundedOn(StrictSubsetOrdering(S), SUBSET S)
  BY FS_StrictSubsetOrderingWellFounded, FS_FiniteSubsetsOfFinite
<1>2. PICK m \in T : \A k \in T : <<k, m>> \notin StrictSubsetOrdering(S)
  BY <1>1, WFMin
<1> QED
  BY <1>2 DEF StrictSubsetOrdering

LEMMA PairsFinite == ASSUME World PROVE IsFiniteSet(Pair)
<1> DEFINE of(side) == {<<side, sub, sup>> : sub \in DOMAIN input[side],
                                             sup \in DOMAIN input[Other(side)]}
<1>1. ASSUME NEW side \in Side
      PROVE  IsFiniteSet(of(side))
  <2>1. PICK A, B : A = DOMAIN input[side] /\ B = DOMAIN input[Other(side)]
    OBVIOUS
  <2>2. IsFiniteSet(A) /\ IsFiniteSet(B)
    BY <2>1, Opposite DEF World
  <2>3. IsFiniteSet(A \X B)
    BY <2>2, FS_Product
  <2> DEFINE f == [t \in A \X B |-> <<side, t[1], t[2]>>]
             C == {<<side, a, b>> : a \in A, b \in B}
  <2>4. f \in [A \X B -> C]
    OBVIOUS
  <2>5. ASSUME NEW c \in C
        PROVE  \E t \in A \X B : f[t] = c
    <3>1. PICK a \in A, b \in B : c = <<side, a, b>>
      OBVIOUS
    <3>2. <<a, b>> \in A \X B /\ f[<<a, b>>] = c
      BY <3>1
    <3> QED
      BY <3>2
  <2>6. f \in Surjection(A \X B, C)
    <3> HIDE DEF f, C
    <3> QED
      BY <2>4, <2>5 DEF Surjection
  <2>7. IsFiniteSet(C)
    BY <2>3, <2>6, FS_Surjection
  <2> QED
    BY <2>1, <2>7
<1>2. Pair = of("live") \cup of("written")
  BY DEF Pair, Side
<1> HIDE DEF of
<1>3. IsFiniteSet(of("live")) /\ IsFiniteSet(of("written"))
  BY <1>1 DEF Side
<1> QED
  BY <1>2, <1>3, FS_Union

Obeys(R) == R \in SUBSET Pair /\ \A pair \in R : Fits(R, pair)

\* Dropping pairs that do not fit until none is left to drop leaves the largest
\* set of pairs that fit, recursive types included.
THEOREM HoldingIsTheLargest ==
    ASSUME World
    PROVE  Obeys(Holding) /\ \A R : Obeys(R) => R \subseteq Holding
<1> DEFINE kept(r) == {pair \in r : Fits(r, pair)}
           union(r) == UNION {R \in SUBSET r : Obeys(R)}
           step(f, r) == IF kept(r) = r THEN r ELSE f[kept(r)]
           greatest == CHOOSE f : f = [r \in SUBSET Pair |-> step(f, r)]
<1>1. Holding = greatest[Pair]
  BY Zenon DEF Holding
<1>2. ASSUME NEW r \in SUBSET Pair
      PROVE  Obeys(union(r))
  <2>1. ASSUME NEW pair \in union(r)
        PROVE  Fits(union(r), pair)
    <3>1. PICK R \in SUBSET r : Obeys(R) /\ pair \in R
      BY <2>1
    <3>2. R \cap Pair \subseteq union(r) /\ pair \in Pair /\ Fits(R, pair)
      BY <3>1 DEF Obeys
    <3> QED
      BY <3>2, FitsGrows
  <2> QED
    BY <2>1 DEF Obeys
<1>3. ASSUME NEW r \in SUBSET Pair, kept(r) = r
      PROVE  union(r) = r
  <2>1. Obeys(r)
    BY <1>3 DEF Obeys
  <2> QED
    BY <2>1
<1>4. ASSUME NEW r \in SUBSET Pair
      PROVE  kept(r) \in SUBSET Pair /\ kept(r) \subseteq r /\ union(kept(r)) = union(r)
  <2>1. ASSUME NEW R \in SUBSET r, Obeys(R)
        PROVE  R \subseteq kept(r)
    <3>1. ASSUME NEW pair \in R
          PROVE  pair \in kept(r)
      <4>1. pair \in Pair /\ Fits(R, pair) /\ R \cap Pair \subseteq r
        BY <2>1 DEF Obeys
      <4> QED
        BY <4>1, FitsGrows
    <3> QED
      BY <3>1
  <2> QED
    BY <2>1
<1> HIDE DEF union, kept
<1>5. \E f : f = [r \in SUBSET Pair |-> step(f, r)]
  <2> DEFINE f == [r \in SUBSET Pair |-> union(r)]
  <2>1. ASSUME NEW r \in SUBSET Pair
        PROVE  union(r) = step(f, r)
    BY <1>3, <1>4
  <2>2. f = [r \in SUBSET Pair |-> step(f, r)]
    BY <2>1
  <2> QED
    BY <2>2
<1>6. greatest = [r \in SUBSET Pair |-> step(greatest, r)]
  BY <1>5
<1>7. \A r \in SUBSET Pair : greatest[r] = step(greatest, r)
  <2> HIDE DEF greatest
  <2> QED
    BY <1>6
<1> HIDE DEF greatest
<1>8. \A r \in SUBSET Pair : greatest[r] = union(r)
  <2> DEFINE T == {r \in SUBSET Pair : greatest[r] # union(r)}
  <2> SUFFICES ASSUME T # {} PROVE FALSE
    OBVIOUS
  <2>1. PICK r \in T : \A s \in T : s \subseteq r => s = r
    <3>1. T \subseteq SUBSET Pair
      OBVIOUS
    <3> HIDE DEF T
    <3> QED
      BY <3>1, PairsFinite, SmallestSet
  <2>2. greatest[r] = step(greatest, r)
    BY <1>7, <2>1
  <2>3. CASE kept(r) = r
    BY <1>3, <2>1, <2>2, <2>3
  <2>4. CASE kept(r) # r
    <3>1. greatest[kept(r)] = union(kept(r))
      BY <1>4, <2>1, <2>4
    <3> QED
      BY <1>4, <2>1, <2>2, <2>4, <3>1
  <2> QED
    BY <2>3, <2>4
<1>9. Holding = union(Pair)
  BY <1>1, <1>8
<1>10. ASSUME NEW R, Obeys(R)
       PROVE  R \subseteq union(Pair)
  BY <1>10 DEF union, Obeys
<1> QED
  BY <1>2, <1>9, <1>10

\* What holds once the pairs of A do.
Carried(X, A) == X \in SUBSET Pair /\ \A pair \in X : pair \in A \/ Fits(X, pair)
Relies(A) == UNION {X \in SUBSET Pair : Carried(X, A)}

LEMMA RelyOn == ASSUME NEW A, NEW X, Carried(X, A) PROVE X \subseteq Relies(A)
BY DEF Relies, Carried

LEMMA ReliesOnItself ==
    ASSUME World, NEW A
    PROVE  Relies(A) \subseteq Pair /\ Carried(Relies(A), A)
<1>1. Relies(A) \subseteq Pair
  BY DEF Relies
<1>2. ASSUME NEW pair \in Relies(A)
      PROVE  pair \in A \/ Fits(Relies(A), pair)
  <2>1. PICK X \in SUBSET Pair : Carried(X, A) /\ pair \in X
    BY DEF Relies
  <2>2. X \cap Pair \subseteq Relies(A) /\ pair \in Pair /\ (pair \in A \/ Fits(X, pair))
    BY <2>1, RelyOn DEF Carried
  <2> QED
    BY <2>2, FitsGrows
<1> QED
  BY <1>1, <1>2 DEF Carried

LEMMA ReliesOnAssumed == ASSUME NEW A PROVE A \cap Pair \subseteq Relies(A)
<1>1. Carried(A \cap Pair, A)
  BY DEF Carried
<1> QED
  BY <1>1, RelyOn

LEMMA ReliesGrows ==
    ASSUME World, NEW A, NEW B, A \cap Pair \subseteq B
    PROVE  Relies(A) \subseteq Relies(B)
<1>1. Carried(Relies(A), B)
  BY ReliesOnItself DEF Carried
<1> QED
  BY <1>1, RelyOn

\* A pair that fits once it is taken for granted need not be.
LEMMA ReliesOnLess ==
    ASSUME World, NEW A, NEW pair \in Pair, Fits(Relies(A \cup {pair}), pair)
    PROVE  pair \in Relies(A)
<1> DEFINE X == Relies(A \cup {pair}) \cup {pair}
<1>1. Relies(A \cup {pair}) \subseteq Pair /\ Carried(Relies(A \cup {pair}), A \cup {pair})
  BY ReliesOnItself
<1>2. Relies(A \cup {pair}) \cap Pair \subseteq X
  OBVIOUS
<1>3. ASSUME NEW p \in X
      PROVE  p \in A \/ Fits(X, p)
  <2>1. CASE p = pair
    BY <1>2, <2>1, FitsGrows
  <2>2. CASE p # pair
    <3>1. p \in Pair /\ (p \in A \/ Fits(Relies(A \cup {pair}), p))
      BY <1>1, <1>3, <2>2 DEF Carried
    <3> HIDE DEF X
    <3> QED
      BY <1>2, <3>1, FitsGrows
  <2> QED
    BY <2>1, <2>2
<1>4. Carried(X, A)
  <2>1. X \in SUBSET Pair
    BY <1>1
  <2> HIDE DEF X
  <2> QED
    BY <1>3, <2>1 DEF Carried
<1> QED
  BY <1>4, RelyOn

LEMMA NothingAssumed ==
    ASSUME World
    PROVE  \A A : A \cap Pair = {} => Relies(A) \subseteq Holding
<1> SUFFICES ASSUME NEW A, A \cap Pair = {} PROVE Relies(A) \subseteq Holding
  OBVIOUS
<1>1. Relies(A) \subseteq Pair /\ Carried(Relies(A), A)
  BY ReliesOnItself
<1>2. Obeys(Relies(A))
  BY <1>1 DEF Carried, Obeys
<1> QED
  BY <1>2, HoldingIsTheLargest

-----------------------------------------------------------------------------
\* The invariant, of a stack and of what was learnt.

IsFrame(f) == f = [pair |-> f.pair, at |-> f.at, start |-> f.start, cuts |-> f.cuts,
                   dependents |-> f.dependents, mark |-> f.mark]

Framed(stk) ==
    /\ IsList(stk) /\ Len(stk) >= 1 /\ stk[1].pair = NoPair
    /\ \A i \in DOMAIN stk :
          /\ IsFrame(stk[i]) /\ (i > 1 => stk[i].pair \in Pair)
          /\ stk[i].cuts \subseteq 2..(i - 1) /\ stk[i].dependents \subseteq Pair
          /\ stk[i].at \in 1..(Len(Todo(stk[i])) + 1)

\* Each walk waits for the pair of the next.
Awaits(f, pair) == /\ f.at <= Len(Todo(f))
                   /\ Todo(f)[f.at].do \in {"visit", "probe"} /\ Todo(f)[f.at].pair = pair
Linked(stk) == \A i \in 1..(Len(stk) - 1) : Awaits(stk[i], stk[i + 1].pair)

\* What a walk got past holds once the pairs it was cut at do, and its own.
PairsAt(stk, cuts) == {stk[i].pair : i \in cuts}
Ground(stk, k) == PairsAt(stk, stk[k].cuts) \cup {stk[k].pair}
Passed(stk) == \A k \in DOMAIN stk : \A j \in 1..(stk[k].at - 1) :
                  Met(Todo(stk[k])[j], Relies(Ground(stk, k)))

\* A proof holds once the pairs it was cut at do, and the deepest of them knows.
Proof(stk, pair, cuts) ==
    /\ cuts \subseteq 2..Len(stk)
    /\ pair \in Relies(PairsAt(stk, cuts))
    /\ \A i \in cuts : (\A j \in cuts : j <= i) => pair \in stk[i].dependents
Justified(stk, prv) == \A pair \in DOMAIN prv : pair \in Pair /\ Proof(stk, pair, prv[pair].cuts)

Refuted(fld) == \A pair \in DOMAIN fld : pair \in Pair /\ pair \notin Holding

\* A failure travels up from a step that cannot be met, or to a probe.
Stuck(f) == /\ f.at <= Len(Todo(f))
            /\ Todo(f)[f.at].do = "probe" \/ ~Met(Todo(f)[f.at], Holding)
Failing(stk, flag) == flag \in BOOLEAN /\ (flag => Stuck(stk[Len(stk)]))

Walking(stk, prv, fld, flag) ==
    /\ Framed(stk) /\ Linked(stk) /\ Passed(stk)
    /\ Justified(stk, prv) /\ Refuted(fld) /\ Failing(stk, flag)

Decided(verdict) == /\ verdict \in {"running", "compatible", "incompatible", "exhausted"}
                    /\ verdict = "compatible" => MethodFits(Holding)
                    /\ verdict = "incompatible" => ~MethodFits(Holding)

IInv == World /\ Walking(stack, proven, failed, failing) /\ Decided(outcome)

-----------------------------------------------------------------------------
\* What the steps share.

LEMMA TodoSteps ==
    ASSUME World, NEW f, f.pair \in Pair \/ f.pair = NoPair
    PROVE  /\ Len(Todo(f)) \in Nat /\ DOMAIN Todo(f) = 1..Len(Todo(f))
           /\ \A i \in DOMAIN Todo(f) : IsStep(Todo(f)[i])
<1>1. Listed(Todo(f))
  BY PairParts, ObligationsAreTheRules, MethodSteps DEF Todo
<1> QED
  BY <1>1, ListParts DEF Listed

LEMMA SameTodo == ASSUME NEW f, NEW g, f.pair = g.pair PROVE Todo(f) = Todo(g)
BY DEF Todo

LEMMA Altered ==
    ASSUME NEW s, IsList(s), NEW k, NEW v
    PROVE  /\ IsList([s EXCEPT ![k] = v]) /\ Len([s EXCEPT ![k] = v]) = Len(s)
           /\ DOMAIN [s EXCEPT ![k] = v] = DOMAIN s
           /\ \A i \in DOMAIN s : [s EXCEPT ![k] = v][i] = IF i = k THEN v ELSE s[i]
<1>1. Len(s) \in Nat /\ DOMAIN s = 1..Len(s) /\ s = [i \in 1..Len(s) |-> s[i]]
  BY ListParts
<1>2. PICK t : t = [s EXCEPT ![k] = v]
  OBVIOUS
<1>3. PICK n : n = Len(s)
  OBVIOUS
<1>4. t = [i \in 1..n |-> IF i = k THEN v ELSE s[i]] /\ n \in Nat
  BY <1>1, <1>2, <1>3
<1>5. DOMAIN t = 1..n /\ t = [i \in 1..n |-> t[i]]
      /\ \A i \in 1..n : t[i] = IF i = k THEN v ELSE s[i]
  BY <1>4
<1>6. IsList(t) /\ Len(t) = n
  BY <1>4, <1>5, ListMade
<1> QED
  BY <1>1, <1>2, <1>3, <1>5, <1>6

LEMMA FrontList ==
    ASSUME NEW s, IsList(s), Len(s) > 1
    PROVE  /\ IsList(Front(s)) /\ Len(Front(s)) = Len(s) - 1
           /\ \A i \in 1..(Len(s) - 1) : Front(s)[i] = s[i]
<1>1. Len(s) \in Nat /\ DOMAIN s = 1..Len(s)
  BY ListParts
<1>2. PICK t, n : t = Front(s) /\ n = Len(s) - 1
  OBVIOUS
<1>3. t = [i \in 1..n |-> s[i]] /\ n \in Nat
  BY <1>1, <1>2 DEF Front
<1>4. DOMAIN t = 1..n /\ t = [i \in 1..n |-> t[i]] /\ \A i \in 1..n : t[i] = s[i]
  BY <1>3
<1>5. IsList(t) /\ Len(t) = n
  BY <1>3, <1>4, ListMade
<1> QED
  BY <1>2, <1>4, <1>5

LEMMA AppendedList ==
    ASSUME NEW s, IsList(s), NEW v
    PROVE  /\ IsList(Append(s, v)) /\ Len(Append(s, v)) = Len(s) + 1
           /\ \A i \in 1..Len(s) : Append(s, v)[i] = s[i]
           /\ Append(s, v)[Len(s) + 1] = v
<1> DEFINE A == {s[i] : i \in DOMAIN s}
<1>1. s \in Seq(A)
  BY DEF IsList
<1> HIDE DEF A
<1>2. s \in Seq(A \cup {v})
  BY <1>1
<1>3. PICK t : t = Append(s, v)
  OBVIOUS
<1>4. /\ t \in Seq(A \cup {v}) /\ Len(t) = Len(s) + 1
      /\ \A i \in 1..Len(s) : t[i] = s[i]
      /\ t[Len(s) + 1] = v
  BY <1>2, <1>3
<1>5. Len(t) \in Nat /\ DOMAIN t = 1..Len(t) /\ t = [i \in 1..Len(t) |-> t[i]]
  BY <1>4
<1>6. IsList(t)
  BY <1>5, ListMade
<1> QED
  BY <1>3, <1>4, <1>6

LEMMA FrameParts ==
    ASSUME NEW f, IsFrame(f)
    PROVE  /\ \A v : /\ IsFrame([f EXCEPT !.at = v]) /\ [f EXCEPT !.at = v].pair = f.pair
                     /\ [f EXCEPT !.at = v].at = v /\ [f EXCEPT !.at = v].cuts = f.cuts
                     /\ [f EXCEPT !.at = v].dependents = f.dependents
           /\ \A v : /\ IsFrame([f EXCEPT !.cuts = v]) /\ [f EXCEPT !.cuts = v].pair = f.pair
                     /\ [f EXCEPT !.cuts = v].at = f.at /\ [f EXCEPT !.cuts = v].cuts = v
                     /\ [f EXCEPT !.cuts = v].dependents = f.dependents
           /\ \A v : /\ IsFrame([f EXCEPT !.mark = v]) /\ [f EXCEPT !.mark = v].pair = f.pair
                     /\ [f EXCEPT !.mark = v].at = f.at /\ [f EXCEPT !.mark = v].cuts = f.cuts
                     /\ [f EXCEPT !.mark = v].dependents = f.dependents
           /\ \A v : /\ IsFrame([f EXCEPT !.dependents = v])
                     /\ [f EXCEPT !.dependents = v].pair = f.pair
                     /\ [f EXCEPT !.dependents = v].at = f.at
                     /\ [f EXCEPT !.dependents = v].cuts = f.cuts
                     /\ [f EXCEPT !.dependents = v].dependents = v
BY DEF IsFrame

\* A list of frames.
Frames(stk) == IsList(stk) /\ Len(stk) >= 1 /\ \A i \in DOMAIN stk : IsFrame(stk[i])

\* Two lists of frames that differ in how far the last one got.
LEMMA ResumedFrames ==
    ASSUME NEW stk, Frames(stk)
    PROVE  /\ Frames(Resumed(stk)) /\ Len(Resumed(stk)) = Len(stk)
           /\ \A i \in DOMAIN stk :
                 /\ Resumed(stk)[i].pair = stk[i].pair /\ Resumed(stk)[i].cuts = stk[i].cuts
                 /\ Resumed(stk)[i].dependents = stk[i].dependents
                 /\ Resumed(stk)[i].at = IF i = Len(stk) THEN stk[i].at + 1 ELSE stk[i].at
<1>1. PICK n : n = Len(stk)
  OBVIOUS
<1>2. n \in Nat /\ DOMAIN stk = 1..n /\ n \in DOMAIN stk
  BY <1>1, ListParts DEF Frames
<1>3. PICK v : v = stk[n].at + 1
  OBVIOUS
<1>6. PICK f : f = [stk[n] EXCEPT !.at = v]
  OBVIOUS
<1>4. Resumed(stk) = [stk EXCEPT ![n] = f]
  BY <1>1, <1>3, <1>6 DEF Resumed
<1>8. IsFrame(stk[n])
  BY <1>2 DEF Frames
<1>5. /\ IsFrame(f) /\ f.pair = stk[n].pair /\ f.at = v
      /\ f.cuts = stk[n].cuts /\ f.dependents = stk[n].dependents
  BY <1>6, <1>8, FrameParts
<1>9. PICK new : new = [stk EXCEPT ![n] = f]
  OBVIOUS
<1>7. /\ IsList(new) /\ Len(new) = n /\ DOMAIN new = DOMAIN stk
      /\ \A i \in DOMAIN stk : new[i] = IF i = n THEN f ELSE stk[i]
  BY <1>1, <1>2, <1>9, Altered DEF Frames
<1> QED
  BY <1>1, <1>2, <1>3, <1>4, <1>5, <1>7, <1>9 DEF Frames

\* The last frame was cut at some depths.
CutAt(old, new, cuts) ==
    /\ Frames(new) /\ Len(new) = Len(old)
    /\ \A i \in DOMAIN old :
          /\ new[i].pair = old[i].pair /\ new[i].at = old[i].at
          /\ new[i].dependents = old[i].dependents
          /\ new[i].cuts = IF i = Len(old) THEN old[i].cuts \cup Below(cuts, Len(old))
                           ELSE old[i].cuts

LEMMA DependingFrames ==
    ASSUME NEW stk, Frames(stk), NEW cuts
    PROVE  CutAt(stk, Depending(stk, cuts), cuts)
<1>1. PICK n : n = Len(stk)
  OBVIOUS
<1>2. n \in Nat /\ DOMAIN stk = 1..n /\ n \in DOMAIN stk
  BY <1>1, ListParts DEF Frames
<1>3. PICK v : v = stk[n].cuts \cup Below(cuts, n)
  OBVIOUS
<1>6. PICK f : f = [stk[n] EXCEPT !.cuts = v]
  OBVIOUS
<1>4. Depending(stk, cuts) = [stk EXCEPT ![n] = f]
  BY <1>1, <1>3, <1>6 DEF Depending
<1>8. IsFrame(stk[n])
  BY <1>2 DEF Frames
<1>5. /\ IsFrame(f) /\ f.pair = stk[n].pair /\ f.cuts = v
      /\ f.at = stk[n].at /\ f.dependents = stk[n].dependents
  BY <1>6, <1>8, FrameParts
<1>9. PICK new : new = [stk EXCEPT ![n] = f]
  OBVIOUS
<1>7. /\ IsList(new) /\ Len(new) = n /\ DOMAIN new = DOMAIN stk
      /\ \A i \in DOMAIN stk : new[i] = IF i = n THEN f ELSE stk[i]
  BY <1>1, <1>2, <1>9, Altered DEF Frames
<1> QED
  BY <1>1, <1>2, <1>3, <1>4, <1>5, <1>7, <1>9 DEF Frames, CutAt

\* The top got past its step, cut at some depths.
GotPast(old, new, cuts) ==
    /\ Frames(new) /\ Len(new) = Len(old)
    /\ \A i \in DOMAIN old :
          /\ new[i].pair = old[i].pair /\ new[i].dependents = old[i].dependents
          /\ new[i].cuts = IF i = Len(old) THEN old[i].cuts \cup Below(cuts, Len(old))
                           ELSE old[i].cuts
          /\ new[i].at = IF i = Len(old) THEN old[i].at + 1 ELSE old[i].at

LEMMA DependingResumed ==
    ASSUME NEW old, Frames(old), NEW cuts
    PROVE  GotPast(old, Resumed(Depending(old, cuts)), cuts)
<1>1. PICK mid, new, n : mid = Depending(old, cuts) /\ new = Resumed(mid) /\ n = Len(old)
  OBVIOUS
<1>2. n \in Nat /\ DOMAIN old = 1..n
  BY <1>1, ListParts DEF Frames
<1>3. /\ Frames(mid) /\ Len(mid) = n
      /\ \A i \in DOMAIN old :
            /\ mid[i].pair = old[i].pair /\ mid[i].dependents = old[i].dependents
            /\ mid[i].at = old[i].at
            /\ mid[i].cuts = IF i = n THEN old[i].cuts \cup Below(cuts, n) ELSE old[i].cuts
  <2>1. CutAt(old, mid, cuts)
    BY <1>1, DependingFrames
  <2>2. Frames(mid) /\ Len(mid) = n
    BY <1>1, <2>1 DEF CutAt
  <2>3. ASSUME NEW i \in DOMAIN old
        PROVE  /\ mid[i].pair = old[i].pair /\ mid[i].dependents = old[i].dependents
               /\ mid[i].at = old[i].at
               /\ mid[i].cuts = IF i = n THEN old[i].cuts \cup Below(cuts, n) ELSE old[i].cuts
    BY <1>1, <2>1 DEF CutAt
  <2> QED
    BY <2>2, <2>3
<1>4. DOMAIN mid = 1..n
  BY <1>3, ListParts DEF Frames
<1>5. /\ Frames(new) /\ Len(new) = n
      /\ \A i \in DOMAIN mid :
            /\ new[i].pair = mid[i].pair /\ new[i].dependents = mid[i].dependents
            /\ new[i].cuts = mid[i].cuts
            /\ new[i].at = IF i = n THEN mid[i].at + 1 ELSE mid[i].at
  <2>1. Frames(mid) /\ new = Resumed(mid)
    BY <1>1, <1>3
  <2>2. /\ Frames(new) /\ Len(new) = Len(mid)
        /\ \A i \in DOMAIN mid :
              /\ new[i].pair = mid[i].pair /\ new[i].dependents = mid[i].dependents
              /\ new[i].cuts = mid[i].cuts
              /\ new[i].at = IF i = Len(mid) THEN mid[i].at + 1 ELSE mid[i].at
    BY <2>1, ResumedFrames
  <2> QED
    BY <1>3, <2>2
<1>6. ASSUME NEW i \in DOMAIN old
      PROVE  /\ new[i].pair = old[i].pair /\ new[i].dependents = old[i].dependents
             /\ new[i].cuts = IF i = n THEN old[i].cuts \cup Below(cuts, n) ELSE old[i].cuts
             /\ new[i].at = IF i = n THEN old[i].at + 1 ELSE old[i].at
  <2>1. i \in DOMAIN mid
    BY <1>2, <1>4
  <2> QED
    BY <1>3, <1>5, <2>1
<1>7. GotPast(old, new, cuts)
  <2>1. Frames(new) /\ Len(new) = Len(old)
    BY <1>1, <1>5
  <2>2. ASSUME NEW i \in DOMAIN old
        PROVE  /\ new[i].pair = old[i].pair /\ new[i].dependents = old[i].dependents
               /\ new[i].cuts = IF i = Len(old) THEN old[i].cuts \cup Below(cuts, Len(old))
                                ELSE old[i].cuts
               /\ new[i].at = IF i = Len(old) THEN old[i].at + 1 ELSE old[i].at
    BY <1>1, <1>6
  <2> QED
    BY <2>1, <2>2 DEF GotPast
<1> QED
  BY <1>1, <1>7

LEMMA MarkedFrames ==
    ASSUME Frames(stack)
    PROVE  /\ Frames(Marked) /\ Len(Marked) = Len(stack)
           /\ \A i \in DOMAIN stack :
                 /\ Marked[i].pair = stack[i].pair /\ Marked[i].at = stack[i].at
                 /\ Marked[i].dependents = stack[i].dependents
                 /\ Marked[i].cuts = stack[i].cuts
<1>1. CASE Current.do = "visit"
  BY <1>1 DEF Marked
<1>2. CASE Current.do # "visit"
  <2>1. PICK n : n = Len(stack)
    OBVIOUS
  <2>2. n \in Nat /\ DOMAIN stack = 1..n /\ n \in DOMAIN stack
    BY <2>1, ListParts DEF Frames
  <2>3. PICK v : v = [log |-> Len(log), warnings |-> Len(warnings), truncated |-> truncated]
    OBVIOUS
  <2>4. PICK f : f = [stack[n] EXCEPT !.mark = v]
    OBVIOUS
  <2>5. Marked = [stack EXCEPT ![n] = f]
    BY <1>2, <2>1, <2>3, <2>4 DEF Marked
  <2>6. /\ IsFrame(f) /\ f.pair = stack[n].pair /\ f.cuts = stack[n].cuts
        /\ f.at = stack[n].at /\ f.dependents = stack[n].dependents
    BY <2>2, <2>4, FrameParts DEF Frames
  <2> QED
    BY <2>1, <2>2, <2>5, <2>6, Altered DEF Frames
<1> QED
  BY <1>1, <1>2

\* A stack that lost its top, or whose top got past one more step that is met.
LEMMA Keeps ==
    ASSUME World, Framed(stack), Linked(stack), Passed(stack),
           NEW stk, Frames(stk), NEW m, m = Len(stk), m <= Len(stack),
           \A i \in 1..m : stk[i].pair = stack[i].pair /\ stk[i].dependents \subseteq Pair,
           \A i \in 1..(m - 1) : stk[i].at = stack[i].at /\ stk[i].cuts = stack[i].cuts,
           stack[m].cuts \subseteq stk[m].cuts, stk[m].cuts \subseteq 2..(m - 1),
           \/ stk[m].at = stack[m].at
           \/ /\ stk[m].at = stack[m].at + 1 /\ stack[m].at <= Len(Todo(stack[m]))
              /\ Met(Todo(stack[m])[stack[m].at], Relies(Ground(stk, m)))
    PROVE  Framed(stk) /\ Linked(stk) /\ Passed(stk)
<1>1. PICK n : n = Len(stack)
  OBVIOUS
<1>2. /\ m \in Nat /\ n \in Nat /\ m >= 1 /\ m <= n
      /\ DOMAIN stk = 1..m /\ DOMAIN stack = 1..n
  BY <1>1, ListParts DEF Frames, Framed
<1>3. ASSUME NEW i \in 1..m
      PROVE  /\ stk[i].pair \in Pair \/ stk[i].pair = NoPair
             /\ Todo(stk[i]) = Todo(stack[i]) /\ Len(Todo(stack[i])) \in Nat
             /\ DOMAIN Todo(stack[i]) = 1..Len(Todo(stack[i]))
             /\ \A j \in DOMAIN Todo(stack[i]) : IsStep(Todo(stack[i])[j])
             /\ stack[i].at \in 1..(Len(Todo(stack[i])) + 1)
             /\ stack[i].cuts \subseteq 2..(i - 1)
             /\ stk[i].cuts \subseteq 2..(i - 1) /\ stack[i].cuts \subseteq stk[i].cuts
             /\ i > 1 => stk[i].pair \in Pair
  <2>1. /\ i \in DOMAIN stack /\ stk[i].pair = stack[i].pair
        /\ i = 1 => stack[i].pair = NoPair
        /\ i > 1 => stack[i].pair \in Pair
        /\ stack[i].at \in 1..(Len(Todo(stack[i])) + 1)
        /\ stack[i].cuts \subseteq 2..(i - 1)
    BY <1>2 DEF Framed
  <2>2. i = 1 \/ i > 1
    BY <1>2
  <2>3. stk[i].cuts \subseteq 2..(i - 1) /\ stack[i].cuts \subseteq stk[i].cuts
    <3>1. CASE i = m
      BY <3>1
    <3>2. CASE i \in 1..(m - 1)
      BY <2>1, <3>2
    <3> QED
      BY <1>2, <3>1, <3>2
  <2> QED
    BY <2>1, <2>2, <2>3, TodoSteps, SameTodo
<1>4. Framed(stk)
  <2>1. ASSUME NEW i \in 1..m
        PROVE  stk[i].at \in 1..(Len(Todo(stk[i])) + 1)
    <3>1. CASE i = m
      BY <1>3, <3>1
    <3>2. CASE i \in 1..(m - 1)
      BY <1>3, <3>2
    <3> QED
      BY <1>2, <3>1, <3>2
  <2>2. stk[1].pair = NoPair
    BY <1>2 DEF Framed
  <2> QED
    BY <1>2, <1>3, <2>1, <2>2 DEF Framed, Frames
<1>5. Linked(stk)
  <2>1. ASSUME NEW i \in 1..(m - 1)
        PROVE  Awaits(stk[i], stk[i + 1].pair)
    <3>1. i \in 1..(n - 1) /\ i \in 1..m /\ i + 1 \in 1..m
      BY <1>2
    <3>2. Awaits(stack[i], stack[i + 1].pair)
      BY <1>1, <3>1 DEF Linked
    <3>3. stk[i].at = stack[i].at /\ stk[i + 1].pair = stack[i + 1].pair
          /\ Todo(stk[i]) = Todo(stack[i])
      BY <1>3, <3>1
    <3> QED
      BY <3>2, <3>3 DEF Awaits
  <2> QED
    BY <2>1 DEF Linked
<1>6. ASSUME NEW k \in 1..m
      PROVE  Ground(stack, k) \subseteq Ground(stk, k)
  <2>1. \A i \in stack[k].cuts : i \in 1..m /\ i \in stk[k].cuts
    BY <1>2, <1>3
  <2>2. \A i \in stack[k].cuts : stk[i].pair = stack[i].pair
    BY <2>1
  <2> QED
    BY <1>2, <2>1, <2>2 DEF Ground, PairsAt
<1>7. ASSUME NEW k \in 1..m, NEW j \in 1..(stk[k].at - 1)
      PROVE  Met(Todo(stk[k])[j], Relies(Ground(stk, k)))
  <2> DEFINE length == Len(Todo(stack[k]))
             before == stack[k].at
             after == stk[k].at
  <2>3. /\ length \in Nat /\ before \in 1..(length + 1)
        /\ \A i \in 1..length : IsStep(Todo(stack[k])[i])
        /\ j \in 1..(after - 1)
    BY <1>3
  <2> HIDE DEF length, before, after
  <2>1. CASE j \in 1..(stack[k].at - 1)
    <3>1. Met(Todo(stack[k])[j], Relies(Ground(stack, k)))
      BY <1>2, <2>1 DEF Passed
    <3>2. Relies(Ground(stack, k)) \subseteq Relies(Ground(stk, k))
      BY <1>6, ReliesGrows
    <3>3. IsStep(Todo(stack[k])[j])
      <4>1. j \in 1..length
        BY <2>1, <2>3 DEF before
      <4> QED
        BY <2>3, <4>1
    <3>4. Met(Todo(stack[k])[j], Relies(Ground(stk, k)))
      BY <3>1, <3>2, <3>3, MetGrows
    <3> QED
      BY <1>3, <3>4
  <2>2. CASE j \notin 1..(stack[k].at - 1)
    <3>1. stk[k].at # stack[k].at
      BY <2>2
    <3>2. k = m
      BY <1>2, <3>1
    <3>3. j = stack[m].at
      <4>1. after = before + 1
        BY <3>1, <3>2 DEF before, after
      <4>2. j = before
        BY <2>2, <2>3, <4>1 DEF before
      <4> QED
        BY <3>2, <4>2 DEF before
    <3> QED
      BY <1>3, <3>1, <3>2, <3>3
  <2> QED
    BY <2>1, <2>2
<1>8. Passed(stk)
  BY <1>2, <1>7 DEF Passed
<1> QED
  BY <1>4, <1>5, <1>8

\* A proof stays one while no walk it was cut at is closed.
LEMMA ProofStays ==
    ASSUME NEW pair, NEW cuts, Proof(stack, pair, cuts), NEW stk, cuts \subseteq 2..Len(stk),
           \A i \in cuts : stk[i].pair = stack[i].pair
                           /\ stack[i].dependents \subseteq stk[i].dependents
    PROVE  Proof(stk, pair, cuts)
<1>1. PairsAt(stk, cuts) = PairsAt(stack, cuts)
  BY DEF PairsAt
<1> QED
  BY <1>1 DEF Proof

LEMMA JustifiedStays ==
    ASSUME Framed(stack), Justified(stack, proven), NEW stk, Len(stk) >= Len(stack),
           Len(stk) \in Nat,
           \A i \in DOMAIN stack : stk[i].pair = stack[i].pair
                                   /\ stk[i].dependents = stack[i].dependents,
           NEW prv, \A pair \in DOMAIN prv : pair \in DOMAIN proven
                                             /\ prv[pair].cuts = proven[pair].cuts
    PROVE  Justified(stk, prv)
<1> SUFFICES ASSUME NEW pair \in DOMAIN prv
             PROVE  pair \in Pair /\ Proof(stk, pair, prv[pair].cuts)
  BY DEF Justified
<1>1. PICK cuts : cuts = proven[pair].cuts
  OBVIOUS
<1>2. pair \in Pair /\ Proof(stack, pair, cuts) /\ prv[pair].cuts = cuts
  BY <1>1 DEF Justified
<1>3. DOMAIN stack = 1..Len(stack) /\ Len(stack) \in Nat
  BY ListParts DEF Framed
<1>4. cuts \subseteq 2..Len(stack)
  BY <1>2 DEF Proof
<1>5. cuts \subseteq 2..Len(stk) /\ \A i \in cuts : i \in DOMAIN stack
  BY <1>3, <1>4
<1>6. Proof(stk, pair, cuts)
  BY <1>2, <1>5, ProofStays
<1> QED
  BY <1>2, <1>6

LEMMA TopFacts ==
    ASSUME IInv
    PROVE  /\ Len(stack) \in Nat /\ Len(stack) >= 1 /\ DOMAIN stack = 1..Len(stack)
           /\ Len(stack) \in DOMAIN stack /\ Frames(stack)
           /\ Top.pair \in Pair \/ Top.pair = NoPair
           /\ Len(Todo(Top)) \in Nat /\ DOMAIN Todo(Top) = 1..Len(Todo(Top))
           /\ Top.at \in 1..(Len(Todo(Top)) + 1)
           /\ ~AtEnd => Top.at <= Len(Todo(Top)) /\ IsStep(Current)
           /\ \A i \in DOMAIN stack : stack[i].dependents \subseteq Pair
           /\ Top.cuts \subseteq 2..(Len(stack) - 1)
           /\ Len(stack) = 1 => Top.pair = NoPair
           /\ Len(stack) > 1 => Top.pair \in Pair
<1>1. Framed(stack) /\ World
  BY DEF IInv, Walking
<1>2. Len(stack) \in Nat /\ Len(stack) >= 1 /\ DOMAIN stack = 1..Len(stack)
  BY <1>1, ListParts DEF Framed
<1>3. PICK n : n = Len(stack)
  OBVIOUS
<1>4. /\ n = 1 => stack[n].pair = NoPair
      /\ n > 1 => stack[n].pair \in Pair
      /\ stack[n].cuts \subseteq 2..(n - 1)
      /\ stack[n].at \in 1..(Len(Todo(stack[n])) + 1)
      /\ \A i \in DOMAIN stack : IsFrame(stack[i]) /\ stack[i].dependents \subseteq Pair
  BY <1>1, <1>2, <1>3 DEF Framed
<1>5. stack[n].pair \in Pair \/ stack[n].pair = NoPair
  BY <1>2, <1>3, <1>4
<1>6. /\ Len(Todo(stack[n])) \in Nat /\ DOMAIN Todo(stack[n]) = 1..Len(Todo(stack[n]))
      /\ \A i \in DOMAIN Todo(stack[n]) : IsStep(Todo(stack[n])[i])
  BY <1>1, <1>5, TodoSteps
<1>7. Top = stack[n]
  BY <1>3 DEF Top
<1>8. ~AtEnd => Top.at <= Len(Todo(Top)) /\ IsStep(Current)
  BY <1>4, <1>6, <1>7 DEF AtEnd, Current
<1>9. Frames(stack)
  BY <1>1, <1>4 DEF Frames, Framed
<1> QED
  BY <1>2, <1>3, <1>4, <1>5, <1>6, <1>7, <1>8, <1>9

-----------------------------------------------------------------------------
\* The steps, one by one.

\* The top got past its step.
LEMMA Proceeds ==
    ASSUME IInv, ~AtEnd, NEW cuts, NEW stk, GotPast(stack, stk, cuts),
           Met(Current, Relies(PairsAt(stack, Top.cuts \cup Below(cuts, Len(stack)))
                                   \cup {Top.pair})),
           NEW prv, \A pair \in DOMAIN prv : pair \in DOMAIN proven
                                             /\ prv[pair].cuts = proven[pair].cuts
    PROVE  Walking(stk, prv, failed, FALSE)
<1>1. PICK n : n = Len(stack)
  OBVIOUS
<1>9. /\ Frames(stk) /\ Len(stk) = n
      /\ \A i \in DOMAIN stack :
            /\ stk[i].pair = stack[i].pair /\ stk[i].dependents = stack[i].dependents
            /\ stk[i].cuts = IF i = n THEN stack[i].cuts \cup Below(cuts, n) ELSE stack[i].cuts
            /\ stk[i].at = IF i = n THEN stack[i].at + 1 ELSE stack[i].at
  BY <1>1 DEF GotPast
<1>2. /\ n \in Nat /\ n >= 1 /\ DOMAIN stack = 1..n /\ n \in DOMAIN stack /\ Top = stack[n]
      /\ Top.at <= Len(Todo(Top)) /\ Top.cuts \subseteq 2..(n - 1)
      /\ \A i \in DOMAIN stack : stack[i].dependents \subseteq Pair
  BY <1>1, TopFacts DEF Top
<1>3. Below(cuts, n) \subseteq 2..(n - 1)
  BY DEF Below
<1>4. stk[n].cuts = Top.cuts \cup Below(cuts, n) /\ stk[n].pair = Top.pair
      /\ stk[n].at = Top.at + 1
  BY <1>2, <1>9
<1>5. Ground(stk, n) = PairsAt(stack, Top.cuts \cup Below(cuts, n)) \cup {Top.pair}
  <2>1. PICK C : C = Top.cuts \cup Below(cuts, n)
    OBVIOUS
  <2>4. \A i \in C : i \in DOMAIN stack
    BY <1>2, <1>3, <2>1
  <2>2. \A i \in C : stk[i].pair = stack[i].pair
    BY <1>9, <2>4
  <2>3. PairsAt(stk, C) = PairsAt(stack, C)
    BY <2>2 DEF PairsAt
  <2> QED
    BY <1>4, <2>1, <2>3 DEF Ground
<1>6. Met(Todo(stack[n])[stack[n].at], Relies(Ground(stk, n)))
  BY <1>1, <1>2, <1>5 DEF Current
<1>7. Framed(stk) /\ Linked(stk) /\ Passed(stk)
  <2>1. World /\ Framed(stack) /\ Linked(stack) /\ Passed(stack)
    BY DEF IInv, Walking
  <2>2. \A i \in 1..n : stk[i].pair = stack[i].pair /\ stk[i].dependents \subseteq Pair
    BY <1>2, <1>9
  <2>3. \A i \in 1..(n - 1) : stk[i].at = stack[i].at /\ stk[i].cuts = stack[i].cuts
    <3>1. \A i \in 1..(n - 1) : i \in DOMAIN stack /\ i # n
      BY <1>2
    <3> QED
      BY <1>9, <3>1
  <2>4. stack[n].cuts \subseteq stk[n].cuts /\ stk[n].cuts \subseteq 2..(n - 1)
    BY <1>2, <1>3, <1>4
  <2>5. stk[n].at = stack[n].at + 1 /\ stack[n].at <= Len(Todo(stack[n]))
    BY <1>2, <1>4
  <2>6. n = Len(stk) /\ n <= Len(stack) /\ Frames(stk)
    BY <1>1, <1>2, <1>9
  <2> QED
    BY <1>6, <2>1, <2>2, <2>3, <2>4, <2>5, <2>6, Keeps
<1>8. Justified(stk, prv)
  <2>1. Framed(stack) /\ Justified(stack, proven)
    BY DEF IInv, Walking
  <2>2. Len(stk) >= Len(stack) /\ Len(stk) \in Nat
    BY <1>1, <1>2, <1>9
  <2>3. \A i \in DOMAIN stack : stk[i].pair = stack[i].pair
                                /\ stk[i].dependents = stack[i].dependents
    BY <1>9
  <2> QED
    BY <2>1, <2>2, <2>3, JustifiedStays
<1> QED
  BY <1>7, <1>8 DEF IInv, Walking, Failing

\* What Proceeds asks of a stack, for the two ways it is written.
LEMMA ResumedProceeds ==
    ASSUME IInv, ~AtEnd, \A S : Met(Current, S),
           NEW prv, \A pair \in DOMAIN prv : pair \in DOMAIN proven
                                             /\ prv[pair].cuts = proven[pair].cuts
    PROVE  Walking(Resumed(stack), prv, failed, FALSE)
<1>1. PICK stk : stk = Resumed(stack)
  OBVIOUS
<1>2. Below({}, Len(stack)) = {}
  BY DEF Below
<1>3. /\ Frames(stk) /\ Len(stk) = Len(stack)
      /\ \A i \in DOMAIN stack :
            /\ stk[i].pair = stack[i].pair /\ stk[i].dependents = stack[i].dependents
            /\ stk[i].cuts = stack[i].cuts
            /\ stk[i].at = IF i = Len(stack) THEN stack[i].at + 1 ELSE stack[i].at
  BY <1>1, TopFacts, ResumedFrames
<1>4. \A i \in DOMAIN stack :
         stk[i].cuts = IF i = Len(stack) THEN stack[i].cuts \cup Below({}, Len(stack))
                       ELSE stack[i].cuts
  BY <1>2, <1>3
<1>6. GotPast(stack, stk, {})
  BY <1>3, <1>4 DEF GotPast
<1>7. Top.cuts \cup Below({}, Len(stack)) = Top.cuts
  BY <1>2
<1>5. Walking(stk, prv, failed, FALSE)
  BY <1>6, Proceeds
<1> QED
  BY <1>1, <1>5

LEMMA DependingProceeds ==
    ASSUME IInv, ~AtEnd, NEW cuts,
           Met(Current, Relies(PairsAt(stack, Top.cuts \cup Below(cuts, Len(stack)))
                                   \cup {Top.pair}))
    PROVE  Walking(Resumed(Depending(stack, cuts)), proven, failed, FALSE)
BY TopFacts, DependingResumed, Proceeds

LEMMA PassOverKeeps ==
    ASSUME IInv, PassOver PROVE Walking(stack', proven', failed', failing')
<1>1. ~AtEnd /\ Current.do = "skip" /\ failing' = FALSE /\ proven' = proven /\ failed' = failed
  BY DEF PassOver, Meets, IInv, Walking, Failing
<1>2. stack' = Resumed(stack)
  BY DEF PassOver
<1>3. \A S : Met(Current, S)
  BY <1>1 DEF Met
<1> QED
  BY <1>1, <1>2, <1>3, ResumedProceeds

LEMMA WarnNullKeeps ==
    ASSUME IInv, WarnNull PROVE Walking(stack', proven', failed', failing')
<1>1. ~AtEnd /\ Current.do = "warn" /\ failing' = FALSE /\ proven' = proven /\ failed' = failed
  BY DEF WarnNull, Meets, IInv, Walking, Failing
<1>2. stack' = Resumed(stack)
  BY DEF WarnNull
<1>3. \A S : Met(Current, S)
  BY <1>1 DEF Met
<1> QED
  BY <1>1, <1>2, <1>3, ResumedProceeds

LEMMA ProbeFailsKeeps ==
    ASSUME IInv, ProbeFails PROVE Walking(stack', proven', failed', failing')
<1>1. ~AtEnd /\ Current.do = "probe" /\ failing' = FALSE /\ failed' = failed
  BY DEF ProbeFails, Probing
<1>2. stack' = Resumed(stack)
  BY DEF ProbeFails
<1>3. \A S : Met(Current, S)
  BY <1>1 DEF Met
<1>4. \A pair \in DOMAIN proven' : pair \in DOMAIN proven
                                   /\ (proven')[pair].cuts = proven[pair].cuts
  BY DEF ProbeFails, Undone, Without
<1> QED
  BY <1>1, <1>2, <1>3, <1>4, ResumedProceeds

LEMMA AnswerActiveKeeps ==
    ASSUME IInv, AnswerActive PROVE Walking(stack', proven', failed', failing')
<1>1. ~AtEnd /\ failing' = FALSE /\ proven' = proven /\ failed' = failed
      /\ Current.do \in {"visit", "probe"}
  BY DEF AnswerActive, Meets, IInv, Walking, Failing
<1>2. PICK cuts : cuts = DepthsOf({Current.pair})
  OBVIOUS
<1>3. stack' = Resumed(Depending(stack, cuts))
  BY <1>2 DEF AnswerActive
<1>4. PICK n : n = Len(stack) /\ n \in Nat
  BY TopFacts
<1>5. PICK i \in 2..n : stack[i].pair = Current.pair
  BY <1>4 DEF AnswerActive, Assumed, Active
<1> DEFINE A == PairsAt(stack, Top.cuts \cup Below(cuts, n)) \cup {Top.pair}
<1>6. Current.pair \in A
  <2>1. CASE i = n
    BY <1>4, <1>5, <2>1 DEF Top
  <2>2. CASE i # n
    <3>1. i \in Below(cuts, n)
      BY <1>2, <1>4, <1>5, <2>2 DEF Below, DepthsOf
    <3> QED
      BY <1>5, <3>1 DEF PairsAt
  <2> QED
    BY <2>1, <2>2
<1> HIDE DEF A
<1>7. Current.pair \in Pair
  BY <1>1, TopFacts DEF IsStep
<1>8. Met(Current, Relies(A))
  BY <1>1, <1>6, <1>7, ReliesOnAssumed DEF Met
<1>9. Walking(Resumed(Depending(stack, cuts)), proven, failed, FALSE)
  BY <1>1, <1>4, <1>8, DependingProceeds DEF A
<1> QED
  BY <1>1, <1>3, <1>9

LEMMA AnswerProvenKeeps ==
    ASSUME IInv, AnswerProven PROVE Walking(stack', proven', failed', failing')
<1>1. ~AtEnd /\ failing' = FALSE /\ proven' = proven /\ failed' = failed
      /\ Current.do \in {"visit", "probe"} /\ Current.pair \in DOMAIN proven
  BY DEF AnswerProven, Meets, IInv, Walking, Failing
<1>2. PICK cuts : /\ proven[Current.pair].cuts \subseteq cuts
                  /\ stack' = Resumed(Depending(stack, cuts))
  BY DEF AnswerProven
<1>3. PICK known : known = proven[Current.pair].cuts
  OBVIOUS
<1>4. PICK n : n = Len(stack) /\ n \in Nat
  BY TopFacts
<1>5. known \subseteq 2..n /\ Current.pair \in Relies(PairsAt(stack, known))
  BY <1>1, <1>3, <1>4 DEF IInv, Walking, Justified, Proof
<1> DEFINE A == PairsAt(stack, Top.cuts \cup Below(cuts, n)) \cup {Top.pair}
<1>6. PairsAt(stack, known) \subseteq A
  <2>1. ASSUME NEW i \in known
        PROVE  stack[i].pair \in A
    <3>1. CASE i = n
      BY <1>4, <3>1 DEF Top
    <3>2. CASE i # n
      <4>1. i \in Below(cuts, n)
        BY <1>2, <1>3, <1>4, <1>5, <3>2 DEF Below
      <4> QED
        BY <4>1 DEF PairsAt
    <3> QED
      BY <3>1, <3>2
  <2> HIDE DEF A
  <2> QED
    BY <2>1 DEF PairsAt
<1> HIDE DEF A
<1>7. Current.pair \in Relies(A)
  BY <1>5, <1>6, ReliesGrows DEF IInv
<1>8. Met(Current, Relies(A))
  BY <1>1, <1>7 DEF Met
<1>9. Walking(Resumed(Depending(stack, cuts)), proven, failed, FALSE)
  BY <1>1, <1>4, <1>8, DependingProceeds DEF A
<1> QED
  BY <1>1, <1>2, <1>9

\* The same walks, no further than they were.
LEMMA Waits ==
    ASSUME IInv, NEW stk, Frames(stk), Len(stk) = Len(stack),
           \A i \in DOMAIN stack :
              /\ stk[i].pair = stack[i].pair /\ stk[i].dependents = stack[i].dependents
              /\ stk[i].cuts = stack[i].cuts /\ stk[i].at = stack[i].at
    PROVE  /\ Framed(stk) /\ Linked(stk) /\ Passed(stk) /\ Justified(stk, proven)
           /\ Stuck(Top) => Failing(stk, TRUE)
<1>1. PICK n : n = Len(stack)
  OBVIOUS
<1>2. /\ n \in Nat /\ n >= 1 /\ DOMAIN stack = 1..n /\ n \in DOMAIN stack /\ Top = stack[n]
      /\ Top.cuts \subseteq 2..(n - 1)
      /\ \A i \in DOMAIN stack : stack[i].dependents \subseteq Pair
  BY <1>1, TopFacts DEF Top
<1>3. Framed(stk) /\ Linked(stk) /\ Passed(stk)
  <2>1. World /\ Framed(stack) /\ Linked(stack) /\ Passed(stack)
    BY DEF IInv, Walking
  <2>2. \A i \in 1..n : stk[i].pair = stack[i].pair /\ stk[i].dependents \subseteq Pair
    BY <1>2
  <2>3. \A i \in 1..(n - 1) : stk[i].at = stack[i].at /\ stk[i].cuts = stack[i].cuts
    <3>1. \A i \in 1..(n - 1) : i \in DOMAIN stack
      BY <1>2
    <3> QED
      BY <3>1
  <2>4. stack[n].cuts \subseteq stk[n].cuts /\ stk[n].cuts \subseteq 2..(n - 1)
    BY <1>2
  <2>5. stk[n].at = stack[n].at
    BY <1>2
  <2>6. n = Len(stk) /\ n <= Len(stack)
    BY <1>1, <1>2
  <2> QED
    BY <2>1, <2>2, <2>3, <2>4, <2>5, <2>6, Keeps
<1>4. Justified(stk, proven)
  <2>1. Framed(stack) /\ Justified(stack, proven)
    BY DEF IInv, Walking
  <2>2. Len(stk) >= Len(stack) /\ Len(stk) \in Nat
    BY <1>1, <1>2
  <2> QED
    BY <2>1, <2>2, JustifiedStays
<1>5. Stuck(Top) => Failing(stk, TRUE)
  <2>1. stk[n].pair = Top.pair /\ stk[n].at = Top.at /\ Len(stk) = n
    BY <1>1, <1>2
  <2>2. Todo(stk[n]) = Todo(Top)
    BY <2>1, SameTodo
  <2> QED
    BY <2>1, <2>2 DEF Stuck, Failing
<1> QED
  BY <1>3, <1>4, <1>5

LEMMA FindLackKeeps ==
    ASSUME IInv, FindLack PROVE Walking(stack', proven', failed', failing')
<1>1. /\ ~AtEnd /\ Current.do = "lack"
      /\ failing' = TRUE /\ proven' = proven /\ failed' = failed /\ stack' = stack
  BY DEF FindLack, Meets
<1>2. Stuck(Top)
  BY <1>1, TopFacts DEF Stuck, Met, Current
<1>3. Failing(stack, TRUE)
  BY <1>2 DEF Failing, Top
<1> QED
  BY <1>1, <1>3 DEF IInv, Walking

LEMMA AnswerFailedKeeps ==
    ASSUME IInv, AnswerFailed PROVE Walking(stack', proven', failed', failing')
<1>1. /\ ~AtEnd /\ Current.do \in {"visit", "probe"} /\ Current.pair \in DOMAIN failed
      /\ failing' = TRUE /\ proven' = proven /\ failed' = failed /\ stack' = Marked
  BY DEF AnswerFailed, Meets
<1>2. Current.pair \notin Holding
  BY <1>1 DEF IInv, Walking, Refuted
<1>3. Stuck(Top)
  BY <1>1, <1>2, TopFacts DEF Stuck, Met, Current
<1>4. PICK stk : stk = Marked
  OBVIOUS
<1>5. /\ Frames(stk) /\ Len(stk) = Len(stack)
      /\ \A i \in DOMAIN stack :
            /\ stk[i].pair = stack[i].pair /\ stk[i].dependents = stack[i].dependents
            /\ stk[i].cuts = stack[i].cuts /\ stk[i].at = stack[i].at
  BY <1>4, TopFacts, MarkedFrames
<1>6. /\ Framed(stk) /\ Linked(stk) /\ Passed(stk) /\ Justified(stk, proven)
      /\ Failing(stk, TRUE)
  BY <1>3, <1>5, Waits
<1> QED
  BY <1>1, <1>4, <1>6 DEF IInv, Walking

\* A pair that is neither known nor waited for is walked.
LEMMA DescendKeeps ==
    ASSUME IInv, Descend PROVE Walking(stack', proven', failed', failing')
<1>1. /\ ~AtEnd /\ Current.do \in {"visit", "probe"}
      /\ failing' = FALSE /\ proven' = proven /\ failed' = failed
  BY DEF Descend, Meets, IInv, Walking, Failing
<1>2. PICK mid, new : mid = Marked /\ new = Frame(Current.pair)
  OBVIOUS
<1>3. PICK stk : stk = Append(mid, new) /\ stk = stack'
  BY <1>2 DEF Descend
<1>4. PICK n : n = Len(stack)
  OBVIOUS
<1>5. /\ n \in Nat /\ n >= 1 /\ DOMAIN stack = 1..n
      /\ Top.at <= Len(Todo(Top)) /\ Top = stack[n] /\ IsStep(Current) /\ Frames(stack)
  BY <1>1, <1>4, TopFacts DEF Top
<1>6. /\ Frames(mid) /\ Len(mid) = n
      /\ \A i \in 1..n :
            /\ mid[i].pair = stack[i].pair /\ mid[i].dependents = stack[i].dependents
            /\ mid[i].cuts = stack[i].cuts /\ mid[i].at = stack[i].at
  BY <1>2, <1>4, <1>5, MarkedFrames
<1>7. /\ IsFrame(new) /\ new.pair = Current.pair /\ new.at = 1
      /\ new.cuts = {} /\ new.dependents = {}
  BY <1>2 DEF Frame, IsFrame
<1>8. /\ IsList(stk) /\ Len(stk) = n + 1 /\ stk[n + 1] = new
      /\ \A i \in 1..n : stk[i] = mid[i]
  <2>1. IsList(mid) /\ stk = Append(mid, new)
    BY <1>3, <1>6 DEF Frames
  <2>2. /\ IsList(stk) /\ Len(stk) = Len(mid) + 1 /\ stk[Len(mid) + 1] = new
        /\ \A i \in 1..Len(mid) : stk[i] = mid[i]
    BY <2>1, AppendedList
  <2> QED
    BY <1>6, <2>2
<1>9. DOMAIN stk = 1..(n + 1)
  BY <1>8, ListParts
<1>10. /\ Framed(mid) /\ Linked(mid) /\ Passed(mid) /\ Justified(mid, proven)
  BY <1>4, <1>5, <1>6, Waits
<1>11. Current.pair \in Pair /\ DOMAIN mid = 1..n
  BY <1>1, <1>5, <1>6, ListParts DEF IsStep, Frames
<1>12. Len(Todo(new)) \in Nat
  BY <1>7, <1>11, TodoSteps DEF IInv
<1>13. Framed(stk)
  <2>1. ASSUME NEW i \in 1..(n + 1)
        PROVE  /\ IsFrame(stk[i]) /\ (i > 1 => stk[i].pair \in Pair)
               /\ stk[i].cuts \subseteq 2..(i - 1) /\ stk[i].dependents \subseteq Pair
               /\ stk[i].at \in 1..(Len(Todo(stk[i])) + 1)
    <3>1. CASE i \in 1..n
      BY <1>8, <1>10, <1>11, <3>1 DEF Framed
    <3>2. CASE i = n + 1
      BY <1>7, <1>8, <1>11, <1>12, <3>2
    <3> QED
      BY <1>5, <3>1, <3>2
  <2>2. stk[1].pair = NoPair
    BY <1>5, <1>8, <1>10 DEF Framed
  <2> QED
    BY <1>5, <1>8, <1>9, <2>1, <2>2 DEF Framed
<1>14. Linked(stk)
  <2>1. ASSUME NEW i \in 1..n
        PROVE  Awaits(stk[i], stk[i + 1].pair)
    <3>1. CASE i = n
      <4>1. stk[n] = mid[n] /\ stk[n + 1].pair = Current.pair
        BY <1>5, <1>7, <1>8
      <4>2. mid[n].pair = Top.pair /\ mid[n].at = Top.at
        BY <1>5, <1>6
      <4>3. Todo(mid[n]) = Todo(Top)
        BY <4>2, SameTodo
      <4> QED
        BY <1>1, <1>5, <3>1, <4>1, <4>2, <4>3 DEF Awaits, Current
    <3>2. CASE i \in 1..(n - 1)
      <4>1. i + 1 \in 1..n
        BY <1>5, <3>2
      <4>2. Awaits(mid[i], mid[i + 1].pair)
        BY <1>6, <1>10, <3>2 DEF Linked
      <4> QED
        BY <1>8, <4>1, <4>2
    <3> QED
      BY <1>5, <3>1, <3>2
  <2>2. Len(stk) - 1 = n
    BY <1>5, <1>8
  <2> QED
    BY <2>1, <2>2 DEF Linked
<1>15. Passed(stk)
  <2>1. ASSUME NEW k \in 1..(n + 1), NEW j \in 1..(stk[k].at - 1)
        PROVE  Met(Todo(stk[k])[j], Relies(Ground(stk, k)))
    <3>1. k # n + 1
      BY <1>7, <1>8, <2>1
    <3>2. k \in 1..n /\ stk[k] = mid[k]
      BY <1>5, <1>8, <3>1
    <3>3. \A i \in stk[k].cuts : i \in 1..n
      BY <1>5, <1>10, <1>11, <3>2 DEF Framed
    <3>4. \A i \in stk[k].cuts : stk[i] = mid[i]
      BY <1>8, <3>3
    <3>5. Ground(stk, k) = Ground(mid, k)
      BY <3>2, <3>4 DEF Ground, PairsAt
    <3>6. Met(Todo(mid[k])[j], Relies(Ground(mid, k)))
      BY <1>10, <1>11, <3>2 DEF Passed
    <3> QED
      BY <3>2, <3>5, <3>6
  <2> QED
    BY <1>9, <2>1 DEF Passed
<1>16. Justified(stk, proven)
  <2>1. \A i \in DOMAIN stack : stk[i].pair = stack[i].pair
                                /\ stk[i].dependents = stack[i].dependents
    BY <1>5, <1>6, <1>8
  <2>2. Framed(stack) /\ Justified(stack, proven)
    BY DEF IInv, Walking
  <2>3. Len(stk) >= Len(stack) /\ Len(stk) \in Nat
    BY <1>4, <1>5, <1>8
  <2> QED
    BY <2>1, <2>2, <2>3, JustifiedStays
<1>17. Walking(stk, proven, failed, FALSE)
  BY <1>13, <1>14, <1>15, <1>16 DEF IInv, Walking, Failing
<1> QED
  BY <1>1, <1>3, <1>17

\* A proof cut at the walk that closes is among its dependents.
LEMMA Survives ==
    ASSUME IInv, Len(stack) > 1, NEW pair \in DOMAIN proven, pair \notin Top.dependents
    PROVE  proven[pair].cuts \subseteq 2..(Len(stack) - 1)
<1>1. PICK cuts : cuts = proven[pair].cuts
  OBVIOUS
<1>2. PICK n : n = Len(stack) /\ n \in Nat
  BY TopFacts
<1>3. /\ cuts \subseteq 2..n
      /\ \A i \in cuts : (\A j \in cuts : j <= i) => pair \in stack[i].dependents
  BY <1>1, <1>2 DEF IInv, Walking, Justified, Proof
<1>4. n \notin cuts
  <2>1. \A j \in cuts : j <= n
    BY <1>2, <1>3
  <2> QED
    BY <1>2, <1>3, <2>1 DEF Top
<1> QED
  BY <1>1, <1>2, <1>3, <1>4

LEMMA FinishFailsKeeps ==
    ASSUME IInv, FinishFails PROVE Walking(stack', proven', failed', failing')
<1>1. PICK n : n = Len(stack)
  OBVIOUS
<1>2. PICK m : m = n - 1
  OBVIOUS
<1>3. /\ n \in Nat /\ n > 1 /\ DOMAIN stack = 1..n /\ Top = stack[n] /\ Top.pair \in Pair
      /\ \A i \in DOMAIN stack : stack[i].dependents \subseteq Pair
      /\ Frames(stack) /\ m \in Nat /\ m >= 1
  BY <1>1, <1>2, TopFacts DEF FinishFails, Top
<1>4. Top.pair \notin Holding
  <2>1. Stuck(Top)
    BY DEF IInv, Walking, Failing, FinishFails, Top
  <2>2. Top.at <= Len(Todo(Top)) /\ ~Met(Todo(Top)[Top.at], Holding)
    <3>1. Len(Todo(Top)) \in Nat /\ Top.at \in 1..(Len(Todo(Top)) + 1)
      BY TopFacts
    <3>2. ~AtEnd
      BY <2>1, <3>1 DEF Stuck, AtEnd
    <3> QED
      BY <2>1, <3>2 DEF Stuck, FinishFails, Probing, Current
  <2>3. Top.at \in DOMAIN Todo(Top)
    BY <2>2, TopFacts
  <2>4. ~AllMet(Todo(Top), Holding)
    BY <2>2, <2>3 DEF AllMet
  <2>5. Todo(Top) = Obligations(Top.pair)
    BY <1>3, PairParts DEF Todo
  <2>6. ~Fits(Holding, Top.pair)
    BY <1>3, <2>4, <2>5, ObligationsAreTheRules DEF IInv
  <2> QED
    BY <2>6, HoldingIsTheLargest DEF IInv, Obeys
<1>5. PICK stk : stk = Front(stack)
  OBVIOUS
<1>6. Frames(stk) /\ Len(stk) = m /\ \A i \in 1..m : stk[i] = stack[i]
  <2>1. IsList(stk) /\ Len(stk) = m /\ \A i \in 1..m : stk[i] = stack[i]
    BY <1>1, <1>2, <1>3, <1>5, FrontList DEF Frames
  <2>2. DOMAIN stk = 1..m
    BY <2>1, ListParts
  <2> QED
    BY <1>3, <1>2, <2>1, <2>2 DEF Frames
<1>7. Framed(stk) /\ Linked(stk) /\ Passed(stk)
  <2>1. World /\ Framed(stack) /\ Linked(stack) /\ Passed(stack)
    BY DEF IInv, Walking
  <2>2. m \in DOMAIN stack /\ stk[m] = stack[m]
    BY <1>2, <1>3, <1>6
  <2>3. stack[m].cuts \subseteq 2..(m - 1)
    BY <2>1, <2>2 DEF Framed
  <2>4. \A i \in 1..m : stk[i].pair = stack[i].pair /\ stk[i].dependents \subseteq Pair
    BY <1>2, <1>3, <1>6
  <2>5. \A i \in 1..(m - 1) : stk[i].at = stack[i].at /\ stk[i].cuts = stack[i].cuts
    BY <1>3, <1>6
  <2>6. m = Len(stk) /\ m <= Len(stack)
    BY <1>1, <1>2, <1>3, <1>6
  <2> QED
    BY <1>6, <2>1, <2>2, <2>3, <2>4, <2>5, <2>6, Keeps
<1>8. PICK prv, fld : prv = proven' /\ fld = failed'
  OBVIOUS
<1>9. Justified(stk, prv)
  <2>1. ASSUME NEW pair \in DOMAIN prv
        PROVE  pair \in Pair /\ Proof(stk, pair, prv[pair].cuts)
    <3>1. prv = [x \in DOMAIN proven \ Top.dependents |-> proven[x]]
      BY <1>8 DEF FinishFails, ForgetDependents, Without
    <3>2. pair \in DOMAIN proven /\ pair \notin Top.dependents /\ prv[pair] = proven[pair]
      BY <3>1
    <3>3. PICK cuts : cuts = proven[pair].cuts
      OBVIOUS
    <3>4. cuts \subseteq 2..m /\ pair \in Pair /\ Proof(stack, pair, cuts)
      BY <1>1, <1>2, <1>3, <3>2, <3>3, Survives DEF IInv, Walking, Justified
    <3>5. \A i \in cuts : stk[i] = stack[i]
      BY <1>3, <1>6, <3>4
    <3>6. Proof(stk, pair, cuts)
      BY <1>6, <3>4, <3>5, ProofStays
    <3> QED
      BY <3>2, <3>3, <3>4, <3>6
  <2> QED
    BY <2>1 DEF Justified
<1>10. Refuted(fld)
  <2>1. DOMAIN fld = DOMAIN failed \cup {Top.pair}
    BY <1>8 DEF FinishFails, Extended
  <2> QED
    BY <1>3, <1>4, <2>1 DEF Refuted, IInv, Walking
<1>11. Failing(stk, TRUE)
  <2>1. m \in 1..(Len(stack) - 1) /\ m + 1 = n
    BY <1>1, <1>2, <1>3
  <2>2. Awaits(stack[m], Top.pair)
    BY <1>3, <2>1 DEF IInv, Walking, Linked
  <2>3. Stuck(stk[m])
    BY <1>3, <1>4, <1>6, <2>2 DEF Awaits, Stuck, Met
  <2> QED
    BY <1>6, <2>3 DEF Failing
<1>12. stack' = stk /\ failing' = TRUE
  BY <1>5 DEF FinishFails
<1> QED
  BY <1>7, <1>8, <1>9, <1>10, <1>11, <1>12 DEF Walking

\* The caller's frame is past its step, knows what the walk was cut at, and the
\* deepest of those pairs knows the new proof.
Told(stk, m) ==
    /\ Frames(stk) /\ Len(stk) = m
    /\ \A i \in 1..m : /\ stk[i].pair = stack[i].pair
                       /\ stack[i].dependents \subseteq stk[i].dependents
                       /\ stk[i].dependents \subseteq stack[i].dependents \cup {Top.pair}
    /\ \A i \in 1..(m - 1) : stk[i].at = stack[i].at /\ stk[i].cuts = stack[i].cuts
    /\ stk[m].at = stack[m].at + 1 /\ stk[m].cuts = stack[m].cuts \cup Below(Top.cuts, m)
    /\ \A i \in Top.cuts \cap 1..m : i = Deepest(Top.cuts) => Top.pair \in stk[i].dependents

LEMMA ClosedFrames ==
    ASSUME IInv, Len(stack) > 1, NEW m, m = Len(stack) - 1,
           NEW stk, stk = Resumed(Closed(Top.cuts, Top.pair))
    PROVE  Told(stk, m)
<1>1. PICK cuts, pair : cuts = Top.cuts /\ pair = Top.pair
  OBVIOUS
<1>2. PICK below : below = Front(stack)
  OBVIOUS
<1>3. /\ Len(stack) \in Nat /\ m \in Nat /\ m >= 1 /\ DOMAIN stack = 1..Len(stack)
      /\ Frames(stack)
  BY TopFacts
<1>4. Frames(below) /\ Len(below) = m /\ DOMAIN below = 1..m
      /\ \A i \in 1..m : below[i] = stack[i]
  <2>1. IsList(below) /\ Len(below) = m /\ \A i \in 1..m : below[i] = stack[i]
    BY <1>2, <1>3, FrontList DEF Frames
  <2>2. DOMAIN below = 1..m
    BY <2>1, ListParts
  <2> QED
    BY <1>3, <2>1, <2>2 DEF Frames
<1>5. PICK noted : noted = IF cuts = {} THEN below
                           ELSE [below EXCEPT ![Deepest(cuts)].dependents = @ \cup {pair}]
  OBVIOUS
<1>6. /\ Frames(noted) /\ Len(noted) = m /\ DOMAIN noted = 1..m
      /\ \A i \in 1..m :
            /\ noted[i].pair = stack[i].pair /\ noted[i].cuts = stack[i].cuts
            /\ noted[i].at = stack[i].at
            /\ noted[i].dependents = IF cuts # {} /\ i = Deepest(cuts)
                                     THEN stack[i].dependents \cup {pair}
                                     ELSE stack[i].dependents
  <2>1. CASE cuts = {}
    BY <1>4, <1>5, <2>1
  <2>2. CASE cuts # {}
    <3>1. PICK d : d = Deepest(cuts)
      OBVIOUS
    <3>2. PICK v : v = below[d].dependents \cup {pair}
      OBVIOUS
    <3>3. PICK f : f = [below[d] EXCEPT !.dependents = v]
      OBVIOUS
    <3>4. noted = [below EXCEPT ![d] = f]
      BY <1>5, <2>2, <3>1, <3>2, <3>3
    <3>5. /\ IsList(noted) /\ Len(noted) = m /\ DOMAIN noted = 1..m
          /\ \A i \in 1..m : noted[i] = IF i = d THEN f ELSE below[i]
      BY <1>4, <3>4, Altered DEF Frames
    <3>6. d \in 1..m => /\ IsFrame(f) /\ f.pair = below[d].pair /\ f.cuts = below[d].cuts
                        /\ f.at = below[d].at /\ f.dependents = v
      <4> SUFFICES ASSUME d \in 1..m
                   PROVE  /\ IsFrame(f) /\ f.pair = below[d].pair /\ f.cuts = below[d].cuts
                          /\ f.at = below[d].at /\ f.dependents = v
        OBVIOUS
      <4>1. PICK g : g = below[d]
        OBVIOUS
      <4>2. IsFrame(g)
        BY <1>4, <4>1 DEF Frames
      <4>3. f = [g EXCEPT !.dependents = v]
        BY <3>3, <4>1
      <4>4. /\ IsFrame(f) /\ f.pair = g.pair /\ f.cuts = g.cuts
            /\ f.at = g.at /\ f.dependents = v
        BY <4>2, <4>3, FrameParts
      <4> QED
        BY <4>1, <4>4
    <3>7. Frames(noted)
      BY <1>3, <1>4, <3>5, <3>6 DEF Frames
    <3>8. ASSUME NEW i \in 1..m
          PROVE  /\ noted[i].pair = stack[i].pair /\ noted[i].cuts = stack[i].cuts
                 /\ noted[i].at = stack[i].at
                 /\ noted[i].dependents = IF i = d THEN stack[i].dependents \cup {pair}
                                          ELSE stack[i].dependents
      <4>1. below[i] = stack[i] /\ noted[i] = IF i = d THEN f ELSE below[i]
        BY <1>4, <3>5
      <4>2. CASE i = d
        BY <3>2, <3>6, <4>1, <4>2
      <4>3. CASE i # d
        BY <4>1, <4>3
      <4> QED
        BY <4>2, <4>3
    <3> QED
      BY <2>2, <3>1, <3>5, <3>7, <3>8
  <2> QED
    BY <2>1, <2>2
<1>7. stk = Resumed(Depending(noted, cuts))
  BY <1>1, <1>2, <1>5 DEF Closed
<1>8. GotPast(noted, stk, cuts)
  BY <1>6, <1>7, DependingResumed
<1>9. ASSUME NEW i \in 1..m
      PROVE  /\ stk[i].pair = stack[i].pair
             /\ stk[i].dependents = IF cuts # {} /\ i = Deepest(cuts)
                                    THEN stack[i].dependents \cup {pair}
                                    ELSE stack[i].dependents
             /\ stk[i].cuts = IF i = m THEN stack[i].cuts \cup Below(cuts, m)
                              ELSE stack[i].cuts
             /\ stk[i].at = IF i = m THEN stack[i].at + 1 ELSE stack[i].at
  BY <1>6, <1>8, ZenonT(30) DEF GotPast
<1>10. Frames(stk) /\ Len(stk) = m
  BY <1>6, <1>8 DEF GotPast
<1>11. \A i \in 1..m : /\ stk[i].pair = stack[i].pair
                      /\ stack[i].dependents \subseteq stk[i].dependents
                      /\ stk[i].dependents \subseteq stack[i].dependents \cup {pair}
  BY <1>9
<1>12. \A i \in 1..(m - 1) : stk[i].at = stack[i].at /\ stk[i].cuts = stack[i].cuts
  <2>1. \A i \in 1..(m - 1) : i \in 1..m /\ i # m
    BY <1>3
  <2> QED
    BY <1>9, <2>1
<1>13. stk[m].at = stack[m].at + 1 /\ stk[m].cuts = stack[m].cuts \cup Below(cuts, m)
  <2>1. m \in 1..m
    BY <1>3
  <2> QED
    BY <1>9, <2>1
<1>14. \A i \in cuts \cap 1..m : i = Deepest(cuts) => pair \in stk[i].dependents
  BY <1>9
<1> QED
  BY <1>1, <1>10, <1>11, <1>12, <1>13, <1>14 DEF Told

LEMMA FinishHoldsKeeps ==
    ASSUME IInv, FinishHolds PROVE Walking(stack', proven', failed', failing')
<1>1. PICK n : n = Len(stack)
  OBVIOUS
<1>2. PICK m : m = n - 1
  OBVIOUS
<1>3. /\ n \in Nat /\ n > 1 /\ DOMAIN stack = 1..n /\ Top = stack[n] /\ Top.pair \in Pair
      /\ \A i \in DOMAIN stack : stack[i].dependents \subseteq Pair
      /\ Frames(stack) /\ m \in Nat /\ m >= 1 /\ Top.cuts \subseteq 2..m
  BY <1>1, <1>2, TopFacts DEF FinishHolds, Top
<1>4. PICK pair, cuts : pair = Top.pair /\ cuts = Top.cuts
  OBVIOUS
<1>5. pair \in Relies(PairsAt(stack, cuts))
  <2>1. Top.at = Len(Todo(Top)) + 1 /\ DOMAIN Todo(Top) = 1..Len(Todo(Top))
        /\ Len(Todo(Top)) \in Nat
    BY TopFacts DEF FinishHolds, AtEnd
  <2>2. \A j \in 1..(Top.at - 1) : Met(Todo(Top)[j], Relies(Ground(stack, n)))
    BY <1>3 DEF IInv, Walking, Passed
  <2>3. AllMet(Todo(Top), Relies(Ground(stack, n)))
    BY <2>1, <2>2 DEF AllMet
  <2>4. Todo(Top) = Obligations(pair)
    BY <1>3, <1>4, PairParts DEF Todo
  <2>5. Ground(stack, n) = PairsAt(stack, cuts) \cup {pair}
    BY <1>3, <1>4 DEF Ground
  <2>6. Fits(Relies(PairsAt(stack, cuts) \cup {pair}), pair)
    BY <1>3, <1>4, <2>3, <2>4, <2>5, ObligationsAreTheRules DEF IInv
  <2> QED
    BY <1>3, <1>4, <2>6, ReliesOnLess DEF IInv
<1>6. PICK stk : stk = Resumed(Closed(Top.cuts, Top.pair))
  OBVIOUS
<1>7. /\ Frames(stk) /\ Len(stk) = m
      /\ \A i \in 1..m : /\ stk[i].pair = stack[i].pair
                         /\ stack[i].dependents \subseteq stk[i].dependents
                         /\ stk[i].dependents \subseteq stack[i].dependents \cup {pair}
      /\ \A i \in 1..(m - 1) : stk[i].at = stack[i].at /\ stk[i].cuts = stack[i].cuts
      /\ stk[m].at = stack[m].at + 1 /\ stk[m].cuts = stack[m].cuts \cup Below(cuts, m)
      /\ \A i \in cuts \cap 1..m : i = Deepest(cuts) => pair \in stk[i].dependents
  <2>1. Len(stack) > 1 /\ m = Len(stack) - 1
    BY <1>1, <1>2, <1>3
  <2>2. Told(stk, m)
    BY <1>6, <2>1, ClosedFrames
  <2> QED
    BY <1>4, <2>2 DEF Told
<1>8. m \in DOMAIN stack /\ m \in 1..m
  BY <1>2, <1>3
<1>9. PairsAt(stack, cuts) \subseteq Ground(stk, m)
  <2>1. ASSUME NEW i \in cuts
        PROVE  stack[i].pair \in Ground(stk, m)
    <3>4. i \in 2..m /\ i \in 1..m
      BY <1>3, <1>4
    <3>1. i \in 2..m /\ stk[i].pair = stack[i].pair
      BY <1>7, <3>4
    <3>2. CASE i = m
      BY <3>1, <3>2 DEF Ground
    <3>3. CASE i # m
      <4>1. i \in Below(cuts, m)
        BY <1>3, <3>1, <3>3 DEF Below
      <4> QED
        BY <1>7, <3>1, <4>1 DEF Ground, PairsAt
    <3> QED
      BY <3>2, <3>3
  <2> QED
    BY <2>1 DEF PairsAt
<1>10. /\ stack[m].at <= Len(Todo(stack[m]))
       /\ Met(Todo(stack[m])[stack[m].at], Relies(Ground(stk, m)))
  <2>1. m \in 1..(Len(stack) - 1) /\ m + 1 = n
    BY <1>1, <1>2, <1>3
  <2>2. Awaits(stack[m], pair)
    BY <1>3, <1>4, <2>1 DEF IInv, Walking, Linked
  <2>3. pair \in Relies(Ground(stk, m))
    BY <1>5, <1>9, ReliesGrows DEF IInv
  <2> QED
    BY <2>2, <2>3 DEF Awaits, Met
<1>11. Framed(stk) /\ Linked(stk) /\ Passed(stk)
  <2>1. World /\ Framed(stack) /\ Linked(stack) /\ Passed(stack)
    BY DEF IInv, Walking
  <2>2. stack[m].cuts \subseteq 2..(m - 1)
    BY <1>8, <2>1 DEF Framed
  <2>7. pair \in Pair
    BY <1>3, <1>4
  <2>3. ASSUME NEW i \in 1..m
        PROVE  stk[i].pair = stack[i].pair /\ stk[i].dependents \subseteq Pair
    <3>1. stack[i].dependents \subseteq Pair
      BY <1>2, <1>3
    <3> QED
      BY <1>7, <2>7, <3>1
  <2>4. \A i \in 1..(m - 1) : stk[i].at = stack[i].at /\ stk[i].cuts = stack[i].cuts
    BY <1>7
  <2>5. m = Len(stk) /\ m <= Len(stack)
    BY <1>1, <1>2, <1>3, <1>7
  <2>6. stack[m].cuts \subseteq stk[m].cuts /\ stk[m].cuts \subseteq 2..(m - 1)
    BY <1>7, <2>2 DEF Below
  <2> QED
    BY <1>7, <1>10, <2>1, <2>3, <2>4, <2>5, <2>6, Keeps
<1>12. PICK prv : prv = proven'
  OBVIOUS
<1>13. DOMAIN prv = (DOMAIN proven \ Top.dependents) \cup {pair}
       /\ prv[pair].cuts = cuts
       /\ \A p \in DOMAIN prv \ {pair} : prv[p] = proven[p]
  <2>1. PICK v : v.cuts = cuts /\ prv = Extended(ForgetDependents(Top), pair, v)
    BY <1>4, <1>12 DEF FinishHolds
  <2>2. PICK old : old = [x \in DOMAIN proven \ Top.dependents |-> proven[x]]
    OBVIOUS
  <2>3. prv = [x \in DOMAIN old \cup {pair} |-> IF x = pair THEN v ELSE old[x]]
    BY <2>1, <2>2 DEF Extended, ForgetDependents, Without
  <2> QED
    BY <2>1, <2>2, <2>3
<1>14. Justified(stk, prv)
  <2>1. pair \in Pair /\ Proof(stk, pair, prv[pair].cuts)
    <3>1. \A i \in cuts : i \in 1..m
      BY <1>3, <1>4
    <3>5. \A i \in cuts : stk[i].pair = stack[i].pair
      BY <1>7, <3>1
    <3>2. PairsAt(stk, cuts) = PairsAt(stack, cuts)
      BY <3>5 DEF PairsAt
    <3>3. ASSUME NEW i \in cuts, \A j \in cuts : j <= i
          PROVE  pair \in stk[i].dependents
      <4>1. Deepest(cuts) \in cuts /\ \A j \in cuts : j <= Deepest(cuts)
        BY <3>3 DEF Deepest
      <4>2. Deepest(cuts) = i
        BY <3>1, <3>3, <4>1
      <4> QED
        BY <1>7, <3>1, <3>3, <4>2
    <3>4. cuts \subseteq 2..Len(stk)
      BY <1>3, <1>4, <1>7
    <3> QED
      BY <1>3, <1>4, <1>5, <1>13, <3>2, <3>3, <3>4 DEF Proof
  <2>2. ASSUME NEW p \in DOMAIN prv, p # pair
        PROVE  p \in Pair /\ Proof(stk, p, prv[p].cuts)
    <3>1. p \in DOMAIN proven /\ p \notin Top.dependents /\ prv[p] = proven[p]
      BY <1>13, <2>2
    <3>2. PICK old : old = proven[p].cuts
      OBVIOUS
    <3>3. old \subseteq 2..m /\ p \in Pair /\ Proof(stack, p, old)
      BY <1>1, <1>2, <1>3, <3>1, <3>2, Survives DEF IInv, Walking, Justified
    <3>4. ASSUME NEW i \in old
          PROVE  stk[i].pair = stack[i].pair /\ stack[i].dependents \subseteq stk[i].dependents
      <4>1. i \in 1..m
        BY <1>3, <3>3
      <4> QED
        BY <1>7, <4>1
    <3>5. Proof(stk, p, old)
      BY <1>7, <3>3, <3>4, ProofStays
    <3> QED
      BY <3>1, <3>2, <3>3, <3>5
  <2> QED
    BY <2>1, <2>2 DEF Justified
<1>15. stack' = stk /\ failing' = FALSE /\ failed' = failed
  BY <1>6 DEF FinishHolds, IInv, Walking, Failing
<1> QED
  BY <1>11, <1>12, <1>14, <1>15 DEF IInv, Walking, Failing

\* At the end of the method's own walk nothing is taken for granted any more.
LEMMA MethodHoldsRight ==
    ASSUME IInv, MethodHolds PROVE MethodFits(Holding)
<1>1. Len(stack) = 1 /\ AtEnd
  BY DEF MethodHolds, Decide
<1>2. /\ Top.pair = NoPair /\ Top = stack[1] /\ DOMAIN stack = 1..1 /\ Top.cuts \subseteq 2..0
      /\ Len(Todo(Top)) \in Nat /\ DOMAIN Todo(Top) = 1..Len(Todo(Top))
      /\ Top.at = Len(Todo(Top)) + 1
  BY <1>1, TopFacts DEF Top, AtEnd
<1>3. Ground(stack, 1) \cap Pair = {}
  <2>1. Ground(stack, 1) = {NoPair}
    BY <1>2 DEF Ground, PairsAt
  <2> QED
    BY <2>1, PairParts
<1>4. Relies(Ground(stack, 1)) \subseteq Holding
  BY <1>3, NothingAssumed DEF IInv
<1>5. \A j \in 1..(Top.at - 1) : Met(Todo(Top)[j], Relies(Ground(stack, 1)))
  BY <1>2 DEF IInv, Walking, Passed
<1>6. Todo(Top) = MethodObligations
  BY <1>2 DEF Todo
<1>7. AllMet(MethodObligations, Holding)
  <2>1. ASSUME NEW j \in DOMAIN MethodObligations
        PROVE  Met(MethodObligations[j], Holding)
    BY <1>2, <1>4, <1>5, <1>6 DEF Met
  <2> QED
    BY <2>1 DEF AllMet
<1> QED
  BY <1>7, MethodSteps DEF IInv

LEMMA MethodFailsRight ==
    ASSUME IInv, MethodFails PROVE ~MethodFits(Holding)
<1>1. Len(stack) = 1 /\ failing
  BY DEF MethodFails, Decide
<1>2. Top.pair = NoPair /\ Top = stack[1] /\ Stuck(Top)
      /\ DOMAIN Todo(Top) = 1..Len(Todo(Top)) /\ Len(Todo(Top)) \in Nat
      /\ Top.at \in 1..(Len(Todo(Top)) + 1)
  BY <1>1, TopFacts DEF Top, IInv, Walking, Failing
<1>3. Todo(Top) = MethodObligations
  BY <1>2 DEF Todo
<1>4. Top.at \in DOMAIN MethodObligations
  BY <1>2, <1>3 DEF Stuck
<1>5. ~Met(MethodObligations[Top.at], Holding)
  BY <1>2, <1>3, <1>4, MethodSteps DEF Stuck, IInv
<1> QED
  BY <1>4, <1>5, MethodSteps DEF AllMet, IInv

\* A step leaves what is compared alone, and with it what holds.
LEMMA Steady ==
    ASSUME input' = input
    PROVE  /\ World' = World /\ Pair' = Pair /\ Holding' = Holding
           /\ \A S : MethodFits(S)' = MethodFits(S)
           /\ \A f : Todo(f)' = Todo(f)
           /\ \A A : Relies(A)' = Relies(A)
<1>1. World' = World /\ Pair' = Pair
  BY DEF World, Pair
<1>2. Holding' = Holding
  BY DEF Holding, Pair, Fits, FieldsFit, SignatureFits, TupleFits, OptLike, Node, Elements
<1>3. ASSUME NEW S
      PROVE  MethodFits(S)' = MethodFits(S)
  BY DEF MethodFits, SignatureFits, TupleFits, OptLike, Node
<1>4. ASSUME NEW f
      PROVE  Todo(f)' = Todo(f)
  BY DEF Todo, Obligations, MethodObligations, OptRule, RecordRule, VariantRule, ServiceRule,
         FuncRule, Signature, Tuple, OptLike, Node
<1>5. ASSUME NEW A
      PROVE  Relies(A)' = Relies(A)
  BY DEF Relies, Carried, Pair, Fits, FieldsFit, SignatureFits, TupleFits, OptLike, Node,
         Elements
<1> QED
  BY <1>1, <1>2, <1>3, <1>4, <1>5

\* So the invariant of the next state can be told in terms of this one.
LEMMA Transfers ==
    ASSUME IInv, input' = input, Walking(stack', proven', failed', failing'), Decided(outcome')
    PROVE  IInv'
<1>1. /\ World' /\ Pair' = Pair /\ Holding' = Holding
      /\ \A S : MethodFits(S)' = MethodFits(S)
      /\ \A f : Todo(f)' = Todo(f)
      /\ \A A : Relies(A)' = Relies(A)
  BY Steady DEF IInv
<1>2. Framed(stack)'
  BY <1>1 DEF Walking, Framed
<1>3. Linked(stack)'
  BY <1>1 DEF Walking, Linked, Awaits
<1>4. Passed(stack)'
  BY <1>1 DEF Walking, Passed, Met, Ground, PairsAt
<1>5. Justified(stack, proven)'
  BY <1>1 DEF Walking, Justified, Proof, PairsAt
<1>6. Refuted(failed)' /\ Failing(stack, failing)'
  BY <1>1 DEF Walking, Refuted, Failing, Stuck, Met
<1>7. Decided(outcome)'
  BY <1>1 DEF Decided
<1> QED
  BY <1>1, <1>2, <1>3, <1>4, <1>5, <1>6, <1>7 DEF IInv, Walking

\* The walk begins at the method's first step, with nothing learnt.
LEMMA InitHolds == Init => IInv
<1> SUFFICES ASSUME Init PROVE IInv
  OBVIOUS
<1>1. World
  BY WorldHolds
<1>2. PICK f : f = Frame(NoPair)
  OBVIOUS
<1>3. stack = <<f>> /\ IsFrame(f) /\ f.pair = NoPair /\ f.at = 1 /\ f.cuts = {}
      /\ f.dependents = {}
  BY <1>2 DEF Init, Frame, IsFrame
<1>4. DOMAIN stack = 1..1 /\ stack[1] = f /\ stack = [i \in 1..1 |-> stack[i]]
  BY <1>3
<1>5. IsList(stack) /\ Len(stack) = 1
  BY <1>4, ListMade
<1>6. Len(Todo(f)) \in Nat
  BY <1>1, <1>3, TodoSteps
<1>7. Framed(stack)
  BY <1>3, <1>4, <1>5, <1>6 DEF Framed
<1>8. Linked(stack) /\ Passed(stack)
  BY <1>3, <1>4, <1>5 DEF Linked, Passed
<1>9. Justified(stack, proven) /\ Refuted(failed) /\ Failing(stack, failing)
  <2>1. proven = <<>> /\ failed = <<>> /\ failing = FALSE
    BY DEF Init
  <2>2. DOMAIN proven = {} /\ DOMAIN failed = {}
    BY <2>1
  <2>3. Justified(stack, proven) /\ Refuted(failed)
    BY <2>2 DEF Justified, Refuted
  <2>4. Failing(stack, failing)
    BY <2>1, Zenon DEF Failing
  <2> QED
    BY <2>3, <2>4
<1>10. Decided(outcome)
  BY DEF Init, Decided
<1> QED
  BY <1>1, <1>7, <1>8, <1>9, <1>10 DEF IInv, Walking

LEMMA StepKeeps == IInv /\ [Next]_vars => IInv'
<1> SUFFICES ASSUME IInv, [Next]_vars PROVE IInv'
  OBVIOUS
<1>1. input' = input
  BY DEF vars, Next, PassOver, FindLack, WarnNull, AnswerFailed, AnswerActive, AnswerProven,
         Descend, FinishHolds, FinishFails, ProbeFails, MethodHolds, MethodFails, Exhaust,
         Spend, Decide
<1>2. ASSUME Walking(stack', proven', failed', failing'), outcome' = outcome
      PROVE  IInv'
  BY <1>1, <1>2, Transfers DEF IInv
<1>3. CASE PassOver
  BY <1>2, <1>3, PassOverKeeps DEF PassOver, Spend
<1>4. CASE FindLack
  BY <1>2, <1>4, FindLackKeeps DEF FindLack, Spend
<1>5. CASE WarnNull
  BY <1>2, <1>5, WarnNullKeeps DEF WarnNull, Spend
<1>6. CASE AnswerFailed
  BY <1>2, <1>6, AnswerFailedKeeps DEF AnswerFailed, Spend
<1>7. CASE AnswerActive
  BY <1>2, <1>7, AnswerActiveKeeps DEF AnswerActive, Spend
<1>8. CASE AnswerProven
  BY <1>2, <1>8, AnswerProvenKeeps DEF AnswerProven, Spend
<1>9. CASE Descend
  BY <1>2, <1>9, DescendKeeps DEF Descend, Spend
<1>10. CASE FinishHolds
  BY <1>2, <1>10, FinishHoldsKeeps DEF FinishHolds, Spend
<1>11. CASE FinishFails
  BY <1>2, <1>11, FinishFailsKeeps DEF FinishFails, Spend
<1>12. CASE ProbeFails
  BY <1>2, <1>12, ProbeFailsKeeps DEF ProbeFails, Spend
<1>13. ASSUME stack' = stack, proven' = proven, failed' = failed, failing' = failing
       PROVE  Walking(stack', proven', failed', failing')
  BY <1>13 DEF IInv
<1>14. CASE MethodHolds
  <2>1. Decided(outcome')
    BY <1>14, MethodHoldsRight DEF MethodHolds, Decide, Decided
  <2>2. Walking(stack', proven', failed', failing')
    BY <1>13, <1>14 DEF MethodHolds, Decide
  <2> QED
    BY <1>1, <2>1, <2>2, Transfers
<1>15. CASE MethodFails
  <2>1. Decided(outcome')
    BY <1>15, MethodFailsRight DEF MethodFails, Decide, Decided
  <2>2. Walking(stack', proven', failed', failing')
    BY <1>13, <1>15 DEF MethodFails, Decide
  <2> QED
    BY <1>1, <2>1, <2>2, Transfers
<1>16. CASE Exhaust
  <2>1. Decided(outcome')
    BY <1>16 DEF Exhaust, Decided
  <2>2. Walking(stack', proven', failed', failing')
    BY <1>13, <1>16 DEF Exhaust
  <2> QED
    BY <1>1, <2>1, <2>2, Transfers
<1>17. CASE UNCHANGED vars
  BY <1>2, <1>13, <1>17 DEF vars
<1> QED
  BY <1>3, <1>4, <1>5, <1>6, <1>7, <1>8, <1>9, <1>10, <1>11, <1>12, <1>14, <1>15, <1>16, <1>17
     DEF Next

\* For all arenas, functions and bounds: the method is compatible if, and only
\* if, the live function is below the written one in the largest relation that
\* obeys the rules (compat.rs, sub), whatever pairs were assumed, kept, repeated,
\* forgotten or undone on the way.
THEOREM VerdictIsRight == Spec => []VerdictIsTheRelation
<1>1. IInv => VerdictIsTheRelation
  BY DEF IInv, Decided, VerdictIsTheRelation
<1> QED
  BY <1>1, InitHolds, StepKeeps, PTL DEF Spec

-----------------------------------------------------------------------------
(***************************************************************************)
(* The paths that are reported.  First, what a fold over a list is: a      *)
(* chain of values, one for each element.                                  *)
(***************************************************************************)

LEMMA LeastNumber ==
    ASSUME NEW T, T \subseteq Nat, T # {}
    PROVE  \E m \in T : \A k \in T : m <= k
<1> DEFINE Less == {ss \in Nat \X Nat : ss[1] < ss[2]}
<1>1. IsWellFoundedOn(Less, Nat)
  BY NatLessThanWellFounded DEF OpToRel
<1>2. \E m \in T : \A k \in T : <<k, m>> \notin Less
  <2> HIDE DEF Less
  <2> QED
    BY <1>1, WFMin
<1>3. \A k, m \in Nat : <<k, m>> \notin Less => m <= k
  OBVIOUS
<1> HIDE DEF Less
<1> QED
  BY <1>2, <1>3

\* A set of numbers that holds zero and each successor holds all of them.
LEMMA AllNumbers ==
    ASSUME NEW P, 0 \in P, \A k \in Nat : k \in P => k + 1 \in P
    PROVE  Nat \subseteq P
<1> SUFFICES ASSUME Nat \ P # {} PROVE FALSE
  OBVIOUS
<1>1. PICK m \in Nat \ P : \A k \in Nat \ P : m <= k
  BY LeastNumber
<1>2. m # 0 /\ m \in Nat
  BY <1>1
<1>3. m - 1 \in Nat /\ ~(m <= m - 1) /\ (m - 1) + 1 = m
  BY <1>2
<1>4. m - 1 \in P
  BY <1>1, <1>3
<1> QED
  BY <1>1, <1>3, <1>4

LEMMA Highest ==
    ASSUME NEW k \in Nat, NEW s \in SUBSET (1..k), s # {}
    PROVE  Max(s) \in s /\ \A i \in s : i <= Max(s)
<1> DEFINE T == {k - i : i \in s}
<1>1. PICK t \in T : \A u \in T : t <= u
  <2>1. \A i \in s : k - i \in Nat
    OBVIOUS
  <2>2. T \subseteq Nat /\ T # {}
    BY <2>1
  <2> HIDE DEF T
  <2> QED
    BY <2>2, LeastNumber
<1>2. PICK i \in s : t = k - i
  BY <1>1
<1>3. \A j \in s : i >= j
  <2> TAKE j \in s
  <2>1. k - j \in T
    OBVIOUS
  <2>2. k - i <= k - j
    <3> HIDE DEF T
    <3> QED
      BY <1>1, <1>2, <2>1
  <2>3. i \in Nat /\ j \in Nat
    BY <1>2
  <2> QED
    BY <2>2, <2>3
<1>4. \E x \in s : \A y \in s : x >= y
  BY <1>3
<1>5. Max(s) \in s /\ \A y \in s : Max(s) >= y
  BY <1>4 DEF Max
<1>6. \A y \in s : y \in Nat
  OBVIOUS
<1> QED
  BY <1>5, <1>6

LEMMA HighestIs ==
    ASSUME NEW k \in Nat, NEW s \in SUBSET (1..(k + 1)), k + 1 \in s
    PROVE  Max(s) = k + 1 /\ s \ {k + 1} \in SUBSET (1..k)
<1>1. Max(s) \in s /\ k + 1 <= Max(s)
  <2>1. k + 1 \in Nat /\ s # {}
    OBVIOUS
  <2> QED
    BY <2>1, Highest
<1>2. Max(s) \in 1..(k + 1)
  BY <1>1
<1>3. Max(s) = k + 1
  BY <1>1, <1>2
<1>4. \A i \in s \ {k + 1} : i \in 1..k
  OBVIOUS
<1> QED
  BY <1>3, <1>4

\* The beginnings of a list, as sets of positions.
LEMMA Beginnings ==
    ASSUME NEW k \in Nat
    PROVE  /\ (1..(k + 1)) \ {k + 1} = 1..k /\ Max(1..(k + 1)) = k + 1
           /\ 1..(k + 1) # {} /\ 1..0 = {}
<1>1. k + 1 \in 1..(k + 1) /\ 1..(k + 1) \in SUBSET (1..(k + 1))
  OBVIOUS
<1>2. Max(1..(k + 1)) = k + 1
  BY <1>1, HighestIs
<1>3. \A i : i \in (1..(k + 1)) \ {k + 1} <=> i \in 1..k
  OBVIOUS
<1>4. (1..(k + 1)) \ {k + 1} = 1..k /\ 1..0 = {}
  BY <1>3
<1> QED
  BY <1>1, <1>2, <1>4

-----------------------------------------------------------------------------
\* Where a path of segments leads to.

Follow(todo, seg) ==
    LET met == {i \in DOMAIN todo : todo[i].seg = seg}
    IN  IF met = {} THEN << >>
        ELSE LET o == todo[CHOOSE i \in met : TRUE]
             IN  IF o.do = "visit" THEN Obligations(o.pair) ELSE <<Lack(<<>>, 0)>>

FollowAll(todo, route, it) ==
    [s \in SUBSET (DOMAIN route) |->
        IF s = {} THEN todo ELSE Follow(it[s \ {Max(s)}], route[Max(s)])]

Chained(h, todo, route) ==
    /\ h[0] = todo
    /\ \A k \in 1..Len(route) : h[k] = Follow(h[k - 1], route[k])

Reason(todo) == todo # << >> /\ \E i \in DOMAIN todo : todo[i].do = "lack" /\ todo[i].seg = << >>

LEMMA FollowSolved ==
    ASSUME NEW todo, NEW route, IsList(route)
    PROVE  \E it : it = FollowAll(todo, route, it)
<1> DEFINE Solves(g, k) == \A s \in SUBSET (1..k) :
              g[s] = IF s = {} THEN todo ELSE Follow(g[s \ {Max(s)}], route[Max(s)])
           P == {k \in Nat : \E g : Solves(g, k)}
<1>1. 0 \in P
  <2>1. Solves([s \in SUBSET (1..0) |-> todo], 0)
    <3>1. \A s \in SUBSET (1..0) : s = {}
      OBVIOUS
    <3> QED
      BY <3>1
  <2> HIDE DEF Solves
  <2> QED
    BY <2>1
<1>2. ASSUME NEW k \in Nat, k \in P PROVE k + 1 \in P
  <2>1. PICK g : Solves(g, k)
    BY <1>2
  <2> DEFINE f == [s \in SUBSET (1..(k + 1)) |->
                      IF k + 1 \in s THEN Follow(g[s \ {k + 1}], route[k + 1]) ELSE g[s]]
  <2>2. ASSUME NEW s \in SUBSET (1..(k + 1))
        PROVE  f[s] = IF s = {} THEN todo ELSE Follow(f[s \ {Max(s)}], route[Max(s)])
    <3>1. CASE k + 1 \in s
      <4>1. Max(s) = k + 1 /\ s \ {k + 1} \in SUBSET (1..k) /\ s # {}
        BY <3>1, HighestIs
      <4>2. s \ {k + 1} \in SUBSET (1..(k + 1)) /\ k + 1 \notin s \ {k + 1}
        OBVIOUS
      <4>3. f[s \ {k + 1}] = g[s \ {k + 1}]
        BY <4>2
      <4>4. f[s] = Follow(g[s \ {k + 1}], route[k + 1])
        BY <3>1
      <4> HIDE DEF f
      <4> QED
        BY <4>1, <4>3, <4>4
    <3>2. CASE k + 1 \notin s
      <4>1. s \in SUBSET (1..k) /\ f[s] = g[s]
        BY <3>2
      <4>2. CASE s = {}
        BY <2>1, <4>1, <4>2
      <4>3. CASE s # {}
        <5>1. PICK t : t = s \ {Max(s)}
          OBVIOUS
        <5>2. t \in SUBSET (1..(k + 1)) /\ k + 1 \notin t
          BY <3>2, <5>1
        <5>3. f[t] = g[t]
          BY <5>2
        <5>4. g[s] = Follow(g[t], route[Max(s)])
          BY <2>1, <4>1, <4>3, <5>1
        <5> HIDE DEF f
        <5> QED
          BY <4>1, <4>3, <5>1, <5>3, <5>4
      <4> QED
        BY <4>2, <4>3
    <3> QED
      BY <3>1, <3>2
  <2> HIDE DEF f
  <2>3. Solves(f, k + 1)
    BY <2>2
  <2> HIDE DEF Solves
  <2> QED
    BY <2>3
<1>3. Nat \subseteq P
  <2> HIDE DEF P
  <2> QED
    BY <1>1, <1>2, AllNumbers
<1>4. PICK n \in Nat : DOMAIN route = 1..n
  BY ListParts
<1>5. PICK g : Solves(g, n)
  BY <1>3
<1> DEFINE it == [s \in SUBSET (1..n) |-> g[s]]
<1>6. \A s \in SUBSET (1..n) :
          it[s] = IF s = {} THEN todo ELSE Follow(it[s \ {Max(s)}], route[Max(s)])
  <2> TAKE s \in SUBSET (1..n)
  <2>1. s \ {Max(s)} \in SUBSET (1..n)
    OBVIOUS
  <2>2. it[s] = g[s] /\ it[s \ {Max(s)}] = g[s \ {Max(s)}]
    BY <2>1
  <2> HIDE DEF it
  <2> QED
    BY <1>5, <2>2
<1>7. it = FollowAll(todo, route, it)
  <2>1. it = [s \in SUBSET (1..n) |-> it[s]]
    OBVIOUS
  <2> HIDE DEF it
  <2> QED
    BY <1>4, <1>6, <2>1 DEF FollowAll
<1> HIDE DEF it
<1> QED
  BY <1>7

LEMMA FollowChain ==
    ASSUME NEW todo, NEW route, IsList(route)
    PROVE  \E h : Chained(h, todo, route) /\ FoldLeft(Follow, todo, route) = h[Len(route)]
<1>1. PICK it : it = CHOOSE g : g = FollowAll(todo, route, g)
  OBVIOUS
<1>2. it = FollowAll(todo, route, it)
  BY <1>1, FollowSolved
<1>3. FoldLeft(Follow, todo, route) = it[DOMAIN route]
  BY <1>1 DEF FoldLeft, MapThenFoldSet, FollowAll
<1>4. PICK n \in Nat : n = Len(route) /\ DOMAIN route = 1..n
  BY ListParts
<1>5. \A s \in SUBSET (1..n) :
          it[s] = IF s = {} THEN todo ELSE Follow(it[s \ {Max(s)}], route[Max(s)])
  BY <1>2, <1>4 DEF FollowAll
<1> DEFINE h == [k \in 0..n |-> it[1..k]]
<1>6. h[0] = todo
  <2>1. 1..0 = {} /\ 0 \in 0..n /\ {} \in SUBSET (1..n)
    OBVIOUS
  <2> QED
    BY <1>5, <2>1
<1>7. ASSUME NEW k \in 1..n PROVE h[k] = Follow(h[k - 1], route[k])
  <2>1. PICK j \in Nat : k = j + 1
    <3>1. k - 1 \in Nat /\ k = (k - 1) + 1
      OBVIOUS
    <3> QED
      BY <3>1
  <2>2. /\ (1..k) \ {k} = 1..j /\ Max(1..k) = k /\ 1..k # {}
    BY <2>1, Beginnings
  <2>3. 1..k \in SUBSET (1..n) /\ k - 1 = j /\ j \in 0..n /\ k \in 0..n
    BY <2>1
  <2>4. it[1..k] = Follow(it[1..j], route[k])
    BY <1>5, <2>2, <2>3
  <2> QED
    BY <2>3, <2>4
<1>8. h[n] = it[1..n]
  OBVIOUS
<1> HIDE DEF h
<1>9. Chained(h, todo, route)
  BY <1>4, <1>6, <1>7 DEF Chained
<1> QED
  BY <1>3, <1>4, <1>8, <1>9

-----------------------------------------------------------------------------
\* A segment names one step of a list, and a step that must hold has a segment.

Apart(todo) ==
    /\ \A i \in DOMAIN todo : todo[i].do = "visit" => todo[i].seg # << >>
    /\ \A i, j \in DOMAIN todo : todo[i].seg = todo[j].seg /\ todo[i].seg # << >> => i = j

LEMMA StepSegs ==
    ASSUME NEW seg, NEW pair, NEW cost
    PROVE  /\ Visit(seg, pair, cost).seg = seg /\ Lack(seg, cost).seg = seg
           /\ Skip(cost).seg = << >> /\ Skip(cost).do # "visit"
           /\ Lack(seg, cost).do # "visit"
BY DEF Visit, Skip, Lack

\* A rule that names each of its steps, if at all, by a mark of its own.
LEMMA NamedApart ==
    ASSUME NEW todo, NEW names, \A i \in DOMAIN todo : names[i] # << >>,
           \A i, j \in DOMAIN todo : names[i] = names[j] => i = j,
           \A i \in DOMAIN todo : todo[i].seg = names[i]
                                  \/ (todo[i].seg = << >> /\ todo[i].do # "visit")
    PROVE  Apart(todo)
BY DEF Apart

LEMMA KeyedApart ==
    ASSUME NEW refs, NEW members, IsMembers(members, refs), NEW tag, NEW todo,
           DOMAIN todo = DOMAIN members,
           \A i \in DOMAIN members :
              \E pair, cost : \/ todo[i] = Visit(<<tag, members[i].key>>, pair, cost)
                              \/ todo[i] = Lack(<<tag, members[i].key>>, cost)
                              \/ todo[i] = Skip(cost)
    PROVE  Apart(todo)
<1> DEFINE names == [i \in DOMAIN members |-> <<tag, members[i].key>>]
<1>1. \A i \in DOMAIN todo : names[i] # << >>
  OBVIOUS
<1>2. \A i, j \in DOMAIN todo : names[i] = names[j] => i = j
  <2> SUFFICES ASSUME NEW i \in DOMAIN members, NEW j \in DOMAIN members,
                      <<tag, members[i].key>> = <<tag, members[j].key>>
               PROVE  i = j
    OBVIOUS
  <2>1. members[i].key = members[j].key
    OBVIOUS
  <2> QED
    BY <2>1 DEF IsMembers
<1>3. \A i \in DOMAIN todo : names[i] = <<tag, members[i].key>>
  OBVIOUS
<1> HIDE DEF names
<1>4. \A i \in DOMAIN todo : todo[i].seg = names[i]
                             \/ (todo[i].seg = << >> /\ todo[i].do # "visit")
  <2> TAKE i \in DOMAIN todo
  <2>1. PICK seg : seg = <<tag, members[i].key>> /\ seg = names[i]
    BY <1>3
  <2>2. PICK o : o = todo[i]
    OBVIOUS
  <2>3. PICK pair, cost : o = Visit(seg, pair, cost) \/ o = Lack(seg, cost) \/ o = Skip(cost)
    BY <2>1, <2>2
  <2>4. o.seg = seg \/ (o.seg = << >> /\ o.do # "visit")
    BY <2>3, StepSegs
  <2> QED
    BY <2>1, <2>2, <2>4
<1> QED
  BY <1>1, <1>2, <1>4, NamedApart

LEMMA RulesApart ==
    ASSUME NEW side, NEW have, NEW want, NEW refs, NEW others,
           IsMembers(have, refs), IsMembers(want, others)
    PROVE  /\ Apart(RecordRule(side, have, want)) /\ Apart(VariantRule(side, have, want))
           /\ Apart(ServiceRule(side, have, want))
<1>1. PICK todo : todo = RecordRule(side, have, want)
  OBVIOUS
<1>2. Apart(todo)
  <2>1. DOMAIN todo = DOMAIN want
    BY <1>1 DEF RecordRule
  <2>2. \A i \in DOMAIN want :
           \E pair, cost : \/ todo[i] = Visit(<<"field", want[i].key>>, pair, cost)
                           \/ todo[i] = Lack(<<"field", want[i].key>>, cost)
                           \/ todo[i] = Skip(cost)
    BY <1>1 DEF RecordRule
  <2> QED
    BY <2>1, <2>2, KeyedApart
<1>3. PICK cases : cases = VariantRule(side, have, want)
  OBVIOUS
<1>4. Apart(cases)
  <2>1. DOMAIN cases = DOMAIN have
    BY <1>3 DEF VariantRule
  <2>2. \A i \in DOMAIN have :
           \E pair, cost : \/ cases[i] = Visit(<<"field", have[i].key>>, pair, cost)
                           \/ cases[i] = Lack(<<"field", have[i].key>>, cost)
                           \/ cases[i] = Skip(cost)
    BY <1>3 DEF VariantRule
  <2> QED
    BY <2>1, <2>2, KeyedApart
<1>5. PICK methods : methods = ServiceRule(side, have, want)
  OBVIOUS
<1>6. Apart(methods)
  <2>1. DOMAIN methods = DOMAIN want
    BY <1>5 DEF ServiceRule
  <2>2. \A i \in DOMAIN want :
           \E pair, cost : \/ methods[i] = Visit(<<"method", want[i].key>>, pair, cost)
                           \/ methods[i] = Lack(<<"method", want[i].key>>, cost)
                           \/ methods[i] = Skip(cost)
    BY <1>5 DEF ServiceRule
  <2> QED
    BY <2>1, <2>2, KeyedApart
<1> QED
  BY <1>1, <1>2, <1>3, <1>4, <1>5, <1>6

\* A signature's steps are named by tuple and position.
LEMMA TupleNames ==
    ASSUME NEW side, NEW have, NEW want, NEW tag
    PROVE  /\ DOMAIN Tuple(side, have, want, tag) = DOMAIN want
           /\ \A i \in DOMAIN want :
                 LET o == Tuple(side, have, want, tag)[i]
                 IN  o.seg = <<tag, i>> \/ (o.seg = << >> /\ o.do # "visit")
<1>1. PICK todo : todo = Tuple(side, have, want, tag)
  OBVIOUS
<1>2. /\ DOMAIN todo = DOMAIN want
      /\ \A i \in DOMAIN want :
            \E pair, cost : \/ todo[i] = Visit(<<tag, i>>, pair, cost)
                            \/ todo[i] = Lack(<<tag, i>>, cost)
                            \/ todo[i] = Skip(cost)
  BY <1>1 DEF Tuple
<1>3. \A i \in DOMAIN want : todo[i].seg = <<tag, i>>
                             \/ (todo[i].seg = << >> /\ todo[i].do # "visit")
  <2> TAKE i \in DOMAIN want
  <2>1. PICK seg : seg = <<tag, i>>
    OBVIOUS
  <2>2. PICK pair, cost : \/ todo[i] = Visit(seg, pair, cost)
                          \/ todo[i] = Lack(seg, cost)
                          \/ todo[i] = Skip(cost)
    BY <1>2, <2>1
  <2> QED
    BY <2>1, <2>2, StepSegs
<1> QED
  BY <1>1, <1>2, <1>3

LEMMA SignatureApart ==
    ASSUME NEW side \in Side, NEW left, NEW right,
           left.args \in Seq(DOMAIN input[side]), left.results \in Seq(DOMAIN input[side]),
           right.args \in Seq(DOMAIN input[Other(side)]),
           right.results \in Seq(DOMAIN input[Other(side)])
    PROVE  Apart(Signature(side, left, right))
<1>1. PICK args, results : /\ args = Tuple(Other(side), right.args, left.args, "arg")
                           /\ results = Tuple(side, left.results, right.results, "result")
  OBVIOUS
<1>2. Listed(args) /\ Listed(results)
  <2>1. Other(side) \in Side /\ Other(Other(side)) = side
    BY Opposite
  <2> QED
    BY <1>1, <2>1, TupleSteps
<1>3. PICK todo : todo = args \o results
  OBVIOUS
<1>4. Signature(side, left, right) = todo
  BY <1>1, <1>3 DEF Signature
<1>5. PICK m, n : m = Len(args) /\ n = Len(results)
  OBVIOUS
<1>6. m \in Nat /\ n \in Nat /\ DOMAIN args = 1..m /\ DOMAIN results = 1..n
  BY <1>2, <1>5, ListParts DEF Listed
<1>7. /\ DOMAIN todo = 1..(m + n)
      /\ \A i \in 1..m : todo[i] = args[i]
      /\ \A i \in 1..n : todo[m + i] = results[i]
  <2> DEFINE A == {args[i] : i \in DOMAIN args}
             B == {results[i] : i \in DOMAIN results}
  <2>1. args \in Seq(A) /\ results \in Seq(B)
    BY <1>2 DEF Listed, IsList
  <2> HIDE DEF A, B
  <2>2. args \in Seq(A \cup B) /\ results \in Seq(A \cup B)
    BY <2>1
  <2> QED
    BY <1>3, <1>5, <2>2
<1>8. \A i \in 1..m : args[i].seg = <<"arg", i>>
                      \/ (args[i].seg = << >> /\ args[i].do # "visit")
  BY <1>1, <1>6, TupleNames
<1>9. \A i \in 1..n : results[i].seg = <<"result", i>>
                      \/ (results[i].seg = << >> /\ results[i].do # "visit")
  BY <1>1, <1>6, TupleNames
<1> DEFINE names == [i \in 1..(m + n) |-> IF i <= m THEN <<"arg", i>> ELSE <<"result", i - m>>]
<1>10. \A i \in DOMAIN todo : names[i] # << >>
  BY <1>7
<1>11. \A i, j \in DOMAIN todo : names[i] = names[j] => i = j
  <2> SUFFICES ASSUME NEW i \in 1..(m + n), NEW j \in 1..(m + n), names[i] = names[j]
               PROVE  i = j
    BY <1>7
  <2>1. i \in Nat /\ j \in Nat
    BY <1>6
  <2>2. CASE i <= m /\ j <= m
    BY <2>2
  <2>3. CASE ~(i <= m) /\ ~(j <= m)
    <3>1. i - m = j - m
      BY <2>3
    <3> QED
      BY <1>6, <2>1, <3>1
  <2>4. CASE i <= m /\ ~(j <= m)
    BY <2>4
  <2>5. CASE ~(i <= m) /\ j <= m
    BY <2>5
  <2> QED
    BY <2>2, <2>3, <2>4, <2>5
<1>12. \A i \in DOMAIN todo : todo[i].seg = names[i]
                              \/ (todo[i].seg = << >> /\ todo[i].do # "visit")
  <2> SUFFICES ASSUME NEW i \in 1..(m + n)
               PROVE  todo[i].seg = names[i] \/ (todo[i].seg = << >> /\ todo[i].do # "visit")
    BY <1>7
  <2>1. CASE i <= m
    <3>1. i \in 1..m /\ names[i] = <<"arg", i>>
      BY <1>6, <2>1
    <3> QED
      BY <1>7, <1>8, <3>1
  <2>2. CASE ~(i <= m)
    <3>1. PICK k \in 1..n : i = m + k
      <4>1. i - m \in 1..n /\ i = m + (i - m)
        BY <1>6, <2>2
      <4> QED
        BY <4>1
    <3>2. names[i] = <<"result", k>>
      <4>1. i - m = k
        BY <1>6, <3>1
      <4> QED
        BY <2>2, <4>1
    <3> QED
      BY <1>7, <1>9, <3>1, <3>2
  <2> QED
    BY <2>1, <2>2
<1> HIDE DEF names
<1> QED
  BY <1>4, <1>10, <1>11, <1>12, NamedApart

LEMMA AloneApart ==
    ASSUME NEW o, o.do = "visit" => o.seg # << >>
    PROVE  Apart(<<o>>) /\ Apart(<< >>)
<1>1. DOMAIN <<o>> = {1} /\ <<o>>[1] = o
  OBVIOUS
<1>2. Apart(<<o>>)
  BY <1>1 DEF Apart
<1>3. Apart(<< >>)
  BY DEF Apart
<1> QED
  BY <1>2, <1>3

LEMMA ObligationsApart ==
    ASSUME World, NEW pair \in Pair
    PROVE  Apart(Obligations(pair))
<1> DEFINE side == pair[1]
           left == Node(side, pair[2])
           right == Node(Other(side), pair[3])
           Ours == DOMAIN input[side]
           Theirs == DOMAIN input[Other(side)]
           todo == Obligations(pair)
<1>1. /\ side \in Side /\ Other(side) \in Side
      /\ pair[2] \in Ours /\ pair[3] \in Theirs
  BY PairParts
<1>2. IsNode(left, Ours) /\ IsNode(right, Theirs)
  BY <1>1 DEF World, Node
<1>3. \A node, refs : IsNode(node, refs) =>
        /\ node.kind \in {"record", "variant", "service"} => IsMembers(node.members, refs)
        /\ node.kind = "func" => node.args \in Seq(refs) /\ node.results \in Seq(refs)
  BY NodeParts
<1>4. /\ left.kind \in {"record", "variant", "service"} => IsMembers(left.members, Ours)
      /\ left.kind = "func" => left.args \in Seq(Ours) /\ left.results \in Seq(Ours)
      /\ right.kind \in {"record", "variant", "service"} => IsMembers(right.members, Theirs)
      /\ right.kind = "func" => right.args \in Seq(Theirs) /\ right.results \in Seq(Theirs)
  BY <1>2, <1>3
<1>5. Apart(<< >>) /\ Apart(Mismatch)
  <2>1. Lack(<< >>, 0).do # "visit"
    BY StepFields
  <2> QED
    BY <2>1, AloneApart DEF Mismatch
<1>6. \A p, cost : Apart(<<Visit(<<"element">>, p, cost)>>)
  <2> TAKE p, cost
  <2>1. PICK o : o = Visit(<<"element">>, p, cost)
    OBVIOUS
  <2>2. o.seg = <<"element">> /\ <<"element">> # << >>
    BY <2>1, StepSegs
  <2> QED
    BY <2>1, <2>2, AloneApart
<1>7. Apart(OptRule(side, pair[2], right.inner))
  <2>1. \A p : Probe(p).do # "visit" /\ Warn.do # "visit"
    BY StepFields
  <2>2. \A p : Apart(<<Probe(p)>>) /\ Apart(<<Warn>>)
    BY <2>1, AloneApart
  <2> QED
    BY <2>2 DEF OptRule
<1>8. left.kind = right.kind /\ left.kind \in {"record", "variant", "service"} =>
        /\ Apart(RecordRule(side, left.members, right.members))
        /\ Apart(VariantRule(side, left.members, right.members))
        /\ Apart(ServiceRule(side, left.members, right.members))
  BY <1>4, RulesApart
<1>9. left.kind = right.kind /\ left.kind = "func" => Apart(FuncRule(side, left, right))
  <2>1. left.kind = right.kind /\ left.kind = "func" => Apart(Signature(side, left, right))
    BY <1>1, <1>4, SignatureApart
  <2> QED
    BY <1>5, <2>1 DEF FuncRule
<1> QED
  BY <1>5, <1>6, <1>7, <1>8, <1>9 DEF Obligations

LEMMA TodoApart ==
    ASSUME World, NEW f, f.pair \in Pair \/ f.pair = NoPair
    PROVE  Apart(Todo(f))
<1>1. Apart(MethodObligations)
  <2>1. "live" \in Side /\ Other("live") = "written" /\ "written" \in Side
    BY DEF Side, Other
  <2>2. /\ input.fn["live"].args \in Seq(DOMAIN input["live"])
        /\ input.fn["live"].results \in Seq(DOMAIN input["live"])
        /\ input.fn["written"].args \in Seq(DOMAIN input["written"])
        /\ input.fn["written"].results \in Seq(DOMAIN input["written"])
    BY <2>1 DEF World
  <2>3. PICK left, right : left = input.fn.live /\ right = input.fn.written
    OBVIOUS
  <2>4. /\ left.args \in Seq(DOMAIN input["live"]) /\ left.results \in Seq(DOMAIN input["live"])
        /\ right.args \in Seq(DOMAIN input[Other("live")])
        /\ right.results \in Seq(DOMAIN input[Other("live")])
    BY <2>1, <2>2, <2>3
  <2> QED
    BY <2>1, <2>3, <2>4, SignatureApart DEF MethodObligations
<1> QED
  BY <1>1, ObligationsApart, PairParts DEF Todo

-----------------------------------------------------------------------------
\* A failure's path leads, from the steps of the walk it is told to, to a
\* reason.

Leads(todo, route) == \E h : Chained(h, todo, route) /\ Reason(h[Len(route)])

LEMMA SameChain ==
    ASSUME NEW todo, NEW route, IsList(route), NEW g, NEW h,
           Chained(g, todo, route), Chained(h, todo, route)
    PROVE  g[Len(route)] = h[Len(route)]
<1>1. PICK n \in Nat : n = Len(route)
  BY ListParts
<1> DEFINE P == {k \in Nat : k <= n => g[k] = h[k]}
<1>2. 0 \in P
  BY DEF Chained
<1>3. ASSUME NEW k \in Nat, k \in P PROVE k + 1 \in P
  <2> SUFFICES ASSUME k + 1 <= n PROVE g[k + 1] = h[k + 1]
    OBVIOUS
  <2>1. k + 1 \in 1..n /\ (k + 1) - 1 = k /\ k <= n
    BY <1>1
  <2>2. g[k] = h[k]
    BY <1>3, <2>1
  <2>3. PICK i : i = k + 1
    OBVIOUS
  <2>4. g[i] = Follow(g[k], route[i]) /\ h[i] = Follow(h[k], route[i])
    BY <1>1, <2>1, <2>3 DEF Chained
  <2> QED
    BY <2>2, <2>3, <2>4
<1>4. Nat \subseteq P
  <2> HIDE DEF P
  <2> QED
    BY <1>2, <1>3, AllNumbers
<1>5. n \in P
  BY <1>1, <1>4
<1> QED
  BY <1>1, <1>5

LEMMA LeadsToReason ==
    ASSUME NEW todo, NEW route, IsList(route), Leads(todo, route)
    PROVE  Reason(FoldLeft(Follow, todo, route))
<1>1. PICK h : Chained(h, todo, route) /\ Reason(h[Len(route)])
  BY DEF Leads
<1>2. PICK g : Chained(g, todo, route) /\ FoldLeft(Follow, todo, route) = g[Len(route)]
  BY FollowChain
<1> QED
  BY <1>1, <1>2, SameChain

LEMMA EmptyList == IsList(<< >>) /\ Len(<< >>) = 0
<1>1. PICK s : s = << >>
  OBVIOUS
<1>2. DOMAIN s = 1..0 /\ s = [i \in 1..0 |-> s[i]]
  BY <1>1
<1>3. IsList(s) /\ Len(s) = 0
  BY <1>2, ListMade
<1> QED
  BY <1>1, <1>3

LEMMA Prefixed ==
    ASSUME NEW seg, NEW route, IsList(route)
    PROVE  /\ IsList(<<seg>> \o route) /\ Len(<<seg>> \o route) = Len(route) + 1
           /\ (<<seg>> \o route)[1] = seg
           /\ \A k \in 1..Len(route) : (<<seg>> \o route)[k + 1] = route[k]
<1> DEFINE A == {route[i] : i \in DOMAIN route}
<1>1. route \in Seq(A)
  BY DEF IsList
<1> HIDE DEF A
<1>2. route \in Seq(A \cup {seg}) /\ <<seg>> \in Seq(A \cup {seg}) /\ Len(<<seg>>) = 1
      /\ <<seg>>[1] = seg
  BY <1>1
<1>3. PICK one : one = <<seg>>
  OBVIOUS
<1>4. PICK t : t = one \o route
  OBVIOUS
<1>5. /\ t \in Seq(A \cup {seg}) /\ Len(t) = Len(route) + 1 /\ t[1] = seg
      /\ \A k \in 1..Len(route) : t[k + 1] = route[k]
  <2>1. t \in Seq(A \cup {seg}) /\ Len(t) = 1 + Len(route) /\ Len(route) \in Nat
    BY <1>2, <1>3, <1>4
  <2>2. t[1] = seg
    BY <1>2, <1>3, <1>4
  <2>3. \A k \in 1..Len(route) : t[1 + k] = route[k]
    BY <1>2, <1>3, <1>4
  <2>4. \A k \in 1..Len(route) : t[k + 1] = route[k]
    BY <2>1, <2>3
  <2> QED
    BY <2>1, <2>2, <2>4
<1>6. Len(t) \in Nat /\ DOMAIN t = 1..Len(t) /\ t = [i \in 1..Len(t) |-> t[i]]
  BY <1>5
<1>7. IsList(t)
  BY <1>6, ListMade
<1> QED
  BY <1>3, <1>4, <1>5, <1>7

LEMMA LeadsFurther ==
    ASSUME NEW todo, NEW seg, NEW route, IsList(route), Leads(Follow(todo, seg), route)
    PROVE  Leads(todo, <<seg>> \o route)
<1>1. PICK g : Chained(g, Follow(todo, seg), route) /\ Reason(g[Len(route)])
  BY DEF Leads
<1>2. PICK n \in Nat : n = Len(route)
  BY ListParts
<1>3. PICK longer : longer = <<seg>> \o route
  OBVIOUS
<1>4. Len(longer) = n + 1 /\ longer[1] = seg /\ \A k \in 1..n : longer[k + 1] = route[k]
  BY <1>2, <1>3, Prefixed
<1> DEFINE h == [k \in 0..(n + 1) |-> IF k = 0 THEN todo ELSE g[k - 1]]
<1>5. h[0] = todo
  OBVIOUS
<1>6. ASSUME NEW k \in 1..(n + 1)
      PROVE  h[k] = Follow(h[k - 1], longer[k])
  <2>1. PICK j \in Nat : j = k - 1
    OBVIOUS
  <2>2. k = j + 1 /\ j <= n /\ j \in 0..(n + 1) /\ k \in 0..(n + 1) /\ k # 0
    BY <2>1
  <2>3. h[k] = g[j]
    BY <2>1, <2>2
  <2>4. CASE j = 0
    <3>1. h[k] = Follow(todo, seg) /\ h[j] = todo /\ longer[k] = seg
      BY <1>1, <1>4, <2>2, <2>3, <2>4 DEF Chained
    <3> QED
      BY <2>1, <3>1
  <2>5. CASE j # 0
    <3>1. j \in 1..n
      BY <2>2, <2>5
    <3>2. g[j] = Follow(g[j - 1], route[j])
      BY <1>1, <1>2, <3>1 DEF Chained
    <3>3. h[j] = g[j - 1] /\ longer[k] = route[j]
      BY <1>4, <2>2, <2>5, <3>1
    <3> HIDE DEF h
    <3> QED
      BY <2>1, <2>3, <3>2, <3>3
  <2> QED
    BY <2>4, <2>5
<1>7. h[n + 1] = g[n]
  <2>1. n + 1 \in 0..(n + 1) /\ n + 1 # 0 /\ (n + 1) - 1 = n
    OBVIOUS
  <2> QED
    BY <2>1
<1> HIDE DEF h
<1>8. Chained(h, todo, longer) /\ Reason(h[Len(longer)])
  BY <1>1, <1>2, <1>4, <1>5, <1>6, <1>7 DEF Chained
<1> QED
  BY <1>3, <1>8 DEF Leads

LEMMA LeadsAtOnce ==
    ASSUME NEW todo, Reason(todo)
    PROVE  Leads(todo, << >>)
<1>1. PICK h : h = [k \in {0} |-> todo]
  OBVIOUS
<1>2. Chained(h, todo, << >>)
  <2>1. 1..0 = {} /\ Len(<< >>) = 0
    BY EmptyList
  <2> QED
    BY <1>1, <2>1 DEF Chained
<1> QED
  BY <1>1, <1>2, EmptyList DEF Leads

\* Where a named step leads.
LEMMA FollowStep ==
    ASSUME NEW todo, Apart(todo), NEW i \in DOMAIN todo, todo[i].seg # << >>
    PROVE  Follow(todo, todo[i].seg) = IF todo[i].do = "visit" THEN Obligations(todo[i].pair)
                                       ELSE Mismatch
<1>1. PICK met : met = {j \in DOMAIN todo : todo[j].seg = todo[i].seg}
  OBVIOUS
<1>2. met = {i}
  BY <1>1 DEF Apart
<1>3. (CHOOSE j \in met : TRUE) = i
  BY <1>2
<1> QED
  BY <1>1, <1>2, <1>3 DEF Follow, Mismatch

LEMMA MismatchReason == Reason(Mismatch)
<1>1. PICK o : o = Lack(<< >>, 0)
  OBVIOUS
<1>2. o.do = "lack" /\ o.seg = << >>
  BY <1>1, StepFields, StepSegs
<1>3. PICK todo : todo = <<o>>
  OBVIOUS
<1>4. DOMAIN todo = {1} /\ todo[1] = o /\ todo # << >>
  BY <1>3
<1> QED
  BY <1>1, <1>2, <1>3, <1>4 DEF Mismatch, Reason

LEMMA LackLeads ==
    ASSUME NEW todo, Apart(todo), NEW i \in DOMAIN todo, todo[i].do = "lack"
    PROVE  LET route == IF todo[i].seg = << >> THEN << >> ELSE <<todo[i].seg>>
           IN  IsList(route) /\ Leads(todo, route)
<1>1. CASE todo[i].seg = << >>
  <2>1. todo # << >>
    OBVIOUS
  <2>2. Reason(todo)
    BY <1>1, <2>1 DEF Reason
  <2> QED
    BY <1>1, <2>2, LeadsAtOnce, EmptyList
<1>2. CASE todo[i].seg # << >>
  <2>1. PICK seg : seg = todo[i].seg
    OBVIOUS
  <2>2. Follow(todo, seg) = Mismatch
    BY <1>2, <2>1, FollowStep
  <2>3. Leads(Follow(todo, seg), << >>)
    BY <2>2, MismatchReason, LeadsAtOnce
  <2>4. Leads(todo, <<seg>> \o << >>) /\ IsList(<<seg>> \o << >>)
    BY <2>3, EmptyList, LeadsFurther, Prefixed
  <2>5. <<seg>> \o << >> = <<seg>>
    OBVIOUS
  <2> QED
    BY <1>2, <2>1, <2>4, <2>5
<1> QED
  BY <1>1, <1>2

LEMMA VisitLeads ==
    ASSUME NEW todo, Apart(todo), NEW i \in DOMAIN todo, todo[i].do = "visit",
           NEW route, IsList(route), Leads(Obligations(todo[i].pair), route)
    PROVE  IsList(Within(todo[i].seg, route)) /\ Leads(todo, Within(todo[i].seg, route))
<1>1. PICK seg : seg = todo[i].seg
  OBVIOUS
<1>2. Follow(todo, seg) = Obligations(todo[i].pair)
  BY <1>1, FollowStep DEF Apart
<1>3. Leads(todo, <<seg>> \o route) /\ IsList(<<seg>> \o route)
  BY <1>2, LeadsFurther, Prefixed
<1> QED
  BY <1>1, <1>3 DEF Within

-----------------------------------------------------------------------------
\* The invariant of the paths of failures.

\* The path spells the steps that the walks in progress wait at.
PathTold(stk, route) ==
    /\ IsList(route) /\ Len(route) = Len(stk) - 1
    /\ \A i \in 1..Len(route) : route[i] = Todo(stk[i])[stk[i].at].seg

Reasoned(fld) == \A pair \in DOMAIN fld : IsList(fld[pair]) /\ Leads(Obligations(pair), fld[pair])

\* What travels up to a step that must hold leads to its reason from there.
AtProbe(f) == f.at <= Len(Todo(f)) /\ Todo(f)[f.at].do = "probe"
Travels(stk, flag, reason) ==
    flag => IsList(reason) /\ (AtProbe(stk[Len(stk)]) \/ Leads(Todo(stk[Len(stk)]), reason))

Reached(verdict, reason) ==
    verdict = "incompatible" => IsList(reason) /\ Leads(MethodObligations, reason)

FailureInv == /\ IInv /\ PathTold(stack, path) /\ Reasoned(failed)
              /\ Travels(stack, failing, failure) /\ Reached(outcome, failure)

\* What a step must establish, in terms of this state's input.
FailureNext == /\ PathTold(stack', path') /\ Reasoned(failed')
               /\ Travels(stack', failing', failure')

LEMMA SteadyLeads ==
    ASSUME input' = input
    PROVE  /\ \A p : Obligations(p)' = Obligations(p)
           /\ MethodObligations' = MethodObligations
           /\ \A f : Todo(f)' = Todo(f)
           /\ \A todo, seg : Follow(todo, seg)' = Follow(todo, seg)
           /\ \A todo, route : Leads(todo, route)' = Leads(todo, route)
<1>1. ASSUME NEW p
      PROVE  Obligations(p)' = Obligations(p)
  BY DEF Obligations, OptRule, RecordRule, VariantRule, ServiceRule, FuncRule, Signature,
         Tuple, OptLike, Node
<1>2. MethodObligations' = MethodObligations
  BY DEF MethodObligations, Signature, Tuple, OptLike, Node
<1>3. \A f : Todo(f)' = Todo(f)
  BY Steady
<1>4. ASSUME NEW todo, NEW seg
      PROVE  Follow(todo, seg)' = Follow(todo, seg)
  BY <1>1 DEF Follow
<1>5. ASSUME NEW h, NEW todo, NEW route
      PROVE  Chained(h, todo, route)' = Chained(h, todo, route)
  BY <1>4 DEF Chained
<1>6. ASSUME NEW todo, NEW route
      PROVE  Leads(todo, route)' = Leads(todo, route)
  BY <1>5 DEF Leads, Reason
<1> QED
  BY <1>1, <1>2, <1>3, <1>4, <1>6

LEMMA PathStays ==
    ASSUME PathTold(stack, path), NEW stk, Len(stk) = Len(stack),
           \A i \in 1..(Len(stack) - 1) : stk[i].pair = stack[i].pair /\ stk[i].at = stack[i].at
    PROVE  PathTold(stk, path)
<1>1. \A i \in 1..(Len(stack) - 1) : Todo(stk[i]) = Todo(stack[i])
  BY SameTodo
<1> QED
  BY <1>1 DEF PathTold

\* A step that neither fails nor enters or leaves a walk.
LEMMA ResumedFollows ==
    ASSUME FailureInv, NEW stk,
           stk = Resumed(stack) \/ \E cuts : stk = Resumed(Depending(stack, cuts))
    PROVE  PathTold(stk, path)
<1>1. Frames(stack) /\ DOMAIN stack = 1..Len(stack) /\ Len(stack) \in Nat
  BY TopFacts DEF FailureInv
<1>2. /\ Len(stk) = Len(stack)
      /\ \A i \in DOMAIN stack :
            /\ stk[i].pair = stack[i].pair
            /\ stk[i].at = IF i = Len(stack) THEN stack[i].at + 1 ELSE stack[i].at
  <2>1. CASE stk = Resumed(stack)
    BY <1>1, <2>1, ResumedFrames
  <2>2. ASSUME NEW cuts, stk = Resumed(Depending(stack, cuts))
        PROVE  /\ Len(stk) = Len(stack)
               /\ \A i \in DOMAIN stack :
                     /\ stk[i].pair = stack[i].pair
                     /\ stk[i].at = IF i = Len(stack) THEN stack[i].at + 1 ELSE stack[i].at
    <3>1. GotPast(stack, stk, cuts)
      BY <1>1, <2>2, DependingResumed
    <3> QED
      BY <3>1 DEF GotPast
  <2> QED
    BY <2>1, <2>2
<1>3. \A i \in 1..(Len(stack) - 1) : i \in DOMAIN stack /\ i # Len(stack)
  <2>1. PICK n \in Nat : n = Len(stack) /\ DOMAIN stack = 1..n
    BY <1>1
  <2>2. \A i \in 1..(n - 1) : i \in 1..n /\ i # n
    OBVIOUS
  <2> QED
    BY <2>1, <2>2
<1> QED
  BY <1>2, <1>3, PathStays DEF FailureInv

LEMMA CalmSteps ==
    ASSUME FailureInv, PassOver \/ WarnNull \/ AnswerActive \/ AnswerProven \/ ProbeFails
    PROVE  FailureNext
<1>1. failing \in BOOLEAN
  BY DEF FailureInv, IInv, Walking, Failing
<1>2. failed' = failed /\ path' = path /\ ~failing'
  BY <1>1 DEF PassOver, WarnNull, AnswerActive, AnswerProven, ProbeFails, Meets
<1>3. stack' = Resumed(stack) \/ \E cuts : stack' = Resumed(Depending(stack, cuts))
  BY DEF PassOver, WarnNull, AnswerActive, AnswerProven, ProbeFails
<1>4. PICK stk : stk = stack'
  OBVIOUS
<1>5. PathTold(stk, path)
  BY <1>3, <1>4, ResumedFollows
<1> QED
  BY <1>2, <1>4, <1>5 DEF FailureNext, FailureInv, Travels

\* What the top's step is.
LEMMA TopStep ==
    ASSUME FailureInv
    PROVE  /\ World /\ Apart(Todo(Top)) /\ Top = stack[Len(stack)]
           /\ ~AtEnd => Top.at \in DOMAIN Todo(Top) /\ Current = Todo(Top)[Top.at]
<1>1. World
  BY DEF FailureInv, IInv
<1>2. Apart(Todo(Top))
  BY <1>1, TopFacts, TodoApart DEF FailureInv
<1> QED
  BY <1>1, <1>2, TopFacts DEF FailureInv, Top, Current

LEMMA FindLackFails ==
    ASSUME FailureInv, FindLack PROVE FailureNext
<1>1. /\ ~AtEnd /\ Current.do = "lack" /\ stack' = stack /\ path' = path /\ failed' = failed
      /\ failure' = IF Current.seg = << >> THEN << >> ELSE <<Current.seg>>
  BY DEF FindLack, Meets
<1>2. PICK todo, i : todo = Todo(Top) /\ i = Top.at
  OBVIOUS
<1>3. i \in DOMAIN todo /\ Current = todo[i] /\ Apart(todo)
  BY <1>1, <1>2, TopStep
<1>4. IsList(failure') /\ Leads(todo, failure')
  BY <1>1, <1>3, LackLeads
<1>5. Travels(stack', failing', failure')
  BY <1>1, <1>2, <1>4 DEF Travels, Top
<1> QED
  BY <1>1, <1>5 DEF FailureNext, FailureInv

LEMMA AnswerFailedFails ==
    ASSUME FailureInv, AnswerFailed PROVE FailureNext
<1>1. /\ ~AtEnd /\ Current.do \in {"visit", "probe"} /\ Current.pair \in DOMAIN failed
      /\ stack' = Marked /\ path' = path /\ failed' = failed
      /\ failure' = IF Current.do = "probe" THEN failed[Current.pair]
                    ELSE Within(Current.seg, failed[Current.pair])
  BY DEF AnswerFailed, Meets
<1>2. PICK todo, i : todo = Todo(Top) /\ i = Top.at
  OBVIOUS
<1>3. i \in DOMAIN todo /\ Current = todo[i] /\ Apart(todo)
  BY <1>1, <1>2, TopStep
<1>4. PICK stk, n : stk = Marked /\ n = Len(stack)
  OBVIOUS
<1>5. /\ Len(stk) = n /\ n \in Nat /\ DOMAIN stack = 1..n /\ n \in DOMAIN stack
      /\ \A k \in DOMAIN stack : stk[k].pair = stack[k].pair /\ stk[k].at = stack[k].at
  BY <1>4, TopFacts, MarkedFrames DEF FailureInv
<1>6. PathTold(stk, path)
  <2>1. \A k \in 1..(n - 1) : k \in DOMAIN stack
    BY <1>5
  <2>2. \A k \in 1..(Len(stack) - 1) : stk[k].pair = stack[k].pair /\ stk[k].at = stack[k].at
    BY <1>4, <1>5, <2>1
  <2>3. Len(stk) = Len(stack) /\ PathTold(stack, path)
    BY <1>4, <1>5 DEF FailureInv
  <2> QED
    BY <2>2, <2>3, PathStays
<1>7. Todo(stk[n]) = todo /\ stk[n].at = i
  BY <1>2, <1>4, <1>5, SameTodo DEF Top
<1>8. PICK reason : reason = failed[Current.pair]
  OBVIOUS
<1>9. IsList(reason) /\ Leads(Obligations(Current.pair), reason)
  BY <1>1, <1>8 DEF FailureInv, Reasoned
<1>10. IsList(failure') /\ (AtProbe(stk[n]) \/ Leads(todo, failure'))
  <2>1. CASE Current.do = "probe"
    <3>1. AtProbe(stk[n])
      BY <1>1, <1>2, <1>3, <1>7, <2>1 DEF AtProbe, AtEnd, Top
    <3> QED
      BY <1>1, <1>8, <1>9, <2>1, <3>1
  <2>2. CASE Current.do = "visit"
    BY <1>1, <1>3, <1>8, <1>9, <2>2, VisitLeads
  <2> QED
    BY <1>1, <2>1, <2>2
<1>11. Travels(stk, failing', failure')
  BY <1>5, <1>7, <1>10 DEF Travels
<1> QED
  BY <1>1, <1>4, <1>6, <1>11 DEF FailureNext, FailureInv

LEMMA DescendFollows ==
    ASSUME FailureInv, Descend PROVE FailureNext
<1>1. /\ ~AtEnd /\ path' = Append(path, Current.seg) /\ failed' = failed /\ ~failing'
  BY DEF Descend, Meets, FailureInv, IInv, Walking, Failing
<1>2. PICK mid, new : mid = Marked /\ new = Frame(Current.pair)
  OBVIOUS
<1>3. PICK stk : stk = Append(mid, new) /\ stk = stack'
  BY <1>2 DEF Descend
<1>4. PICK n : n = Len(stack)
  OBVIOUS
<1>5. /\ n \in Nat /\ n >= 1 /\ Frames(mid) /\ Len(mid) = n
      /\ \A i \in 1..n : mid[i].pair = stack[i].pair /\ mid[i].at = stack[i].at
  BY <1>2, <1>4, TopFacts, MarkedFrames DEF FailureInv
<1>6. Len(stk) = n + 1 /\ \A i \in 1..n : stk[i] = mid[i]
  <2>1. IsList(mid) /\ stk = Append(mid, new)
    BY <1>3, <1>5 DEF Frames
  <2>2. Len(stk) = Len(mid) + 1 /\ \A i \in 1..Len(mid) : stk[i] = mid[i]
    BY <2>1, AppendedList
  <2> QED
    BY <1>5, <2>2
<1>7. PICK route : route = Append(path, Current.seg)
  OBVIOUS
<1>8. IsList(path) /\ Len(path) = n - 1
      /\ \A i \in 1..(n - 1) : path[i] = Todo(stack[i])[stack[i].at].seg
  BY <1>4 DEF FailureInv, PathTold
<1>9. /\ IsList(route) /\ Len(route) = n /\ route[n] = Current.seg
      /\ \A i \in 1..(n - 1) : route[i] = path[i]
  <2>1. /\ IsList(route) /\ Len(route) = Len(path) + 1 /\ route[Len(path) + 1] = Current.seg
        /\ \A i \in 1..Len(path) : route[i] = path[i]
    BY <1>7, <1>8, AppendedList
  <2> QED
    BY <1>5, <1>8, <2>1
<1>10. ASSUME NEW i \in 1..n
       PROVE  route[i] = Todo(stk[i])[stk[i].at].seg
  <2>1. Todo(stk[i]) = Todo(stack[i]) /\ stk[i].at = stack[i].at
    BY <1>5, <1>6, SameTodo
  <2>2. CASE i = n
    BY <1>4, <1>9, <2>1, <2>2 DEF Current, Top
  <2>3. CASE i # n
    <3>1. i \in 1..(n - 1)
      BY <1>5, <2>3
    <3> QED
      BY <1>8, <1>9, <2>1, <3>1
  <2> QED
    BY <2>2, <2>3
<1>11. PathTold(stk, route)
  <2>1. Len(stk) - 1 = n
    BY <1>5, <1>6
  <2> QED
    BY <1>9, <1>10, <2>1 DEF PathTold
<1> QED
  BY <1>1, <1>3, <1>7, <1>11 DEF FailureNext, FailureInv, Travels

LEMMA FrontPath ==
    ASSUME FailureInv, Len(stack) > 1, NEW stk, Len(stk) = Len(stack) - 1,
           \A i \in 1..(Len(stk) - 1) : stk[i].pair = stack[i].pair /\ stk[i].at = stack[i].at
    PROVE  PathTold(stk, Front(path))
<1>1. PICK n \in Nat : n = Len(stack) /\ n > 1
  BY TopFacts DEF FailureInv
<1>2. PICK front : front = Front(path)
  OBVIOUS
<1>3. IsList(path) /\ Len(path) = n - 1
      /\ \A i \in 1..(n - 1) : path[i] = Todo(stack[i])[stack[i].at].seg
  BY <1>1 DEF FailureInv, PathTold
<1>4. IsList(front) /\ Len(front) = n - 2 /\ \A i \in 1..(n - 2) : front[i] = path[i]
  <2>1. CASE n > 2
    <3>1. Len(path) > 1 /\ Len(path) - 1 = n - 2
      BY <1>1, <1>3, <2>1
    <3>2. /\ IsList(front) /\ Len(front) = Len(path) - 1
          /\ \A i \in 1..(Len(path) - 1) : front[i] = path[i]
      BY <1>2, <1>3, <3>1, FrontList
    <3> QED
      BY <3>1, <3>2
  <2>2. CASE n = 2
    <3>1. front = [i \in 1..0 |-> path[i]]
      BY <1>2, <1>3, <2>2 DEF Front
    <3>2. DOMAIN front = 1..0 /\ front = [i \in 1..0 |-> front[i]]
      BY <3>1
    <3>3. IsList(front) /\ Len(front) = 0
      BY <3>2, ListMade
    <3> QED
      BY <2>2, <3>3
  <2> QED
    BY <1>1, <2>1, <2>2
<1>5. ASSUME NEW i \in 1..(n - 2)
      PROVE  front[i] = Todo(stk[i])[stk[i].at].seg
  <2>1. i \in 1..(n - 1) /\ i \in 1..(Len(stk) - 1)
    BY <1>1
  <2>2. Todo(stk[i]) = Todo(stack[i]) /\ stk[i].at = stack[i].at
    BY <2>1, SameTodo
  <2> QED
    BY <1>3, <1>4, <2>1, <2>2
<1>6. Len(stk) - 1 = n - 2
  BY <1>1
<1> QED
  BY <1>2, <1>4, <1>5, <1>6 DEF PathTold

LEMMA FinishHoldsFollows ==
    ASSUME FailureInv, FinishHolds PROVE FailureNext
<1>1. /\ Len(stack) > 1 /\ path' = Front(path) /\ failed' = failed /\ ~failing'
  BY DEF FinishHolds, FailureInv, IInv, Walking, Failing
<1>2. PICK stk, m : stk = Resumed(Closed(Top.cuts, Top.pair)) /\ m = Len(stack) - 1
  OBVIOUS
<1>3. Told(stk, m)
  BY <1>1, <1>2, ClosedFrames DEF FailureInv
<1>4. m \in Nat
  BY <1>1, <1>2, TopFacts DEF FailureInv
<1>5. /\ Len(stk) = Len(stack) - 1
      /\ \A i \in 1..(Len(stk) - 1) : stk[i].pair = stack[i].pair /\ stk[i].at = stack[i].at
  <2>1. Len(stk) = m /\ \A i \in 1..(m - 1) : i \in 1..m
    BY <1>3, <1>4 DEF Told
  <2> QED
    BY <1>2, <1>3, <2>1 DEF Told
<1>6. PathTold(stk, Front(path))
  BY <1>1, <1>5, FrontPath
<1>7. stack' = stk
  BY <1>2 DEF FinishHolds
<1> QED
  BY <1>1, <1>6, <1>7 DEF FailureNext, FailureInv, Travels

LEMMA FinishFailsFails ==
    ASSUME FailureInv, FinishFails PROVE FailureNext
<1>1. /\ Len(stack) > 1 /\ path' = Front(path) /\ failing /\ ~Probing
      /\ stack' = Front(stack) /\ failed' = Extended(failed, Top.pair, failure)
      /\ failure' = IF Todo(stack[Len(stack) - 1])[stack[Len(stack) - 1].at].do = "probe"
                    THEN failure ELSE Within(Last(path), failure)
  BY DEF FinishFails
<1>2. PICK n \in Nat : n = Len(stack) /\ n > 1
  BY <1>1, TopFacts DEF FailureInv
<1>3. PICK m \in Nat : m = n - 1
  BY <1>2
<1>4. PICK stk : stk = Front(stack)
  OBVIOUS
<1>5. Len(stk) = m /\ \A i \in 1..m : stk[i] = stack[i]
  BY <1>2, <1>3, <1>4, TopFacts, FrontList DEF Frames, FailureInv
<1>6. PathTold(stk, Front(path))
  <2>1. \A i \in 1..(m - 1) : i \in 1..m
    OBVIOUS
  <2>2. \A i \in 1..(Len(stk) - 1) : stk[i].pair = stack[i].pair /\ stk[i].at = stack[i].at
    BY <1>5, <2>1
  <2> QED
    BY <1>1, <1>2, <1>3, <1>5, <2>2, FrontPath
<1>7. Top = stack[n] /\ Top.pair \in Pair /\ Todo(Top) = Obligations(Top.pair)
  BY <1>2, TopFacts, PairParts DEF FailureInv, Top, Todo
<1>8. IsList(failure) /\ Leads(Obligations(Top.pair), failure)
  <2>1. IsList(failure) /\ (AtProbe(Top) \/ Leads(Todo(Top), failure))
    BY <1>1 DEF FailureInv, Travels, Top
  <2>2. ~AtProbe(Top)
    <3>1. Len(Todo(Top)) \in Nat /\ Top.at \in 1..(Len(Todo(Top)) + 1)
      BY TopFacts DEF FailureInv
    <3> QED
      BY <1>1, <3>1 DEF AtProbe, Probing, AtEnd, Current
  <2> QED
    BY <1>7, <2>1, <2>2
<1>9. Reasoned(failed')
  <2>1. PICK fld, pair : fld = failed' /\ pair = Top.pair
    OBVIOUS
  <2>2. fld = [x \in DOMAIN failed \cup {pair} |-> IF x = pair THEN failure ELSE failed[x]]
    BY <1>1, <2>1 DEF Extended
  <2>3. ASSUME NEW x \in DOMAIN fld
        PROVE  IsList(fld[x]) /\ Leads(Obligations(x), fld[x])
    <3>1. CASE x = pair
      <4>1. fld[x] = failure
        BY <2>2, <3>1
      <4> QED
        BY <1>8, <2>1, <3>1, <4>1
    <3>2. CASE x # pair
      <4>1. x \in DOMAIN failed /\ fld[x] = failed[x]
        BY <2>2, <3>2
      <4> QED
        BY <4>1 DEF FailureInv, Reasoned
    <3> QED
      BY <3>1, <3>2
  <2> QED
    BY <2>1, <2>3 DEF Reasoned
<1>10. m \in 1..(Len(stack) - 1) /\ m + 1 = n
  BY <1>2, <1>3
<1>11. PICK f : f = stack[m]
  OBVIOUS
<1>12. Awaits(f, Top.pair)
  BY <1>7, <1>10, <1>11 DEF FailureInv, IInv, Walking, Linked
<1>13. PICK todo, i : todo = Todo(f) /\ i = f.at
  OBVIOUS
<1>14. /\ i \in DOMAIN todo /\ Apart(todo) /\ todo[i].do \in {"visit", "probe"}
       /\ todo[i].pair = Top.pair /\ i <= Len(todo)
  <2>1. World /\ Framed(stack) /\ m \in DOMAIN stack
    BY <1>2, <1>3, <1>10, TopFacts DEF FailureInv, IInv, Walking
  <2>2. (f.pair \in Pair \/ f.pair = NoPair) /\ f.at \in 1..(Len(Todo(f)) + 1)
    <3>1. m = 1 \/ m > 1
      BY <1>10
    <3> QED
      BY <1>11, <2>1, <3>1 DEF Framed
  <2>3. Len(Todo(f)) \in Nat /\ DOMAIN Todo(f) = 1..Len(Todo(f)) /\ Apart(Todo(f))
    BY <2>1, <2>2, TodoSteps, TodoApart
  <2> QED
    BY <1>12, <1>13, <2>2, <2>3 DEF Awaits
<1>15. Last(path) = todo[i].seg
  <2>1. Len(path) = m /\ m \in 1..Len(path)
    BY <1>2, <1>3, <1>10 DEF FailureInv, PathTold
  <2> QED
    BY <1>11, <1>13, <2>1 DEF FailureInv, PathTold, Last
<1>16. failure' = IF todo[i].do = "probe" THEN failure ELSE Within(todo[i].seg, failure)
  BY <1>1, <1>2, <1>3, <1>11, <1>13, <1>15
<1>17. IsList(failure') /\ (AtProbe(f) \/ Leads(Todo(f), failure'))
  <2>1. CASE todo[i].do = "probe"
    BY <1>8, <1>13, <1>14, <1>16, <2>1 DEF AtProbe
  <2>2. CASE todo[i].do = "visit"
    <3>1. IsList(Within(todo[i].seg, failure)) /\ Leads(todo, Within(todo[i].seg, failure))
      BY <1>8, <1>14, <2>2, VisitLeads
    <3> QED
      BY <1>13, <1>16, <2>2, <3>1
  <2> QED
    BY <1>14, <2>1, <2>2
<1>18. Travels(stk, failing', failure')
  <2>1. stk[m] = f
    BY <1>5, <1>10, <1>11
  <2> QED
    BY <1>5, <1>17, <2>1 DEF Travels
<1> QED
  BY <1>1, <1>4, <1>6, <1>9, <1>18 DEF FailureNext

LEMMA MethodFailsReached ==
    ASSUME FailureInv, MethodFails
    PROVE  IsList(failure) /\ Leads(MethodObligations, failure)
<1>1. Len(stack) = 1 /\ failing
  BY DEF MethodFails, Decide
<1>2. Top = stack[1] /\ Todo(Top) = MethodObligations /\ DOMAIN Todo(Top) = 1..Len(Todo(Top))
      /\ Len(Todo(Top)) \in Nat /\ Top.at \in 1..(Len(Todo(Top)) + 1)
  BY <1>1, TopFacts DEF FailureInv, Top, Todo
<1>3. ~AtProbe(Top)
  <2> SUFFICES ASSUME Top.at <= Len(Todo(Top)) PROVE Todo(Top)[Top.at].do # "probe"
    BY DEF AtProbe
  <2>1. Top.at \in DOMAIN MethodObligations
    BY <1>2
  <2> QED
    BY <1>2, <2>1, MethodSteps DEF FailureInv, IInv
<1> QED
  BY <1>1, <1>2, <1>3 DEF FailureInv, Travels

LEMMA FailureTransfers ==
    ASSUME FailureInv, IInv', input' = input, FailureNext, Reached(outcome', failure')
    PROVE  FailureInv'
<1>1. /\ \A p : Obligations(p)' = Obligations(p)
      /\ MethodObligations' = MethodObligations
      /\ \A f : Todo(f)' = Todo(f)
      /\ \A todo, route : Leads(todo, route)' = Leads(todo, route)
  BY SteadyLeads
<1>2. PathTold(stack, path)'
  BY <1>1 DEF FailureNext, PathTold
<1>3. Reasoned(failed)'
  BY <1>1 DEF FailureNext, Reasoned
<1>4. Travels(stack, failing, failure)'
  BY <1>1 DEF FailureNext, Travels, AtProbe
<1>5. Reached(outcome, failure)'
  BY <1>1 DEF Reached
<1> QED
  BY <1>2, <1>3, <1>4, <1>5 DEF FailureInv

LEMMA FailureInit == Init => FailureInv
<1> SUFFICES ASSUME Init PROVE FailureInv
  OBVIOUS
<1>1. IInv
  BY InitHolds
<1>2. PICK f : f = Frame(NoPair)
  OBVIOUS
<1>3. Len(stack) = 1 /\ path = << >>
  BY <1>2 DEF Init
<1>4. PathTold(stack, path)
  <2>1. IsList(path) /\ Len(path) = 0
    BY <1>3, EmptyList
  <2> QED
    BY <1>3, <2>1 DEF PathTold
<1>5. Reasoned(failed)
  <2>1. failed = << >> /\ DOMAIN << >> = {}
    BY DEF Init
  <2> QED
    BY <2>1 DEF Reasoned
<1>6. Travels(stack, failing, failure) /\ Reached(outcome, failure)
  BY DEF Init, Travels, Reached
<1> QED
  BY <1>1, <1>4, <1>5, <1>6 DEF FailureInv

LEMMA FailureStep == FailureInv /\ [Next]_vars => FailureInv'
<1> SUFFICES ASSUME FailureInv, [Next]_vars PROVE FailureInv'
  OBVIOUS
<1>1. input' = input
  BY DEF vars, Next, PassOver, FindLack, WarnNull, AnswerFailed, AnswerActive, AnswerProven,
         Descend, FinishHolds, FinishFails, ProbeFails, MethodHolds, MethodFails, Exhaust,
         Spend, Decide
<1>2. IInv'
  BY StepKeeps DEF FailureInv
<1>3. ASSUME FailureNext, outcome' = outcome, outcome = "running"
      PROVE  FailureInv'
  BY <1>1, <1>2, <1>3, FailureTransfers DEF Reached
<1>4. CASE PassOver \/ WarnNull \/ AnswerActive \/ AnswerProven \/ ProbeFails
  <2>1. outcome' = outcome /\ outcome = "running"
    BY <1>4 DEF PassOver, WarnNull, AnswerActive, AnswerProven, ProbeFails, Meets, Running, Spend
  <2> QED
    BY <1>3, <1>4, <2>1, CalmSteps
<1>5. CASE FindLack
  BY <1>3, <1>5, FindLackFails DEF FindLack, Meets, Running, Spend
<1>6. CASE AnswerFailed
  BY <1>3, <1>6, AnswerFailedFails DEF AnswerFailed, Meets, Running, Spend
<1>7. CASE Descend
  BY <1>3, <1>7, DescendFollows DEF Descend, Meets, Running, Spend
<1>8. CASE FinishHolds
  BY <1>3, <1>8, FinishHoldsFollows DEF FinishHolds, Running, Spend
<1>9. CASE FinishFails
  BY <1>3, <1>9, FinishFailsFails DEF FinishFails, Running, Spend
<1>10. ASSUME stack' = stack, path' = path, failed' = failed, failing' = failing,
              failure' = failure
       PROVE  FailureNext
  BY <1>10 DEF FailureNext, FailureInv
<1>11. CASE MethodHolds \/ Exhaust
  <2>1. FailureNext
    BY <1>10, <1>11 DEF MethodHolds, Decide, Exhaust
  <2>2. outcome' # "incompatible"
    BY <1>11 DEF MethodHolds, Decide, Exhaust
  <2> QED
    BY <1>1, <1>2, <2>1, <2>2, FailureTransfers DEF Reached
<1>12. CASE MethodFails
  <2>1. FailureNext /\ failure' = failure
    BY <1>10, <1>12 DEF MethodFails, Decide
  <2>2. Reached(outcome', failure')
    BY <1>12, <2>1, MethodFailsReached DEF Reached
  <2> QED
    BY <1>1, <1>2, <2>1, <2>2, FailureTransfers
<1>13. CASE UNCHANGED vars
  <2>1. FailureNext /\ failure' = failure /\ outcome' = outcome
    BY <1>10, <1>13 DEF vars
  <2>2. Reached(outcome', failure')
    BY <2>1 DEF FailureInv
  <2> QED
    BY <1>1, <1>2, <2>1, <2>2, FailureTransfers
<1> QED
  BY <1>4, <1>5, <1>6, <1>7, <1>8, <1>9, <1>11, <1>12, <1>13 DEF Next

LEMMA ReachedIsReached == FailureInv => FailureIsReached
<1> SUFFICES ASSUME FailureInv, outcome = "incompatible" PROVE FailureIsReached
  BY DEF FailureIsReached
<1>1. Reason(FoldLeft(Follow, MethodObligations, failure))
  BY LeadsToReason DEF FailureInv, Reached
<1> QED
  BY <1>1 DEF FailureIsReached, Reason, Follow, FoldLeft, MapThenFoldSet

\* For all arenas, functions and bounds: the path an incompatible method reports
\* leads, one segment after another, from the method to a step that cannot be
\* met or to types that do not fit (compat.rs, within and fail), however often
\* the failure was remembered and told again.
THEOREM FailurePathIsReal == Spec => []FailureIsReached
<1> QED
  BY FailureInit, FailureStep, ReachedIsReached, PTL DEF Spec
=============================================================================
