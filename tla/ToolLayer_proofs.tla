---------------------------- MODULE ToolLayer_proofs ----------------------------
(***************************************************************************)
(* For any number of callers and any bounds: a settled intent never runs,  *)
(* every answer is honest and, unless host functions fail while three      *)
(* calls are open at once, one intent is live and a call never runs twice  *)
(* unknowingly.                                                            *)
(*                                                                         *)
(* At most one caller works on an intent (`busy`), so what the layer knows *)
(* of it is what that caller has been told: while no outcome was unknown,  *)
(* every message still under way is the one its caller waits for, and the  *)
(* call has run only if that caller's reply says so.                       *)
(***************************************************************************)
EXTENDS ToolLayer, FiniteSetTheorems, TLAPS

States == {"preparing", "prepared", "unknown", "reconcile", "done", "settled"}
Replies == {"none", "success", "already_done", "trapped", "rejected", "fail", "too_old",
            "in_future", "retry_same"}
Stamps == Int \cup {NoStamp}

Calls == [at : Places, intent : Nat, preview : Nat, previous : Nat,
          clock : Int, stamp : Stamps, send : Nat, reply : Replies]

Intents == [state : States, preview : Nat, hadUnknown : BOOLEAN, answeredUnknown : Nat,
            retriedSame : Nat, attempts : Nat, busy : BOOLEAN]
Previews == [intent : Nat, stamp : Stamps, superseded : BOOLEAN]

\* Finite because bounded: what the search for an untaken stamp relies on.
IsBounded(S) == \E low, high \in Int : S \subseteq low .. high

TypeOK ==
    /\ stamped \in BOOLEAN /\ clock \in Int /\ sends \in Nat /\ entry \in Nat
    /\ executed \in Seq([preview : Nat, stamp : Stamps])
    /\ inflight \subseteq [send : Nat, preview : Nat, stamp : Stamps]
    /\ intents \in Seq(Intents) /\ previews \in Seq(Previews)
    /\ IsBounded(taken) /\ IsBounded(sent)
    /\ call \in [Callers -> Calls]
    /\ woken \subseteq Callers

\* From the confirmation to the end of a commit, a caller works on an intent.
Working == {"confirming", "sending", "restamping", "reencoding", "reconciling"}
Works(c, i) == call[c].at \in Working /\ call[c].intent = i
Encodes(c, i) == call[c].at = "encoding" /\ call[c].intent = i

WorkInv ==
    \A c \in Callers : call[c].at \in Working =>
        /\ call[c].intent \in DOMAIN intents
        /\ Mine(c).busy /\ call[c].preview = Mine(c).preview
        /\ Mine(c).state \in (IF call[c].at = "reconciling" THEN {"reconcile"}
                              ELSE {"prepared", "unknown"})
        /\ call[c].at = "reconciling" => stamped
        /\ call[c].at = "sending" => Mine(c).attempts # 0
        /\ call[c].at = "confirming" => call[c].reply = "none"
        /\ \A d \in Callers : Works(d, call[c].intent) => d = c
        /\ call[c].at \in {"restamping", "reencoding"} =>
             call[c].reply \in {"too_old", "in_future"} /\ ~Mine(c).hadUnknown

EncodeInv ==
    \A c \in Callers : call[c].at = "encoding" =>
        /\ call[c].intent \in DOMAIN intents /\ Mine(c).state = "preparing"
        /\ \A d \in Callers : Encodes(d, call[c].intent) => d = c

IntentInv ==
    \A i \in DOMAIN intents :
        /\ intents[i].attempts = 0 => ~intents[i].hadUnknown
        /\ intents[i].state = "preparing" =>
             PreviewsOf(i) = {} /\ ~intents[i].hadUnknown /\ ~intents[i].busy
        /\ intents[i].state # "preparing" =>
             intents[i].preview \in PreviewsOf(i) /\ ~previews[intents[i].preview].superseded
        /\ intents[i].state = "done" =>
             \E k \in DOMAIN executed : executed[k].preview = intents[i].preview

\* A superseded preview is not the one that is sent, and never runs.
PreviewInv ==
    \A p \in DOMAIN previews :
        /\ previews[p].intent \in DOMAIN intents
        /\ previews[p].superseded \/ p = intents[previews[p].intent].preview
        /\ previews[p].superseded => NeverRuns(p, previews[p].stamp)

\* No two previews share a stamp: one that is handed out is new.
InHand(c) == call[c].at \in {"encoding", "reencoding"}
StampInv ==
    /\ stamped =>
         /\ \A p \in DOMAIN previews :
              /\ previews[p].stamp \in taken
              /\ \A q \in DOMAIN previews : previews[p].stamp = previews[q].stamp => p = q
         /\ \A c \in Callers : InHand(c) =>
              /\ call[c].stamp \in taken
              /\ \A p \in DOMAIN previews : previews[p].stamp # call[c].stamp
              /\ \A d \in Callers : InHand(d) /\ call[d].stamp = call[c].stamp => d = c
    /\ ~stamped =>
         /\ \A p \in DOMAIN previews : previews[p].stamp = NoStamp
         /\ \A c \in Callers : InHand(c) => call[c].stamp = NoStamp

MessageInv ==
    /\ \A k \in DOMAIN executed :
         executed[k].preview \in DOMAIN previews
         /\ executed[k].stamp = previews[executed[k].preview].stamp
    /\ \A m \in inflight :
         /\ m.preview \in DOMAIN previews /\ m.stamp = previews[m.preview].stamp
         /\ m.send <= sends
         /\ \A n \in inflight : m.send = n.send => m = n

\* What a caller that waits for an answer knows.
SendInv ==
    \A c \in Callers : call[c].at = "sending" =>
        /\ call[c].send <= sends
        /\ \A m \in inflight : m.send = call[c].send =>
             m.preview = call[c].preview /\ call[c].reply = "none"
        /\ call[c].reply \in {"success", "already_done"} =>
             \E k \in DOMAIN executed : executed[k].preview = call[c].preview

\* What is known of an intent none of whose outcomes was unknown.
Tells(c, i) ==
    /\ call[c].at = "sending" /\ call[c].intent = i
    /\ call[c].reply \in {"success", "already_done", "trapped"}
KnownInv ==
    \A i \in DOMAIN intents : ~intents[i].hadUnknown =>
        /\ \A m \in inflight : previews[m.preview].intent = i =>
             \E c \in Callers :
                call[c].at = "sending" /\ call[c].intent = i /\ call[c].send = m.send
        /\ HasExecuted(i) => intents[i].state = "done" \/ \E c \in Callers : Tells(c, i)

\* Without a stamp nothing is sent again after an unknown outcome, and at most one
\* message of an intent is under way or has run.
UnstampedInv ==
    ~stamped => \A i \in DOMAIN intents :
        /\ intents[i].hadUnknown => intents[i].state = "reconcile"
        /\ \A m \in inflight : previews[m.preview].intent = i =>
             /\ ~HasExecuted(i)
             /\ \A n \in inflight : previews[n.preview].intent = i => m = n

IInv == /\ TypeOK /\ WorkInv /\ EncodeInv /\ IntentInv /\ PreviewInv /\ StampInv
        /\ MessageInv /\ SendInv /\ KnownInv /\ UnstampedInv /\ SettledNeverRuns
        /\ HonestAnswers

\* At most one intent is live or becoming so, and it is the registered one.
Live(i) == intents[i].state \in Unsettled \/ \E c \in Callers : Encodes(c, i)
LiveInv ==
    /\ entry \in DOMAIN intents \cup {0}
    /\ \A c \in Callers : call[c].at = "encoding" => call[c].previous \in DOMAIN intents \cup {0}
    /\ \A i \in DOMAIN intents : Live(i) => i = entry
    /\ woken # {} =>
         \/ entry # 0 /\ intents[entry].state \in Unsettled
         \/ /\ \A i \in DOMAIN intents : ~Live(i)
            /\ \A c, d \in woken : c = d

\* No host function fails, or at most two calls are open at once.
Undisturbed == ~HostMayFail \/ \A c, d, e \in Callers : c = d \/ d = e \/ c = e

-----------------------------------------------------------------------------
\* Stamps: one that is handed out is an integer nobody has.

LEMMA BoundedMore ==
    ASSUME NEW S, IsBounded(S), NEW x \in Int
    PROVE  IsBounded(S \cup {x}) /\ S \subseteq Int
<1>1. PICK low \in Int, high \in Int : S \subseteq low .. high
  BY DEF IsBounded
<1> DEFINE l == IF x < low THEN x ELSE low
           h == IF x > high THEN x ELSE high
<1>2. l \in Int /\ h \in Int /\ l <= low /\ high <= h /\ l <= x /\ x <= h
  OBVIOUS
<1> HIDE DEF l, h
<1>3. S \cup {x} \subseteq l .. h /\ S \subseteq Int
  BY <1>1, <1>2
<1> QED
  BY <1>2, <1>3 DEF IsBounded

LEMMA BoundedFinite ==
    ASSUME NEW S, IsBounded(S)
    PROVE  IsFiniteSet(S) /\ Cardinality(S) \in Nat
<1>1. PICK low \in Int, high \in Int : S \subseteq low .. high
  BY DEF IsBounded
<1>2. IsFiniteSet(low .. high)
  BY FS_Interval
<1> QED
  BY <1>1, <1>2, FS_Subset, FS_CardinalityType

\* The least element of a bounded set, by the well-founded order of the naturals.
LEMMA LeastExists ==
    ASSUME NEW S, NEW low \in Int, NEW high \in Int, S \subseteq low .. high, S # {}
    PROVE  \E s \in S : \A t \in S : s <= t
<1> DEFINE T == {s - low : s \in S}
           Less == {ss \in Nat \X Nat : ss[1] < ss[2]}
<1>1. T \subseteq Nat /\ T # {}
  <2>1. \A s \in S : s - low \in Nat
    OBVIOUS
  <2> QED
    BY <2>1
<1>2. IsWellFoundedOn(Less, Nat)
  BY NatLessThanWellFounded DEF OpToRel
<1>3. \E x \in T : \A y \in T : <<y, x>> \notin Less
  <2> HIDE DEF T, Less
  <2> QED
    BY <1>1, <1>2, WFMin
<1>4. PICK x \in T : \A y \in T : x <= y
  <2>1. \A y, z \in Nat : <<y, z>> \notin Less => z <= y
    OBVIOUS
  <2> HIDE DEF T, Less
  <2> QED
    BY <1>1, <1>3, <2>1
<1>5. PICK s \in S : x = s - low
  BY <1>4
<1>6. \A t \in S : t - low \in T /\ t \in Int
  OBVIOUS
<1>7. \A t \in S : s <= t
  <2> HIDE DEF T
  <2> QED
    BY <1>4, <1>5, <1>6
<1> QED
  BY <1>7

LEMMA LowestType ==
    ASSUME NEW S, IsBounded(S), S # {}
    PROVE  LowestOf(S) \in S
BY LeastExists DEF LowestOf, IsBounded

LEMMA HighestType ==
    ASSUME NEW S, IsBounded(S), S # {}
    PROVE  HighestOf(S) \in S
<1>1. PICK low \in Int, high \in Int : S \subseteq low .. high
  BY DEF IsBounded
<1> DEFINE M == {-s : s \in S}
<1>2. M \subseteq (-high) .. (-low) /\ M # {} /\ -high \in Int /\ -low \in Int
  <2>1. \A s \in S : -s \in (-high) .. (-low)
    BY <1>1
  <2> QED
    BY <2>1
<1>3. \E s \in M : \A t \in M : s <= t
  <2> HIDE DEF M
  <2> QED
    BY <1>2, LeastExists
<1>4. \E s \in S : \A t \in S : t <= s
  <2>1. PICK s \in S : \A t \in M : -s <= t
    BY <1>3
  <2>2. \A t \in S : -t \in M /\ t \in Int
    BY <1>1
  <2> HIDE DEF M
  <2>3. \A t \in S : t <= s
    BY <2>1, <2>2
  <2> QED
    BY <2>3
<1> QED
  BY <1>4 DEF HighestOf

\* More integers in a row than there are taken ones hold one that is not.
LEMMA SomeUntaken ==
    ASSUME IsBounded(taken), NEW a \in Int, NEW b \in Int, b - a = Cardinality(taken)
    PROVE  \E s \in a .. b : s \notin taken
<1>1. IsFiniteSet(taken) /\ Cardinality(taken) \in Nat
  BY BoundedFinite
<1>2. Cardinality(a .. b) = Cardinality(taken) + 1
  <2>1. Cardinality(a .. b) = IF a > b THEN 0 ELSE b - a + 1
    BY FS_Interval
  <2> QED
    BY <1>1, <2>1
<1> SUFFICES ASSUME a .. b \subseteq taken PROVE FALSE
  OBVIOUS
<1>3. Cardinality(a .. b) <= Cardinality(taken)
  BY <1>1, FS_Subset
<1> QED
  BY <1>1, <1>2, <1>3

LEMMA UntakenIsNew ==
    ASSUME IsBounded(taken), NEW from \in Int, NEW down \in BOOLEAN
    PROVE  Untaken(from, down) \in Int /\ Untaken(from, down) \notin taken
<1> DEFINE n == Cardinality(taken)
           D == {s \in (from - n) .. from : s \notin taken}
           U == {s \in from .. (from + n) : s \notin taken}
<1>1. n \in Nat
  BY BoundedFinite
<1>2. D # {} /\ U # {}
  <2>1. /\ from - n \in Int /\ from + n \in Int
        /\ from - (from - n) = n /\ (from + n) - from = n
    BY <1>1
  <2>2. \E s \in (from - n) .. from : s \notin taken
    BY <2>1, SomeUntaken
  <2>3. \E s \in from .. (from + n) : s \notin taken
    BY <2>1, SomeUntaken
  <2> QED
    BY <2>2, <2>3
<1>3. IsBounded(D) /\ IsBounded(U)
  BY <1>1 DEF IsBounded
<1>4. HighestOf(D) \in D /\ LowestOf(U) \in U
  <2> HIDE DEF D, U
  <2> QED
    BY <1>2, <1>3, HighestType, LowestType
<1>5. HighestOf(D) \in Int /\ HighestOf(D) \notin taken
      /\ LowestOf(U) \in Int /\ LowestOf(U) \notin taken
  BY <1>1, <1>4
<1> QED
  BY <1>5 DEF Untaken

\* The stamp of a new preview: none without an idempotency, else a new one.
LEMMA StampForType ==
    ASSUME IsBounded(taken), IsBounded(sent), NEW now \in Int, NEW cap,
           cap = {} \/ \E x \in Int : cap = {x}
    PROVE  /\ stamped => StampFor(now, cap) \in Int /\ StampFor(now, cap) \notin taken
           /\ ~stamped => StampFor(now, cap) = NoStamp
<1>1. sent # {} => HighestOf(sent) \in Int
  <2>1. sent \subseteq Int
    BY DEF IsBounded
  <2> QED
    BY <2>1, HighestType
<1>2. Floored(now) \in Int
  BY <1>1 DEF Floored
<1>3. cap # {} => HighestOf(cap) \in Int
  <2> SUFFICES ASSUME NEW x \in Int, cap = {x} PROVE HighestOf(cap) \in Int
    OBVIOUS
  <2>1. IsBounded({x}) /\ {x} # {}
    BY DEF IsBounded
  <2> QED
    BY <2>1, HighestType
<1> DEFINE capped == cap # {} /\ HighestOf(cap) < Floored(now)
           from == IF capped THEN HighestOf(cap) ELSE Floored(now)
<1>4. capped \in BOOLEAN /\ from \in Int
  BY <1>2, <1>3
<1>5. StampFor(now, cap) = IF ~stamped THEN NoStamp ELSE Untaken(from, capped)
  BY DEF StampFor
<1>6. Untaken(from, capped) \in Int /\ Untaken(from, capped) \notin taken
  <2> HIDE DEF from, capped
  <2> QED
    BY <1>4, UntakenIsNew
<1> HIDE DEF from, capped
<1> QED
  BY <1>5, <1>6

-----------------------------------------------------------------------------
\* Steps of one kind keep the invariant together.

\* What does not look at the callers is kept when the rest stands still.
LEMMA Untouched ==
    ASSUME IInv,
           UNCHANGED <<stamped, clock, executed, inflight, intents, previews, sends>>
    PROVE  /\ IntentInv' /\ PreviewInv' /\ MessageInv' /\ SettledNeverRuns'
           /\ UnstampedInv' /\ \A i : HasExecuted(i)' = HasExecuted(i)
<1>1. \A i : HasExecuted(i)' = HasExecuted(i) /\ PreviewsOf(i)' = PreviewsOf(i)
  BY DEF HasExecuted, PreviewsOf
<1>2. \A p, s : NeverRuns(p, s)' = NeverRuns(p, s)
  BY DEF NeverRuns, Expired
<1>3. IntentInv'
  BY <1>1 DEF IInv, IntentInv
<1>4. PreviewInv' /\ SettledNeverRuns'
  BY <1>1, <1>2 DEF IInv, PreviewInv, SettledNeverRuns
<1>5. MessageInv'
  BY DEF IInv, MessageInv
<1>6. UnstampedInv'
  BY <1>1 DEF IInv, UnstampedInv
<1> QED
  BY <1>1, <1>3, <1>4, <1>5, <1>6

\* A caller that neither encodes nor works on an intent moves, and stays so.
Outside == {"idle", "clocked", "waiting"}

LEMMA OutsideStep ==
    ASSUME IInv,
           UNCHANGED <<stamped, clock, executed, inflight, intents, entry, previews>>,
           UNCHANGED <<taken, sent, sends>>,
           NEW c \in Callers, call[c].at \in Outside,
           NEW r \in Calls, r.at \in Outside, call' = [call EXCEPT ![c] = r],
           woken' \subseteq Callers, HonestAnswers'
    PROVE  IInv'
<1>1. /\ call \in [Callers -> Calls] /\ call' \in [Callers -> Calls]
      /\ \A d \in Callers : call'[d] = IF d = c THEN r ELSE call[d]
  BY DEF IInv, TypeOK
<1>2. TypeOK'
  BY <1>1 DEF IInv, TypeOK
<1>3. WorkInv'
  BY <1>1 DEF IInv, WorkInv, Mine, Works, Working, Outside
<1>4. EncodeInv'
  BY <1>1 DEF IInv, EncodeInv, Mine, Encodes, Outside
<1>5. StampInv'
  BY <1>1 DEF IInv, StampInv, InHand, Outside
<1>6. SendInv'
  BY <1>1 DEF IInv, SendInv, Outside
<1>7. KnownInv'
  BY <1>1, Untouched DEF IInv, KnownInv, Tells, Outside
<1> QED
  BY <1>2, <1>3, <1>4, <1>5, <1>6, <1>7, Untouched DEF IInv

\* A caller takes up an intent nobody works on, or leaves the one it works on: what is
\* written back knows of an unknown outcome at least what was known.
Told(i, new) ==
    /\ new.preview = intents[i].preview /\ new.state # "preparing"
    /\ intents[i].hadUnknown => new.hadUnknown
    /\ new.attempts = 0 => ~new.hadUnknown
    /\ new.state = "done" => \E k \in DOMAIN executed : executed[k].preview = new.preview
    /\ new.state = "settled" => \A p \in PreviewsOf(i) : NeverRuns(p, previews[p].stamp)
    /\ ~new.hadUnknown =>
         /\ \A m \in inflight : previews[m.preview].intent # i
         /\ HasExecuted(i) => new.state = "done"
    /\ ~stamped /\ new.hadUnknown => new.state = "reconcile"

Takes(r, i, new) ==
    \/ r.at = "idle"
    \/ r.at = "confirming" /\ new.state \in {"prepared", "unknown"} /\ r.reply = "none"
       /\ r.intent = i /\ r.preview = new.preview /\ new.busy
    \/ r.at = "reconciling" /\ new.state = "reconcile" /\ stamped
       /\ r.intent = i /\ r.preview = new.preview /\ new.busy

LEMMA WorkStep ==
    ASSUME IInv, LayerElse, UNCHANGED stamped,
           NEW i \in DOMAIN intents, intents[i].state # "preparing",
           NEW new \in Intents, Told(i, new), intents' = [intents EXCEPT ![i] = new],
           NEW c \in Callers, call[c].at = "idle" \/ Works(c, i),
           \A d \in Callers : Works(d, i) => d = c,
           NEW r \in Calls, Takes(r, i, new), call' = [call EXCEPT ![c] = r],
           HonestAnswers'
    PROVE  IInv'
<1>1. /\ call \in [Callers -> Calls] /\ call' \in [Callers -> Calls]
      /\ \A d \in Callers : call'[d] = IF d = c THEN r ELSE call[d]
  BY DEF IInv, TypeOK
<1>2. /\ intents \in Seq(Intents) /\ intents' \in Seq(Intents)
      /\ DOMAIN intents' = DOMAIN intents
      /\ \A j \in DOMAIN intents : intents'[j] = IF j = i THEN new ELSE intents[j]
  BY DEF IInv, TypeOK
<1>3. UNCHANGED <<clock, executed, inflight, entry, previews, taken, sent, sends, woken>>
  BY DEF LayerElse, ledger
<1>4. \A j : HasExecuted(j)' = HasExecuted(j) /\ PreviewsOf(j)' = PreviewsOf(j)
  BY <1>3 DEF HasExecuted, PreviewsOf
<1>5. \A p, s : NeverRuns(p, s)' = NeverRuns(p, s)
  BY <1>3 DEF NeverRuns, Expired
<1>6. TypeOK'
  BY <1>1, <1>2, <1>3 DEF IInv, TypeOK
<1>7. WorkInv'
  BY <1>1, <1>2, <1>3 DEF IInv, WorkInv, Mine, Works, Working, Takes
<1>8. EncodeInv'
  BY <1>1, <1>2, <1>3 DEF IInv, EncodeInv, Mine, Encodes, Works, Working, Takes
<1>9. IntentInv'
  BY <1>2, <1>3, <1>4 DEF IInv, IntentInv, Told
<1>10. PreviewInv' /\ SettledNeverRuns'
  BY <1>2, <1>3, <1>4, <1>5 DEF IInv, PreviewInv, SettledNeverRuns, Told
<1>11. StampInv'
  BY <1>1, <1>3 DEF IInv, StampInv, InHand, Takes, Works, Working
<1>12. MessageInv'
  BY <1>3 DEF IInv, MessageInv
<1>13. SendInv'
  BY <1>1, <1>3 DEF IInv, SendInv, Takes
<1>14. KnownInv'
  BY <1>1, <1>2, <1>3, <1>4 DEF IInv, KnownInv, Tells, Told, Works, Takes
<1>15. UnstampedInv'
  BY <1>2, <1>3, <1>4 DEF IInv, UnstampedInv, Told
<1> QED
  BY <1>6, <1>7, <1>8, <1>9, <1>10, <1>11, <1>12, <1>13, <1>14, <1>15 DEF IInv

\* What a caller that holds an answer, or has none to wait for, knows of an intent
\* without an unknown outcome.
LEMMA NothingUnderWay ==
    ASSUME IInv, NEW i \in DOMAIN intents, ~intents[i].hadUnknown,
           \A d \in Callers : Works(d, i) /\ call[d].at = "sending" => call[d].reply # "none"
    PROVE  /\ \A m \in inflight : previews[m.preview].intent # i
           /\ intents[i].state # "done" /\ (\A d \in Callers : ~Tells(d, i)) =>
                ~HasExecuted(i) /\ \A p \in PreviewsOf(i) : NeverRuns(p, previews[p].stamp)
<1>1. \A m \in inflight : previews[m.preview].intent # i
  <2> SUFFICES ASSUME NEW m \in inflight, previews[m.preview].intent = i PROVE FALSE
    OBVIOUS
  <2>1. PICK d \in Callers :
          call[d].at = "sending" /\ call[d].intent = i /\ call[d].send = m.send
    BY DEF IInv, KnownInv
  <2>2. call[d].reply = "none"
    BY <2>1 DEF IInv, SendInv
  <2> QED
    BY <2>1, <2>2 DEF Works, Working
<1>2. ASSUME intents[i].state # "done", \A d \in Callers : ~Tells(d, i)
      PROVE  ~HasExecuted(i) /\ \A p \in PreviewsOf(i) : NeverRuns(p, previews[p].stamp)
  <2>1. ~HasExecuted(i)
    BY <1>2 DEF IInv, KnownInv
  <2>2. \A p \in PreviewsOf(i) : NeverRuns(p, previews[p].stamp)
    BY <1>1, <2>1 DEF HasExecuted, PreviewsOf, NeverRuns
  <2> QED
    BY <2>1, <2>2
<1> QED
  BY <1>1, <1>2

\* The caller that works on an intent is the only one, and the intent is prepared.
LEMMA AtWork ==
    ASSUME IInv, NEW c \in Callers, call[c].at \in Working
    PROVE  /\ call[c].intent \in DOMAIN intents /\ Mine(c) \in Intents
           /\ call[c] \in Calls /\ Works(c, call[c].intent)
           /\ \A d \in Callers : Works(d, call[c].intent) => d = c
           /\ call[c].at # "reconciling" => Mine(c).state \in {"prepared", "unknown"}
           /\ call[c].at = "reconciling" => Mine(c).state = "reconcile" /\ stamped
           /\ call[c].preview = Mine(c).preview /\ Mine(c).busy
           /\ call[c].at = "sending" => Mine(c).attempts # 0
           /\ call[c].preview \in PreviewsOf(call[c].intent)
BY DEF IInv, TypeOK, WorkInv, IntentInv, Mine, Works

LEMMA IdleType == Idle \in Calls /\ Idle.at = "idle" /\ Idle.reply = "none"
BY DEF Idle, Calls, Places, Stamps, Replies

\* A commit ends: what it answers must be honest of the state it leaves.
LEMMA EndsKeeps ==
    ASSUME IInv, LayerElse, UNCHANGED stamped,
           NEW c \in Callers, call[c].at \in Working,
           NEW new \in Intents, Told(call[c].intent, new),
           NEW outcome, Ends(c, new, outcome),
           outcome \in {"success", "already_done"} => HasExecuted(call[c].intent),
           outcome \in {"prepared", "declined", "fail", "fix_input", "retry_new"} =>
             ~HasExecuted(call[c].intent),
           outcome \in {"retry_same", "not_executed"} /\ ~new.hadUnknown =>
             ~HasExecuted(call[c].intent)
    PROVE  IInv'
<1> DEFINE i == call[c].intent
           free == [new EXCEPT !.busy = FALSE]
<1>1. free \in Intents
  BY DEF Intents
<1>2. /\ free.state = new.state /\ free.preview = new.preview
      /\ free.hadUnknown = new.hadUnknown /\ free.attempts = new.attempts
  BY DEF Intents
<1>3. Told(i, free)
  BY <1>2 DEF Told
<1>4. /\ intents' = [intents EXCEPT ![i] = free]
      /\ call' = [call EXCEPT ![c] = Idle]
      /\ told'.outcome = outcome /\ told'.intent = i
  BY DEF Ends, Becomes, Answers
<1>5. i \in DOMAIN intents /\ intents[i].state # "preparing"
  BY AtWork DEF Mine
<1>6. /\ intents'[i].hadUnknown = new.hadUnknown
      /\ \A j : HasExecuted(j)' = HasExecuted(j)
  <2>1. intents'[i] = free
    BY <1>4, <1>5
  <2>2. UNCHANGED <<executed, previews>>
    BY DEF LayerElse, ledger
  <2> QED
    BY <1>2, <2>1, <2>2 DEF HasExecuted
<1>7. HonestAnswers'
  BY <1>4, <1>6 DEF HonestAnswers
<1>8. Takes(Idle, i, free) /\ Idle \in Calls
  BY IdleType DEF Takes
<1>9. Works(c, i) /\ \A d \in Callers : Works(d, i) => d = c
  BY AtWork
<1> HIDE DEF i, free
<1> QED
  BY <1>1, <1>3, <1>4, <1>5, <1>7, <1>8, <1>9, WorkStep

\* A commit is held for the read-back, or answered so without one.
LEMMA HoldsKeeps ==
    ASSUME IInv, LayerElse, UNCHANGED stamped,
           NEW i \in DOMAIN intents, intents[i].state # "preparing",
           NEW c \in Callers, call[c].at = "idle" \/ Works(c, i),
           \A d \in Callers : Works(d, i) => d = c,
           NEW new \in Intents, Told(i, Held(new)), new.busy, HoldsFor(c, i, new)
    PROVE  IInv'
<1>1. CASE stamped /\ HasReconcile
  <2> DEFINE held == Held(new)
             r == [Idle EXCEPT !.at = "reconciling", !.intent = i, !.preview = held.preview]
  <2>1. held \in Intents /\ held.busy /\ held.state = "reconcile"
    BY DEF Held, Intents, States
  <2>2. r \in Calls /\ r.at = "reconciling" /\ r.intent = i /\ r.preview = held.preview
    <3>1. i \in Nat
      BY DEF IInv, TypeOK
    <3>2. held.preview \in Nat
      BY <2>1 DEF Intents
    <3> HIDE DEF held
    <3>3. "reconciling" \in Places
      BY DEF Places
    <3> QED
      BY <3>1, <3>2, <3>3, IdleType DEF Calls
  <2>3. /\ intents' = [intents EXCEPT ![i] = held] /\ call' = [call EXCEPT ![c] = r]
        /\ told'.outcome = "none"
    BY <1>1 DEF HoldsFor, Becomes, Awaits, Silent
  <2>4. HonestAnswers'
    BY <2>3 DEF HonestAnswers
  <2>5. Takes(r, i, held)
    BY <1>1, <2>1, <2>2 DEF Takes
  <2> HIDE DEF r, held
  <2>6. Told(i, held)
    BY DEF held
  <2> QED
    BY <2>1, <2>2, <2>3, <2>4, <2>5, <2>6, WorkStep
<1>2. CASE ~(stamped /\ HasReconcile)
  <2> DEFINE held == [Held(new) EXCEPT !.busy = FALSE]
  <2>1. /\ held \in Intents /\ held.state = Held(new).state
        /\ held.preview = Held(new).preview /\ held.hadUnknown = Held(new).hadUnknown
        /\ held.attempts = Held(new).attempts
    BY DEF Held, Intents, States
  <2>2. Told(i, held)
    BY <2>1 DEF Told
  <2>3. /\ intents' = [intents EXCEPT ![i] = held] /\ call' = [call EXCEPT ![c] = Idle]
        /\ told'.outcome = "reconcile"
    BY <1>2 DEF HoldsFor, Becomes, Answers
  <2>4. HonestAnswers'
    BY <2>3 DEF HonestAnswers
  <2>5. Takes(Idle, i, held) /\ Idle \in Calls
    BY IdleType DEF Takes
  <2> HIDE DEF held
  <2> QED
    BY <2>1, <2>2, <2>3, <2>4, <2>5, WorkStep
<1> QED
  BY <1>1, <1>2

-----------------------------------------------------------------------------
\* The steps of a commit, one lemma for each way it can end.

\* Nothing was learnt that makes the outcome unknown: the intent stays as it is, or is
\* settled when no outcome was unknown before.
LEMMA StillTold ==
    ASSUME IInv, NEW c \in Callers, call[c].at \in Working, call[c].at # "reconciling",
           call[c].at = "sending" =>
             call[c].reply \notin {"none", "success", "already_done", "trapped"},
           NEW new \in Intents, new.preview = Mine(c).preview,
           new.hadUnknown = Mine(c).hadUnknown, new.attempts = Mine(c).attempts,
           new.state = Mine(c).state \/ (new.state = "settled" /\ ~new.hadUnknown)
    PROVE  /\ Told(call[c].intent, new)
           /\ ~new.hadUnknown => ~HasExecuted(call[c].intent)
<1> DEFINE i == call[c].intent
<1>1. i \in DOMAIN intents /\ intents[i] = Mine(c)
      /\ \A d \in Callers : Works(d, i) => d = c
  BY AtWork DEF Mine
<1>2. Mine(c).state \in {"prepared", "unknown"}
  BY AtWork
<1>3. \A d \in Callers : ~Tells(d, i)
  BY <1>1 DEF Tells, Works, Working
<1>4. \A d \in Callers : Works(d, i) /\ call[d].at = "sending" => call[d].reply # "none"
  BY <1>1
<1>5. ~new.hadUnknown => /\ \A m \in inflight : previews[m.preview].intent # i
                         /\ ~HasExecuted(i)
                         /\ \A p \in PreviewsOf(i) : NeverRuns(p, previews[p].stamp)
  <2> HIDE DEF i
  <2> QED
    BY <1>1, <1>2, <1>3, <1>4, NothingUnderWay
<1>6. new.attempts = 0 => ~new.hadUnknown
  BY <1>1 DEF IInv, IntentInv
<1>7. ~stamped => ~new.hadUnknown
  BY <1>1, <1>2 DEF IInv, UnstampedInv
<1> HIDE DEF i
<1>8. Told(i, new)
  BY <1>1, <1>2, <1>5, <1>6, <1>7 DEF Told
<1> QED
  BY <1>5, <1>8 DEF i

LEMMA DeclineKeeps ==
    ASSUME IInv, NEW c \in Callers, Decline(c), UNCHANGED stamped PROVE IInv'
<1> DEFINE new == Declined(Mine(c))
           outcome == IF Mine(c).hadUnknown THEN "declined_unknown" ELSE "declined"
<1>1. call[c].at \in Working /\ call[c].at = "confirming"
  BY DEF Decline, At, Working
<1>2. Mine(c) \in Intents /\ (Mine(c).attempts = 0 => ~Mine(c).hadUnknown)
  BY <1>1, AtWork DEF IInv, IntentInv, Mine
<1>3. /\ new \in Intents /\ new.preview = Mine(c).preview
      /\ new.hadUnknown = Mine(c).hadUnknown /\ new.attempts = Mine(c).attempts
      /\ new.state = Mine(c).state \/ (new.state = "settled" /\ ~new.hadUnknown)
  BY <1>2 DEF Declined, Intents, States
<1>4. Told(call[c].intent, new) /\ (~new.hadUnknown => ~HasExecuted(call[c].intent))
  <2> HIDE DEF new
  <2> QED
    BY <1>1, <1>3, StillTold
<1>5. Ends(c, new, outcome) /\ LayerElse
  BY DEF Decline, LayerElse
<1>6. /\ outcome \in {"prepared", "declined", "fail", "fix_input", "retry_new"} =>
           ~HasExecuted(call[c].intent)
      /\ outcome \notin {"success", "already_done", "retry_same", "not_executed"}
  BY <1>3, <1>4
<1> HIDE DEF new, outcome
<1> QED
  BY <1>1, <1>3, <1>4, <1>5, <1>6, EndsKeeps

\* The consent hook threw: as a decline that settles nothing.
LEMMA ConfirmThrowsKeeps ==
    ASSUME IInv, NEW c \in Callers, ConfirmThrows(c), UNCHANGED stamped PROVE IInv'
<1>1. call[c].at \in Working /\ call[c].at = "confirming"
  BY DEF ConfirmThrows, At, Working
<1>2. Mine(c) \in Intents
  BY <1>1, AtWork
<1>3. Told(call[c].intent, Mine(c))
  BY <1>1, <1>2, StillTold
<1>4. Ends(c, Mine(c), "error") /\ LayerElse
  BY DEF ConfirmThrows, LayerElse, Ends, Freed
<1> QED
  BY <1>1, <1>2, <1>3, <1>4, EndsKeeps

LEMMA NotExecutedKeeps ==
    ASSUME IInv, NEW c \in Callers, NotExecuted(c), UNCHANGED stamped PROVE IInv'
<1>1. call[c].at \in Working /\ call[c].at = "sending" /\ call[c].reply = "rejected"
  BY DEF NotExecuted, Replied, At, Working
<1>2. Mine(c) \in Intents
  BY <1>1, AtWork
<1>3. Told(call[c].intent, Mine(c)) /\ (~Mine(c).hadUnknown => ~HasExecuted(call[c].intent))
  BY <1>1, <1>2, StillTold
<1>4. Ends(c, Mine(c), "not_executed") /\ LayerElse
  BY DEF NotExecuted
<1> QED
  BY <1>1, <1>2, <1>3, <1>4, EndsKeeps

LEMMA FailsKeeps ==
    ASSUME IInv, NEW c \in Callers, Fails(c), UNCHANGED stamped PROVE IInv'
<1> DEFINE new == [Mine(c) EXCEPT !.state = "settled"]
<1>1. call[c].at \in Working /\ call[c].at = "sending" /\ call[c].reply = "fail"
  BY DEF Fails, Replied, At, Working
<1>2. Mine(c) \in Intents /\ ~Mine(c).hadUnknown
  BY <1>1, AtWork DEF Fails, MustReconcile
<1>3. /\ new \in Intents /\ new.preview = Mine(c).preview
      /\ new.hadUnknown = Mine(c).hadUnknown /\ ~new.hadUnknown
      /\ new.attempts = Mine(c).attempts /\ new.state = "settled"
  BY <1>2 DEF Intents, States
<1>4. Ends(c, new, "fail") /\ LayerElse
  BY DEF Fails
<1> HIDE DEF new
<1>5. Told(call[c].intent, new) /\ ~HasExecuted(call[c].intent)
  BY <1>1, <1>2, <1>3, StillTold
<1> QED
  BY <1>1, <1>3, <1>4, <1>5, EndsKeeps

\* The inputs could not be read again at the new clock.
LEMMA NotRestampedKeeps ==
    ASSUME IInv, NEW c \in Callers, NotRestamped(c), UNCHANGED stamped PROVE IInv'
<1> DEFINE new == [Mine(c) EXCEPT !.state = "settled"]
<1>1. call[c].at \in Working /\ call[c].at = "restamping"
  BY DEF NotRestamped, At, Working
<1>2. Mine(c) \in Intents /\ ~Mine(c).hadUnknown
  BY <1>1, AtWork DEF IInv, WorkInv
<1>3. /\ new \in Intents /\ new.preview = Mine(c).preview
      /\ new.hadUnknown = Mine(c).hadUnknown /\ ~new.hadUnknown
      /\ new.attempts = Mine(c).attempts /\ new.state = "settled"
  BY <1>2 DEF Intents, States
<1>4. Ends(c, new, "fix_input") /\ LayerElse
  BY DEF NotRestamped
<1> HIDE DEF new
<1>5. Told(call[c].intent, new) /\ ~HasExecuted(call[c].intent)
  BY <1>1, <1>2, <1>3, StillTold
<1> QED
  BY <1>1, <1>3, <1>4, <1>5, EndsKeeps

LEMMA RestampFailsKeeps ==
    ASSUME IInv, NEW c \in Callers, RestampFails(c), UNCHANGED stamped PROVE IInv'
<1>1. call[c].at \in Working /\ call[c].at \in {"restamping", "reencoding"}
  BY DEF RestampFails, At, Working
<1>2. Mine(c) \in Intents
  BY <1>1, AtWork
<1>3. Told(call[c].intent, Mine(c))
  BY <1>1, <1>2, StillTold
<1>4. Ends(c, Mine(c), "error") /\ LayerElse
  BY DEF RestampFails
<1> QED
  BY <1>1, <1>2, <1>3, <1>4, EndsKeeps

\* An outcome that is unknown, or was: an intent known to have one holds no claim about
\* its messages.
LEMMA UnknownTold ==
    ASSUME IInv, NEW c \in Callers, call[c].at = "sending",
           NEW new \in Intents, new.preview = Mine(c).preview, new.hadUnknown,
           new.attempts = Mine(c).attempts,
           new.state \in {"prepared", "unknown", "reconcile"},
           ~stamped => new.state = "reconcile"
    PROVE  Told(call[c].intent, new)
<1>1. call[c].at \in Working
  BY DEF Working
<1>2. Mine(c).attempts # 0 /\ intents[call[c].intent] = Mine(c)
  BY <1>1, AtWork DEF Mine
<1> QED
  BY <1>2 DEF Told

\* Held with an unknown outcome behind it.
LEMMA UnknownHeld ==
    ASSUME IInv, LayerElse, UNCHANGED stamped, NEW c \in Callers, call[c].at = "sending",
           NEW new \in Intents, new.preview = Mine(c).preview, new.hadUnknown, new.busy,
           new.attempts = Mine(c).attempts, Holds(c, new)
    PROVE  IInv'
<1>1. call[c].at \in Working
  BY DEF Working
<1>2. /\ Held(new) \in Intents /\ Held(new).preview = Mine(c).preview
      /\ Held(new).hadUnknown /\ Held(new).attempts = Mine(c).attempts
      /\ Held(new).state = "reconcile"
  BY DEF Held, Intents, States
<1>3. Told(call[c].intent, Held(new))
  BY <1>2, UnknownTold
<1>4. /\ call[c].intent \in DOMAIN intents /\ Works(c, call[c].intent)
      /\ intents[call[c].intent].state # "preparing"
      /\ \A d \in Callers : Works(d, call[c].intent) => d = c
  BY <1>1, AtWork DEF Mine
<1>5. HoldsFor(c, call[c].intent, new)
  BY DEF Holds
<1> QED
  BY <1>3, <1>4, <1>5, HoldsKeeps

LEMMA NoAnswerKeeps ==
    ASSUME IInv, NEW c \in Callers, NoAnswer(c), UNCHANGED stamped PROVE IInv'
<1>1. call[c].at \in Working /\ call[c].at = "sending" /\ LayerElse
  BY DEF NoAnswer, At, Working
<1>2. Mine(c) \in Intents /\ Mine(c).busy
  BY <1>1, AtWork
<1>3. CASE stamped
  <2> DEFINE new == [Unknown(Mine(c)) EXCEPT !.state = "unknown"]
  <2>1. /\ new \in Intents /\ new.preview = Mine(c).preview /\ new.hadUnknown
        /\ new.attempts = Mine(c).attempts /\ new.state = "unknown"
    BY <1>2 DEF Unknown, Intents, States
  <2>2. Ends(c, new, "unknown")
    BY <1>3 DEF NoAnswer
  <2> HIDE DEF new
  <2>3. Told(call[c].intent, new)
    BY <1>1, <1>3, <2>1, UnknownTold
  <2> QED
    BY <1>1, <2>1, <2>2, <2>3, EndsKeeps
<1>4. CASE ~stamped
  <2> DEFINE new == Unknown(Mine(c))
  <2>1. /\ new \in Intents /\ new.preview = Mine(c).preview /\ new.hadUnknown
        /\ new.attempts = Mine(c).attempts /\ new.busy
    BY <1>2 DEF Unknown, Intents
  <2>2. Holds(c, new)
    BY <1>4 DEF NoAnswer
  <2> HIDE DEF new
  <2> QED
    BY <1>1, <2>1, <2>2, UnknownHeld
<1> QED
  BY <1>3, <1>4 DEF IInv, TypeOK

LEMMA TrappedKeeps ==
    ASSUME IInv, NEW c \in Callers, Trapped(c), UNCHANGED stamped PROVE IInv'
<1> DEFINE new == [Unknown(Mine(c)) EXCEPT !.answeredUnknown = @ + 1]
           unknown == [new EXCEPT !.state = "unknown"]
<1>1. call[c].at \in Working /\ call[c].at = "sending" /\ LayerElse
  BY DEF Trapped, Replied, At, Working
<1>2. Mine(c) \in Intents /\ Mine(c).busy
  BY <1>1, AtWork
<1>3. /\ new \in Intents /\ new.preview = Mine(c).preview /\ new.hadUnknown
      /\ new.attempts = Mine(c).attempts /\ new.busy
  <2>1. /\ Unknown(Mine(c)) \in Intents /\ Unknown(Mine(c)).preview = Mine(c).preview
        /\ Unknown(Mine(c)).hadUnknown /\ Unknown(Mine(c)).busy
        /\ Unknown(Mine(c)).attempts = Mine(c).attempts
    BY <1>2 DEF Unknown, Intents
  <2> QED
    BY <2>1 DEF Intents
<1>4. \/ Holds(c, new)
      \/ stamped /\ Ends(c, unknown, "unknown")
  BY DEF Trapped
<1> HIDE DEF new
<1>5. /\ unknown \in Intents /\ unknown.preview = Mine(c).preview /\ unknown.hadUnknown
      /\ unknown.attempts = Mine(c).attempts /\ unknown.state = "unknown"
  BY <1>3 DEF Intents, States
<1> HIDE DEF unknown
<1>6. CASE Holds(c, new)
  BY <1>1, <1>3, <1>6, UnknownHeld
<1>7. CASE stamped /\ Ends(c, unknown, "unknown")
  <2>1. Told(call[c].intent, unknown)
    BY <1>1, <1>5, <1>7, UnknownTold
  <2> QED
    BY <1>1, <1>5, <1>7, <2>1, EndsKeeps
<1> QED
  BY <1>4, <1>6, <1>7

\* The canister answered success, or that a call with this stamp had run: the caller's
\* own preview, for no other has its stamp.
LEMMA SucceededKeeps ==
    ASSUME IInv, NEW c \in Callers, Succeeded(c), UNCHANGED stamped PROVE IInv'
<1> DEFINE new == [Mine(c) EXCEPT !.state = "done"]
           i == call[c].intent
<1>1. /\ call[c].at \in Working /\ call[c].at = "sending"
      /\ call[c].reply \in {"success", "already_done"} /\ LayerElse
      /\ Ends(c, new, call[c].reply)
  BY DEF Succeeded, Replied, At, Working
<1>2. /\ Mine(c) \in Intents /\ i \in DOMAIN intents /\ intents[i] = Mine(c)
      /\ \A d \in Callers : Works(d, i) => d = c
      /\ call[c].preview = Mine(c).preview /\ call[c].preview \in PreviewsOf(i)
      /\ Mine(c).attempts # 0 /\ Mine(c).state \in {"prepared", "unknown"}
  BY <1>1, AtWork DEF Mine
<1>3. /\ new \in Intents /\ new.preview = Mine(c).preview
      /\ new.hadUnknown = Mine(c).hadUnknown
      /\ new.attempts = Mine(c).attempts /\ new.state = "done"
  BY <1>2 DEF Intents, States
<1> HIDE DEF new, i
<1>4. \E k \in DOMAIN executed : executed[k].preview = call[c].preview
  BY <1>1 DEF IInv, SendInv
<1>5. HasExecuted(i)
  BY <1>2, <1>4 DEF HasExecuted, PreviewsOf
<1>6. ~new.hadUnknown => \A m \in inflight : previews[m.preview].intent # i
  <2>1. \A d \in Callers : Works(d, i) /\ call[d].at = "sending" => call[d].reply # "none"
    BY <1>1, <1>2
  <2> QED
    BY <1>2, <1>3, <2>1, NothingUnderWay
<1>7. ~stamped => ~new.hadUnknown
  BY <1>2, <1>3 DEF IInv, UnstampedInv
<1>8. Told(i, new)
  BY <1>2, <1>3, <1>4, <1>6, <1>7 DEF Told
<1>9. call[c].reply \notin {"prepared", "declined", "fail", "fix_input", "retry_new"}
      /\ call[c].reply \notin {"retry_same", "not_executed"}
  BY <1>1
<1> QED
  BY <1>1, <1>3, <1>5, <1>8, <1>9, EndsKeeps DEF i

\* A refusal after an unknown outcome refuses this attempt alone: the intent is held.
LEMMA ReconcileKeeps ==
    ASSUME IInv, NEW c \in Callers, Reconcile(c), UNCHANGED stamped PROVE IInv'
<1>1. /\ call[c].at \in Working /\ call[c].at = "sending" /\ LayerElse
      /\ Mine(c).hadUnknown /\ Holds(c, Mine(c))
  BY DEF Reconcile, Replied, At, Working, MustReconcile
<1>2. Mine(c) \in Intents /\ Mine(c).busy
  BY <1>1, AtWork
<1> QED
  BY <1>1, <1>2, UnknownHeld

LEMMA RetrySameKeeps ==
    ASSUME IInv, NEW c \in Callers, RetrySame(c), UNCHANGED stamped PROVE IInv'
<1> DEFINE new == [Mine(c) EXCEPT !.retriedSame = @ + 1]
           over == [new EXCEPT !.state = "settled"]
<1>1. /\ call[c].at \in Working /\ call[c].at = "sending" /\ LayerElse
      /\ call[c].reply = "retry_same"
  BY DEF RetrySame, Replied, At, Working
<1>2. Mine(c) \in Intents /\ Mine(c).busy
  BY <1>1, AtWork
<1>3. /\ new \in Intents /\ new.preview = Mine(c).preview /\ new.busy
      /\ new.hadUnknown = Mine(c).hadUnknown
      /\ new.attempts = Mine(c).attempts /\ new.state = Mine(c).state
  BY <1>2 DEF Intents
<1>4. \/ Ends(c, new, "retry_same")
      \/ new.hadUnknown /\ Holds(c, new)
      \/ ~new.hadUnknown /\ Ends(c, over, "fail")
  BY DEF RetrySame, SpentRetries
<1> HIDE DEF new
<1>5. /\ over \in Intents /\ over.preview = Mine(c).preview
      /\ over.hadUnknown = Mine(c).hadUnknown /\ over.hadUnknown = new.hadUnknown
      /\ over.attempts = Mine(c).attempts /\ over.state = "settled"
  BY <1>3 DEF Intents, States
<1> HIDE DEF over
<1>6. CASE Ends(c, new, "retry_same")
  <2>1. Told(call[c].intent, new) /\ (~new.hadUnknown => ~HasExecuted(call[c].intent))
    BY <1>1, <1>3, StillTold
  <2> QED
    BY <1>1, <1>3, <1>6, <2>1, EndsKeeps
<1>7. CASE new.hadUnknown /\ Holds(c, new)
  BY <1>1, <1>3, <1>7, UnknownHeld
<1>8. CASE ~new.hadUnknown /\ Ends(c, over, "fail")
  <2>1. Told(call[c].intent, over) /\ (~over.hadUnknown => ~HasExecuted(call[c].intent))
    BY <1>1, <1>5, <1>8, StillTold
  <2> QED
    BY <1>1, <1>5, <1>8, <2>1, EndsKeeps
<1> QED
  BY <1>4, <1>6, <1>7, <1>8

\* The read-back: found of a call that ran, absent of one that never will.
LEMMA ReadBackKeeps ==
    ASSUME IInv, NEW c \in Callers, ReadBack(c), UNCHANGED stamped PROVE IInv'
<1> DEFINE i == call[c].intent
<1>1. call[c].at \in Working /\ call[c].at = "reconciling" /\ LayerElse
  BY DEF ReadBack, At, Working
<1>2. /\ Mine(c) \in Intents /\ i \in DOMAIN intents /\ intents[i] = Mine(c)
      /\ \A d \in Callers : Works(d, i) => d = c
      /\ call[c].preview = Mine(c).preview /\ call[c].preview \in PreviewsOf(i)
      /\ Mine(c).state = "reconcile" /\ stamped
  BY <1>1, AtWork DEF Mine
<1>3. PICK finding \in Findings(call[c].preview) :
        Ends(c, [Mine(c) EXCEPT !.state = AfterFinding(finding)],
             IF finding = "found" THEN "already_done" ELSE "reconcile")
  BY DEF ReadBack
<1> DEFINE new == [Mine(c) EXCEPT !.state = AfterFinding(finding)]
           outcome == IF finding = "found" THEN "already_done" ELSE "reconcile"
<1>4. /\ new \in Intents /\ new.preview = Mine(c).preview
      /\ new.hadUnknown = Mine(c).hadUnknown
      /\ new.attempts = Mine(c).attempts /\ new.state = AfterFinding(finding)
  BY <1>2 DEF Intents, States, AfterFinding
<1>5. Ends(c, new, outcome)
  BY <1>3
<1> HIDE DEF new, i
<1>6. finding = "found" => \E k \in DOMAIN executed : executed[k].preview = call[c].preview
  BY <1>3 DEF Findings
<1>7. finding = "absent" => \A p \in PreviewsOf(i) : NeverRuns(p, previews[p].stamp)
  <2> SUFFICES ASSUME finding = "absent", NEW p \in PreviewsOf(i)
               PROVE  NeverRuns(p, previews[p].stamp)
    OBVIOUS
  <2>1. CASE p = call[c].preview
    BY <1>3, <2>1 DEF Findings
  <2>2. CASE p # call[c].preview
    BY <1>2, <2>2 DEF IInv, PreviewInv, PreviewsOf
  <2> QED
    BY <2>1, <2>2
<1>8. ~new.hadUnknown => /\ \A m \in inflight : previews[m.preview].intent # i
                         /\ ~HasExecuted(i)
  <2>1. \A d \in Callers : Works(d, i) /\ call[d].at = "sending" => call[d].reply # "none"
    BY <1>1, <1>2
  <2>2. \A d \in Callers : ~Tells(d, i)
    BY <1>1, <1>2 DEF Tells, Works, Working
  <2> QED
    BY <1>2, <1>4, <2>1, <2>2, NothingUnderWay
<1>9. new.attempts = 0 => ~new.hadUnknown
  BY <1>2, <1>4 DEF IInv, IntentInv
<1>10. Told(i, new)
  BY <1>2, <1>4, <1>6, <1>7, <1>8, <1>9 DEF Told, AfterFinding
<1>11. finding = "found" => HasExecuted(i)
  BY <1>2, <1>6 DEF HasExecuted, PreviewsOf
<1>12. outcome \in {"success", "already_done"} => HasExecuted(i)
  BY <1>11
<1>13. outcome \notin {"prepared", "declined", "fail", "fix_input", "retry_new"}
      /\ outcome \notin {"retry_same", "not_executed"}
  OBVIOUS
<1> HIDE DEF outcome
<1> QED
  BY <1>1, <1>4, <1>5, <1>10, <1>12, <1>13, EndsKeeps DEF i

-----------------------------------------------------------------------------
\* The other steps of a caller.

LEMMA CommitKeeps ==
    ASSUME IInv, NEW c \in Callers, NEW p \in DOMAIN previews, Commit(c, p),
           UNCHANGED stamped
    PROVE  IInv'
<1> DEFINE i == previews[p].intent
           busy == [intents[i] EXCEPT !.busy = TRUE]
           r == [Idle EXCEPT !.at = "confirming", !.intent = i, !.preview = p]
<1>1. call[c].at = "idle" /\ ~Spurned(p) /\ LayerElse
  BY DEF Commit, At, LayerElse
<1>2. i \in DOMAIN intents /\ intents[i] \in Intents /\ i \in Nat /\ p \in Nat
  BY DEF IInv, TypeOK, PreviewInv
<1>3. /\ ~previews[p].superseded /\ intents[i].state \notin {"done", "settled"}
      /\ ~intents[i].busy
  BY <1>1 DEF Spurned
<1>4. p = intents[i].preview /\ p \in PreviewsOf(i)
  BY <1>3 DEF IInv, PreviewInv, PreviewsOf
<1>5. intents[i].state \in {"prepared", "unknown", "reconcile"}
  <2>1. intents[i].state # "preparing"
    BY <1>2, <1>4 DEF IInv, IntentInv
  <2> QED
    BY <1>2, <1>3, <2>1 DEF Intents, States
<1>6. \A d \in Callers : ~Works(d, i)
  BY <1>3 DEF IInv, WorkInv, Works, Mine
<1>7. /\ busy \in Intents /\ busy.preview = intents[i].preview /\ busy.busy
      /\ busy.hadUnknown = intents[i].hadUnknown /\ busy.attempts = intents[i].attempts
      /\ busy.state = intents[i].state
  BY <1>2 DEF Intents
<1>8. \/ busy.state = "reconcile" /\ HoldsFor(c, i, busy)
      \/ /\ busy.state # "reconcile" /\ intents' = [intents EXCEPT ![i] = busy]
         /\ call' = [call EXCEPT ![c] = r] /\ told' = Silent
  BY DEF Commit, Becomes, Awaits
<1>9. r \in Calls /\ r.at = "confirming" /\ r.intent = i /\ r.preview = p
      /\ r.reply = "none"
  <2>1. "confirming" \in Places
    BY DEF Places
  <2> HIDE DEF i
  <2> QED
    BY <1>2, <2>1, IdleType DEF Calls
<1> HIDE DEF busy, i, r
<1>10. ~intents[i].hadUnknown => /\ \A m \in inflight : previews[m.preview].intent # i
                                 /\ ~HasExecuted(i)
  <2>1. \A d \in Callers : ~Tells(d, i)
    BY <1>6 DEF Tells, Works, Working
  <2> QED
    BY <1>2, <1>3, <1>6, <2>1, NothingUnderWay
<1>11. /\ intents[i].attempts = 0 => ~intents[i].hadUnknown
       /\ ~stamped /\ intents[i].hadUnknown => intents[i].state = "reconcile"
  BY <1>2 DEF IInv, IntentInv, UnstampedInv
<1>12. Told(i, busy)
  BY <1>5, <1>7, <1>10, <1>11 DEF Told
<1>13. CASE busy.state = "reconcile" /\ HoldsFor(c, i, busy)
  <2>1. /\ Held(busy).state = busy.state /\ Held(busy).preview = busy.preview
        /\ Held(busy).hadUnknown = busy.hadUnknown /\ Held(busy).attempts = busy.attempts
    BY <1>7, <1>13 DEF Held, Intents
  <2>2. Told(i, Held(busy))
    BY <1>12, <2>1 DEF Told
  <2> QED
    BY <1>1, <1>2, <1>5, <1>6, <1>7, <1>13, <2>2, HoldsKeeps
<1>14. CASE /\ busy.state # "reconcile" /\ intents' = [intents EXCEPT ![i] = busy]
            /\ call' = [call EXCEPT ![c] = r] /\ told' = Silent
  <2>1. HonestAnswers'
    BY <1>14 DEF HonestAnswers, Silent
  <2>2. Takes(r, i, busy)
    BY <1>4, <1>5, <1>7, <1>9, <1>14 DEF Takes
  <2> QED
    BY <1>1, <1>2, <1>5, <1>6, <1>7, <1>9, <1>12, <1>14, <2>1, <2>2, WorkStep
<1> QED
  BY <1>8, <1>13, <1>14

LEMMA CommitAnsweredKeeps ==
    ASSUME IInv, NEW c \in Callers, NEW p \in DOMAIN previews, CommitAnswered(c, p),
           UNCHANGED stamped
    PROVE  IInv'
<1> DEFINE i == previews[p].intent
<1>1. /\ call[c].at = "idle" /\ call' = [call EXCEPT ![c] = Idle]
      /\ UNCHANGED <<clock, executed, inflight, intents, entry, previews>>
      /\ UNCHANGED <<taken, sent, sends, woken>>
  BY DEF CommitAnswered, At, Answers, ledger, layer
<1>2. /\ told'.outcome \in {"already_done", "error"} /\ told'.intent = i
      /\ told'.outcome = "already_done" => intents[i].state = "done"
  BY DEF CommitAnswered, Answers
<1>3. i \in DOMAIN intents
  BY DEF IInv, PreviewInv
<1>4. told'.outcome = "already_done" => HasExecuted(i)
  BY <1>2, <1>3 DEF IInv, IntentInv, HasExecuted, PreviewsOf
<1>5. \A j : HasExecuted(j)' = HasExecuted(j)
  BY <1>1 DEF HasExecuted
<1> HIDE DEF i
<1>6. HonestAnswers'
  BY <1>2, <1>4, <1>5 DEF HonestAnswers
<1>7. woken' \subseteq Callers
  BY <1>1 DEF IInv, TypeOK
<1> QED
  BY <1>1, <1>6, <1>7, IdleType, OutsideStep DEF Outside

LEMMA PrepareKeeps ==
    ASSUME IInv, NEW c \in Callers, Prepare(c), UNCHANGED stamped PROVE IInv'
<1>1. PICK now \in clock .. (clock + Skew) :
        Awaits(c, [Idle EXCEPT !.at = "clocked", !.clock = now])
  BY DEF Prepare
<1> DEFINE r == [Idle EXCEPT !.at = "clocked", !.clock = now]
<1>2. now \in Int
  BY ToolLayerAssumption DEF IInv, TypeOK
<1>3. "clocked" \in Places
  BY DEF Places
<1>4. r \in Calls /\ r.at = "clocked"
  BY <1>2, <1>3, IdleType DEF Calls
<1>5. /\ call' = [call EXCEPT ![c] = r] /\ told' = Silent /\ call[c].at = "idle"
      /\ UNCHANGED <<clock, executed, inflight, intents, entry, previews>>
      /\ UNCHANGED <<taken, sent, sends, woken>>
  BY <1>1 DEF Prepare, Awaits, At, ledger, layer
<1>6. HonestAnswers' /\ woken' \subseteq Callers
  BY <1>5 DEF HonestAnswers, Silent, IInv, TypeOK
<1> HIDE DEF r
<1> QED
  BY <1>4, <1>5, <1>6, OutsideStep DEF Outside

\* The same preview again: nothing changes but the caller.
LEMMA RepeatsKeeps ==
    ASSUME IInv, NEW c \in Callers, Repeats(c), call[c].at \in Outside,
           UNCHANGED <<stamped, clock, executed, inflight>>, woken' \subseteq Callers
    PROVE  IInv'
<1>1. /\ call' = [call EXCEPT ![c] = Idle]
      /\ UNCHANGED <<intents, entry, previews, taken, sent, sends>>
      /\ told'.outcome \in {"reconcile", "repeated_unknown", "repeated"}
  BY DEF Repeats, Answers, layer
<1>2. HonestAnswers'
  BY <1>1 DEF HonestAnswers
<1> QED
  BY <1>1, <1>2, IdleType, OutsideStep DEF Outside

\* A new intent, and the caller that encodes its first preview.
LEMMA RegisterKeeps ==
    ASSUME IInv, NEW c \in Callers, Register(c), call[c].at \in Outside,
           UNCHANGED <<stamped, clock, executed, inflight>>, woken' \subseteq Callers
    PROVE  IInv'
<1> DEFINE n == Len(intents) + 1
           stamp == StampFor(call[c].clock, {})
           r == [call[c] EXCEPT !.at = "encoding", !.intent = n, !.previous = entry,
                                !.stamp = stamp]
<1>1. /\ intents' = Append(intents, NewIntent) /\ entry' = n
      /\ call' = [call EXCEPT ![c] = r] /\ Handed(stamp) /\ told' = Silent
      /\ UNCHANGED <<previews, sent, sends>>
  BY DEF Register, Awaits
<1>2. /\ intents \in Seq(Intents) /\ call \in [Callers -> Calls] /\ call[c] \in Calls
      /\ IsBounded(taken) /\ IsBounded(sent) /\ entry \in Nat /\ stamped \in BOOLEAN
  BY DEF IInv, TypeOK
<1>3. /\ stamped => stamp \in Int /\ stamp \notin taken
      /\ ~stamped => stamp = NoStamp
  <2>1. call[c].clock \in Int
    BY <1>2 DEF Calls
  <2> QED
    BY <1>2, <2>1, StampForType
<1> HIDE DEF stamp
<1>4. n \in Nat /\ DOMAIN intents = 1 .. Len(intents) /\ Len(intents) \in Nat
  BY <1>2
<1> HIDE DEF n
<1>5. /\ r \in Calls /\ r.at = "encoding" /\ r.intent = n /\ r.stamp = stamp
  <2>1. "encoding" \in Places /\ stamp \in Stamps
    BY <1>2, <1>3 DEF Places, Stamps
  <2> QED
    BY <1>2, <1>4, <2>1 DEF Calls
<1>6. NewIntent \in Intents /\ NewIntent.state = "preparing" /\ ~NewIntent.hadUnknown
      /\ ~NewIntent.busy
  BY DEF NewIntent, Intents, States
<1> HIDE DEF r
<1>7. /\ call' \in [Callers -> Calls]
      /\ \A d \in Callers : call'[d] = IF d = c THEN r ELSE call[d]
  BY <1>1, <1>2, <1>5
<1>8. /\ intents' \in Seq(Intents) /\ DOMAIN intents' = DOMAIN intents \cup {n}
      /\ n \notin DOMAIN intents /\ intents'[n] = NewIntent
      /\ \A i \in DOMAIN intents : intents'[i] = intents[i]
  BY <1>1, <1>2, <1>4, <1>6 DEF n
<1>9. \A p \in DOMAIN previews : previews[p].intent # n
  BY <1>8 DEF IInv, PreviewInv
<1>10. \A i : HasExecuted(i)' = HasExecuted(i) /\ PreviewsOf(i)' = PreviewsOf(i)
  BY <1>1 DEF HasExecuted, PreviewsOf
<1>11. \A p, s : NeverRuns(p, s)' = NeverRuns(p, s)
  BY DEF NeverRuns, Expired
<1>12. PreviewsOf(n) = {} /\ ~HasExecuted(n)
  BY <1>9 DEF HasExecuted, PreviewsOf, IInv, MessageInv
<1>13. TypeOK'
  <2>1. IsBounded(taken')
    BY <1>1, <1>2, <1>3, BoundedMore DEF Handed
  <2> QED
    BY <1>1, <1>4, <1>7, <1>8, <2>1 DEF IInv, TypeOK
<1>14. WorkInv'
  BY <1>5, <1>7, <1>8 DEF IInv, WorkInv, Mine, Works, Working, Outside
<1>15. EncodeInv'
  BY <1>5, <1>6, <1>7, <1>8 DEF IInv, EncodeInv, Mine, Encodes, Outside
<1>16. IntentInv'
  BY <1>1, <1>6, <1>8, <1>10, <1>12 DEF IInv, IntentInv
<1>17. PreviewInv' /\ SettledNeverRuns'
  BY <1>1, <1>6, <1>8, <1>10, <1>11 DEF IInv, PreviewInv, SettledNeverRuns
<1>18. StampInv'
  BY <1>1, <1>3, <1>5, <1>7 DEF IInv, StampInv, InHand, Handed, Outside
<1>19. MessageInv'
  BY <1>1 DEF IInv, MessageInv
<1>20. SendInv'
  BY <1>1, <1>5, <1>7 DEF IInv, SendInv, Outside
<1>21. KnownInv'
  BY <1>1, <1>5, <1>7, <1>8, <1>9, <1>10, <1>12
     DEF IInv, KnownInv, MessageInv, Tells, Outside
<1>22. UnstampedInv'
  BY <1>1, <1>6, <1>8, <1>9, <1>10 DEF IInv, UnstampedInv, MessageInv
<1>23. HonestAnswers'
  BY <1>1 DEF HonestAnswers, Silent
<1> QED
  BY <1>13, <1>14, <1>15, <1>16, <1>17, <1>18, <1>19, <1>20, <1>21, <1>22, <1>23 DEF IInv

LEMMA LookKeeps ==
    ASSUME IInv, NEW c \in Callers, Look(c) \/ LookAgain(c), UNCHANGED stamped,
           call[c].at \in Outside
    PROVE  IInv'
<1>1. UNCHANGED <<clock, executed, inflight>> /\ woken' \subseteq Callers
  BY DEF Look, LookAgain, ledger, IInv, TypeOK
<1>2. \/ Register(c) \/ Repeats(c)
      \/ Awaits(c, [call[c] EXCEPT !.at = "waiting", !.intent = entry]) /\ UNCHANGED layer
  BY DEF Look, LookAgain
<1>3. CASE Awaits(c, [call[c] EXCEPT !.at = "waiting", !.intent = entry])
           /\ UNCHANGED layer
  <2> DEFINE r == [call[c] EXCEPT !.at = "waiting", !.intent = entry]
  <2>1. call[c] \in Calls /\ entry \in Nat /\ "waiting" \in Places
    BY DEF IInv, TypeOK, Places
  <2>2. r \in Calls /\ r.at = "waiting"
    BY <2>1 DEF Calls
  <2>3. call' = [call EXCEPT ![c] = r] /\ told' = Silent
        /\ UNCHANGED <<intents, entry, previews, taken, sent, sends>>
    BY <1>3 DEF Awaits, layer
  <2>4. HonestAnswers'
    BY <2>3 DEF HonestAnswers, Silent
  <2> HIDE DEF r
  <2> QED
    BY <1>1, <2>2, <2>3, <2>4, OutsideStep DEF Outside
<1> QED
  BY <1>1, <1>2, <1>3, RegisterKeeps, RepeatsKeeps

\* The first preview of an intent, once its bytes are encoded.
LEMMA PreparedKeeps ==
    ASSUME IInv, NEW c \in Callers, Prepared(c), UNCHANGED stamped PROVE IInv'
<1> DEFINE i == call[c].intent
           n == Len(previews) + 1
           new == [Mine(c) EXCEPT !.preview = n, !.state = "prepared"]
           preview == [intent |-> i, stamp |-> call[c].stamp, superseded |-> FALSE]
<1>1. /\ previews' = Append(previews, preview)
      /\ intents' = [intents EXCEPT ![i] = new]
      /\ woken' = WaitingOn(i)
      /\ call' = [call EXCEPT ![c] = Idle] /\ told' = [outcome |-> "prepared", intent |-> i]
      /\ UNCHANGED <<clock, executed, inflight, entry, taken, sent, sends>>
  BY DEF Prepared, Made, Becomes, Answers, ledger
<1>2. call[c].at = "encoding"
  BY DEF Prepared, At
<1>3. /\ intents \in Seq(Intents) /\ previews \in Seq(Previews)
      /\ call \in [Callers -> Calls] /\ call[c] \in Calls /\ i \in Nat
      /\ stamped \in BOOLEAN
  BY DEF IInv, TypeOK, Calls
<1>4. /\ i \in DOMAIN intents /\ intents[i] = Mine(c) /\ Mine(c).state = "preparing"
      /\ \A d \in Callers : Encodes(d, i) => d = c
  BY <1>2 DEF IInv, EncodeInv, Mine
<1>5. PreviewsOf(i) = {} /\ ~Mine(c).hadUnknown /\ ~Mine(c).busy
  BY <1>4 DEF IInv, IntentInv
<1>6. n \in Nat /\ n \notin DOMAIN previews
  BY <1>3
<1>7. preview \in Previews
  BY <1>3 DEF Previews, Calls
<1>8. /\ previews' \in Seq(Previews) /\ DOMAIN previews' = DOMAIN previews \cup {n}
      /\ previews'[n] = preview /\ \A p \in DOMAIN previews : previews'[p] = previews[p]
  <2> HIDE DEF preview
  <2> QED
    BY <1>1, <1>3, <1>7
<1>9. /\ preview.intent = i /\ preview.stamp = call[c].stamp /\ ~preview.superseded
  OBVIOUS
<1> HIDE DEF n, preview
<1>10. /\ new \in Intents /\ new.preview = n /\ new.state = "prepared"
       /\ ~new.hadUnknown /\ ~new.busy
  <2>1. Mine(c) \in Intents
    BY <1>3, <1>4
  <2> QED
    BY <1>5, <1>6, <2>1 DEF Intents, States
<1> HIDE DEF new, i
<1>11. /\ intents' \in Seq(Intents) /\ DOMAIN intents' = DOMAIN intents
       /\ \A j \in DOMAIN intents : intents'[j] = IF j = i THEN new ELSE intents[j]
  BY <1>1, <1>3, <1>4, <1>10
<1>12. /\ call' \in [Callers -> Calls]
       /\ \A d \in Callers : call'[d] = IF d = c THEN Idle ELSE call[d]
       /\ Idle.at = "idle"
  BY <1>1, <1>3, IdleType
<1>13. \A p \in DOMAIN previews : previews[p].intent # i
  BY <1>5 DEF PreviewsOf
<1>14. \A j : HasExecuted(j)' = HasExecuted(j)
  <2>1. \A k \in DOMAIN executed :
          previews'[executed[k].preview] = previews[executed[k].preview]
    BY <1>8 DEF IInv, MessageInv
  <2> QED
    BY <1>1, <2>1 DEF HasExecuted
<1>15. ~HasExecuted(i)
  BY <1>13 DEF HasExecuted, IInv, MessageInv
<1>16. \A j : PreviewsOf(j)' = IF j = i THEN {n} ELSE PreviewsOf(j)
  <2>1. \A j : PreviewsOf(j)' = {p \in DOMAIN previews \cup {n} : previews'[p].intent = j}
    BY <1>8 DEF PreviewsOf
  <2>2. \A j : PreviewsOf(j) = {p \in DOMAIN previews : previews[p].intent = j}
    BY DEF PreviewsOf
  <2>3. ASSUME NEW j, j = i PROVE PreviewsOf(j)' = {n}
    BY <1>8, <1>9, <1>13, <2>1, <2>3
  <2>4. ASSUME NEW j, j # i PROVE PreviewsOf(j)' = PreviewsOf(j)
    BY <1>6, <1>8, <1>9, <2>1, <2>2, <2>4
  <2> QED
    BY <2>3, <2>4
<1>17. \A p, s : NeverRuns(p, s)' = NeverRuns(p, s)
  BY <1>1 DEF NeverRuns, Expired
<1>18. TypeOK'
  <2>1. woken' \subseteq Callers
    BY <1>1 DEF WaitingOn
  <2> QED
    BY <1>1, <1>8, <1>11, <1>12, <2>1 DEF IInv, TypeOK
<1>19. WorkInv'
  <2>1. \A d \in Callers : call'[d].at \in Working =>
          /\ call'[d] = call[d] /\ call[d].intent # i /\ call[d].intent \in DOMAIN intents
          /\ intents'[call[d].intent] = intents[call[d].intent]
    BY <1>4, <1>11, <1>12 DEF IInv, WorkInv, Mine, Working
  <2>2. \A d \in Callers : \A j : Works(d, j)' => Works(d, j)
    BY <2>1 DEF Works
  <2> QED
    BY <1>1, <1>11, <2>1, <2>2 DEF IInv, WorkInv, Mine
<1>20. EncodeInv'
  BY <1>4, <1>11, <1>12 DEF IInv, EncodeInv, Mine, Encodes
<1>21. IntentInv'
  <2>1. \A j \in DOMAIN intents : intents'[j].attempts = 0 => ~intents'[j].hadUnknown
    BY <1>10, <1>11 DEF IInv, IntentInv
  <2>2. \A j \in DOMAIN intents : intents'[j].state = "preparing" =>
          PreviewsOf(j)' = {} /\ ~intents'[j].hadUnknown /\ ~intents'[j].busy
    BY <1>10, <1>11, <1>16 DEF IInv, IntentInv
  <2>3. \A j \in DOMAIN intents : intents'[j].state # "preparing" =>
          intents'[j].preview \in PreviewsOf(j)'
          /\ ~previews'[intents'[j].preview].superseded
    <3> SUFFICES ASSUME NEW j \in DOMAIN intents, intents'[j].state # "preparing"
                 PROVE  intents'[j].preview \in PreviewsOf(j)'
                        /\ ~previews'[intents'[j].preview].superseded
      OBVIOUS
    <3>1. CASE j = i
      <4>1. intents'[j].preview = n
        BY <1>10, <1>11, <3>1
      <4> QED
        BY <1>8, <1>9, <1>16, <3>1, <4>1
    <3>2. CASE j # i
      <4>1. intents[j].preview \in PreviewsOf(j) /\ ~previews[intents[j].preview].superseded
        BY <1>11, <3>2 DEF IInv, IntentInv
      <4>2. intents[j].preview \in DOMAIN previews
        BY <4>1 DEF PreviewsOf
      <4> QED
        BY <1>8, <1>11, <1>16, <3>2, <4>1, <4>2
    <3> QED
      BY <3>1, <3>2
  <2>4. \A j \in DOMAIN intents : intents'[j].state = "done" =>
          \E k \in DOMAIN executed : executed[k].preview = intents'[j].preview
    BY <1>10, <1>11 DEF IInv, IntentInv
  <2> QED
    BY <1>1, <1>11, <2>1, <2>2, <2>3, <2>4 DEF IntentInv
<1>22. PreviewInv'
  BY <1>4, <1>8, <1>9, <1>10, <1>11, <1>13, <1>17 DEF IInv, PreviewInv
<1>23. SettledNeverRuns'
  BY <1>8, <1>10, <1>11, <1>16, <1>17 DEF IInv, SettledNeverRuns, PreviewsOf
<1>24. StampInv'
  BY <1>1, <1>2, <1>8, <1>9, <1>12 DEF IInv, StampInv, InHand
<1>25. MessageInv'
  BY <1>1, <1>8 DEF IInv, MessageInv
<1>26. SendInv'
  BY <1>1, <1>12 DEF IInv, SendInv
<1>27. \A m \in inflight : previews'[m.preview] = previews[m.preview]
                          /\ previews[m.preview].intent # i
  BY <1>8, <1>13 DEF IInv, MessageInv
<1>28. KnownInv'
  <2> SUFFICES ASSUME NEW j \in DOMAIN intents, ~intents'[j].hadUnknown
               PROVE  /\ \A m \in inflight : previews'[m.preview].intent = j =>
                            \E d \in Callers : call'[d].at = "sending"
                               /\ call'[d].intent = j /\ call'[d].send = m.send
                      /\ HasExecuted(j)' => intents'[j].state = "done"
                                           \/ \E d \in Callers : Tells(d, j)'
    BY <1>1, <1>11 DEF KnownInv
  <2>1. CASE j = i
    BY <1>14, <1>15, <1>27, <2>1
  <2>2. CASE j # i
    <3>1. /\ \A m \in inflight : previews[m.preview].intent = j =>
               \E d \in Callers : call[d].at = "sending"
                 /\ call[d].intent = j /\ call[d].send = m.send
          /\ HasExecuted(j) => intents[j].state = "done" \/ \E d \in Callers : Tells(d, j)
      BY <1>11, <2>2 DEF IInv, KnownInv
    <3>2. \A d \in Callers : call[d].at = "sending" => call'[d] = call[d]
      BY <1>2, <1>12
    <3>3. \A d \in Callers : Tells(d, j) => Tells(d, j)'
      BY <3>2 DEF Tells
    <3> QED
      BY <1>11, <1>14, <1>27, <2>2, <3>1, <3>2, <3>3
  <2> QED
    BY <2>1, <2>2
<1>30. UnstampedInv'
  <2> SUFFICES ASSUME ~stamped, NEW j \in DOMAIN intents
               PROVE  /\ intents'[j].hadUnknown => intents'[j].state = "reconcile"
                      /\ \A m \in inflight : previews'[m.preview].intent = j =>
                           /\ ~HasExecuted(j)'
                           /\ \A o \in inflight : previews'[o.preview].intent = j => m = o
    BY <1>1, <1>11, ZenonT(30) DEF UnstampedInv
  <2>1. intents'[j].hadUnknown => intents'[j].state = "reconcile"
    BY <1>10, <1>11 DEF IInv, UnstampedInv
  <2> QED
    BY <1>14, <1>27, <2>1 DEF IInv, UnstampedInv
<1>29. HonestAnswers'
  BY <1>1, <1>14, <1>15 DEF HonestAnswers
<1> QED
  BY <1>18, <1>19, <1>20, <1>21, <1>22, <1>23, <1>24, <1>25, <1>26, <1>28, <1>29, <1>30
     DEF IInv

\* The bytes could not be encoded: nothing is left of the preparation but its intent.
LEMMA NotPreparedKeeps ==
    ASSUME IInv, NEW c \in Callers, NotPrepared(c), UNCHANGED stamped PROVE IInv'
<1>1. /\ call[c].at = "encoding" /\ call' = [call EXCEPT ![c] = Idle]
      /\ entry' = call[c].previous /\ woken' \subseteq Callers /\ told'.outcome = "error"
      /\ UNCHANGED <<clock, executed, inflight, intents, previews, taken, sent, sends>>
  BY DEF NotPrepared, At, Answers, ledger, WaitingOn
<1>2. /\ call \in [Callers -> Calls] /\ call' \in [Callers -> Calls]
      /\ \A d \in Callers : call'[d] = IF d = c THEN Idle ELSE call[d]
      /\ Idle.at = "idle" /\ entry' \in Nat
  BY <1>1, IdleType DEF IInv, TypeOK, Calls
<1>3. TypeOK'
  BY <1>1, <1>2 DEF IInv, TypeOK
<1>4. WorkInv'
  BY <1>1, <1>2 DEF IInv, WorkInv, Mine, Works, Working
<1>5. EncodeInv'
  BY <1>1, <1>2 DEF IInv, EncodeInv, Mine, Encodes
<1>6. StampInv'
  BY <1>1, <1>2 DEF IInv, StampInv, InHand
<1>7. SendInv'
  BY <1>1, <1>2 DEF IInv, SendInv
<1>8. KnownInv'
  BY <1>1, <1>2, Untouched DEF IInv, KnownInv, Tells
<1>9. HonestAnswers'
  BY <1>1 DEF HonestAnswers
<1> QED
  BY <1>1, <1>3, <1>4, <1>5, <1>6, <1>7, <1>8, <1>9, Untouched DEF IInv

\* The two steps of a retry_new up to its new bytes: from the answer to the clock
\* reading, and from there to the encoder with a stamp in hand.
LEMMA RetryKeeps ==
    ASSUME IInv, NEW c \in Callers, RetryNew(c) \/ Restamp(c), UNCHANGED stamped
    PROVE  IInv'
<1>1. /\ call \in [Callers -> Calls] /\ call[c] \in Calls /\ clock \in Int
      /\ IsBounded(taken) /\ IsBounded(sent) /\ stamped \in BOOLEAN
  BY DEF IInv, TypeOK
<1>2. /\ call[c].at \in {"sending", "restamping"} /\ told' = Silent
      /\ UNCHANGED <<clock, executed, inflight, intents, entry, previews>>
      /\ UNCHANGED <<sent, sends, woken>>
  BY DEF RetryNew, Restamp, Replied, At, Awaits, ledger, layer
<1>3. call[c].at \in Working
  BY <1>2 DEF Working
<1>4. call[c].reply \in {"too_old", "in_future"} /\ ~Mine(c).hadUnknown
  BY <1>3 DEF RetryNew, Restamp, Replied, At, MustReconcile, IInv, WorkInv
<1>5. PICK r \in Calls :
        /\ call' = [call EXCEPT ![c] = r]
        /\ r.at \in {"restamping", "reencoding"} /\ r.intent = call[c].intent
        /\ r.preview = call[c].preview /\ r.reply = call[c].reply
        /\ taken \subseteq taken' /\ IsBounded(taken')
        /\ r.at = "reencoding" =>
             /\ stamped => r.stamp \notin taken /\ r.stamp \in taken'
             /\ ~stamped => r.stamp = NoStamp
  <2>1. CASE RetryNew(c)
    <3> DEFINE r == [call[c] EXCEPT !.at = "restamping"]
    <3>1. "restamping" \in Places
      BY DEF Places
    <3>2. /\ r \in Calls /\ r.at = "restamping" /\ r.intent = call[c].intent
          /\ r.preview = call[c].preview /\ r.reply = call[c].reply
      BY <1>1, <3>1 DEF Calls
    <3>3. call' = [call EXCEPT ![c] = r] /\ taken' = taken
      BY <2>1 DEF RetryNew, Awaits, layer
    <3> HIDE DEF r
    <3> QED
      BY <1>1, <3>2, <3>3
  <2>2. CASE Restamp(c)
    <3> DEFINE cap == IF call[c].reply = "in_future" THEN {call[c].clock} ELSE {}
    <3>1. PICK now \in clock .. (clock + Skew) :
            /\ Handed(StampFor(now, cap))
            /\ Awaits(c, [call[c] EXCEPT !.at = "reencoding", !.stamp = StampFor(now, cap)])
      BY <2>2 DEF Restamp
    <3> DEFINE stamp == StampFor(now, cap)
               r == [call[c] EXCEPT !.at = "reencoding", !.stamp = stamp]
    <3>2. now \in Int /\ (cap = {} \/ \E x \in Int : cap = {x})
      BY <1>1, ToolLayerAssumption DEF Calls
    <3> HIDE DEF cap
    <3>3. /\ stamped => stamp \in Int /\ stamp \notin taken
          /\ ~stamped => stamp = NoStamp
      BY <1>1, <3>2, StampForType
    <3>4. Handed(stamp) /\ call' = [call EXCEPT ![c] = r]
      BY <3>1 DEF Awaits
    <3> HIDE DEF stamp
    <3>5. /\ r \in Calls /\ r.at = "reencoding" /\ r.intent = call[c].intent
          /\ r.preview = call[c].preview /\ r.reply = call[c].reply /\ r.stamp = stamp
      <4>1. "reencoding" \in Places /\ stamp \in Stamps
        BY <1>1, <3>3 DEF Places, Stamps
      <4> QED
        BY <1>1, <4>1 DEF Calls
    <3> HIDE DEF r
    <3>6. taken \subseteq taken' /\ IsBounded(taken') /\ (stamped => stamp \in taken')
      BY <1>1, <3>3, <3>4, BoundedMore DEF Handed
    <3> QED
      BY <3>3, <3>4, <3>5, <3>6
  <2> QED
    BY <2>1, <2>2
<1>6. /\ call' \in [Callers -> Calls]
      /\ \A d \in Callers : call'[d] = IF d = c THEN r ELSE call[d]
  BY <1>1, <1>5
<1>7. TypeOK'
  BY <1>2, <1>5, <1>6 DEF IInv, TypeOK
<1>8. WorkInv'
  BY <1>2, <1>3, <1>4, <1>5, <1>6 DEF IInv, WorkInv, Mine, Works, Working
<1>9. EncodeInv'
  BY <1>2, <1>5, <1>6 DEF IInv, EncodeInv, Mine, Encodes
<1>10. StampInv'
  BY <1>2, <1>5, <1>6 DEF IInv, StampInv, InHand
<1>11. SendInv'
  BY <1>2, <1>5, <1>6 DEF IInv, SendInv
<1>12. KnownInv'
  <2>1. call[c].at = "sending" => \A m \in inflight : m.send # call[c].send
    BY <1>4 DEF IInv, SendInv
  <2>2. \A j : ~Tells(c, j)
    BY <1>4 DEF Tells
  <2>3. \A d \in Callers : \A j : Tells(d, j) => Tells(d, j)'
    BY <1>6, <2>2 DEF Tells
  <2>4. \A d \in Callers, m \in inflight : call[d].at = "sending" /\ call[d].send = m.send =>
          call'[d] = call[d]
    BY <1>6, <2>1
  <2> HIDE DEF Tells
  <2> QED
    BY <1>2, <2>3, <2>4, Untouched DEF IInv, KnownInv
<1>13. HonestAnswers'
  BY <1>2 DEF HonestAnswers, Silent
<1> QED
  BY <1>2, <1>7, <1>8, <1>9, <1>10, <1>11, <1>12, <1>13, Untouched DEF IInv

-----------------------------------------------------------------------------
\* The steps of the network and of time, and the send.

\* Time passes or a message is lost: what cannot run stays so.
LEMMA WaitKeeps ==
    ASSUME IInv, \/ Pass \/ \E message \in inflight : Lose(message), UNCHANGED stamped
    PROVE  IInv'
<1>1. /\ UNCHANGED <<executed, intents, entry, previews, taken, sent, sends, call, woken>>
      /\ told' = Silent
  BY DEF Pass, Passes, Lose, Lost, layer
<1>2. clock \in Int /\ clock' \in Int /\ clock <= clock' /\ inflight' \subseteq inflight
  BY DEF Pass, Passes, Lose, Lost, IInv, TypeOK
<1>3. \A p : \A s \in Stamps : NeverRuns(p, s) => NeverRuns(p, s)'
  <2> SUFFICES ASSUME NEW p, NEW s \in Stamps, NeverRuns(p, s) PROVE NeverRuns(p, s)'
    OBVIOUS
  <2>1. s # NoStamp /\ Expired(s) => Expired(s)'
    <3>1. s # NoStamp => s + Window \in Int
      BY WindowAssumption DEF Stamps
    <3> QED
      BY <1>2, <3>1 DEF Expired
  <2> QED
    BY <1>1, <1>2, <2>1 DEF NeverRuns
<1>4. \A p \in DOMAIN previews : previews[p].stamp \in Stamps
  <2>1. \A p \in DOMAIN previews : previews[p] \in Previews
    BY DEF IInv, TypeOK
  <2> QED
    BY <2>1 DEF Previews
<1>5. \A i : HasExecuted(i)' = HasExecuted(i) /\ PreviewsOf(i)' = PreviewsOf(i)
  BY <1>1 DEF HasExecuted, PreviewsOf
<1>6. TypeOK'
  BY <1>1, <1>2 DEF IInv, TypeOK
<1>7. WorkInv' /\ EncodeInv'
  BY <1>1 DEF IInv, WorkInv, EncodeInv, Mine, Works, Encodes
<1>8. IntentInv'
  BY <1>1, <1>5 DEF IInv, IntentInv
<1>9. PreviewInv' /\ SettledNeverRuns'
  BY <1>1, <1>3, <1>4, <1>5 DEF IInv, PreviewInv, SettledNeverRuns, PreviewsOf
<1>10. StampInv'
  BY <1>1 DEF IInv, StampInv, InHand
<1>11. MessageInv' /\ SendInv'
  BY <1>1, <1>2 DEF IInv, MessageInv, SendInv
<1>12. KnownInv'
  BY <1>1, <1>2, <1>5 DEF IInv, KnownInv, Tells
<1>13. UnstampedInv'
  BY <1>1, <1>2, <1>5 DEF IInv, UnstampedInv
<1>14. HonestAnswers'
  BY <1>1 DEF HonestAnswers, Silent
<1> QED
  BY <1>6, <1>7, <1>8, <1>9, <1>10, <1>11, <1>12, <1>13, <1>14 DEF IInv

\* What an arriving message is answered, and whether it runs.
LEMMA OutcomeType ==
    ASSUME NEW stamp, NEW outcome \in Outcomes(stamp)
    PROVE  /\ outcome.reply \in Replies \ {"none"} /\ outcome.ran \in BOOLEAN
           /\ outcome.ran => outcome.reply \in {"success", "trapped"}
                             /\ ~HasRun(stamp) /\ ~(stamp # NoStamp /\ Expired(stamp))
           /\ outcome.reply = "success" => outcome.ran
           /\ outcome.reply = "already_done" => HasRun(stamp)
<1>1. outcome \in Verdicts(stamp) \cup {Refused("rejected"), Refused("trapped")}
  BY DEF Outcomes
<1>2. \/ outcome \in {Refused("too_old"), Refused("in_future"), Refused("retry_same"),
                      Refused("fail"), Refused("rejected"), Refused("trapped")}
      \/ outcome = Refused("already_done") /\ HasRun(stamp)
      \/ outcome \in {Ran("success"), Ran("trapped")}
         /\ ~HasRun(stamp) /\ ~(stamp # NoStamp /\ Expired(stamp))
  BY <1>1 DEF Verdicts
<1>3. CASE outcome \in {Refused("too_old"), Refused("in_future"), Refused("retry_same"),
                         Refused("fail"), Refused("rejected"), Refused("trapped")}
  <2>1. PICK r \in {"too_old", "in_future", "retry_same", "fail", "rejected", "trapped"} :
          outcome = Refused(r)
    BY <1>3
  <2>2. outcome.reply = r /\ outcome.ran = FALSE
    BY <2>1 DEF Refused
  <2> QED
    BY <2>2 DEF Replies
<1>4. CASE outcome = Refused("already_done") /\ HasRun(stamp)
  BY <1>4 DEF Refused, Replies
<1>5. CASE outcome \in {Ran("success"), Ran("trapped")}
           /\ ~HasRun(stamp) /\ ~(stamp # NoStamp /\ Expired(stamp))
  <2>1. PICK r \in {"success", "trapped"} : outcome = Ran(r)
    BY <1>5
  <2>2. outcome.reply = r /\ outcome.ran = TRUE
    BY <2>1 DEF Ran
  <2> QED
    BY <1>5, <2>2 DEF Replies
<1> QED
  BY <1>2, <1>3, <1>4, <1>5

LEMMA ArriveKeeps ==
    ASSUME IInv, NEW message \in inflight, Arrive(message), UNCHANGED stamped
    PROVE  IInv'
<1>1. PICK outcome \in Outcomes(message.stamp) :
        /\ Arrives(message, outcome)
        /\ call' = [c \in Callers |->
              IF call[c].at = "sending" /\ call[c].send = message.send
              THEN [call[c] EXCEPT !.reply = outcome.reply, !.clock = clock] ELSE call[c]]
  BY DEF Arrive
<1> DEFINE ran == [preview |-> message.preview, stamp |-> message.stamp]
           Hears(c) == call[c].at = "sending" /\ call[c].send = message.send
<1>2. /\ UNCHANGED <<clock, intents, entry, previews, taken, sent, sends, woken>>
      /\ told' = Silent /\ inflight' = inflight \ {message}
      /\ executed' = IF outcome.ran THEN Append(executed, ran) ELSE executed
  BY <1>1 DEF Arrive, Arrives, layer
<1>3. /\ outcome.reply \in Replies \ {"none"} /\ outcome.ran \in BOOLEAN
      /\ outcome.ran => outcome.reply \in {"success", "trapped"}
             /\ ~HasRun(message.stamp)
             /\ ~(message.stamp # NoStamp /\ Expired(message.stamp))
      /\ outcome.reply = "success" => outcome.ran
      /\ outcome.reply = "already_done" => HasRun(message.stamp)
  BY OutcomeType
<1>4. /\ executed \in Seq([preview : Nat, stamp : Stamps])
      /\ ran \in [preview : Nat, stamp : Stamps]
      /\ ran.preview = message.preview /\ ran.stamp = message.stamp
      /\ call \in [Callers -> Calls] /\ clock \in Int
      /\ message.preview \in DOMAIN previews
      /\ message.stamp = previews[message.preview].stamp
      /\ \A m \in inflight : m.send = message.send => m = message
  BY DEF IInv, TypeOK, MessageInv
<1> HIDE DEF ran
<1>5. /\ executed' \in Seq([preview : Nat, stamp : Stamps])
      /\ DOMAIN executed \subseteq DOMAIN executed'
      /\ \A k \in DOMAIN executed : executed'[k] = executed[k]
      /\ \A k \in DOMAIN executed' : k \notin DOMAIN executed => outcome.ran /\ executed'[k] = ran
      /\ outcome.ran => \E k \in DOMAIN executed' : executed'[k] = ran
  <2>1. CASE outcome.ran
    <3>1. executed' = Append(executed, ran)
      BY <1>2, <2>1
    <3>2. executed'[Len(executed) + 1] = ran /\ Len(executed) + 1 \in DOMAIN executed'
      BY <1>4, <3>1
    <3> QED
      BY <1>4, <2>1, <3>1, <3>2
  <2>2. CASE ~outcome.ran
    BY <1>2, <1>4, <2>2
  <2> QED
    BY <2>1, <2>2
<1>6. \A c \in Callers :
        /\ call'[c] \in Calls /\ call'[c].at = call[c].at /\ call'[c].intent = call[c].intent
        /\ call'[c].preview = call[c].preview /\ call'[c].send = call[c].send
        /\ call'[c].stamp = call[c].stamp
        /\ call'[c].reply = IF Hears(c) THEN outcome.reply ELSE call[c].reply
  BY <1>1, <1>3, <1>4 DEF Calls
<1>7. call' \in [Callers -> Calls]
  BY <1>1, <1>6
<1> HIDE DEF Hears
<1>8. TypeOK'
  BY <1>2, <1>5, <1>7 DEF IInv, TypeOK
<1>9. WorkInv' /\ EncodeInv'
  BY <1>2, <1>6 DEF IInv, WorkInv, EncodeInv, Mine, Works, Encodes, Hears
<1>10. StampInv'
  BY <1>2, <1>6 DEF IInv, StampInv, InHand
<1>11. \A i : PreviewsOf(i)' = PreviewsOf(i)
  BY <1>2 DEF PreviewsOf
<1>12. IntentInv'
  BY <1>2, <1>5, <1>11 DEF IInv, IntentInv
<1>13. \A p \in DOMAIN previews : NeverRuns(p, previews[p].stamp) =>
         NeverRuns(p, previews[p].stamp)'
  <2> SUFFICES ASSUME NEW p \in DOMAIN previews, NeverRuns(p, previews[p].stamp)
               PROVE  NeverRuns(p, previews[p].stamp)'
    OBVIOUS
  <2>1. outcome.ran => message.preview # p
    BY <1>3, <1>4 DEF NeverRuns
  <2>2. \A k \in DOMAIN executed' : executed'[k].preview # p
    BY <1>4, <1>5, <2>1 DEF NeverRuns
  <2> QED
    BY <1>2, <2>2 DEF NeverRuns, Expired
<1>14. PreviewInv' /\ SettledNeverRuns'
  BY <1>2, <1>11, <1>13 DEF IInv, PreviewInv, SettledNeverRuns, PreviewsOf
<1>15. MessageInv'
  BY <1>2, <1>4, <1>5 DEF IInv, MessageInv
<1>16. HasRun(message.stamp) =>
         \E k \in DOMAIN executed : executed[k].preview = message.preview
  <2> SUFFICES ASSUME HasRun(message.stamp)
               PROVE  \E k \in DOMAIN executed : executed[k].preview = message.preview
    OBVIOUS
  <2>1. PICK k \in DOMAIN executed : executed[k].stamp = message.stamp
    BY DEF HasRun
  <2>2. /\ executed[k].preview \in DOMAIN previews
        /\ previews[executed[k].preview].stamp = message.stamp /\ message.stamp # NoStamp
    BY <2>1 DEF IInv, MessageInv, HasRun
  <2>3. stamped
    BY <2>2 DEF IInv, StampInv
  <2> QED
    BY <1>4, <2>2, <2>3 DEF IInv, StampInv
<1>17. SendInv'
  <2> SUFFICES ASSUME NEW c \in Callers, call[c].at = "sending"
               PROVE  /\ call[c].send <= sends
                      /\ \A m \in inflight' : m.send = call[c].send =>
                           m.preview = call[c].preview /\ call'[c].reply = "none"
                      /\ call'[c].reply \in {"success", "already_done"} =>
                           \E k \in DOMAIN executed' : executed'[k].preview = call[c].preview
    BY <1>2, <1>6 DEF SendInv
  <2>1. CASE Hears(c)
    <3>1. message.preview = call[c].preview
      BY <2>1 DEF Hears, IInv, SendInv
    <3> QED
      BY <1>2, <1>3, <1>4, <1>5, <1>6, <1>16, <2>1, <3>1 DEF Hears, IInv, SendInv
  <2>2. CASE ~Hears(c)
    <3>1. inflight' \subseteq inflight /\ call'[c].reply = call[c].reply
      BY <1>2, <1>6, <2>2
    <3>2. /\ call[c].send <= sends
          /\ \A m \in inflight : m.send = call[c].send =>
               m.preview = call[c].preview /\ call[c].reply = "none"
          /\ call[c].reply \in {"success", "already_done"} =>
               \E k \in DOMAIN executed : executed[k].preview = call[c].preview
      BY DEF IInv, SendInv
    <3> QED
      BY <1>5, <3>1, <3>2
  <2> QED
    BY <2>1, <2>2
<1>18. \A i : HasExecuted(i) => HasExecuted(i)'
  BY <1>2, <1>5 DEF HasExecuted
<1>19. \A i : HasExecuted(i)' =>
         HasExecuted(i) \/ (outcome.ran /\ previews[message.preview].intent = i)
  BY <1>2, <1>4, <1>5 DEF HasExecuted
<1>20. KnownInv'
  <2> SUFFICES ASSUME NEW i \in DOMAIN intents, ~intents[i].hadUnknown
               PROVE  /\ \A m \in inflight' : previews[m.preview].intent = i =>
                            \E c \in Callers : call'[c].at = "sending"
                               /\ call'[c].intent = i /\ call'[c].send = m.send
                      /\ HasExecuted(i)' =>
                            intents[i].state = "done" \/ \E c \in Callers : Tells(c, i)'
    BY <1>2 DEF KnownInv
  <2>1. \A m \in inflight : previews[m.preview].intent = i =>
          \E c \in Callers : call[c].at = "sending" /\ call[c].intent = i
                             /\ call[c].send = m.send
    BY DEF IInv, KnownInv
  <2>2. \A c \in Callers : Tells(c, i) => Tells(c, i)'
    <3>1. \A c \in Callers : Tells(c, i) => ~Hears(c)
      BY DEF Tells, Hears, IInv, SendInv
    <3> QED
      BY <1>6, <3>1 DEF Tells
  <2>3. outcome.ran /\ previews[message.preview].intent = i => \E c \in Callers : Tells(c, i)'
    <3> SUFFICES ASSUME outcome.ran, previews[message.preview].intent = i
                 PROVE  \E c \in Callers : Tells(c, i)'
      OBVIOUS
    <3>1. PICK c \in Callers : call[c].at = "sending" /\ call[c].intent = i
                               /\ call[c].send = message.send
      BY <2>1
    <3>2. Tells(c, i)'
      BY <1>3, <1>6, <3>1 DEF Tells, Hears
    <3> QED
      BY <3>2
  <2>4. HasExecuted(i) => intents[i].state = "done" \/ \E c \in Callers : Tells(c, i)
    BY DEF IInv, KnownInv
  <2> QED
    BY <1>2, <1>6, <1>19, <2>1, <2>2, <2>3, <2>4
<1>21. UnstampedInv'
  BY <1>2, <1>19 DEF IInv, UnstampedInv
<1>22. HonestAnswers'
  BY <1>2 DEF HonestAnswers, Silent
<1> QED
  BY <1>8, <1>9, <1>10, <1>12, <1>14, <1>15, <1>17, <1>20, <1>21, <1>22 DEF IInv

\* A message is sent: of the current preview, by the only caller at work on the intent.
LEMMA ApproveKeeps ==
    ASSUME IInv, NEW c \in Callers, Approve(c), UNCHANGED stamped PROVE IInv'
<1> DEFINE p == call[c].preview
           message == [send |-> sends + 1, preview |-> p, stamp |-> previews[p].stamp]
           new == [Mine(c) EXCEPT !.attempts = @ + 1]
           r == [call[c] EXCEPT !.at = "sending", !.send = sends + 1]
<1>1. PICK i : i = call[c].intent
  OBVIOUS
<1>2. /\ call[c].at = "confirming" /\ call[c].at \in Working
      /\ inflight' = inflight \cup {message} /\ sends' = sends + 1
      /\ intents' = [intents EXCEPT ![i] = new] /\ call' = [call EXCEPT ![c] = r]
      /\ sent' = IF stamped THEN sent \cup {previews[p].stamp} ELSE sent
      /\ told' = Silent /\ UNCHANGED <<clock, executed, entry, previews, taken, woken>>
  BY <1>1 DEF Approve, At, Sent, Becomes, Awaits, MyPreview, Working
<1>3. /\ i \in DOMAIN intents /\ Mine(c) \in Intents /\ intents[i] = Mine(c)
      /\ \A d \in Callers : Works(d, i) => d = c
      /\ Mine(c).state \in {"prepared", "unknown"} /\ p = Mine(c).preview /\ Mine(c).busy
      /\ p \in DOMAIN previews /\ previews[p].intent = i /\ Works(c, i)
  BY <1>1, <1>2, AtWork DEF Mine, PreviewsOf
<1>4. call[c].reply = "none"
  BY <1>2 DEF IInv, WorkInv
<1>5. /\ intents \in Seq(Intents) /\ previews \in Seq(Previews) /\ previews[p] \in Previews
      /\ call \in [Callers -> Calls] /\ call[c] \in Calls /\ sends \in Nat
      /\ stamped \in BOOLEAN
  BY <1>3 DEF IInv, TypeOK
<1>6. ~previews[p].superseded
  BY <1>3 DEF IInv, IntentInv
<1>7. /\ new \in Intents /\ new.preview = Mine(c).preview /\ new.state = Mine(c).state
      /\ new.hadUnknown = Mine(c).hadUnknown /\ new.busy /\ new.attempts # 0
  BY <1>3 DEF Intents
<1>8. /\ r \in Calls /\ r.at = "sending" /\ r.intent = i /\ r.preview = p
      /\ r.send = sends + 1 /\ r.reply = "none"
  <2>1. "sending" \in Places /\ sends + 1 \in Nat
    BY <1>5 DEF Places
  <2>2. r \in Calls
    BY <1>5, <2>1 DEF Calls
  <2>3. /\ r.at = "sending" /\ r.intent = call[c].intent /\ r.preview = p
        /\ r.send = sends + 1 /\ r.reply = call[c].reply
    BY <1>5 DEF Calls
  <2> QED
    BY <1>1, <1>4, <2>2, <2>3
<1>9. /\ message \in [send : Nat, preview : Nat, stamp : Stamps]
      /\ message.send = sends + 1 /\ message.preview = p /\ message.stamp = previews[p].stamp
  BY <1>3, <1>5 DEF Previews
<1> HIDE DEF new, r, message
<1>10. /\ intents' \in Seq(Intents) /\ DOMAIN intents' = DOMAIN intents
       /\ \A j \in DOMAIN intents : intents'[j] = IF j = i THEN new ELSE intents[j]
  BY <1>2, <1>3, <1>5, <1>7
<1>11. /\ call' \in [Callers -> Calls]
       /\ \A d \in Callers : call'[d] = IF d = c THEN r ELSE call[d]
  BY <1>2, <1>5, <1>8
<1>12. ~Mine(c).hadUnknown => /\ \A m \in inflight : previews[m.preview].intent # i
                              /\ ~HasExecuted(i)
  <2>1. \A d \in Callers : ~Tells(d, i)
    BY <1>2, <1>3 DEF Tells, Works, Working
  <2>2. \A d \in Callers : Works(d, i) /\ call[d].at = "sending" => call[d].reply # "none"
    BY <1>2, <1>3
  <2> QED
    BY <1>3, <2>1, <2>2, NothingUnderWay
<1>13. \A j : HasExecuted(j)' = HasExecuted(j) /\ PreviewsOf(j)' = PreviewsOf(j)
  BY <1>2 DEF HasExecuted, PreviewsOf
<1>14. \A q, s : q # p /\ NeverRuns(q, s) => NeverRuns(q, s)'
  BY <1>2, <1>9 DEF NeverRuns, Expired
<1>15. TypeOK'
  <2>1. IsBounded(sent')
    <3>1. stamped => previews[p].stamp \in Int
      <4>1. stamped => previews[p].stamp \in taken
        BY <1>3 DEF IInv, StampInv
      <4>2. taken \subseteq Int
        BY DEF IInv, TypeOK, IsBounded
      <4> QED
        BY <4>1, <4>2
    <3> QED
      BY <1>2, <3>1, BoundedMore DEF IInv, TypeOK
  <2> QED
    BY <1>2, <1>5, <1>9, <1>10, <1>11, <2>1 DEF IInv, TypeOK
<1>16. WorkInv'
  <2>1. \A d \in Callers : call'[d].at \in Working /\ d # c =>
          /\ call'[d] = call[d] /\ call[d].intent # i /\ call[d].intent \in DOMAIN intents
          /\ intents'[call[d].intent] = intents[call[d].intent]
    BY <1>3, <1>10, <1>11 DEF IInv, WorkInv, Works
  <2>2. \A d \in Callers : \A j : Works(d, j)' => Works(d, j)
    BY <1>2, <1>3, <1>8, <1>11 DEF Works, Working
  <2>3. Mine(c)' = new /\ call'[c] = r
    BY <1>3, <1>8, <1>10, <1>11 DEF Mine
  <2>4. \A d \in Callers : d # c /\ call'[d].at \in Working => Mine(d)' = Mine(d)
    BY <2>1 DEF Mine
  <2> QED
    BY <1>2, <1>3, <1>7, <1>8, <1>10, <2>1, <2>2, <2>3, <2>4 DEF IInv, WorkInv
<1>17. EncodeInv'
  BY <1>2, <1>3, <1>8, <1>10, <1>11 DEF IInv, EncodeInv, Mine, Encodes
<1>18. IntentInv'
  BY <1>2, <1>3, <1>7, <1>10, <1>13 DEF IInv, IntentInv
<1>19. PreviewInv' /\ SettledNeverRuns'
  <2>1. PreviewInv'
    BY <1>2, <1>3, <1>6, <1>7, <1>10, <1>14 DEF IInv, PreviewInv
  <2>2. SettledNeverRuns'
    BY <1>2, <1>3, <1>7, <1>10, <1>13, <1>14 DEF IInv, SettledNeverRuns, PreviewsOf
  <2> QED
    BY <2>1, <2>2
<1>20. StampInv'
  BY <1>2, <1>8, <1>11 DEF IInv, StampInv, InHand
<1>21. MessageInv'
  <2>1. \A m \in inflight : m.send \in Nat /\ m.send <= sends
    BY DEF IInv, TypeOK, MessageInv
  <2> QED
    BY <1>2, <1>3, <1>5, <1>9, <2>1 DEF IInv, MessageInv
<1>22. SendInv'
  <2>1. \A m \in inflight : m.send \in Nat /\ m.send <= sends
    BY DEF IInv, TypeOK, MessageInv
  <2>2. \A d \in Callers : call[d].send \in Nat
    BY <1>5 DEF Calls
  <2> QED
    BY <1>2, <1>5, <1>8, <1>9, <1>11, <2>1, <2>2 DEF IInv, SendInv
<1>23. KnownInv'
  <2> SUFFICES ASSUME NEW j \in DOMAIN intents, ~intents'[j].hadUnknown
               PROVE  /\ \A m \in inflight' : previews[m.preview].intent = j =>
                            \E d \in Callers : call'[d].at = "sending"
                               /\ call'[d].intent = j /\ call'[d].send = m.send
                      /\ HasExecuted(j)' => intents'[j].state = "done"
                                           \/ \E d \in Callers : Tells(d, j)'
    BY <1>2, <1>10 DEF KnownInv
  <2>1. CASE j = i
    <3>1. ~Mine(c).hadUnknown
      BY <1>7, <1>10, <2>1
    <3> QED
      BY <1>2, <1>8, <1>9, <1>11, <1>12, <1>13, <2>1, <3>1
  <2>2. CASE j # i
    <3>1. /\ \A m \in inflight : previews[m.preview].intent = j =>
               \E d \in Callers : call[d].at = "sending"
                 /\ call[d].intent = j /\ call[d].send = m.send
          /\ HasExecuted(j) => intents[j].state = "done" \/ \E d \in Callers : Tells(d, j)
      BY <1>10, <2>2 DEF IInv, KnownInv
    <3>2. \A d \in Callers : call[d].at = "sending" => call'[d] = call[d]
      BY <1>2, <1>11
    <3>3. \A d \in Callers : Tells(d, j) => Tells(d, j)'
      BY <3>2 DEF Tells
    <3> QED
      BY <1>2, <1>3, <1>9, <1>10, <1>13, <2>2, <3>1, <3>2, <3>3
  <2> QED
    BY <2>1, <2>2
<1>24. UnstampedInv'
  <2>1. ~stamped => ~Mine(c).hadUnknown
    BY <1>3 DEF IInv, UnstampedInv
  <2> SUFFICES ASSUME ~stamped, NEW j \in DOMAIN intents
               PROVE  /\ intents'[j].hadUnknown => intents'[j].state = "reconcile"
                      /\ \A m \in inflight' : previews[m.preview].intent = j =>
                           /\ ~HasExecuted(j)'
                           /\ \A o \in inflight' : previews[o.preview].intent = j => m = o
    BY <1>2, <1>10 DEF UnstampedInv
  <2>2. CASE j = i
    BY <1>2, <1>7, <1>9, <1>10, <1>12, <1>13, <2>1, <2>2
  <2>3. CASE j # i
    BY <1>2, <1>3, <1>9, <1>10, <1>13, <2>3 DEF IInv, UnstampedInv
  <2> QED
    BY <2>2, <2>3
<1>25. HonestAnswers'
  BY <1>2 DEF HonestAnswers, Silent
<1> QED
  BY <1>15, <1>16, <1>17, <1>18, <1>19, <1>20, <1>21, <1>22, <1>23, <1>24, <1>25 DEF IInv

\* A new preview replaces the old, which was refused and of which nothing is under way.
LEMMA RestampedKeeps ==
    ASSUME IInv, NEW c \in Callers, Restamped(c), UNCHANGED stamped PROVE IInv'
<1>1. PICK i, n, p : i = call[c].intent /\ n = Len(previews) + 1 /\ p = call[c].preview
  OBVIOUS
<1> DEFINE new == [Mine(c) EXCEPT !.preview = n, !.attempts = 0]
           free == [new EXCEPT !.busy = FALSE]
           preview == [intent |-> i, stamp |-> call[c].stamp, superseded |-> FALSE]
<1>2. /\ call[c].at = "reencoding" /\ call[c].at \in Working
      /\ previews' = Append(Superseding(p), preview)
      /\ intents' = [intents EXCEPT ![i] = free] /\ call' = [call EXCEPT ![c] = Idle]
      /\ told' = [outcome |-> "retry_new", intent |-> i]
      /\ UNCHANGED <<clock, executed, inflight, entry, taken, sent, sends, woken>>
  BY <1>1 DEF Restamped, At, Ends, Becomes, Answers, Working, ledger
<1>3. /\ i \in DOMAIN intents /\ Mine(c) \in Intents /\ intents[i] = Mine(c)
      /\ \A d \in Callers : Works(d, i) => d = c
      /\ Mine(c).state \in {"prepared", "unknown"} /\ p = Mine(c).preview
      /\ p \in DOMAIN previews /\ previews[p].intent = i /\ Works(c, i)
  BY <1>1, <1>2, AtWork DEF Mine, PreviewsOf
<1>4. ~Mine(c).hadUnknown
  BY <1>2 DEF IInv, WorkInv
<1>5. /\ intents \in Seq(Intents) /\ previews \in Seq(Previews)
      /\ call \in [Callers -> Calls] /\ call[c] \in Calls /\ i \in Nat
      /\ stamped \in BOOLEAN
  BY <1>3 DEF IInv, TypeOK
<1>6. n \in Nat /\ n \notin DOMAIN previews
  BY <1>1, <1>5
<1>7. /\ preview \in Previews /\ preview.intent = i /\ preview.stamp = call[c].stamp
      /\ ~preview.superseded
  BY <1>5 DEF Previews, Calls
<1>8. /\ free \in Intents /\ free.preview = n /\ free.state = Mine(c).state
      /\ ~free.hadUnknown
  <2>1. /\ new \in Intents /\ new.preview = n /\ new.state = Mine(c).state
        /\ ~new.hadUnknown
    BY <1>3, <1>4, <1>6 DEF Intents
  <2> HIDE DEF new
  <2> QED
    BY <2>1 DEF Intents
<1> HIDE DEF new, free, preview
<1>9. /\ previews' \in Seq(Previews) /\ DOMAIN previews' = DOMAIN previews \cup {n}
      /\ previews'[n] = preview
      /\ \A q \in DOMAIN previews :
           /\ previews'[q].intent = previews[q].intent
           /\ previews'[q].stamp = previews[q].stamp
           /\ previews'[q].superseded = IF q = p THEN TRUE ELSE previews[q].superseded
  <2>1. /\ Superseding(p) \in Seq(Previews) /\ Len(Superseding(p)) = Len(previews)
        /\ DOMAIN Superseding(p) = DOMAIN previews
    <3> DEFINE old == [previews[p] EXCEPT !.superseded = TRUE]
    <3>1. old \in Previews
      <4>1. previews[p] \in Previews
        BY <1>3, <1>5
      <4> QED
        BY <4>1 DEF Previews
    <3>2. Superseding(p) = [previews EXCEPT ![p] = old]
      BY DEF Superseding
    <3> HIDE DEF old
    <3> QED
      BY <1>3, <1>5, <3>1, <3>2
  <2>2. \A q \in DOMAIN previews :
           /\ Superseding(p)[q].intent = previews[q].intent
           /\ Superseding(p)[q].stamp = previews[q].stamp
           /\ Superseding(p)[q].superseded = IF q = p THEN TRUE ELSE previews[q].superseded
    <3>1. \A q \in DOMAIN previews : previews[q] \in Previews
      BY <1>5
    <3> QED
      BY <3>1 DEF Superseding, Previews
  <2>3. \A q \in DOMAIN previews : previews'[q] = Superseding(p)[q]
    BY <1>2, <1>5, <1>7, <2>1
  <2>4. /\ previews' \in Seq(Previews) /\ DOMAIN previews' = DOMAIN previews \cup {n}
        /\ previews'[n] = preview
    BY <1>1, <1>2, <1>5, <1>7, <2>1
  <2> QED
    BY <2>2, <2>3, <2>4
<1>10. /\ intents' \in Seq(Intents) /\ DOMAIN intents' = DOMAIN intents
       /\ \A j \in DOMAIN intents : intents'[j] = IF j = i THEN free ELSE intents[j]
  BY <1>2, <1>3, <1>5, <1>8
<1>11. /\ call' \in [Callers -> Calls]
       /\ \A d \in Callers : call'[d] = IF d = c THEN Idle ELSE call[d]
       /\ Idle.at = "idle"
  BY <1>2, <1>5, IdleType
<1>12. /\ \A m \in inflight : previews[m.preview].intent # i
       /\ ~HasExecuted(i) /\ \A q \in PreviewsOf(i) : NeverRuns(q, previews[q].stamp)
  <2>1. \A d \in Callers : ~Tells(d, i)
    BY <1>2, <1>3 DEF Tells, Works, Working
  <2>2. \A d \in Callers : Works(d, i) /\ call[d].at = "sending" => call[d].reply # "none"
    BY <1>2, <1>3
  <2> QED
    BY <1>3, <1>4, <2>1, <2>2, NothingUnderWay
<1>13. \A j : HasExecuted(j)' = HasExecuted(j)
  <2>1. \A k \in DOMAIN executed :
          previews'[executed[k].preview].intent = previews[executed[k].preview].intent
    BY <1>9 DEF IInv, MessageInv
  <2> QED
    BY <1>2, <2>1 DEF HasExecuted
<1>14. \A j : PreviewsOf(j)' = IF j = i THEN PreviewsOf(j) \cup {n} ELSE PreviewsOf(j)
  BY <1>6, <1>7, <1>9 DEF PreviewsOf
<1>15. \A q, s : NeverRuns(q, s)' = NeverRuns(q, s)
  BY <1>2 DEF NeverRuns, Expired
<1>16. TypeOK'
  BY <1>2, <1>9, <1>10, <1>11 DEF IInv, TypeOK
<1>17. \A d \in Callers : call'[d].at \in Working =>
         /\ call'[d] = call[d] /\ call[d].intent # i /\ call[d].intent \in DOMAIN intents
         /\ intents'[call[d].intent] = intents[call[d].intent]
  BY <1>3, <1>10, <1>11 DEF IInv, WorkInv, Works, Working
<1>18. WorkInv'
  <2>1. \A d \in Callers : \A j : Works(d, j)' => Works(d, j)
    BY <1>17 DEF Works
  <2> QED
    BY <1>2, <1>10, <1>17, <2>1 DEF IInv, WorkInv, Mine
<1>19. EncodeInv'
  BY <1>3, <1>10, <1>11 DEF IInv, EncodeInv, Mine, Encodes
<1>20. IntentInv'
  <2>1. \A j \in DOMAIN intents : intents'[j].attempts = 0 => ~intents'[j].hadUnknown
    BY <1>8, <1>10 DEF IInv, IntentInv
  <2>2. \A j \in DOMAIN intents : intents'[j].state = "preparing" =>
          PreviewsOf(j)' = {} /\ ~intents'[j].hadUnknown /\ ~intents'[j].busy
    BY <1>3, <1>8, <1>10, <1>14 DEF IInv, IntentInv
  <2>3. \A j \in DOMAIN intents : intents'[j].state # "preparing" =>
          intents'[j].preview \in PreviewsOf(j)'
          /\ ~previews'[intents'[j].preview].superseded
    <3> SUFFICES ASSUME NEW j \in DOMAIN intents, intents'[j].state # "preparing"
                 PROVE  intents'[j].preview \in PreviewsOf(j)'
                        /\ ~previews'[intents'[j].preview].superseded
      OBVIOUS
    <3>1. CASE j = i
      <4>1. intents'[j].preview = n
        BY <1>8, <1>10, <3>1
      <4> QED
        BY <1>7, <1>9, <1>14, <3>1, <4>1
    <3>2. CASE j # i
      <4>1. intents[j].preview \in PreviewsOf(j) /\ ~previews[intents[j].preview].superseded
        BY <1>10, <3>2 DEF IInv, IntentInv
      <4>2. intents[j].preview \in DOMAIN previews /\ intents[j].preview # p
        BY <1>3, <3>2, <4>1 DEF PreviewsOf
      <4> QED
        BY <1>9, <1>10, <1>14, <3>2, <4>1, <4>2
    <3> QED
      BY <3>1, <3>2
  <2>4. \A j \in DOMAIN intents : intents'[j].state = "done" =>
          \E k \in DOMAIN executed : executed[k].preview = intents'[j].preview
    BY <1>3, <1>8, <1>10 DEF IInv, IntentInv
  <2> QED
    BY <1>2, <1>10, <2>1, <2>2, <2>3, <2>4, ZenonT(30) DEF IntentInv
<1>21. PreviewInv'
  <2> SUFFICES ASSUME NEW q \in DOMAIN previews'
               PROVE  /\ previews'[q].intent \in DOMAIN intents
                      /\ previews'[q].superseded \/ q = intents'[previews'[q].intent].preview
                      /\ previews'[q].superseded => NeverRuns(q, previews'[q].stamp)
    BY <1>10, <1>15 DEF PreviewInv
  <2>1. CASE q = n
    BY <1>3, <1>7, <1>8, <1>9, <1>10, <2>1
  <2>2. CASE q = p
    <3>1. NeverRuns(q, previews[q].stamp)
      BY <1>3, <1>12, <2>2 DEF PreviewsOf
    <3> QED
      BY <1>3, <1>9, <2>2, <3>1
  <2>3. CASE q # n /\ q # p
    <3>1. /\ q \in DOMAIN previews /\ previews[q].intent \in DOMAIN intents
          /\ previews[q].superseded \/ q = intents[previews[q].intent].preview
          /\ previews[q].superseded => NeverRuns(q, previews[q].stamp)
      BY <1>9, <2>3 DEF IInv, PreviewInv
    <3> QED
      BY <1>3, <1>9, <1>10, <2>3, <3>1, ZenonT(30)
  <2> QED
    BY <2>1, <2>2, <2>3
<1>22. SettledNeverRuns'
  <2>1. \A j \in DOMAIN intents : intents'[j].state = "settled" =>
          j # i /\ intents[j].state = "settled"
    BY <1>3, <1>8, <1>10
  <2>2. \A j : \A q \in PreviewsOf(j) : previews'[q].stamp = previews[q].stamp
    BY <1>9 DEF PreviewsOf
  <2>3. \A j \in DOMAIN intents : j # i => PreviewsOf(j)' = PreviewsOf(j)
    BY <1>14
  <2> QED
    BY <1>10, <1>15, <2>1, <2>2, <2>3 DEF IInv, SettledNeverRuns
<1>23. StampInv'
  <2>1. \A d \in Callers : InHand(d)' => d # c /\ call'[d] = call[d] /\ InHand(d)
    BY <1>11 DEF InHand
  <2>2. InHand(c)
    BY <1>2 DEF InHand
  <2>3. \A q \in DOMAIN previews : q # n /\ previews'[q].stamp = previews[q].stamp
    BY <1>6, <1>9
  <2>4. previews'[n].stamp = call[c].stamp
    BY <1>7, <1>9
  <2>5. CASE stamped
    <3>1. /\ \A q \in DOMAIN previews :
               previews[q].stamp \in taken /\ previews[q].stamp # call[c].stamp
          /\ \A q, o \in DOMAIN previews : previews[q].stamp = previews[o].stamp => q = o
          /\ call[c].stamp \in taken
      BY <2>2, <2>5 DEF IInv, StampInv
    <3>2. \A q, o \in DOMAIN previews' :
            /\ previews'[q].stamp \in taken
            /\ previews'[q].stamp = previews'[o].stamp => q = o
      BY <1>9, <2>3, <2>4, <3>1
    <3>3. \A d \in Callers : InHand(d) =>
            /\ call[d].stamp \in taken
            /\ \A q \in DOMAIN previews : previews[q].stamp # call[d].stamp
            /\ \A e \in Callers : InHand(e) /\ call[e].stamp = call[d].stamp => e = d
      BY <2>5 DEF IInv, StampInv
    <3>4. \A d \in Callers : InHand(d)' =>
            /\ call'[d].stamp \in taken
            /\ \A q \in DOMAIN previews' : previews'[q].stamp # call'[d].stamp
            /\ \A e \in Callers : InHand(e)' /\ call'[e].stamp = call'[d].stamp => e = d
      BY <1>9, <2>1, <2>2, <2>3, <2>4, <3>3
    <3> QED
      BY <1>2, <2>5, <3>2, <3>4 DEF StampInv
  <2>6. CASE ~stamped
    BY <1>2, <1>9, <2>1, <2>2, <2>3, <2>4, <2>6 DEF IInv, StampInv
  <2> QED
    BY <2>5, <2>6
<1>24. MessageInv'
  BY <1>2, <1>9, ZenonT(30) DEF IInv, MessageInv
<1>25. SendInv'
  BY <1>2, <1>11 DEF IInv, SendInv
<1>26. \A m \in inflight : previews'[m.preview].intent = previews[m.preview].intent
                           /\ previews[m.preview].intent # i
  BY <1>9, <1>12 DEF IInv, MessageInv
<1>27. KnownInv'
  <2> SUFFICES ASSUME NEW j \in DOMAIN intents, ~intents'[j].hadUnknown
               PROVE  /\ \A m \in inflight : previews'[m.preview].intent = j =>
                            \E d \in Callers : call'[d].at = "sending"
                               /\ call'[d].intent = j /\ call'[d].send = m.send
                      /\ HasExecuted(j)' => intents'[j].state = "done"
                                           \/ \E d \in Callers : Tells(d, j)'
    BY <1>2, <1>10 DEF KnownInv
  <2>1. CASE j = i
    BY <1>12, <1>13, <1>26, <2>1
  <2>2. CASE j # i
    <3>1. /\ \A m \in inflight : previews[m.preview].intent = j =>
               \E d \in Callers : call[d].at = "sending"
                 /\ call[d].intent = j /\ call[d].send = m.send
          /\ HasExecuted(j) => intents[j].state = "done" \/ \E d \in Callers : Tells(d, j)
      BY <1>10, <2>2 DEF IInv, KnownInv
    <3>2. \A d \in Callers : call[d].at = "sending" => call'[d] = call[d]
      BY <1>2, <1>11
    <3>3. \A d \in Callers : Tells(d, j) => Tells(d, j)'
      BY <3>2 DEF Tells
    <3> QED
      BY <1>10, <1>13, <1>26, <2>2, <3>1, <3>2, <3>3
  <2> QED
    BY <2>1, <2>2
<1>28. UnstampedInv'
  <2>1. ~stamped => \A j \in DOMAIN intents :
          intents'[j].hadUnknown => intents'[j].state = "reconcile"
    BY <1>8, <1>10 DEF IInv, UnstampedInv
  <2>2. ~stamped => \A j \in DOMAIN intents :
          \A m \in inflight : previews'[m.preview].intent = j =>
            /\ ~HasExecuted(j)'
            /\ \A o \in inflight : previews'[o.preview].intent = j => m = o
    BY <1>13, <1>26 DEF IInv, UnstampedInv
  <2>3. inflight' = inflight /\ DOMAIN intents' = DOMAIN intents
    BY <1>2, <1>10
  <2> QED
    BY <2>1, <2>2, <2>3 DEF UnstampedInv
<1>29. HonestAnswers'
  BY <1>2, <1>12, <1>13 DEF HonestAnswers
<1> QED
  BY <1>16, <1>18, <1>19, <1>20, <1>21, <1>22, <1>23, <1>24, <1>25, <1>27, <1>28, <1>29
     DEF IInv

-----------------------------------------------------------------------------
\* A caller that was woken waits: nothing but its own second look moves it first.
WokenInv == \A c \in woken : call[c].at = "waiting"

LEMMA InitHolds == Init => IInv /\ WokenInv
<1> SUFFICES ASSUME Init PROVE IInv /\ WokenInv
  OBVIOUS
<1>1. /\ intents = << >> /\ previews = << >> /\ executed = << >> /\ inflight = {}
      /\ taken = {} /\ sent = {} /\ sends = 0 /\ entry = 0 /\ woken = {}
      /\ call = [c \in Callers |-> Idle] /\ told = Silent /\ clock = Window + 4
      /\ stamped \in BOOLEAN
  BY ToolLayerAssumption DEF Init, LedgerInit, Start
<1>2. \A c \in Callers : call[c] = Idle /\ call[c].at = "idle"
  BY <1>1, IdleType
<1>3. TypeOK
  <2>1. IsBounded({})
    BY DEF IsBounded
  <2>2. call \in [Callers -> Calls]
    BY <1>1, IdleType
  <2>3. << >> \in Seq(Intents) /\ << >> \in Seq(Previews)
        /\ << >> \in Seq([preview : Nat, stamp : Stamps])
    OBVIOUS
  <2> QED
    BY <1>1, <2>1, <2>2, <2>3, WindowAssumption DEF TypeOK
<1>4. WorkInv /\ EncodeInv
  BY <1>2 DEF WorkInv, EncodeInv, Working
<1>5. IntentInv /\ PreviewInv /\ KnownInv /\ UnstampedInv /\ SettledNeverRuns
  BY <1>1 DEF IntentInv, PreviewInv, KnownInv, UnstampedInv, SettledNeverRuns
<1>6. StampInv
  BY <1>1, <1>2 DEF StampInv, InHand
<1>7. MessageInv /\ SendInv
  BY <1>1, <1>2 DEF MessageInv, SendInv
<1>8. HonestAnswers
  BY <1>1 DEF HonestAnswers, Silent
<1>9. WokenInv
  BY <1>1 DEF WokenInv
<1> QED
  BY <1>3, <1>4, <1>5, <1>6, <1>7, <1>8, <1>9 DEF IInv

LEMMA WokenKeeps == IInv /\ WokenInv /\ [Next]_vars => WokenInv'
<1> SUFFICES ASSUME IInv, WokenInv, [Next]_vars PROVE WokenInv'
  OBVIOUS
<1>1. call \in [Callers -> Calls] /\ woken \subseteq Callers
  BY DEF IInv, TypeOK
<1>2. CASE woken' = {}
  BY <1>2 DEF WokenInv
<1>3. CASE \E c \in woken : woken' = woken \ {c} /\ \E r : call' = [call EXCEPT ![c] = r]
  BY <1>1, <1>3 DEF WokenInv
<1>4. CASE \E c \in Callers : \E i :
             /\ call[c].at = "encoding" /\ woken' = WaitingOn(i)
             /\ call' = [call EXCEPT ![c] = Idle]
  BY <1>1, <1>4 DEF WokenInv, WaitingOn
<1>5. CASE UNCHANGED vars
  BY <1>5 DEF vars, WokenInv
<1>6. ASSUME NEW c \in Callers, Resumes(c)
      PROVE  \/ woken' = {}
             \/ c \in woken /\ woken' = woken \ {c} /\ \E r : call' = [call EXCEPT ![c] = r]
             \/ \E i : /\ call[c].at = "encoding" /\ woken' = WaitingOn(i)
                       /\ call' = [call EXCEPT ![c] = Idle]
  <2>1. CASE LookAgain(c)
    BY <2>1 DEF LookAgain, Repeats, Register, Answers, Awaits
  <2>2. CASE Prepared(c) \/ NotPrepared(c)
    BY <2>2 DEF Prepared, NotPrepared, At, Answers
  <2>3. CASE \/ Look(c) \/ Decline(c) \/ ConfirmThrows(c) \/ Approve(c) \/ NoAnswer(c)
             \/ NotExecuted(c) \/ Trapped(c) \/ Succeeded(c)
    BY <2>3 DEF Look, Decline, ConfirmThrows, Approve, NoAnswer, NotExecuted, Trapped,
                Succeeded, Replied, At, Turn, LayerElse
  <2>4. CASE \/ Reconcile(c) \/ Fails(c) \/ RetrySame(c) \/ RetryNew(c) \/ Restamp(c)
             \/ NotRestamped(c) \/ Restamped(c) \/ RestampFails(c) \/ ReadBack(c)
    BY <2>4 DEF Reconcile, Fails, RetrySame, RetryNew, Restamp, NotRestamped, Restamped,
                RestampFails, ReadBack, Replied, At, Turn, LayerElse
  <2> QED
    BY <1>6, <2>1, <2>2, <2>3, <2>4 DEF Resumes
<1>7. ASSUME \/ \E c \in Callers : Begins(c)
             \/ Pass \/ \E message \in inflight : Arrive(message) \/ Lose(message)
      PROVE  woken' = {}
  BY <1>7 DEF Begins, Prepare, CommitAnswered, Commit, Pass, Arrive, Lose, At, Turn
<1> QED
  BY <1>2, <1>3, <1>4, <1>5, <1>6, <1>7 DEF Next

LEMMA StepKeeps == IInv /\ WokenInv /\ [Next]_vars => IInv'
<1> SUFFICES ASSUME IInv, WokenInv, [Next]_vars PROVE IInv'
  OBVIOUS
<1>1. CASE UNCHANGED vars
  <2>1. UNCHANGED <<stamped, clock, executed, inflight, intents, entry, previews>>
        /\ UNCHANGED <<taken, sent, sends, call, woken, told>>
    BY <1>1 DEF vars, layer, ledger
  <2>2. TypeOK' /\ WorkInv' /\ EncodeInv'
    BY <2>1 DEF IInv, TypeOK, WorkInv, EncodeInv, Mine, Works, Encodes
  <2>3. StampInv' /\ SendInv'
    BY <2>1 DEF IInv, StampInv, SendInv, InHand
  <2>4. KnownInv' /\ HonestAnswers'
    BY <2>1, Untouched DEF IInv, KnownInv, HonestAnswers, Tells
  <2> QED
    BY <2>1, <2>2, <2>3, <2>4, Untouched DEF IInv
<1>2. CASE Next
  <2> USE DEF Next, Resumes, Begins
  <2>1. UNCHANGED stamped
    BY <1>2
  <2>2. ASSUME NEW c \in Callers, Look(c) \/ LookAgain(c) PROVE IInv'
    <3>1. call[c].at \in Outside
      BY <2>2 DEF Look, LookAgain, At, WokenInv, Outside
    <3> QED
      BY <2>1, <2>2, <3>1, LookKeeps
  <2>3. ASSUME NEW c \in Callers,
               Prepared(c) \/ NotPrepared(c) \/ Decline(c) \/ ConfirmThrows(c) \/ Approve(c)
        PROVE  IInv'
    BY <2>1, <2>3, PreparedKeeps, NotPreparedKeeps, DeclineKeeps, ConfirmThrowsKeeps,
       ApproveKeeps
  <2>4. ASSUME NEW c \in Callers,
               \/ NoAnswer(c) \/ NotExecuted(c) \/ Trapped(c) \/ Succeeded(c) \/ Reconcile(c)
               \/ Fails(c) \/ RetrySame(c)
        PROVE  IInv'
    BY <2>1, <2>4, NoAnswerKeeps, NotExecutedKeeps, TrappedKeeps, SucceededKeeps,
       ReconcileKeeps, FailsKeeps, RetrySameKeeps
  <2>5. ASSUME NEW c \in Callers,
               \/ RetryNew(c) \/ Restamp(c) \/ NotRestamped(c) \/ Restamped(c)
               \/ RestampFails(c) \/ ReadBack(c)
        PROVE  IInv'
    BY <2>1, <2>5, RetryKeeps, NotRestampedKeeps, RestampedKeeps, RestampFailsKeeps,
       ReadBackKeeps
  <2>6. ASSUME NEW c \in Callers, Begins(c) PROVE IInv'
    BY <2>1, <2>6, PrepareKeeps, CommitAnsweredKeeps, CommitKeeps
  <2>7. ASSUME \/ Pass \/ \E message \in inflight : Arrive(message) \/ Lose(message)
        PROVE  IInv'
    BY <2>1, <2>7, ArriveKeeps, WaitKeeps
  <2> QED
    BY <1>2, <2>2, <2>3, <2>4, <2>5, <2>6, <2>7
<1> QED
  BY <1>1, <1>2

LEMMA Invariance == Spec => [](IInv /\ WokenInv)
<1> QED
  BY InitHolds, StepKeeps, WokenKeeps, PTL DEF Spec

\* A settled intent, which may be prepared again with a new stamp, has not run and
\* never will: a late message, a resend or a clock reading cannot make it.
THEOREM SettledIsOver == Spec => []SettledNeverRuns
<1>1. IInv => SettledNeverRuns
  BY DEF IInv
<1> QED
  BY <1>1, Invariance, PTL

\* What the agent is told of a call is true of the canister: "success" and "already_done"
\* of calls that ran, "declined", "fail", "fix_input" and "retry_new" of calls that did not.
THEOREM AnswersAreHonest == Spec => []HonestAnswers
<1>1. IInv => HonestAnswers
  BY DEF IInv
<1> QED
  BY <1>1, Invariance, PTL

-----------------------------------------------------------------------------
\* One intent is live.

\* What only works on intents that are live already keeps the invariant.
LEMMA LiveLess ==
    ASSUME IInv, LiveInv, UNCHANGED entry, DOMAIN intents' = DOMAIN intents, woken' = {},
           \A j \in DOMAIN intents :
              intents'[j].state \in Unsettled => intents[j].state \in Unsettled,
           \A c \in Callers : call'[c].at = "encoding" => call'[c] = call[c]
    PROVE  LiveInv'
<1>1. \A c \in Callers : \A j : Encodes(c, j)' => Encodes(c, j)
  BY DEF Encodes
<1>2. \A j \in DOMAIN intents : Live(j)' => Live(j)
  BY <1>1 DEF Live
<1> QED
  BY <1>2 DEF LiveInv

\* The new intent is the only live one.
LEMMA LiveRegister ==
    ASSUME IInv, LiveInv, NEW c \in Callers, Register(c), call[c].at \in Outside,
           \A i \in DOMAIN intents : ~Live(i), woken' = {}
    PROVE  LiveInv'
<1>1. PICK n : n = Len(intents) + 1
  OBVIOUS
<1>2. /\ intents' = Append(intents, NewIntent) /\ entry' = n
      /\ \E s : call' = [call EXCEPT ![c] = [call[c] EXCEPT !.at = "encoding", !.intent = n,
                                                            !.previous = entry, !.stamp = s]]
  BY <1>1 DEF Register, Awaits
<1>3. intents \in Seq(Intents) /\ call \in [Callers -> Calls] /\ call[c] \in Calls
  BY DEF IInv, TypeOK
<1>4. NewIntent \in Intents /\ NewIntent.state = "preparing"
  BY DEF NewIntent, Intents, States
<1>5. /\ DOMAIN intents' = DOMAIN intents \cup {n} /\ intents'[n] = NewIntent
      /\ \A i \in DOMAIN intents : intents'[i] = intents[i]
  BY <1>1, <1>2, <1>3, <1>4
<1>6. /\ call'[c].previous = entry /\ call'[c].intent = n
      /\ \A d \in Callers : d # c => call'[d] = call[d]
  BY <1>2, <1>3 DEF Calls
<1>7. \A i \in DOMAIN intents : ~Live(i)'
  <2>1. \A i \in DOMAIN intents : n # i
    BY <1>1, <1>3
  <2>2. \A i \in DOMAIN intents, d \in Callers : Encodes(d, i)' => Encodes(d, i)
    BY <1>6, <2>1 DEF Encodes
  <2> QED
    BY <1>5, <2>2 DEF Live
<1>8. \A d \in Callers : call'[d].at = "encoding" =>
         call'[d].previous \in DOMAIN intents' \cup {0}
  BY <1>5, <1>6 DEF LiveInv
<1> QED
  BY <1>2, <1>5, <1>7, <1>8 DEF LiveInv

LEMMA LiveLook ==
    ASSUME IInv, WokenInv, LiveInv, NEW c \in Callers, Look(c) \/ LookAgain(c)
    PROVE  LiveInv'
<1>1. call[c].at \in Outside
  BY DEF Look, LookAgain, At, WokenInv, Outside
<1>2. \A d \in Callers : call[d].at = "encoding" =>
        call[d].intent \in DOMAIN intents /\ intents[call[d].intent].state = "preparing"
  BY DEF IInv, EncodeInv, Mine
<1>3. call \in [Callers -> Calls] /\ 0 \notin DOMAIN intents
  BY DEF IInv, TypeOK
<1>4. CASE Look(c)
  <2>1. woken = {} /\ woken' = {}
    BY <1>4 DEF Look, At, Turn
  <2>2. CASE /\ Register(c)
             /\ entry = 0 \/ (intents[entry].state \notin Unsettled /\ ~Pending(entry))
    <3>1. \A i \in DOMAIN intents : ~Live(i)
      BY <1>3, <2>2 DEF LiveInv, Live, Encodes, Pending
    <3> QED
      BY <1>1, <2>1, <2>2, <3>1, LiveRegister
  <2>3. CASE \E r : r.at # "encoding" /\ call' = [call EXCEPT ![c] = r] /\ UNCHANGED layer
    <3>1. \A d \in Callers : call'[d].at = "encoding" => call'[d] = call[d]
      BY <1>3, <2>3
    <3>2. UNCHANGED <<intents, entry>>
      BY <2>3 DEF layer
    <3> QED
      BY <2>1, <3>1, <3>2, LiveLess
  <2>4. Idle.at # "encoding" /\ [call[c] EXCEPT !.at = "waiting", !.intent = entry].at # "encoding"
    <3>1. call[c] \in Calls
      BY <1>3
    <3> QED
      BY <3>1, IdleType DEF Calls
  <2>5. entry # 0 /\ Pending(entry) => intents[entry].state = "preparing"
    BY <1>2 DEF Pending
  <2>6. CASE entry = 0 \/ (intents[entry].state \notin Unsettled /\ ~Pending(entry))
    <3>1. Register(c)
      BY <1>4, <2>6 DEF Look
    <3> QED
      BY <2>2, <2>6, <3>1
  <2>7. CASE entry # 0 /\ (intents[entry].state \in Unsettled \/ Pending(entry))
    <3>1. \/ Repeats(c)
          \/ Awaits(c, [call[c] EXCEPT !.at = "waiting", !.intent = entry]) /\ UNCHANGED layer
      BY <1>4, <2>5, <2>7 DEF Look, Awaited
    <3> QED
      BY <2>3, <2>4, <3>1 DEF Repeats, Answers, Awaits
  <2> QED
    BY <2>6, <2>7
<1>5. CASE LookAgain(c)
  <2>1. c \in woken /\ woken' = woken \ {c}
    BY <1>5 DEF LookAgain
  <2>2. CASE entry # 0 /\ intents[entry].state \in Unsettled
    <3>1. Repeats(c)
      BY <1>5, <2>2 DEF LookAgain, Unprepared, Unsettled
    <3>2. call' = [call EXCEPT ![c] = Idle] /\ UNCHANGED <<intents, entry>>
      BY <3>1 DEF Repeats, Answers, layer
    <3>3. \A d \in Callers : \A j : Encodes(d, j)' => Encodes(d, j)
      BY <1>3, <3>2, IdleType DEF Encodes
    <3>4. \A j : Live(j)' => Live(j)
      BY <3>2, <3>3 DEF Live
    <3>5. \A d \in Callers : call'[d].at = "encoding" =>
            call'[d].previous \in DOMAIN intents \cup {0}
      BY <1>3, <3>2, IdleType DEF LiveInv
    <3> QED
      BY <2>2, <3>2, <3>4, <3>5 DEF LiveInv
  <2>3. CASE ~(entry # 0 /\ intents[entry].state \in Unsettled)
    <3>1. (\A i \in DOMAIN intents : ~Live(i)) /\ woken' = {}
      BY <2>1, <2>3 DEF LiveInv
    <3>2. Register(c)
      <4>1. entry # 0 => intents[entry] \in Intents
        BY DEF IInv, TypeOK, LiveInv
      <4>2. entry # 0 => Unprepared(intents[entry].state)
        BY <2>3, <4>1 DEF Unprepared, Unsettled, Intents, States
      <4> QED
        BY <1>5, <4>2 DEF LookAgain
    <3> QED
      BY <1>1, <3>1, <3>2, LiveRegister
  <2> QED
    BY <2>2, <2>3
<1> QED
  BY <1>4, <1>5

\* A preparation ended: its intent stays the live one, or none is left.
LEMMA LivePrepared ==
    ASSUME IInv, WokenInv, LiveInv, Undisturbed, NEW c \in Callers,
           Prepared(c) \/ NotPrepared(c)
    PROVE  LiveInv'
<1>1. PICK i : i = call[c].intent
  OBVIOUS
<1>2. /\ call[c].at = "encoding" /\ call' = [call EXCEPT ![c] = Idle]
      /\ woken' = WaitingOn(i) /\ call \in [Callers -> Calls]
  BY <1>1 DEF Prepared, NotPrepared, At, Answers, IInv, TypeOK
<1>3. /\ i \in DOMAIN intents /\ intents[i].state = "preparing" /\ entry = i
      /\ \A d \in Callers : Encodes(d, i) => d = c
  BY <1>1, <1>2 DEF IInv, EncodeInv, Mine, LiveInv, Live, Encodes
<1>4. /\ \A d \in Callers : call'[d].at = "encoding" => call'[d] = call[d] /\ d # c
      /\ \A d \in Callers : \A j : Encodes(d, j)' => Encodes(d, j) /\ d # c
  <2>1. \A d \in Callers : call'[d].at = "encoding" => call'[d] = call[d] /\ d # c
    BY <1>2, IdleType
  <2> QED
    BY <2>1 DEF Encodes
<1>5. \A d \in Callers : ~Encodes(d, i)'
  BY <1>3, <1>4
<1>6. CASE Prepared(c)
  <2>1. /\ intents' = [intents EXCEPT ![i] = [Mine(c) EXCEPT !.preview = Len(previews) + 1,
                                                             !.state = "prepared"]]
        /\ entry' = entry
    BY <1>1, <1>6 DEF Prepared, Becomes
  <2>2. Mine(c) \in Intents
    BY <1>1, <1>3 DEF IInv, TypeOK, Mine
  <2>3. /\ DOMAIN intents' = DOMAIN intents /\ intents'[i].state = "prepared"
        /\ \A j \in DOMAIN intents : j # i => intents'[j] = intents[j]
    BY <1>3, <2>1, <2>2 DEF Intents
  <2>4. \A j \in DOMAIN intents : Live(j)' => j = i
    BY <1>3, <1>4, <2>3 DEF Live, LiveInv
  <2>5. entry' # 0 /\ intents'[entry'].state \in Unsettled
    BY <1>3, <2>1, <2>3 DEF Unsettled, IInv, TypeOK
  <2> QED
    BY <1>3, <1>4, <2>1, <2>3, <2>4, <2>5 DEF LiveInv
<1>7. CASE NotPrepared(c)
  <2>1. HostMayFail /\ entry' = call[c].previous /\ UNCHANGED intents
    BY <1>7 DEF NotPrepared
  <2>2. \A j \in DOMAIN intents : ~Live(j)'
    <3>1. ~Live(i)'
      BY <1>3, <1>5, <2>1 DEF Live, Unsettled
    <3>2. \A j \in DOMAIN intents : Live(j)' => Live(j)
      BY <1>4, <2>1 DEF Live
    <3> QED
      BY <1>3, <3>1, <3>2 DEF LiveInv
  <2>3. \A d, e \in woken' : d = e
    <3>1. \A d \in woken' : d \in Callers /\ d # c
      BY <1>2 DEF WaitingOn
    <3> QED
      BY <2>1, <3>1 DEF Undisturbed
  <2>4. entry' \in DOMAIN intents \cup {0}
    BY <1>2, <2>1 DEF LiveInv
  <2> QED
    BY <1>4, <2>1, <2>2, <2>3, <2>4 DEF LiveInv
<1> QED
  BY <1>6, <1>7

\* A step of the caller at work on an intent, or one that takes it up: it was live.
LEMMA LiveWork ==
    ASSUME IInv, LiveInv, NEW i \in DOMAIN intents, intents[i].state \in Unsettled,
           NEW new, intents' = [intents EXCEPT ![i] = new], entry' = entry, woken' = {},
           NEW c \in Callers, NEW r, r.at # "encoding", call' = [call EXCEPT ![c] = r]
    PROVE  LiveInv'
<1>1. intents \in Seq(Intents) /\ call \in [Callers -> Calls]
  BY DEF IInv, TypeOK
<1>2. /\ DOMAIN intents' = DOMAIN intents
      /\ \A j \in DOMAIN intents : j # i => intents'[j] = intents[j]
  BY <1>1
<1>3. \A d \in Callers : call'[d].at = "encoding" => call'[d] = call[d]
  BY <1>1
<1> QED
  BY <1>2, <1>3, LiveLess

LEMMA LiveCommits ==
    ASSUME IInv, WokenInv, LiveInv, NEW c \in Callers,
           \/ Decline(c) \/ ConfirmThrows(c) \/ Approve(c)
           \/ NoAnswer(c) \/ NotExecuted(c) \/ Trapped(c) \/ Succeeded(c) \/ Reconcile(c)
           \/ Fails(c) \/ RetrySame(c) \/ NotRestamped(c) \/ Restamped(c)
           \/ RestampFails(c) \/ ReadBack(c)
    PROVE  LiveInv'
<1>1. call[c].at \in Working /\ entry' = entry /\ woken' = {}
  BY DEF Decline, ConfirmThrows, Approve, NoAnswer, NotExecuted, Trapped, Succeeded, Reconcile,
         Fails, RetrySame, NotRestamped, Restamped, RestampFails, ReadBack, Replied, At, Turn,
         LayerElse, Working
<1>2. PICK i : i = call[c].intent
  OBVIOUS
<1>3. i \in DOMAIN intents /\ intents[i].state \in Unsettled
  BY <1>1, <1>2, AtWork DEF Mine, Unsettled
<1>4. \A new, outcome : Ends(c, new, outcome) =>
        (\E n : intents' = [intents EXCEPT ![i] = n])
        /\ \E r : r.at # "encoding" /\ call' = [call EXCEPT ![c] = r]
  BY <1>2, IdleType DEF Ends, Becomes, Answers
<1>5. \A new : Holds(c, new) =>
        (\E n : intents' = [intents EXCEPT ![i] = n])
        /\ \E r : r.at # "encoding" /\ call' = [call EXCEPT ![c] = r]
  <2>1. \A p : [Idle EXCEPT !.at = "reconciling", !.intent = i, !.preview = p].at # "encoding"
    BY DEF Idle
  <2> QED
    BY <1>2, <2>1, IdleType DEF Holds, HoldsFor, Becomes, Answers, Awaits
<1>6. (\E n : intents' = [intents EXCEPT ![i] = n])
      /\ \E r : r.at # "encoding" /\ call' = [call EXCEPT ![c] = r]
  <2>1. CASE ConfirmThrows(c)
    BY <1>2, <2>1, IdleType DEF ConfirmThrows, Becomes, Answers
  <2>2. CASE Approve(c)
    <3>1. call[c] \in Calls
      BY DEF IInv, TypeOK
    <3>2. [call[c] EXCEPT !.at = "sending", !.send = sends + 1].at # "encoding"
      BY <3>1 DEF Calls
    <3> QED
      BY <1>2, <2>2, <3>2 DEF Approve, Becomes, Awaits
  <2>3. CASE \/ Decline(c) \/ NotExecuted(c) \/ Succeeded(c) \/ Fails(c) \/ NotRestamped(c)
             \/ Restamped(c) \/ RestampFails(c) \/ ReadBack(c)
    BY <1>4, <2>3 DEF Decline, NotExecuted, Succeeded, Fails, NotRestamped, Restamped,
                      RestampFails, ReadBack
  <2>4. CASE NoAnswer(c) \/ Trapped(c) \/ Reconcile(c) \/ RetrySame(c)
    BY <1>4, <1>5, <2>4 DEF NoAnswer, Trapped, Reconcile, RetrySame, SpentRetries
  <2> QED
    BY <2>1, <2>2, <2>3, <2>4
<1> QED
  BY <1>1, <1>3, <1>6, LiveWork

LEMMA LiveCommit ==
    ASSUME IInv, WokenInv, LiveInv, NEW c \in Callers, NEW p \in DOMAIN previews, Commit(c, p)
    PROVE  LiveInv'
<1>1. PICK i : i = previews[p].intent
  OBVIOUS
<1>2. i \in DOMAIN intents /\ intents[i] \in Intents /\ woken' = {} /\ entry' = entry
  BY <1>1 DEF IInv, TypeOK, PreviewInv, Commit, At, Turn
<1>3. intents[i].state \in Unsettled
  <2>1. intents[i].state \notin {"done", "settled"}
    BY <1>1 DEF Commit, Spurned
  <2>2. intents[i].state # "preparing"
    BY <1>1, <1>2 DEF IInv, IntentInv, PreviewsOf
  <2> QED
    BY <1>2, <2>1, <2>2 DEF Intents, States, Unsettled
<1>4. (\E n : intents' = [intents EXCEPT ![i] = n])
      /\ \E r : r.at # "encoding" /\ call' = [call EXCEPT ![c] = r]
  <2>1. \A q : /\ [Idle EXCEPT !.at = "reconciling", !.intent = i, !.preview = q].at # "encoding"
               /\ [Idle EXCEPT !.at = "confirming", !.intent = i, !.preview = q].at # "encoding"
    BY DEF Idle
  <2> QED
    BY <1>1, <2>1, IdleType, ZenonT(30) DEF Commit, HoldsFor, Becomes, Answers, Awaits
<1> QED
  BY <1>2, <1>3, <1>4, LiveWork

\* The rest changes no intent.
LEMMA LiveElse ==
    ASSUME IInv, WokenInv, LiveInv,
           \/ \E c \in Callers : \/ RetryNew(c) \/ Restamp(c) \/ Prepare(c)
                                 \/ \E p \in DOMAIN previews : CommitAnswered(c, p)
           \/ Pass \/ \E message \in inflight : Arrive(message) \/ Lose(message)
    PROVE  LiveInv'
<1>1. UNCHANGED <<intents, entry>> /\ woken' = {}
  BY DEF RetryNew, Restamp, Prepare, CommitAnswered, Pass, Arrive, Lose, layer, Replied, At, Turn
<1>2. call \in [Callers -> Calls]
  BY DEF IInv, TypeOK
<1>3. \A d \in Callers : call'[d].at = "encoding" => call'[d] = call[d]
  <2>1. CASE \E c \in Callers : \E r : r.at # "encoding" /\ call' = [call EXCEPT ![c] = r]
    BY <1>2, <2>1
  <2>2. ASSUME NEW c \in Callers,
               \/ RetryNew(c) \/ Restamp(c) \/ Prepare(c)
               \/ \E p \in DOMAIN previews : CommitAnswered(c, p)
        PROVE  \E r : r.at # "encoding" /\ call' = [call EXCEPT ![c] = r]
    <3>1. \A s : /\ [call[c] EXCEPT !.at = "restamping"].at = "restamping"
                 /\ [call[c] EXCEPT !.at = "reencoding", !.stamp = s].at = "reencoding"
                 /\ [Idle EXCEPT !.at = "clocked", !.clock = s].at = "clocked"
      BY <1>2, IdleType DEF Calls
    <3> QED
      BY <2>2, <3>1, IdleType DEF RetryNew, Restamp, Prepare, CommitAnswered, Awaits, Answers
  <2>3. CASE \E message \in inflight : Arrive(message)
    <3>1. PICK message \in inflight : Arrive(message)
      BY <2>3
    <3>2. \A d \in Callers : call[d].at # "sending" => call'[d] = call[d]
      BY <3>1 DEF Arrive
    <3>3. \A d \in Callers : call[d].at = "sending" => call'[d].at = "sending"
      <4>1. PICK outcome : call' = [c \in Callers |->
               IF call[c].at = "sending" /\ call[c].send = message.send
               THEN [call[c] EXCEPT !.reply = outcome.reply, !.clock = clock] ELSE call[c]]
        BY <3>1 DEF Arrive
      <4> QED
        BY <1>2, <4>1 DEF Calls
    <3> QED
      BY <3>2, <3>3
  <2>4. CASE Pass \/ \E message \in inflight : Lose(message)
    BY <2>4 DEF Pass, Lose
  <2> QED
    BY <2>1, <2>2, <2>3, <2>4
<1> QED
  BY <1>1, <1>3, LiveLess

LEMMA LiveKeeps ==
    ASSUME Undisturbed
    PROVE  IInv /\ WokenInv /\ LiveInv /\ [Next]_vars => LiveInv'
<1> SUFFICES ASSUME IInv, WokenInv, LiveInv, [Next]_vars PROVE LiveInv'
  OBVIOUS
<1>1. CASE UNCHANGED vars
  BY <1>1 DEF vars, layer, LiveInv, Live, Encodes
<1>2. CASE Next
  BY <1>2, LiveLook, LivePrepared, LiveCommits, LiveCommit, LiveElse DEF Next, Resumes, Begins
<1> QED
  BY <1>1, <1>2

LEMMA LiveInit == Init => LiveInv
BY IdleType DEF Init, LiveInv, Live

LEMMA LiveInvariance ==
    ASSUME Undisturbed
    PROVE  Spec => [](IInv /\ WokenInv /\ LiveInv)
BY InitHolds, StepKeeps, WokenKeeps, LiveInit, LiveKeeps, PTL DEF Spec

\* One identity, one stamp: however many calls prepare it at once, at most one intent of
\* it is prepared, unknown or held.
THEOREM OneIsLive == ASSUME Undisturbed PROVE Spec => []OneLiveIntent
<1>1. LiveInv => OneLiveIntent
  BY DEF LiveInv, Live, OneLiveIntent
<1> QED
  BY <1>1, LiveInvariance, PTL

\* A message runs only while nothing has run, or all that ran is known to be done: the
\* unknown intent is the live one, its message carries its one stamp, and what was sent
\* for any other is refused.
LEMMA RunsOnce ==
    ASSUME IInv, LiveInv, NEW message \in inflight, Arrive(message),
           Len(executed') > Len(executed), NEW k \in DOMAIN executed
    PROVE  intents[previews[executed[k].preview].intent].state = "done"
<1> DEFINE p == executed[k].preview
           i == previews[p].intent
           q == message.preview
           j == previews[q].intent
           late == message.stamp # NoStamp /\ Expired(message.stamp)
<1>1. PICK outcome \in Outcomes(message.stamp) : Arrives(message, outcome)
  BY DEF Arrive
<1>2. outcome.ran
  BY <1>1 DEF Arrives, IInv, TypeOK
<1>3. ~HasRun(message.stamp) /\ ~late
  BY <1>1, <1>2, OutcomeType
<1>4. /\ p \in DOMAIN previews /\ q \in DOMAIN previews
      /\ executed[k].stamp = previews[p].stamp /\ message.stamp = previews[q].stamp
      /\ i \in DOMAIN intents /\ j \in DOMAIN intents
      /\ intents[i] \in Intents /\ intents[j] \in Intents
      /\ p \in PreviewsOf(i) /\ q \in PreviewsOf(j)
  BY DEF IInv, TypeOK, MessageInv, PreviewInv, PreviewsOf
<1> HIDE DEF p, i, q, j
<1>5. ~NeverRuns(p, previews[p].stamp) /\ ~NeverRuns(q, previews[q].stamp)
  BY <1>3, <1>4 DEF NeverRuns, p, q
<1>6. intents[i].state \notin {"preparing", "settled"}
      /\ intents[j].state \notin {"preparing", "settled"}
  BY <1>4, <1>5 DEF IInv, IntentInv, SettledNeverRuns
<1>7. p = intents[i].preview /\ q = intents[j].preview
  BY <1>4, <1>5 DEF IInv, PreviewInv, i, j
<1>8. ASSUME stamped PROVE message.stamp # NoStamp
  <2>1. message.stamp \in taken
    BY <1>4, <1>8 DEF IInv, StampInv
  <2>2. taken \subseteq Int
    BY DEF IInv, TypeOK, IsBounded
  <2> QED
    BY <2>1, <2>2, WindowAssumption
<1>9. intents[j].state # "done"
  <2> SUFFICES ASSUME intents[j].state = "done" PROVE FALSE
    OBVIOUS
  <2>1. PICK l \in DOMAIN executed : executed[l].preview = q
    BY <1>4, <1>7 DEF IInv, IntentInv
  <2>2. executed[l].stamp = message.stamp
    BY <1>4, <2>1 DEF IInv, MessageInv
  <2>3. stamped
    BY <1>4, <2>1 DEF IInv, UnstampedInv, HasExecuted, j, q
  <2> QED
    BY <1>3, <1>8, <2>2, <2>3 DEF HasRun
<1>10. ASSUME intents[i].state # "done" PROVE FALSE
  <2>1. intents[i].state \in Unsettled /\ intents[j].state \in Unsettled
    BY <1>4, <1>6, <1>9, <1>10 DEF Intents, States, Unsettled
  <2>2. i = j
    BY <1>4, <2>1 DEF LiveInv, Live
  <2>3. p = q
    BY <1>7, <2>2
  <2>4. executed[k].stamp = message.stamp
    BY <1>4, <2>3
  <2>5. stamped
    BY <1>4, <2>2 DEF IInv, UnstampedInv, HasExecuted, i, j, p, q
  <2> QED
    BY <1>3, <1>8, <2>4, <2>5 DEF HasRun
<1> QED
  BY <1>10 DEF i, p

\* A call never runs a second time before the layer knows that the first run is done:
\* not by a resend, a late message, a new stamp or a new intent.
THEOREM RunsAgainOnlyKnown == ASSUME Undisturbed PROVE Spec => NeverTwiceUnknowingly
<1>1. IInv /\ LiveInv /\ [Next]_vars =>
        [Len(executed') > Len(executed) =>
           \A k \in DOMAIN executed :
              intents[previews[executed[k].preview].intent].state = "done"]_vars
  <2> SUFFICES ASSUME IInv, LiveInv, Next, Len(executed') > Len(executed),
                      NEW k \in DOMAIN executed
               PROVE  intents[previews[executed[k].preview].intent].state = "done"
    BY DEF vars
  <2>1. \E message \in inflight : Arrive(message)
    <3>1. executed' # executed
      BY DEF IInv, TypeOK
    <3>2. ASSUME NEW c \in Callers, Resumes(c) PROVE executed' = executed
      BY <3>2 DEF Resumes, Look, LookAgain, Prepared, NotPrepared, Decline, ConfirmThrows,
                  Approve, Sent, NoAnswer, NotExecuted, Trapped, Succeeded, Reconcile, Fails,
                  RetrySame, RetryNew, Restamp, NotRestamped, Restamped, RestampFails,
                  ReadBack, LayerElse, ledger
    <3>3. ASSUME NEW c \in Callers, Begins(c) PROVE executed' = executed
      BY <3>3 DEF Begins, Prepare, CommitAnswered, Commit, ledger
    <3>4. Pass \/ (\E message \in inflight : Lose(message)) => executed' = executed
      BY DEF Pass, Passes, Lose, Lost
    <3> QED
      BY <3>1, <3>2, <3>3, <3>4 DEF Next
  <2> QED
    BY <2>1, RunsOnce
<1> QED
  BY <1>1, LiveInvariance, PTL DEF NeverTwiceUnknowingly, Spec
=============================================================================
