---------------------------- MODULE Reconcile_proofs ----------------------------
(***************************************************************************)
(* For every set of worlds, window, clock and traffic: a block that is     *)
(* found was left by the call, an absent call never runs, and a block in a *)
(* regular shape is found.                                                 *)
(*                                                                         *)
(* The proofs speak of a block by its fields.  `Wrote` says what the       *)
(* ledger may have written for a call, whatever the state; the operators   *)
(* of the module are then applied to fields alone.                         *)
(***************************************************************************)
EXTENDS Reconcile, WellFoundedInduction, TLAPS

Ops == {"approve", "mint", "burn", "xfer"}

\* The fields of a block in one of the regular shapes of call c, at a ledger whose
\* minting account is m.
RegularFields(b, c, m) ==
    /\ b.ts = c.ts /\ b.fee = c.fee /\ b.memo = c.memo /\ b.expires_at = c.expires_at
    /\ b.from = IF Operation(c, m) = "mint" THEN None ELSE c.from
    /\ b.to = IF Operation(c, m) = "burn" THEN None ELSE c.to
    /\ b.amt = c.amt \/ (c.method = "icrc2_approve" /\ c.amt > U64Max /\ b.amt = U64Max)
    /\ OpOf(b) = Operation(c, m)
    /\ b.btype \in {None, "1mint", "1burn", "2approve"}
       \/ b.btype = (IF c.method = "icrc1_transfer" THEN "1xfer" ELSE "2xfer")
    /\ b.btype \in {"1xfer", "2xfer"} <=> b.btype # None /\ Operation(c, m) = "xfer"
    /\ c.method = "icrc1_transfer" =>
         b.spender = None \/ (b.spender = c.from /\ Operation(c, m) = "xfer")
    /\ c.method = "icrc2_approve" => b.spender = c.spender
    /\ c.method = "icrc2_transfer_from" =>
         \/ b.spender = c.spender
         \/ b.spender = None /\ (c.spender = c.from \/ b.btype # "2xfer")

\* What every readable shape of call c has in common with it.
Near(b, c) ==
    Readable(b) =>
        /\ b.ts = c.ts
        /\ b.amt = c.amt \/ (c.amt > U64Max /\ b.amt = U64Max)
        /\ b.from \in {None, Bad, c.from} /\ b.to \in {None, c.to}
        /\ c.spender # None => b.spender \in {None, c.spender}

\* An entry the ledger of world w may have written.
Wrote(entry, w) ==
    /\ entry.call \in {w.call} \cup w.rivals
    /\ Near(entry.block, entry.call)
    /\ entry.call # w.call =>
         entry.block.btype = Bad \/ RegularFields(entry.block, entry.call, w.minting)

-----------------------------------------------------------------------------
\* The operation of a call is one of four, and none of them is missing.
LEMMA OperationType ==
    ASSUME NEW c, NEW m, IsCall(c)
    PROVE  /\ Operation(c, m) \in Ops
           /\ Operation(c, m) = "approve" <=> c.method = "icrc2_approve"
           /\ Operation(c, m) = "mint" => c.from = m
           /\ Operation(c, m) = "burn" => c.to = m
BY DEF Operation, IsCall, Ops, Methods

\* The block that is expected of a stamped call, by its fields.
LEMMA ExpectedFields ==
    ASSUME NEW c, NEW m, IsCall(c), c.ts # NoNat
    PROVE  LET e == ExpectedTransaction(c, m)
           IN  /\ e # NoBlock
               /\ e.op = Operation(c, m) /\ e.ts = c.ts /\ e.amt = c.amt /\ e.memo = c.memo
               /\ e.fee = c.fee /\ e.expires_at = c.expires_at
               /\ e.btype = IF e.op # "xfer" THEN None
                            ELSE IF c.method = "icrc1_transfer" THEN "1xfer" ELSE "2xfer"
               /\ e.from = IF e.op = "mint" THEN None ELSE c.from
               /\ e.to = IF e.op = "burn" THEN None ELSE c.to
               /\ e.spender = c.spender
               /\ e.spenderOptional <=>
                    c.method = "icrc2_transfer_from" /\ c.spender = c.from
               /\ e["from"] = e.from /\ e["to"] = e.to /\ e["spender"] = e.spender
<1> DEFINE e == ExpectedTransaction(c, m)
<1>1. e = [op |-> Operation(c, m), ts |-> c.ts, amt |-> c.amt, memo |-> c.memo,
           fee |-> c.fee, expires_at |-> c.expires_at,
           btype |-> IF Operation(c, m) # "xfer" THEN None
                     ELSE IF c.method = "icrc1_transfer" THEN "1xfer" ELSE "2xfer",
           from |-> IF Operation(c, m) = "mint" THEN None ELSE c.from,
           to |-> IF Operation(c, m) = "burn" THEN None ELSE c.to,
           spender |-> c.spender,
           spenderOptional |-> c.method = "icrc2_transfer_from" /\ c.spender = c.from]
  BY DEF ExpectedTransaction
<1>2. e.op = Operation(c, m)
  BY <1>1
<1>3. e.op # None
  BY <1>2, OperationType DEF Ops, None
<1>4. e # NoBlock
  BY <1>3 DEF NoBlock
<1> HIDE DEF e
<1>5. e.spenderOptional <=> c.method = "icrc2_transfer_from" /\ c.spender = c.from
  BY <1>1
<1>6. /\ e.ts = c.ts /\ e.amt = c.amt /\ e.memo = c.memo
      /\ e.fee = c.fee /\ e.expires_at = c.expires_at /\ e.spender = c.spender
  BY <1>1
<1>7. /\ e.btype = IF e.op # "xfer" THEN None
                   ELSE IF c.method = "icrc1_transfer" THEN "1xfer" ELSE "2xfer"
      /\ e.from = IF e.op = "mint" THEN None ELSE c.from
      /\ e.to = IF e.op = "burn" THEN None ELSE c.to
  BY <1>1, <1>2
<1> QED
  BY <1>2, <1>4, <1>5, <1>6, <1>7 DEF e

\* A regular shape, by its fields.
LEMMA RegularShape ==
    ASSUME NEW c, IsCall(c), NEW b \in Regular(c)
    PROVE  RegularFields(b, c, world.minting)
<1> DEFINE op == Operation(c, world.minting)
           p == Plain(c)
           t == Typed(c)
<1>1. op \in Ops /\ (op = "approve" <=> c.method = "icrc2_approve")
  BY OperationType
<1>2. p = [btype |-> None, op |-> op, ts |-> c.ts, amt |-> c.amt, fee |-> c.fee,
           memo |-> c.memo, expires_at |-> c.expires_at,
           from |-> IF op = "mint" THEN None ELSE c.from,
           to |-> IF op = "burn" THEN None ELSE c.to, spender |-> c.spender]
  BY DEF Plain
<1>3. t = [p EXCEPT !.btype = Btype(c), !.op = None]
  BY DEF Typed
<1>4. /\ op = "xfer" => Btype(c) = IF c.method = "icrc1_transfer" THEN "1xfer" ELSE "2xfer"
      /\ op = "mint" => Btype(c) = "1mint"
      /\ op = "burn" => Btype(c) = "1burn"
      /\ op = "approve" => Btype(c) = "2approve"
  BY DEF Btype
<1>5. Btype(c) \in {"1xfer", "2xfer", "1mint", "1burn", "2approve"} /\ BtypeOp[Btype(c)] = op
  BY <1>1, <1>4 DEF BtypeOp, Ops
<1>6. \/ \E s \in Spenders(c, None) : b = [p EXCEPT !.spender = s]
      \/ \E s \in Spenders(c, Btype(c)) : b = [t EXCEPT !.spender = s]
      \/ b = Capped(c, p) \/ b = Capped(c, t)
  BY DEF Regular
<1> HIDE DEF op, p, t
<1>7. \/ \E s \in Spenders(c, None) : b = [p EXCEPT !.spender = s]
      \/ \E s \in Spenders(c, Btype(c)) : b = [t EXCEPT !.spender = s]
      \/ b = p \/ b = t
      \/ /\ c.method = "icrc2_approve" /\ c.amt > U64Max
         /\ b = [p EXCEPT !.amt = U64Max] \/ b = [t EXCEPT !.amt = U64Max]
  BY <1>6 DEF Capped
<1>8. /\ t.ts = c.ts /\ t.fee = c.fee /\ t.memo = c.memo /\ t.expires_at = c.expires_at
      /\ t.amt = c.amt /\ t.btype = Btype(c) /\ t.spender = c.spender
      /\ t.from = (IF op = "mint" THEN None ELSE c.from)
      /\ t.to = (IF op = "burn" THEN None ELSE c.to)
  BY <1>2, <1>3
<1>9. /\ b.ts = c.ts /\ b.fee = c.fee /\ b.memo = c.memo /\ b.expires_at = c.expires_at
      /\ b.from = (IF op = "mint" THEN None ELSE c.from)
      /\ b.to = (IF op = "burn" THEN None ELSE c.to)
      /\ b.amt = c.amt \/ (c.method = "icrc2_approve" /\ c.amt > U64Max /\ b.amt = U64Max)
  <2>1. CASE b = p
    BY <1>2, <2>1
  <2>2. CASE b = t
    BY <1>8, <2>2
  <2> QED
    BY <1>2, <1>3, <1>7, <2>1, <2>2
<1>10. /\ (b.btype = None /\ b.op = op) \/ b.btype = Btype(c)
       /\ b.spender \in Spenders(c, b.btype) \/ b.spender = c.spender
  <2>1. CASE b = p
    BY <1>2, <2>1
  <2>2. CASE b = t
    BY <1>8, <2>2
  <2> QED
    BY <1>2, <1>3, <1>7, <2>1, <2>2
<1>11. OpOf(b) = op
  <2>1. op # None /\ Btype(c) # None
    BY <1>1, <1>5 DEF Ops, None
  <2>2. DOMAIN BtypeOp = {"1xfer", "2xfer", "1mint", "1burn", "2approve"}
    BY DEF BtypeOp
  <2> QED
    BY <1>5, <1>10, <2>1, <2>2 DEF OpOf
<1>12. /\ c.method = "icrc1_transfer" =>
            b.spender = None \/ (b.spender = c.from /\ op = "xfer")
       /\ c.method = "icrc2_approve" => b.spender = c.spender
       /\ c.method = "icrc2_transfer_from" =>
            \/ b.spender = c.spender
            \/ b.spender = None /\ (c.spender = c.from \/ b.btype # "2xfer")
  BY <1>10 DEF Spenders, IsCall, op
<1>13. /\ b.btype \in {None, "1mint", "1burn", "2approve"}
          \/ b.btype = (IF c.method = "icrc1_transfer" THEN "1xfer" ELSE "2xfer")
       /\ b.btype \in {"1xfer", "2xfer"} <=> b.btype # None /\ op = "xfer"
  BY <1>1, <1>4, <1>10 DEF Ops, None
<1> QED
  BY <1>9, <1>11, <1>12, <1>13 DEF RegularFields, op

\* Every shape but an unreadable one shows the call's parties, stamp and amount.
LEMMA RegularIsNear ==
    ASSUME NEW b, NEW c, NEW m, IsCall(c), RegularFields(b, c, m)
    PROVE  Near(b, c)
BY OperationType DEF RegularFields, Near, IsCall, Methods

LEMMA OddIsNear ==
    ASSUME NEW c, IsCall(c), NEW b \in Foreign(c) \cup Odd(c)
    PROVE  Near(b, c)
<1> DEFINE op == Operation(c, world.minting)
           p == Plain(c)
<1>1. op \in Ops
  BY OperationType
<1>2. p = [btype |-> None, op |-> op, ts |-> c.ts, amt |-> c.amt, fee |-> c.fee,
           memo |-> c.memo, expires_at |-> c.expires_at,
           from |-> IF op = "mint" THEN None ELSE c.from,
           to |-> IF op = "burn" THEN None ELSE c.to, spender |-> c.spender]
  BY DEF Plain
<1>3. \/ b = [p EXCEPT !.btype = Bad] \/ b = [p EXCEPT !.btype = "other"]
      \/ b = [p EXCEPT !.ts = BadNat] \/ b = [p EXCEPT !.fee = BadNat]
      \/ b = [p EXCEPT !.from = Bad]
  BY DEF Foreign, Odd
<1> HIDE DEF op, p
<1>4. /\ b.ts = c.ts \/ b.ts = BadNat
      /\ b.amt = c.amt /\ b.spender = c.spender
      /\ b.from \in {None, Bad, c.from} /\ b.to \in {None, c.to}
  BY <1>2, <1>3
<1> QED
  BY <1>4 DEF Near, Readable

\* What the ledger writes for a call of the world.
LEMMA WrittenShapes ==
    ASSUME NEW c \in {world.call} \cup world.rivals, IsCall(c), NEW at,
           NEW b \in Regular(c) \cup Foreign(c) \cup Odd(c),
           c # world.call => b \notin Odd(c) \/ b \in Regular(c) \cup Foreign(c)
    PROVE  Wrote([block |-> b, call |-> c, at |-> at], world)
<1>1. CASE b \in Regular(c)
  BY <1>1, RegularShape, RegularIsNear DEF Wrote
<1>2. CASE b \in Foreign(c)
  <2>1. b.btype = Bad
    BY <1>2 DEF Foreign, Plain
  <2> QED
    BY <1>2, <2>1, OddIsNear DEF Wrote
<1>3. CASE b \in Odd(c) /\ b \notin Regular(c) \cup Foreign(c)
  BY <1>3, OddIsNear DEF Wrote
<1> QED
  BY <1>1, <1>2, <1>3

-----------------------------------------------------------------------------
\* A readable shape of the call looks like it, whatever minting account the caller
\* knows of.
LEMMA NearLooksLikeIt ==
    ASSUME NEW c, NEW m, IsCall(c), c.ts # NoNat, NEW b, Near(b, c), Readable(b)
    PROVE  LooksLikeIt(b, ExpectedTransaction(c, m))
<1> DEFINE e == ExpectedTransaction(c, m)
<1>1. /\ e.ts = c.ts /\ e.amt = c.amt /\ e.spender = c.spender
      /\ e.from \in {None, c.from} /\ e.to \in {None, c.to}
  BY ExpectedFields
<1> HIDE DEF e
<1>2. ~NamesAnother(b, e)
  BY <1>1 DEF Near, NamesAnother
<1> QED
  BY <1>1, <1>2 DEF Near, LooksLikeIt, IsCall, e

\* The block of a call in one of the two regular shapes is matched.
LEMMA RegularMatches ==
    ASSUME IsCall(call), call.ts # NoNat, NEW b,
           b = Typed(call) \/ (b = Plain(call) /\ call.spender # call.from)
    PROVE  BlockMatches(b, ExpectedTransaction(call, world.minting))
<1> DEFINE c == call
           op == Operation(c, world.minting)
           p == Plain(c)
           t == Typed(c)
           e == ExpectedTransaction(c, world.minting)
<1>1. op \in Ops
  BY OperationType
<1>2. p = [btype |-> None, op |-> op, ts |-> c.ts, amt |-> c.amt, fee |-> c.fee,
           memo |-> c.memo, expires_at |-> c.expires_at,
           from |-> IF op = "mint" THEN None ELSE c.from,
           to |-> IF op = "burn" THEN None ELSE c.to, spender |-> c.spender]
  BY DEF Plain
<1>3. t = [p EXCEPT !.btype = Btype(c), !.op = None]
  BY DEF Typed
<1>4. /\ op = "xfer" => Btype(c) = IF c.method = "icrc1_transfer" THEN "1xfer" ELSE "2xfer"
      /\ op = "mint" => Btype(c) = "1mint"
      /\ op = "burn" => Btype(c) = "1burn"
      /\ op = "approve" => Btype(c) = "2approve"
  BY DEF Btype
<1>5. /\ e.op = op /\ e.ts = c.ts /\ e.amt = c.amt /\ e.memo = c.memo
      /\ e.fee = c.fee /\ e.expires_at = c.expires_at
      /\ e.btype = IF op # "xfer" THEN None
                   ELSE IF c.method = "icrc1_transfer" THEN "1xfer" ELSE "2xfer"
      /\ e.from = IF op = "mint" THEN None ELSE c.from
      /\ e.to = IF op = "burn" THEN None ELSE c.to
      /\ e.spender = c.spender
      /\ e.spenderOptional <=> c.method = "icrc2_transfer_from" /\ c.spender = c.from
  BY ExpectedFields
<1>6. IsCall(c) /\ (b = t \/ (b = p /\ c.spender # c.from))
  OBVIOUS
<1> HIDE DEF c, op, p, t, e
<1>7. (b.op = op /\ b.btype = None) \/ b.btype = Btype(c)
  <2>1. CASE b = p
    BY <1>2, <2>1
  <2>2. CASE b = t
    BY <1>2, <1>3, <2>2
  <2> QED
    BY <1>6, <2>1, <2>2
<1>8. /\ b.ts = c.ts /\ b.fee = c.fee /\ b.memo = c.memo /\ b.expires_at = c.expires_at
      /\ b.amt = c.amt /\ b.spender = c.spender
      /\ b.from = (IF op = "mint" THEN None ELSE c.from)
      /\ b.to = (IF op = "burn" THEN None ELSE c.to)
      /\ b.btype = None => c.spender # c.from
  <2>1. CASE b = p /\ c.spender # c.from
    BY <1>2, <2>1
  <2>2. CASE b = t
    <3>1. Btype(c) # None
      BY <1>1, <1>4 DEF Ops, None
    <3> QED
      BY <1>2, <1>3, <2>2, <3>1
  <2> QED
    BY <1>6, <2>1, <2>2
<1>9. OpOf(b) = e.op
  BY <1>1, <1>4, <1>5, <1>7 DEF OpOf, BtypeOp, Ops, None
<1>10. BtypeFits(b, e)
  BY <1>1, <1>4, <1>5, <1>7, <1>8 DEF BtypeFits, Ops, None
<1>11. \A side \in {"from", "to", "spender"} : SideMatches(b, e, side)
  BY <1>5, <1>8 DEF SideMatches
<1> QED
  BY <1>5, <1>8, <1>9, <1>10, <1>11 DEF BlockMatches, e, c

\* What `FoundIsTheCall` says of the entry that is found, when c is the call.
Mine(entry, c) ==
    \/ entry.call = c
    \/ /\ entry.block.spender = None
       /\ entry.block.btype \notin {"1xfer", "2xfer"}
       /\ entry.call = [c EXCEPT !.method = entry.call.method,
                                 !.spender = entry.call.spender,
                                 !.caller = entry.call.caller]
    \/ /\ c.method = "icrc2_approve" /\ c.amt = U64Max
       /\ entry.call.amt > U64Max
       /\ entry.call = [c EXCEPT !.amt = entry.call.amt]

\* Two calls that agree in every field are one; a call is determined by its fields.
LEMMA SameFields ==
    ASSUME NEW c, NEW d, IsCall(c), IsCall(d),
           c.method = d.method, c.caller = d.caller, c.from = d.from, c.to = d.to,
           c.spender = d.spender, c.ts = d.ts, c.amt = d.amt, c.memo = d.memo,
           c.fee = d.fee, c.expires_at = d.expires_at
    PROVE  c = d
BY DEF IsCall

LEMMA SamePayload ==
    ASSUME NEW c, NEW d, IsCall(c), IsCall(d),
           c.from = d.from, c.to = d.to, c.ts = d.ts, c.memo = d.memo,
           c.fee = d.fee, c.expires_at = d.expires_at
    PROVE  /\ c.amt = d.amt => d = [c EXCEPT !.method = d.method, !.spender = d.spender,
                                             !.caller = d.caller]
           /\ /\ c.method = d.method /\ c.spender = d.spender /\ c.caller = d.caller
              => d = [c EXCEPT !.amt = d.amt]
BY DEF IsCall

\* A block that is matched was left by the call, or by one of the two calls that no
\* field of it tells from the call.
LEMMA MatchIsMine ==
    ASSUME NEW w \in Worlds, NEW m \in {w.minting, None}, NEW entry, Wrote(entry, w),
           w.call.ts # NoNat,
           BlockMatches(entry.block, ExpectedTransaction(w.call, m))
    PROVE  Mine(entry, w.call)
<1> DEFINE c == w.call
           d == entry.call
           b == entry.block
           e == ExpectedTransaction(c, m)
           op == Operation(c, m)
<1> SUFFICES ASSUME d # c PROVE Mine(entry, c)
  BY DEF Mine
<1>1. /\ IsCall(c) /\ IsCall(d) /\ w.minting # Bad
      /\ Payer(c) = Payer(d) => c.caller = d.caller
  BY ReconcileAssumption DEF Wrote
<1>2. b.btype # Bad
  <2>1. b.btype = Bad => OpOf(b) = Bad
    BY DEF OpOf, BtypeOp, Bad, None
  <2>2. e.op \in Ops /\ e.op # Bad
    BY <1>1, OperationType, ExpectedFields DEF Ops, Bad
  <2> QED
    BY <2>1, <2>2 DEF BlockMatches
<1>3. RegularFields(b, d, w.minting)
  BY <1>2 DEF Wrote
<1>4. /\ e.op = op /\ e.ts = c.ts /\ e.amt = c.amt /\ e.memo = c.memo
      /\ e.fee = c.fee /\ e.expires_at = c.expires_at
      /\ e.btype = IF op # "xfer" THEN None
                   ELSE IF c.method = "icrc1_transfer" THEN "1xfer" ELSE "2xfer"
      /\ e.from = IF op = "mint" THEN None ELSE c.from
      /\ e.to = IF op = "burn" THEN None ELSE c.to
      /\ e.spender = c.spender
      /\ e.spenderOptional <=> c.method = "icrc2_transfer_from" /\ c.spender = c.from
  BY <1>1, ExpectedFields
<1> HIDE DEF e
<1>5. /\ OpOf(b) = op /\ BtypeFits(b, e) /\ b.ts = c.ts /\ b.amt = c.amt /\ b.fee = c.fee
      /\ b.memo = c.memo /\ b.from = e.from /\ b.to = e.to
      /\ b.spender = c.spender \/ (e.spenderOptional /\ b.spender = None /\ b.btype = "2xfer")
      /\ op = "approve" => b.expires_at = c.expires_at
  <2>1. BlockMatches(b, e)
    BY DEF e
  <2>2. SideMatches(b, e, "from") /\ SideMatches(b, e, "to") /\ SideMatches(b, e, "spender")
    BY <2>1 DEF BlockMatches
  <2> QED
    BY <1>4, <2>1, <2>2 DEF BlockMatches, SideMatches
<1>6. Operation(d, w.minting) = op
  BY <1>3, <1>5 DEF RegularFields
<1>7. /\ op = "approve" <=> c.method = "icrc2_approve"
      /\ op = "approve" <=> d.method = "icrc2_approve"
      /\ op = "mint" => c.from = m /\ d.from = w.minting
      /\ op = "burn" => c.to = m /\ d.to = w.minting
  BY <1>1, <1>6, OperationType
<1> HIDE DEF op
<1>8. d.from = c.from /\ d.to = c.to
  <2>1. CASE op = "mint"
    BY <1>1, <1>3, <1>4, <1>5, <1>6, <1>7, <2>1 DEF RegularFields, IsCall
  <2>2. CASE op = "burn"
    BY <1>1, <1>3, <1>4, <1>5, <1>6, <1>7, <2>2 DEF RegularFields, IsCall
  <2>3. CASE op \notin {"mint", "burn"}
    BY <1>3, <1>4, <1>5, <1>6, <2>3 DEF RegularFields
  <2> QED
    BY <2>1, <2>2, <2>3
<1>9. d.ts = c.ts /\ d.memo = c.memo /\ d.fee = c.fee /\ d.expires_at = c.expires_at
  BY <1>1, <1>3, <1>5, <1>7 DEF RegularFields, IsCall
<1>10. CASE op = "approve"
  <2>1. d.method = c.method /\ d.spender = c.spender
    BY <1>3, <1>4, <1>5, <1>7, <1>10 DEF RegularFields
  <2>2. d.caller = c.caller
    BY <1>1, <1>7, <1>8, <1>10, <2>1 DEF Payer
  <2>3. d.amt # c.amt
    BY <1>1, <1>8, <1>9, <2>1, <2>2, SameFields
  <2>4. d.amt > U64Max /\ c.amt = U64Max
    BY <1>3, <1>5, <2>3 DEF RegularFields
  <2> QED
    BY <1>1, <1>7, <1>8, <1>9, <1>10, <2>1, <2>2, <2>4, SamePayload, ZenonT(30) DEF Mine
<1>11. CASE op # "approve"
  <2>1. d.amt = c.amt
    BY <1>3, <1>5, <1>7, <1>11 DEF RegularFields
  <2>2. /\ c.method \in {"icrc1_transfer", "icrc2_transfer_from"}
        /\ d.method \in {"icrc1_transfer", "icrc2_transfer_from"}
    BY <1>1, <1>7, <1>11 DEF IsCall, Methods
  <2>3. d.method # c.method
    <3> SUFFICES ASSUME d.method = c.method PROVE FALSE
      OBVIOUS
    <3>1. d.spender = c.spender
      BY <1>1, <1>3, <1>4, <1>5, <1>8, <2>2 DEF RegularFields, IsCall
    <3>2. d.caller = c.caller
      BY <1>1, <1>8, <3>1 DEF Payer
    <3> QED
      BY <1>1, <1>8, <1>9, <2>1, <3>1, <3>2, SameFields
  <2>4. c.method = "icrc1_transfer" /\ d.method = "icrc2_transfer_from"
    <3> SUFFICES ASSUME d.method = "icrc1_transfer", c.method = "icrc2_transfer_from"
                 PROVE  FALSE
      BY <2>2, <2>3
    <3>1. b.btype # "2xfer"
      BY <1>3 DEF RegularFields, None
    <3>2. b.spender = c.spender /\ c.spender # None
      BY <1>1, <1>5, <3>1 DEF IsCall
    <3>3. op = "xfer" /\ c.spender = c.from
      BY <1>3, <1>6, <1>8, <3>2 DEF RegularFields
    <3> QED
      BY <1>4, <1>5, <3>1, <3>3 DEF BtypeFits
  <2>5. b.spender = None
    BY <1>1, <1>4, <1>5, <2>4 DEF IsCall
  <2>6. b.btype \notin {"1xfer", "2xfer"}
    BY <1>3, <1>4, <1>5, <1>6, <2>4 DEF RegularFields, BtypeFits, None, Bad
  <2> QED
    BY <1>1, <1>8, <1>9, <2>1, <2>5, <2>6, SamePayload DEF Mine
<1> QED
  BY <1>10, <1>11

-----------------------------------------------------------------------------
\* The inductive invariant.  Whatever may still land is unanswered, and where a
\* ledger has said that the stamp is too old, it has expired for good; what is
\* in the log was written as `Wrote` says, and before now; a person rejects only
\* other calls' blocks; and a judgement stays true of the log as it grows.

IsSequence(s) == \E S : s \in Seq(S)

TypeOK ==
    /\ world \in Worlds /\ reader.minting \in {world.minting, None}
    /\ clock \in Nat /\ IsSequence(log)
    /\ sends \in Seq({"pending", "unknown", "too_old", "refused", "done"})
    /\ inflight \subseteq DOMAIN sends
    /\ sends = << >> \/ floor \in 0 .. Len(log)
    /\ reading.at \in Int /\ reading.at <= clock
    /\ reading.begun => sends # << >>

LogInv == \A i \in DOMAIN log :
    Wrote(log[i], world) /\ log[i].at \in Nat /\ log[i].at <= clock

SendsInv ==
    /\ \A i \in inflight : sends[i] \in {"pending", "unknown"}
    /\ \A i \in DOMAIN sends : sends[i] = "too_old" => Expired(call)
    /\ reading.tooOld => Expired(call)

RejectedInv == rejected \subseteq {i \in DOMAIN log : log[i].call # call}

\* What each judgement says of the log, up to the length it was read at.
FoundInv ==
    finding.status = "found" =>
        /\ finding.block \in DOMAIN log /\ finding.block > floor
        /\ Mine(log[finding.block], call)
AbsentInv ==
    finding.status = "absent" =>
        /\ Expired(call) \/ inflight = {}
        /\ \A i \in DOMAIN log : i > floor => log[i].call # call
FindingInv ==
    /\ finding.status # None => sends # << >> /\ finding.read \in 0 .. Len(log)
    /\ finding.why = "lookalike" => finding.status # None /\ finding.block \in DOMAIN log
    /\ FoundInv /\ AbsentInv

IInv == TypeOK /\ LogInv /\ SendsInv /\ RejectedInv /\ FindingInv /\ PlainBlockIsFound

\* The calls of a world are calls.
LEMMA CallType ==
    ASSUME TypeOK
    PROVE  /\ IsCall(call) /\ call.ts \in Nat \cup {NoNat} /\ Window \in Nat
           /\ \A c \in world.rivals : IsCall(c)
BY ReconcileAssumption DEF TypeOK, call, IsCall

\* The highest of a bounded set of indices is one of them.
LEMMA HighestType ==
    ASSUME NEW a \in Int, NEW b \in Int, NEW S \in SUBSET (a .. b), S # {}
    PROVE  Highest(S) \in S
<1> DEFINE T == {b - i : i \in S}
           Less == {ss \in Nat \X Nat : ss[1] < ss[2]}
<1>1. T \subseteq Nat /\ T # {}
  OBVIOUS
<1>2. IsWellFoundedOn(Less, Nat)
  BY NatLessThanWellFounded DEF OpToRel
<1>3. \E x \in T : \A y \in T : <<y, x>> \notin Less
  <2> HIDE DEF T, Less
  <2> QED
    BY <1>1, <1>2, WFMin
<1>4. PICK x \in T : \A y \in T : x <= y
  <2>1. \A y, z \in Nat : <<y, z>> \notin Less => z <= y
    OBVIOUS
  <2> HIDE DEF T, Less
  <2> QED
    BY <1>1, <1>3, <2>1
<1>5. PICK i \in S : x = b - i
  BY <1>4
<1>6. \A j \in S : b - j \in T
  OBVIOUS
<1>7. \A j \in S : j <= i
  <2> HIDE DEF T
  <2> QED
    BY <1>4, <1>5, <1>6
<1> QED
  BY <1>7 DEF Highest

\* The clock never goes back, so a stamp that expired stays so.
LEMMA ExpiredStays ==
    ASSUME TypeOK, world' = world, clock' \in {clock, clock + 1}, Expired(call)
    PROVE  Expired(call)'
BY CallType DEF Expired, call, TypeOK

-----------------------------------------------------------------------------
\* The ledger's log only grows, by one entry, which it may have written.
LEMMA LogGrows ==
    ASSUME IInv, NEW c \in {call} \cup world.rivals, NEW b,
           Wrote([block |-> b, call |-> c, at |-> clock], world),
           log' = Append(log, [block |-> b, call |-> c, at |-> clock]),
           UNCHANGED <<clock, world>>
    PROVE  /\ IsSequence(log)' /\ Len(log') = Len(log) + 1
           /\ DOMAIN log \subseteq DOMAIN log'
           /\ \A i \in DOMAIN log : log'[i] = log[i]
           /\ \A i \in DOMAIN log' \ DOMAIN log :
                i = Len(log') /\ log'[i] = [block |-> b, call |-> c, at |-> clock]
           /\ LogInv'
<1> DEFINE entry == [block |-> b, call |-> c, at |-> clock]
<1>1. PICK S : log \in Seq(S)
  BY DEF IInv, TypeOK, IsSequence
<1>2. log' \in Seq(S \cup {entry}) /\ Len(log') = Len(log) + 1
      /\ \A i \in 1 .. Len(log) : log'[i] = log[i]
      /\ log'[Len(log) + 1] = entry
  <2>1. log \in Seq(S \cup {entry}) /\ entry \in S \cup {entry}
    BY <1>1
  <2> HIDE DEF entry
  <2> QED
    BY <2>1 DEF entry
<1>3. Len(log) \in Nat /\ DOMAIN log = 1 .. Len(log) /\ DOMAIN log' = 1 .. Len(log')
  BY <1>1, <1>2
<1>4. LogInv'
  BY <1>2, <1>3 DEF IInv, TypeOK, LogInv
<1> QED
  BY <1>2, <1>3, <1>4 DEF IsSequence

-----------------------------------------------------------------------------
\* What a judgement says of the log, up to the length it was read at, when it is made.
Says(v, length) ==
    /\ v.status # None /\ length \in 0 .. Len(log)
    /\ v.why = "lookalike" => v.block \in DOMAIN log
    /\ v.status = "found" =>
         /\ v.block \in DOMAIN log /\ v.block > floor
         /\ Mine(log[v.block], call)
    /\ v.status = "absent" =>
         /\ Expired(call) \/ inflight = {}
         /\ \A i \in DOMAIN log : i > floor => log[i].call # call
    /\ /\ v.status # "found" /\ v.why \notin {"shorter", "uncovered", "unmapped"}
       /\ reader.minting = world.minting
       => /\ call.ts # NoNat
          /\ \A i \in floor + 1 .. length :
               ~BlockMatches(log[i].block, ExpectedTransaction(call, world.minting))

LEMMA Judged ==
    ASSUME IInv, reading.begun, NEW length \in {Len(log)} \cup {n \in {0} : n < floor},
           NEW missing \in {0} \cup (floor + 1 .. Len(log))
    PROVE  Says(MatchBlocks(ExpectedTransaction(call, reader.minting), length, missing), length)
<1> DEFINE e == ExpectedTransaction(call, reader.minting)
           v == MatchBlocks(e, length, missing)
           ids == floor + 1 .. length
           matching == {i \in ids : BlockMatches(log[i].block, e)}
           alike == {i \in ids \ rejected : LooksLikeIt(log[i].block, e)}
<1>1. floor \in 0 .. Len(log) /\ Len(log) \in Nat /\ DOMAIN log = 1 .. Len(log)
  BY DEF IInv, TypeOK, IsSequence
<1>2. length \in 0 .. Len(log) /\ ids \subseteq DOMAIN log /\ ids \in SUBSET (floor + 1 .. length)
  BY <1>1
<1>3. floor \in Int /\ length \in Int
  <2>1. floor \in Int
    BY <1>1
  <2>2. length \in Int
    BY <1>1
  <2> QED
    BY <2>1, <2>2
<1>4. /\ world \in Worlds /\ reader.minting \in {world.minting, None} /\ IsCall(call)
      /\ clock \in Nat /\ reading.at \in Int /\ reading.at <= clock
  BY CallType DEF IInv, TypeOK
<1>5. v = IF e = NoBlock THEN Unreadable("unmapped")
          ELSE IF floor > length THEN Unreadable("shorter")
          ELSE IF missing \in ids THEN Unreadable("uncovered")
          ELSE IF matching # {} THEN Found(Highest(matching))
          ELSE IF \E i \in ids : ~Readable(log[i].block) THEN Unreadable("shape")
          ELSE IF alike # {} THEN Lookalike(Highest(alike))
          ELSE NoBlockLeft(e, length)
  BY DEF MatchBlocks
<1>6. /\ matching # {} => Highest(matching) \in matching
      /\ alike # {} => Highest(alike) \in alike
  <2>1. floor + 1 \in Int /\ length \in Int
    BY <1>3
  <2>2. matching \in SUBSET (floor + 1 .. length) /\ alike \in SUBSET (floor + 1 .. length)
    OBVIOUS
  <2> HIDE DEF matching, alike
  <2> QED
    BY <2>1, <2>2, HighestType
<1> SUFFICES Says(v, length)
  OBVIOUS
<1> HIDE DEF v
<1>7. CASE v \in {Unreadable("unmapped"), Unreadable("shorter"), Unreadable("uncovered")}
  BY <1>2, <1>7 DEF Unreadable, None, Says
<1>8. CASE /\ e # NoBlock /\ floor <= length /\ missing \notin ids /\ matching # {}
           /\ v = Found(Highest(matching))
  <2>1. Highest(matching) \in matching
    BY <1>8, <1>6
  <2>2. call.ts # NoNat
    BY <1>8 DEF ExpectedTransaction
  <2>3. Mine(log[Highest(matching)], call)
    BY <1>2, <1>4, <2>1, <2>2, MatchIsMine DEF IInv, LogInv, call
  <2>4. v.status = "found" /\ v.block = Highest(matching) /\ v.why = "match"
    BY <1>8 DEF Found
  <2> QED
    <3>1. Highest(matching) \in DOMAIN log /\ Highest(matching) > floor
      <4>1. Highest(matching) \in floor + 1 .. length
        BY <2>1
      <4>2. ids \subseteq DOMAIN log
        BY <1>2
      <4> QED
        BY <1>3, <4>1, <4>2
    <3>2. length \in 0 .. Len(log)
      BY <1>2
    <3> HIDE DEF matching, ids
    <3> QED
      BY <2>3, <2>4, <3>1, <3>2 DEF None, Says
<1>9. CASE /\ e # NoBlock /\ floor <= length /\ matching = {}
           /\ \/ v = Unreadable("shape")
              \/ alike # {} /\ v = Lookalike(Highest(alike))
              \/ /\ \A i \in ids : Readable(log[i].block)
                 /\ alike = {} /\ v = NoBlockLeft(e, length)
  <2>1. call.ts # NoNat /\ call.ts \in Nat /\ e.ts = call.ts
    <3>1. call.ts # NoNat
      BY <1>9 DEF ExpectedTransaction
    <3> QED
      BY <1>4, <3>1, CallType, ExpectedFields DEF IInv
  <2>2. reader.minting = world.minting
        => \A i \in ids :
             ~BlockMatches(log[i].block, ExpectedTransaction(call, world.minting))
    BY <1>9
  <2>3. CASE v = Unreadable("shape")
    BY <1>2, <2>1, <2>2, <2>3 DEF Unreadable, None, Says
  <2>4. CASE alike # {} /\ v = Lookalike(Highest(alike))
    <3>1. Highest(alike) \in alike
      BY <1>6, <2>4
    <3> QED
      BY <1>2, <2>1, <2>2, <2>4, <3>1 DEF Lookalike, None, Says
  <2>5. CASE /\ \A i \in ids : Readable(log[i].block)
             /\ alike = {} /\ v = NoBlockLeft(e, length)
    <3>1. length = Len(log)
      BY <1>1, <1>9
    <3>2. ASSUME NEW i \in DOMAIN log, i > floor PROVE log[i].call # call
      <4>1. i \in ids
        BY <1>1, <3>1, <3>2
      <4>2. i \in rejected => log[i].call # call
        BY DEF IInv, RejectedInv
      <4>3. ASSUME log[i].call = call, i \notin rejected PROVE FALSE
        <5>1. Near(log[i].block, call)
          BY <4>3 DEF IInv, LogInv, Wrote
        <5>2. LooksLikeIt(log[i].block, e)
          BY <1>4, <2>1, <2>5, <4>1, <5>1, NearLooksLikeIt
        <5> QED
          BY <2>5, <4>1, <4>3, <5>2
      <4> QED
        BY <4>2, <4>3
    <3>3. /\ v.status \in {"absent", "not_yet"} /\ v.why # "lookalike"
          /\ v.status = "absent" =>
               ~InFlight \/ reading.tooOld \/ Clock(length) > e.ts + Window
      BY <2>5 DEF NoBlockLeft, Absent, NotYet
    <3>4. ~InFlight => inflight = {}
      BY DEF IInv, TypeOK, SendsInv, InFlight
    <3>5. Clock(length) > e.ts + Window => Expired(call)
      <4>1. length > floor => length \in DOMAIN log
        BY <1>1, <3>1
      <4>2. TipTime(length) \in Int /\ TipTime(length) <= clock
        BY <1>4, <4>1 DEF TipTime, NoTime, IInv, LogInv
      <4>3. Clock(length) \in Int /\ Clock(length) <= clock
        BY <1>4, <4>2 DEF Clock
      <4> QED
        BY <1>4, <2>1, <4>3, CallType DEF Expired, IInv
    <3>6. v.status = "absent" => Expired(call) \/ inflight = {}
      BY <3>3, <3>4, <3>5 DEF IInv, SendsInv
    <3> QED
      BY <1>2, <2>1, <2>2, <3>2, <3>3, <3>6 DEF None, Says
  <2> QED
    BY <1>9, <2>3, <2>4, <2>5
<1> HIDE DEF e, ids, matching, alike
<1> QED
  BY <1>5, <1>7, <1>8, <1>9, <1>3

-----------------------------------------------------------------------------
\* The two regular shapes of the call depend on the world alone.
LEMMA ShapesStay ==
    ASSUME world' = world
    PROVE  call' = call /\ Plain(call)' = Plain(call) /\ Typed(call)' = Typed(call)
<1>1. call' = call
  BY DEF call
<1>2. \A c : Operation(c, world'.minting) = Operation(c, world.minting)
  OBVIOUS
<1>3. Btype(call)' = Btype(call) /\ Plain(call)' = Plain(call)
  BY <1>1, <1>2 DEF Btype, Plain
<1> QED
  BY <1>1, <1>3 DEF Typed

\* A judgement stays true while nothing can land that it did not see, and while the
\* log grows by entries of others, or by the call's where it is not absent.
LEMMA JudgementStays ==
    ASSUME IInv, UNCHANGED <<world, reader, floor, finding>>,
           Len(log') \in Nat, Len(log) <= Len(log'), DOMAIN log \subseteq DOMAIN log',
           DOMAIN log' = 1 .. Len(log'),
           \A i \in DOMAIN log : log'[i] = log[i],
           sends # << >> => sends' # << >>,
           finding.status = "absent" =>
             /\ Expired(call)' \/ inflight' = {}
             /\ \A i \in DOMAIN log' \ DOMAIN log : log'[i].call # call
    PROVE  FindingInv' /\ PlainBlockIsFound'
<1>1. call' = call /\ Plain(call)' = Plain(call) /\ Typed(call)' = Typed(call)
  BY ShapesStay
<1>2. Len(log) \in Nat /\ DOMAIN log = 1 .. Len(log)
  BY DEF IInv, TypeOK, IsSequence
<1>3. FoundInv' /\ AbsentInv'
  BY <1>1 DEF IInv, FindingInv, FoundInv, AbsentInv
<1>4. FindingInv'
  BY <1>2, <1>3 DEF IInv, FindingInv
<1>5. PlainBlockIsFound'
  <2> SUFFICES ASSUME /\ finding.status \notin {None, "found"}
                      /\ finding.why \notin {"shorter", "uncovered", "unmapped"}
                      /\ reader.minting = world.minting,
                      NEW i \in DOMAIN log', i \in floor + 1 .. finding.read,
                      log'[i].call = call
               PROVE  /\ log'[i].block # Typed(call)
                      /\ log'[i].block = Plain(call) => call.spender = call.from
    BY <1>1 DEF PlainBlockIsFound
  <2>1. finding.read \in 0 .. Len(log)
    BY DEF IInv, FindingInv
  <2>2. i \in DOMAIN log
    BY <1>2, <2>1
  <2> QED
    BY <2>2 DEF IInv, PlainBlockIsFound
<1> QED
  BY <1>4, <1>5

\* A step that leaves the log alone leaves its length and indices alone.
LEMMA SameLog ==
    ASSUME IInv, log' = log
    PROVE  /\ Len(log') \in Nat /\ Len(log) <= Len(log') /\ DOMAIN log \subseteq DOMAIN log'
           /\ DOMAIN log' = 1 .. Len(log') /\ \A i \in DOMAIN log : log'[i] = log[i]
           /\ DOMAIN log' \ DOMAIN log = {}
BY DEF IInv, TypeOK, IsSequence

LEMMA TickKeeps == ASSUME IInv, Tick PROVE IInv'
<1>1. /\ clock' = clock + 1 /\ UNCHANGED <<world, reader, floor, reading, rejected, finding>>
      /\ UNCHANGED <<log, inflight, sends>>
  BY DEF Tick, known, judged
<1>2. Expired(call) => Expired(call)'
  BY <1>1, ExpiredStays DEF IInv
<1>3. TypeOK' /\ LogInv' /\ RejectedInv'
  BY <1>1 DEF IInv, TypeOK, LogInv, RejectedInv, call
<1>4. SendsInv'
  BY <1>1, <1>2 DEF IInv, SendsInv
<1>5. FindingInv' /\ PlainBlockIsFound'
  BY <1>1, <1>2, SameLog, JudgementStays DEF IInv, FindingInv, AbsentInv
<1> QED
  BY <1>3, <1>4, <1>5 DEF IInv

LEMMA OtherCallKeeps == ASSUME IInv, NEW c \in world.rivals, OtherCall(c) PROVE IInv'
<1>1. /\ UNCHANGED <<world, reader, floor, reading, rejected, finding>>
      /\ UNCHANGED <<clock, inflight, sends>>
  BY DEF OtherCall, known, judged
<1>2. PICK b \in Regular(c) \cup Foreign(c) :
         log' = Append(log, [block |-> b, call |-> c, at |-> clock])
  BY DEF OtherCall, Writes
<1>3. c # call /\ IsCall(c)
  BY ReconcileAssumption DEF IInv, TypeOK, call
<1>4. Wrote([block |-> b, call |-> c, at |-> clock], world)
  BY <1>2, <1>3, WrittenShapes
<1>5. /\ IsSequence(log)' /\ Len(log') = Len(log) + 1 /\ DOMAIN log \subseteq DOMAIN log'
      /\ \A i \in DOMAIN log : log'[i] = log[i]
      /\ \A i \in DOMAIN log' \ DOMAIN log : log'[i].call = c
      /\ LogInv'
  BY <1>1, <1>2, <1>4, LogGrows
<1>6. Len(log) \in Nat /\ DOMAIN log' = 1 .. Len(log')
  BY <1>5 DEF IInv, TypeOK, IsSequence
<1>7. TypeOK'
  BY <1>1, <1>5, <1>6 DEF IInv, TypeOK
<1>8. SendsInv' /\ RejectedInv'
  BY <1>1, <1>5 DEF IInv, SendsInv, RejectedInv, Expired, call
<1>9. Expired(call)' = Expired(call)
  BY <1>1 DEF Expired, call
<1>10. FindingInv' /\ PlainBlockIsFound'
  BY <1>1, <1>3, <1>5, <1>6, <1>9, JudgementStays DEF IInv, FindingInv, AbsentInv
<1> QED
  BY <1>5, <1>7, <1>8, <1>10 DEF IInv

LEMMA SendKeeps == ASSUME IInv, Send PROVE IInv'
<1>1. /\ UNCHANGED <<world, reader, clock, log, reading, rejected, finding>>
      /\ sends' = Append(sends, "pending") /\ inflight' = inflight \cup {Len(sends) + 1}
      /\ floor' = IF sends = << >> THEN Len(log) ELSE floor
      /\ finding.status \notin {"found", "absent"}
  BY DEF Send, known, Over
<1>2. /\ sends' \in Seq({"pending", "unknown", "too_old", "refused", "done"})
      /\ sends' # << >> /\ DOMAIN sends' = DOMAIN sends \cup {Len(sends) + 1}
      /\ \A i \in DOMAIN sends : sends'[i] = sends[i]
      /\ sends'[Len(sends) + 1] = "pending"
  BY <1>1 DEF IInv, TypeOK
<1>3. Len(log) \in Nat
  BY DEF IInv, TypeOK, IsSequence
<1>4. TypeOK'
  BY <1>1, <1>2, <1>3 DEF IInv, TypeOK
<1>5. LogInv' /\ RejectedInv'
  BY <1>1 DEF IInv, LogInv, RejectedInv, call
<1>6. SendsInv'
  <2>1. Expired(call)' = Expired(call)
    BY <1>1 DEF Expired, call
  <2>2. inflight \subseteq DOMAIN sends
    BY DEF IInv, TypeOK
  <2> QED
    BY <1>1, <1>2, <2>1, <2>2 DEF IInv, SendsInv
<1>7. FindingInv' /\ PlainBlockIsFound'
  <2>1. CASE sends = << >>
    <3>1. finding.status = None
      BY <2>1 DEF IInv, FindingInv
    <3> QED
      BY <1>1, <3>1 DEF IInv, FindingInv, FoundInv, AbsentInv, PlainBlockIsFound, None
  <2>2. CASE sends # << >>
    BY <1>1, <1>2, <2>2, SameLog, JudgementStays
  <2> QED
    BY <2>1, <2>2
<1> QED
  BY <1>4, <1>5, <1>6, <1>7 DEF IInv

\* What a step on the sends may do when the log and the clock stand still.
LEMMA SendsStep ==
    ASSUME IInv, UNCHANGED <<world, reader, floor, reading, rejected, finding, clock>>,
           UNCHANGED log,
           inflight' \subseteq inflight, NEW i \in DOMAIN sends,
           NEW told \in {"pending", "unknown", "too_old", "refused", "done"},
           sends' = [sends EXCEPT ![i] = told],
           told = "too_old" => Expired(call),
           i \in inflight' => told \in {"pending", "unknown"}
    PROVE  IInv'
<1>1. /\ sends' \in Seq({"pending", "unknown", "too_old", "refused", "done"})
      /\ DOMAIN sends' = DOMAIN sends /\ sends' # << >>
      /\ \A j \in DOMAIN sends : sends'[j] = IF j = i THEN told ELSE sends[j]
  BY DEF IInv, TypeOK
<1>2. Expired(call)' = Expired(call)
  BY DEF Expired, call
<1>3. TypeOK'
  BY <1>1 DEF IInv, TypeOK
<1>4. LogInv' /\ RejectedInv'
  BY DEF IInv, LogInv, RejectedInv, call
<1>5. SendsInv'
  BY <1>1, <1>2 DEF IInv, TypeOK, SendsInv
<1>6. FindingInv' /\ PlainBlockIsFound'
  BY <1>1, <1>2, SameLog, JudgementStays DEF IInv, FindingInv, AbsentInv
<1> QED
  BY <1>3, <1>4, <1>5, <1>6 DEF IInv

LEMMA GiveUpKeeps == ASSUME IInv, NEW i \in DOMAIN sends, GiveUp(i) PROVE IInv'
BY SendsStep DEF GiveUp, known, judged

LEMMA LoseKeeps == ASSUME IInv, NEW i \in inflight, Lose(i) PROVE IInv'
<1>1. /\ UNCHANGED <<world, reader, floor, reading, rejected, finding, clock, log, sends>>
      /\ inflight' \subseteq inflight
  BY DEF Lose, known, judged
<1>2. TypeOK' /\ LogInv' /\ RejectedInv'
  BY <1>1 DEF IInv, TypeOK, LogInv, RejectedInv, call
<1>3. Expired(call)' = Expired(call)
  BY <1>1 DEF Expired, call
<1>4. SendsInv'
  BY <1>1, <1>3 DEF IInv, SendsInv
<1>5. FindingInv' /\ PlainBlockIsFound'
  BY <1>1, <1>3, SameLog, JudgementStays DEF IInv, FindingInv, AbsentInv
<1> QED
  BY <1>2, <1>4, <1>5 DEF IInv

LEMMA LandKeeps == ASSUME IInv, NEW i \in inflight, Land(i) PROVE IInv'
<1>1. /\ UNCHANGED <<world, reader, floor, reading, rejected, finding, clock>>
      /\ inflight' = inflight \ {i} /\ i \in DOMAIN sends
      /\ sends \in Seq({"pending", "unknown", "too_old", "refused", "done"})
  BY DEF Land, known, judged, IInv, TypeOK
<1>2. ASSUME NEW answer \in {"too_old", "refused", "done"}, Answered(i, answer), UNCHANGED log,
             answer = "too_old" => Expired(call)
      PROVE  IInv'
  <2>1. PICK told \in {answer, "unknown", sends[i]} :
           /\ sends' = [sends EXCEPT ![i] = told]
           /\ told = answer \/ told = "unknown" \/ told = sends[i]
    BY <1>2 DEF Answered
  <2>2. sends[i] = "too_old" => Expired(call)
    BY <1>1 DEF IInv, SendsInv
  <2>3. told \in {"pending", "unknown", "too_old", "refused", "done"}
    BY <1>1, <1>2, <2>1
  <2> QED
    BY <1>1, <1>2, <2>1, <2>2, <2>3, SendsStep
<1>3. ASSUME ~Expired(call), Answered(i, "done"),
             Writes(call, Regular(call) \cup Foreign(call) \cup Odd(call))
      PROVE  IInv'
  <2>1. PICK b \in Regular(call) \cup Foreign(call) \cup Odd(call) :
           log' = Append(log, [block |-> b, call |-> call, at |-> clock])
    BY <1>3 DEF Writes
  <2>2. Wrote([block |-> b, call |-> call, at |-> clock], world)
    BY <2>1, CallType, WrittenShapes DEF IInv, call
  <2>3. /\ IsSequence(log)' /\ Len(log') = Len(log) + 1 /\ DOMAIN log \subseteq DOMAIN log'
        /\ \A j \in DOMAIN log : log'[j] = log[j]
        /\ LogInv'
    BY <1>1, <2>1, <2>2, LogGrows
  <2>4. Len(log) \in Nat /\ DOMAIN log' = 1 .. Len(log')
    BY <2>3 DEF IInv, TypeOK, IsSequence
  <2>5. PICK told \in {"unknown", "done", sends[i]} : sends' = [sends EXCEPT ![i] = told]
    BY <1>3 DEF Answered
  <2>6. /\ sends' \in Seq({"pending", "unknown", "too_old", "refused", "done"})
        /\ DOMAIN sends' = DOMAIN sends /\ sends' # << >>
        /\ \A j \in DOMAIN sends : sends'[j] = IF j = i THEN told ELSE sends[j]
    BY <1>1, <2>5
  <2>7. Expired(call)' = Expired(call)
    BY <1>1 DEF Expired, call
  <2>8. TypeOK'
    BY <1>1, <2>3, <2>4, <2>6 DEF IInv, TypeOK
  <2>9. SendsInv' /\ RejectedInv'
    BY <1>1, <2>3, <2>5, <2>6, <2>7 DEF IInv, SendsInv, RejectedInv, call
  <2>10. finding.status # "absent"
    BY <1>1, <1>3 DEF IInv, FindingInv, AbsentInv
  <2>11. FindingInv' /\ PlainBlockIsFound'
    BY <1>1, <2>3, <2>4, <2>6, <2>10, JudgementStays
  <2> QED
    BY <2>3, <2>8, <2>9, <2>11 DEF IInv
<1> QED
  BY <1>2, <1>3 DEF Land

\* A step that moves neither the log nor the clock nor a send.
LEMMA QuietStep ==
    ASSUME IInv, UNCHANGED <<world, reader, clock, log, inflight, sends, floor>>,
           UNCHANGED <<rejected, finding>>,
           reading'.at \in Int, reading'.at <= clock, reading'.begun => sends # << >>,
           reading'.tooOld => Expired(call)
    PROVE  IInv'
<1>1. Expired(call)' = Expired(call)
  BY DEF Expired, call
<1>2. TypeOK' /\ LogInv' /\ SendsInv' /\ RejectedInv'
  BY <1>1 DEF IInv, TypeOK, LogInv, SendsInv, RejectedInv, call
<1>3. FindingInv' /\ PlainBlockIsFound'
  BY <1>1, SameLog, JudgementStays DEF IInv, FindingInv, AbsentInv
<1> QED
  BY <1>2, <1>3 DEF IInv

LEMMA BeginReadingKeeps == ASSUME IInv, BeginReading PROVE IInv'
<1>1. PICK at \in {NoTime, clock} :
         reading' = [begun |-> TRUE, at |-> at,
                     tooOld |-> \E i \in DOMAIN sends : sends[i] = "too_old"]
  BY DEF BeginReading
<1>2. at \in Int /\ at <= clock
  BY DEF IInv, TypeOK, NoTime
<1>3. (\E i \in DOMAIN sends : sends[i] = "too_old") => Expired(call)
  BY DEF IInv, SendsInv
<1>4. reading'.at = at
      /\ (reading'.tooOld => \E i \in DOMAIN sends : sends[i] = "too_old")
  BY <1>1
<1> QED
  BY <1>2, <1>3, <1>4, QuietStep DEF BeginReading, known

LEMMA FinishReadingKeeps == ASSUME IInv, FinishReading PROVE IInv'
<1>1. PICK length \in {Len(log)} \cup {n \in {0} : n < floor},
           missing \in {0} \cup (floor + 1 .. Len(log)) :
         LET m == MatchBlocks(ExpectedTransaction(call, reader.minting), length, missing)
         IN  finding' = [status |-> m.status, block |-> m.block, why |-> m.why,
                         read |-> length]
  BY DEF FinishReading
<1> DEFINE v == MatchBlocks(ExpectedTransaction(call, reader.minting), length, missing)
<1>2. Says(v, length)
  BY Judged DEF FinishReading
<1>3. /\ finding'.status = v.status /\ finding'.block = v.block /\ finding'.why = v.why
      /\ finding'.read = length
  BY <1>1
<1> HIDE DEF v
<1>4. /\ UNCHANGED <<world, reader, clock, log, inflight, sends, floor, rejected>>
      /\ reading' = NoReading /\ sends # << >>
  BY DEF FinishReading, known, IInv, TypeOK
<1>5. call' = call /\ Plain(call)' = Plain(call) /\ Typed(call)' = Typed(call)
      /\ Expired(call)' = Expired(call)
  BY <1>4, ShapesStay DEF Expired, call
<1>6. reading'.at = -1 /\ reading'.begun = FALSE /\ reading'.tooOld = FALSE
  BY <1>4 DEF NoReading, NoTime
<1>7. TypeOK' /\ LogInv' /\ SendsInv' /\ RejectedInv'
  BY <1>4, <1>5, <1>6 DEF IInv, TypeOK, LogInv, SendsInv, RejectedInv
<1>8. FindingInv'
  BY <1>2, <1>3, <1>4, <1>5 DEF Says, FindingInv, FoundInv, AbsentInv
<1>9. PlainBlockIsFound'
  <2> SUFFICES ASSUME /\ v.status \notin {None, "found"}
                      /\ v.why \notin {"shorter", "uncovered", "unmapped"}
                      /\ reader.minting = world.minting,
                      NEW i \in DOMAIN log, i \in floor + 1 .. length,
                      log[i].call = call
               PROVE  /\ log[i].block # Typed(call)
                      /\ log[i].block = Plain(call) => call.spender = call.from
    BY <1>3, <1>4, <1>5 DEF PlainBlockIsFound
  <2>1. /\ call.ts # NoNat
        /\ ~BlockMatches(log[i].block, ExpectedTransaction(call, world.minting))
    BY <1>2 DEF Says
  <2> QED
    BY <2>1, CallType, RegularMatches DEF IInv
<1> QED
  BY <1>7, <1>8, <1>9 DEF IInv

LEMMA RejectKeeps == ASSUME IInv, Reject PROVE IInv'
<1>1. /\ UNCHANGED <<world, reader, clock, log, inflight, sends, floor, reading>>
      /\ finding' = NoFinding /\ rejected' = rejected \cup {finding.block}
      /\ finding.block \in DOMAIN log /\ log[finding.block].call # call
  BY DEF Reject, known, IInv, FindingInv
<1>2. finding'.status = None /\ finding'.why = None
  BY <1>1 DEF NoFinding
<1>3. call' = call /\ Expired(call)' = Expired(call)
  BY <1>1 DEF Expired, call
<1>4. TypeOK' /\ LogInv' /\ SendsInv' /\ RejectedInv'
  BY <1>1, <1>3 DEF IInv, TypeOK, LogInv, SendsInv, RejectedInv
<1>5. FindingInv' /\ PlainBlockIsFound'
  BY <1>2 DEF FindingInv, FoundInv, AbsentInv, PlainBlockIsFound, None
<1> QED
  BY <1>4, <1>5 DEF IInv

-----------------------------------------------------------------------------
LEMMA InitIInv == Init => IInv
<1> SUFFICES ASSUME Init PROVE IInv
  OBVIOUS
<1>1. log = << >> /\ sends = << >> /\ inflight = {} /\ rejected = {} /\ clock = 1
      /\ world \in Worlds /\ reader.minting \in {world.minting, None}
  BY DEF Init, Stamp
<1>2. /\ finding.status = None /\ finding.why = None
      /\ reading.at = -1 /\ reading.begun = FALSE /\ reading.tooOld = FALSE
  BY DEF Init, NoFinding, NoReading, NoTime
<1>3. << >> \in Seq({}) /\ DOMAIN << >> = {}
  OBVIOUS
<1>4. TypeOK
  BY <1>1, <1>2, <1>3 DEF TypeOK, IsSequence
<1>5. LogInv /\ SendsInv /\ RejectedInv
  BY <1>1, <1>2, <1>3 DEF LogInv, SendsInv, RejectedInv
<1>6. FindingInv /\ PlainBlockIsFound
  BY <1>2 DEF FindingInv, FoundInv, AbsentInv, PlainBlockIsFound, None
<1> QED
  BY <1>4, <1>5, <1>6 DEF IInv

LEMMA NextIInv == IInv /\ [Next]_vars => IInv'
<1> SUFFICES ASSUME IInv, [Next]_vars PROVE IInv'
  OBVIOUS
<1>1. CASE Tick
  BY <1>1, TickKeeps
<1>2. CASE \E c \in world.rivals : OtherCall(c)
  BY <1>2, OtherCallKeeps
<1>3. CASE Send
  BY <1>3, SendKeeps
<1>4. CASE \E i \in DOMAIN sends : GiveUp(i)
  BY <1>4, GiveUpKeeps
<1>5. CASE \E i \in inflight : Land(i) \/ Lose(i)
  BY <1>5, LandKeeps, LoseKeeps
<1>6. CASE BeginReading \/ FinishReading \/ Reject
  BY <1>6, BeginReadingKeeps, FinishReadingKeeps, RejectKeeps
<1>7. CASE UNCHANGED vars
  <2>1. /\ UNCHANGED <<world, reader, clock, log, inflight, sends, floor>>
        /\ UNCHANGED <<rejected, finding, reading>>
    BY <1>7 DEF vars
  <2>2. reading'.at \in Int /\ reading'.at <= clock /\ (reading'.begun => sends # << >>)
        /\ (reading'.tooOld => Expired(call))
    BY <2>1 DEF IInv, TypeOK, SendsInv
  <2> QED
    BY <2>1, <2>2, QuietStep
<1> QED
  BY <1>1, <1>2, <1>3, <1>4, <1>5, <1>6, <1>7 DEF Next

LEMMA Invariance == Spec => []IInv
BY InitIInv, NextIInv, PTL DEF Spec

\* `matchBlocks` answers "found" of no block of another call, but for the twins its
\* comments name and the approval that the ledger's cap makes alike.
THEOREM FoundIsRight == Spec => []FoundIsTheCall
<1>1. IInv => FoundIsTheCall
  BY DEF IInv, FindingInv, FoundInv, FoundIsTheCall, Mine
<1> QED
  BY <1>1, Invariance, PTL

\* After "absent" the call neither has run since the first send nor ever runs, so a
\* caller may send a new call in its place.
THEOREM AbsenceIsForEver == Spec => []AbsentNeverRuns
<1>1. IInv => AbsentNeverRuns
  BY DEF IInv, FindingInv, AbsentInv, AbsentNeverRuns
<1> QED
  BY <1>1, Invariance, PTL

\* No other block hides the call's: a regular one, with every field there, is found.
THEOREM RegularBlockIsFound == Spec => []PlainBlockIsFound
<1>1. IInv => PlainBlockIsFound
  BY DEF IInv
<1> QED
  BY <1>1, Invariance, PTL
=============================================================================
