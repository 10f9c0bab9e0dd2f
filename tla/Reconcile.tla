------------------------------- MODULE Reconcile -------------------------------
(***************************************************************************)
(* Consumer rule 1: after an unknown outcome, and before any new attempt,  *)
(* the caller looks for its call in the ledger's ICRC-3 log and judges the *)
(* blocks written since the first send (`matchBlocks`).                    *)
(*                                                                         *)
(* The ledger is outside the repository: it executes a stamped call at     *)
(* most once and only in its window, and writes each call in one of the    *)
(* shapes the package's README, comments and tests name, among the calls   *)
(* and blocks of others.  A send may be lost, land after its sender gave   *)
(* up, or land twice; its answer may be lost.  The caller takes `floor`    *)
(* before its first send, and reads a clock before it reads the log.       *)
(***************************************************************************)
EXTENDS Integers, Sequences, FiniteSets, TLC

CONSTANTS
    Worlds,     \* [call, rivals, minting]: our call, the other calls that reach
                \* the ledger, and the ledger's minting account or None
    Window,     \* how long after its stamp a call may execute: `windowNs`
    MaxClock,   \* bound of the model: the ledger's last instant
    MaxTraffic  \* bound: sends of our call and blocks of other calls

VARIABLES
    clock,      \* the ledger's time
    log,        \* its blocks: [block, call, at]
    inflight,   \* sends that may still land
    world,      \* one of Worlds
    reader,     \* [minting, clock, window]: what the caller knows of the ledger
    floor,      \* the log length before the first send, or None
    sends,      \* what the caller knows of each send
    reading,    \* a reading begun: the clock and the answers it starts from
    rejected,   \* blocks a person said are not the original: `notOriginal`
    finding     \* the last judgement, and the length of the log it read

vars == <<clock, log, inflight, world, reader, floor, sends, reading,
          rejected, finding>>

\* A field that is not there, and one in a shape the module cannot read: of a
\* text, a blob or an account, and of a Nat.
None == "none"
Bad == "bad"
NoNat == -1
BadNat == -2
Stamp == 1              \* the stamp of every call that carries one
U64Max == 2             \* where the ledger caps an approval; 3 is above it

\* A call of one of the three methods: a transfer and an approval are made from an
\* account of their caller, a transfer_from by a spender, which is one of its
\* caller's; only an approval has an expiry and no recipient.
Methods == {"icrc1_transfer", "icrc2_approve", "icrc2_transfer_from"}
Payer(c) == IF c.method = "icrc2_transfer_from" THEN c.spender ELSE c.from
IsCall(c) ==
    /\ c = [method |-> c.method, caller |-> c.caller, from |-> c.from, to |-> c.to,
            spender |-> c.spender, ts |-> c.ts, amt |-> c.amt, memo |-> c.memo,
            fee |-> c.fee, expires_at |-> c.expires_at]
    /\ c.method \in Methods
    /\ c.ts \in Nat \cup {NoNat} /\ c.amt \in Nat
    /\ c.fee \in Nat \cup {NoNat} /\ c.expires_at \in Nat \cup {NoNat}
    /\ c.from \notin {None, Bad} /\ c.to # Bad /\ c.spender # Bad
    /\ c.to = None <=> c.method = "icrc2_approve"
    /\ c.spender = None <=> c.method = "icrc1_transfer"
    /\ c.method # "icrc2_approve" => c.expires_at = NoNat

ASSUME ReconcileAssumption ==
    /\ \A w \in Worlds :
         LET calls == {w.call} \cup w.rivals
         IN  /\ w.call \notin w.rivals /\ w.minting # Bad
             /\ \A c \in calls : IsCall(c)
             /\ \A c, d \in calls : Payer(c) = Payer(d) => c.caller = d.caller
    /\ Window \in Nat /\ MaxClock \in Nat /\ MaxTraffic \in Nat

-----------------------------------------------------------------------------
\* The block a call is expected to leave.

call == world.call
NoBlock == [op |-> None]

\* A transfer from the minting account is a mint, one to it a burn.
Operation(c, minting) ==
    IF c.method = "icrc2_approve" THEN "approve"
    ELSE IF c.from = minting THEN "mint"
    ELSE IF c.to = minting THEN "burn" ELSE "xfer"

\* `from` of a transfer or an approval, and `spender` of a transfer_from, is an
\* account of the caller.  A call without a stamp, or with an account or a memo
\* that is not bytes, maps to no block.
ExpectedTransaction(c, minting) ==
    LET op == Operation(c, minting)
    IN  IF c.ts = NoNat THEN NoBlock
        ELSE [op |-> op, ts |-> c.ts, amt |-> c.amt, memo |-> c.memo, fee |-> c.fee,
              expires_at |-> c.expires_at,
              btype |-> IF op # "xfer" THEN None
                        ELSE IF c.method = "icrc1_transfer" THEN "1xfer" ELSE "2xfer",
              from |-> IF op = "mint" THEN None ELSE c.from,
              to |-> IF op = "burn" THEN None ELSE c.to,
              spender |-> c.spender,
              spenderOptional |-> c.method = "icrc2_transfer_from" /\ c.spender = c.from]

-----------------------------------------------------------------------------
\* The ledger (external): the shapes in which it may write a call.

Btype(c) ==
    LET op == Operation(c, world.minting)
    IN  CASE op = "xfer" -> (IF c.method = "icrc1_transfer" THEN "1xfer" ELSE "2xfer")
          [] op = "mint" -> "1mint"
          [] op = "burn" -> "1burn"
          [] OTHER -> "2approve"

Plain(c) ==
    LET op == Operation(c, world.minting)
    IN  [btype |-> None, op |-> op, ts |-> c.ts, amt |-> c.amt, fee |-> c.fee,
         memo |-> c.memo, expires_at |-> c.expires_at,
         from |-> IF op = "mint" THEN None ELSE c.from,
         to |-> IF op = "burn" THEN None ELSE c.to,
         spender |-> c.spender]
Typed(c) == [Plain(c) EXCEPT !.btype = Btype(c), !.op = None]

\* `spender` is there for a transfer_from, except that a spender's own, a mint,
\* a burn and any block without a btype may leave it out; an `xfer` block of a
\* transfer may carry the account itself there.
Spenders(c, btype) ==
    IF c.method = "icrc1_transfer"
    THEN {None} \cup (IF Operation(c, world.minting) = "xfer" THEN {c.from} ELSE {})
    ELSE IF c.method = "icrc2_transfer_from" /\ (c.spender = c.from \/ btype # "2xfer")
         THEN {c.spender, None}
    ELSE {c.spender}

Capped(c, b) ==
    IF c.method = "icrc2_approve" /\ c.amt > U64Max THEN [b EXCEPT !.amt = U64Max] ELSE b

\* Another standard's block type over the same transaction, and fields in
\* shapes the module cannot read.
Foreign(c) == {[Plain(c) EXCEPT !.btype = Bad]}
Odd(c) ==
    {[Plain(c) EXCEPT !.btype = "other"], [Plain(c) EXCEPT !.ts = BadNat],
     [Plain(c) EXCEPT !.fee = BadNat]}
    \cup {[Plain(c) EXCEPT !.from = Bad] : m \in {Operation(c, world.minting)} \ {"mint"}}

Regular(c) ==
    {[Plain(c) EXCEPT !.spender = s] : s \in Spenders(c, None)}
    \cup {[Typed(c) EXCEPT !.spender = s] : s \in Spenders(c, Btype(c))}
    \cup {Capped(c, Plain(c)), Capped(c, Typed(c))}

Expired(c) == c.ts # NoNat /\ clock > c.ts + Window
HasRun(c) == c.ts # NoNat /\ \E i \in DOMAIN log : log[i].call = c

Writes(c, shapes) ==
    \E b \in shapes : log' = Append(log, [block |-> b, call |-> c, at |-> clock])

-----------------------------------------------------------------------------
\* ICRC-3 values: a Nat, a Text, a Blob and an account read as themselves, or
\* as None or Bad.  `undefined` is Bad: it equals nothing that is expected.

BtypeOp == [x \in {"1xfer", "2xfer", "1mint", "1burn", "2approve"} |->
                CASE x \in {"1xfer", "2xfer"} -> "xfer"
                  [] x = "1mint" -> "mint"
                  [] x = "1burn" -> "burn"
                  [] OTHER -> "approve"]

\* A btype is the operation when there is one, else the legacy op.
OpOf(b) ==
    IF b.btype = None THEN (IF b.op = None THEN Bad ELSE b.op)
    ELSE IF b.btype \in DOMAIN BtypeOp THEN BtypeOp[b.btype]
    ELSE IF b.btype = Bad THEN Bad ELSE "btype:other"

Readable(b) == OpOf(b) # Bad /\ b.amt \notin {NoNat, BadNat} /\ b.ts # BadNat

\* Where only the btype tells the caller's method: a transfer's from a
\* transfer_from's, and a spender's own transfer_from from a transfer.
BtypeFits(b, expected) ==
    /\ b.btype \in {None, Bad} \/ expected.btype = None \/ b.btype = expected.btype
    /\ expected.op = "xfer" /\ expected.spenderOptional => b.btype = "2xfer"

SideMatches_WantedOnly(b, expected, side) ==
    \/ expected[side] = None
    \/ side = "spender" /\ expected.spenderOptional /\ b.spender = None /\ b.btype = "2xfer"
    \/ b[side] = expected[side]
SideMatches(b, expected, side) ==
    \/ side = "spender" /\ expected.spenderOptional /\ b.spender = None /\ b.btype = "2xfer"
    \/ b[side] = expected[side]

BlockMatches(b, expected) ==
    /\ OpOf(b) = expected.op
    /\ BtypeFits(b, expected)
    /\ b.ts = expected.ts /\ b.amt = expected.amt /\ b.fee = expected.fee
    /\ b.memo = expected.memo
    /\ \A side \in {"from", "to", "spender"} : SideMatches(b, expected, side)
    /\ expected.op = "approve" => b.expires_at = expected.expires_at

\* A block of the call's own operation to another recipient or spender.
NamesAnother(b, expected) ==
    /\ OpOf(b) = expected.op
    /\ BtypeFits(b, expected)
    /\ \E side \in {"to", "spender"} :
          expected[side] # None /\ b[side] \notin {None, Bad, expected[side]}

\* A block with the call's stamp and amount, not from another account: it may
\* be the original in a shape the mapping does not know.
LooksLikeIt_UnreadSource(b, expected) ==
    /\ b.ts = expected.ts
    /\ b.amt = expected.amt \/ (expected.amt > U64Max /\ b.amt = U64Max)
    /\ b.from = None \/ expected.from = None \/ b.from = expected.from
    /\ ~NamesAnother(b, expected)
LooksLikeIt(b, expected) ==
    /\ b.ts = expected.ts
    /\ b.amt = expected.amt \/ (expected.amt > U64Max /\ b.amt = U64Max)
    /\ b.from \in {None, Bad} \/ expected.from = None \/ b.from = expected.from
    /\ ~NamesAnother(b, expected)

-----------------------------------------------------------------------------
\* `matchBlocks`: `length` blocks of the log, `missing` an index that no page
\* held (or None), block i of the log being index i - 1.

Found(i) == [status |-> "found", block |-> i, why |-> "match"]
Absent(by) == [status |-> "absent", block |-> 0, why |-> by]
NotYet == [status |-> "not_yet", block |-> 0, why |-> "open"]
Unreadable(why) == [status |-> "unreadable", block |-> 0, why |-> why]
Lookalike(i) == [status |-> "unreadable", block |-> i, why |-> "lookalike"]

NoTime == -1
Highest(indices) == CHOOSE i \in indices : \A j \in indices : j <= i

InFlight == \E i \in DOMAIN sends : sends[i] \in {"pending", "unknown"}

\* The clock a window is held against: the ledger's, else the later of a time
\* it is at least and of the tip block's.
TipTime(length) == IF length > floor THEN log[length].at ELSE NoTime
Clock(length) ==
    IF reader.clock = "ledger" THEN reading.at
    ELSE IF reading.at >= TipTime(length) THEN reading.at ELSE TipTime(length)

\* No block is the call's: nothing can land any more, or not yet.
NoBlockLeft(c, length) ==
    IF ~InFlight THEN Absent("answered")
    ELSE IF reading.tooOld THEN Absent("too_old")
    ELSE IF ~reader.window THEN NotYet
    ELSE IF Clock(length) > c.ts + Window THEN Absent("window_passed") ELSE NotYet

MatchBlocks_ReadableFirst(expected, length, missing) ==
    LET ids == floor + 1 .. length
        matching == {i \in ids : BlockMatches(log[i].block, expected)}
        alike == {i \in ids \ rejected : LooksLikeIt(log[i].block, expected)}
    IN  IF expected = NoBlock THEN Unreadable("unmapped")
        ELSE IF floor > length THEN Unreadable("shorter")
        ELSE IF missing \in ids THEN Unreadable("uncovered")
        ELSE IF \E i \in ids : ~Readable(log[i].block) THEN Unreadable("shape")
        ELSE IF matching # {} THEN Found(Highest(matching))
        ELSE IF alike # {} THEN Lookalike(Highest(alike))
        ELSE NoBlockLeft(expected, length)
MatchBlocks(expected, length, missing) ==
    LET ids == floor + 1 .. length
        matching == {i \in ids : BlockMatches(log[i].block, expected)}
        alike == {i \in ids \ rejected : LooksLikeIt(log[i].block, expected)}
    IN  IF expected = NoBlock THEN Unreadable("unmapped")
        ELSE IF floor > length THEN Unreadable("shorter")
        ELSE IF missing \in ids THEN Unreadable("uncovered")
        ELSE IF matching # {} THEN Found(Highest(matching))
        ELSE IF \E i \in ids : ~Readable(log[i].block) THEN Unreadable("shape")
        ELSE IF alike # {} THEN Lookalike(Highest(alike))
        ELSE NoBlockLeft(expected, length)

-----------------------------------------------------------------------------
NoFloor == -1
NoFinding == [status |-> None, block |-> 0, why |-> None, read |-> 0]
NoReading == [begun |-> FALSE, at |-> NoTime, tooOld |-> FALSE]

Init ==
    /\ clock = Stamp /\ log = << >> /\ inflight = {}
    /\ world \in Worlds
    /\ reader \in {r \in [minting : {world.minting, None}, window : BOOLEAN,
                         clock : {"ledger", "host"}] : r.window \/ r.clock = "ledger"}
    /\ floor = NoFloor /\ sends = << >> /\ reading = NoReading
    /\ rejected = {} /\ finding = NoFinding

known == <<world, reader>>
judged == <<floor, reading, rejected, finding>>

Tick ==
    /\ clock < MaxClock
    /\ clock' = clock + 1
    /\ UNCHANGED <<known, judged, log, inflight, sends>>

Traffic == Len(sends) + Cardinality({i \in DOMAIN log : log[i].call # call})

\* A call of someone else, or another call of ours.
OtherCall(c) ==
    /\ Traffic < MaxTraffic
    /\ ~HasRun(c) /\ ~Expired(c) /\ (c.ts # NoNat => clock >= c.ts)
    /\ Writes(c, Regular(c) \cup Foreign(c))
    /\ UNCHANGED <<known, judged, clock, inflight, sends>>

Over == finding.status \in {"found", "absent"} \/ \E i \in DOMAIN sends : sends[i] = "done"

\* The floor before the first send; then the same bytes again, once the last
\* send was answered or given up.
Send ==
    /\ ~Over /\ ~reading.begun
    /\ Traffic < MaxTraffic
    /\ \A i \in DOMAIN sends : sends[i] \notin {"pending", "too_old"}
    /\ sends' = Append(sends, "pending")
    /\ inflight' = inflight \cup {Len(sends) + 1}
    /\ floor' = IF sends = << >> THEN Len(log) ELSE floor
    /\ UNCHANGED <<known, clock, log, reading, rejected, finding>>

GiveUp(i) ==
    /\ sends[i] = "pending"
    /\ sends' = [sends EXCEPT ![i] = "unknown"]
    /\ UNCHANGED <<known, judged, clock, log, inflight>>

Answered(i, answer) ==
    \E told \in IF sends[i] = "pending" THEN {answer, "unknown"} ELSE {sends[i]} :
        sends' = [sends EXCEPT ![i] = told]

Land(i) ==
    /\ i \in inflight
    /\ inflight' = inflight \ {i}
    /\ \/ Expired(call) /\ Answered(i, "too_old") /\ UNCHANGED log
       \/ ~Expired(call) /\ HasRun(call) /\ Answered(i, "done") /\ UNCHANGED log
       \/ /\ ~Expired(call) /\ ~HasRun(call)
          /\ \/ /\ Writes(call, Regular(call) \cup Foreign(call) \cup Odd(call))
                /\ Answered(i, "done")
             \/ Answered(i, "refused") /\ UNCHANGED log
    /\ UNCHANGED <<known, judged, clock>>

Lose(i) ==
    /\ i \in inflight
    /\ inflight' = inflight \ {i}
    /\ UNCHANGED <<known, judged, clock, log, sends>>

\* The clock and the answers first: `stampExpired` only when the blocks are
\* read after it arrived.  A host's time is one the ledger's clock is at
\* least, or there is none.
BeginReading ==
    /\ sends # << >> /\ ~Over /\ ~reading.begun
    /\ \A i \in DOMAIN sends : sends[i] # "pending"
    /\ finding.status \in {None, "not_yet"} \/ finding.why \in {"shorter", "uncovered"}
    /\ \E at \in IF reader.clock = "ledger" THEN {clock} ELSE {NoTime, clock} :
          reading' = [begun |-> TRUE, at |-> at,
                      tooOld |-> \E i \in DOMAIN sends : sends[i] = "too_old"]
    /\ UNCHANGED <<known, clock, log, inflight, sends, floor, rejected, finding>>

\* The blocks: a replica behind the floor shows a shorter log, and an archive
\* that does not answer leaves a hole.
FinishReading ==
    /\ reading.begun
    /\ \E length \in {Len(log)} \cup {n \in {0} : n < floor},
          missing \in {0} \cup (floor + 1 .. Len(log)) :
          LET m == MatchBlocks(ExpectedTransaction(call, reader.minting), length, missing)
          IN  finding' = [status |-> m.status, block |-> m.block, why |-> m.why,
                          read |-> length]
    /\ reading' = NoReading
    /\ UNCHANGED <<known, clock, log, inflight, sends, floor, rejected>>

\* A person who knows says that a lookalike is another call.
Reject ==
    /\ finding.why = "lookalike"
    /\ log[finding.block].call # call
    /\ rejected' = rejected \cup {finding.block}
    /\ finding' = NoFinding
    /\ UNCHANGED <<known, clock, log, inflight, sends, floor, reading>>

Next ==
    \/ Tick
    \/ \E c \in world.rivals : OtherCall(c)
    \/ Send
    \/ \E i \in DOMAIN sends : GiveUp(i)
    \/ \E i \in inflight : Land(i) \/ Lose(i)
    \/ BeginReading \/ FinishReading \/ Reject

Spec == Init /\ [][Next]_vars

-----------------------------------------------------------------------------
\* A block that is found was left by the call; or, where it has neither a
\* `spender` nor a transfer's btype, by a twin of another spender that moved the
\* same amount between the same accounts; or by an approval of more than the cap,
\* where the call's is the cap.
FoundIsTheCall ==
    finding.status = "found" =>
        LET entry == log[finding.block]
        IN  /\ finding.block > floor
            /\ \/ entry.call = call
               \/ /\ entry.block.spender = None
                  /\ entry.block.btype \notin {"1xfer", "2xfer"}
                  /\ entry.call = [call EXCEPT !.method = entry.call.method,
                                               !.spender = entry.call.spender,
                                               !.caller = entry.call.caller]
               \/ /\ call.method = "icrc2_approve" /\ call.amt = U64Max
                  /\ entry.call.amt > U64Max
                  /\ entry.call = [call EXCEPT !.amt = entry.call.amt]

\* An absent call has not run since the first send, and never will: a new call
\* in its place cannot be a second one.
AbsentNeverRuns ==
    finding.status = "absent" =>
        \A i \in DOMAIN log : i > floor => log[i].call # call

\* A call that ran and was written in one of the two regular shapes, every field
\* there, is found, whatever else is in the log; but a spender's own
\* transfer_from needs the btype.
PlainBlockIsFound ==
    /\ finding.status \notin {None, "found"}
    /\ finding.why \notin {"shorter", "uncovered", "unmapped"}
    /\ reader.minting = world.minting
    => \A i \in DOMAIN log :
          i \in floor + 1 .. finding.read /\ log[i].call = call
          => log[i].block # Typed(call)
             /\ (log[i].block = Plain(call) => call.spender = call.from)
=============================================================================
