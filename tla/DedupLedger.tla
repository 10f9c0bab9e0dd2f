----------------------------- MODULE DedupLedger -----------------------------
(***************************************************************************)
(* The canister a tool layer sends to, and the network between: outside    *)
(* the repository, modelled from what its callers and the profile's        *)
(* `idempotency` tag (`replay_same_payload`) say of it.  A message may be  *)
(* lost, arrive after its sender stopped waiting, or arrive twice sent; a  *)
(* stamped call executes at most once while its stamp is in the window,    *)
(* and is refused outside it.  A call without a stamp executes each time.  *)
(***************************************************************************)
EXTENDS Integers, Sequences, FiniteSets

CONSTANTS
    Window,     \* how long after its stamp a call may execute
    NoStamp,    \* the stamp of a call without one: `undefined`
    MaxClock    \* bound of the model: the last instant

VARIABLES
    clock,      \* the canister's time
    executed,   \* the calls executed, in order: their previews
    inflight    \* messages sent and not yet arrived: [send, preview, stamp]

ledger == <<clock, executed, inflight>>

ASSUME WindowAssumption == Window \in Nat /\ MaxClock \in Nat /\ NoStamp \notin Int

\* Late enough for stamps below it.
Start == Window + 4

LedgerInit ==
    /\ clock = Start
    /\ executed = << >>
    /\ inflight = {}

Expired(stamp) == stamp + Window < clock
Early(stamp) == stamp > clock
HasRun(stamp) == stamp # NoStamp /\ \E i \in DOMAIN executed : executed[i].stamp = stamp

\* What a message can be answered with, and whether it runs.  A reject with
\* code 1 to 3 ("rejected") proves the call did not run, one with 4 or 5
\* ("trapped") proves nothing.
Ran(reply) == [reply |-> reply, ran |-> TRUE]
Refused(reply) == [reply |-> reply, ran |-> FALSE]

Verdicts(stamp) ==
    IF stamp # NoStamp /\ Expired(stamp) THEN {Refused("too_old")}
    ELSE IF stamp # NoStamp /\ Early(stamp) THEN {Refused("in_future")}
    ELSE IF HasRun(stamp) THEN {Refused("already_done")}
    ELSE {Ran("success"), Ran("trapped"), Refused("retry_same"), Refused("fail")}

Outcomes(stamp) == Verdicts(stamp) \cup {Refused("rejected"), Refused("trapped")}

Arrives(message, outcome) ==
    /\ inflight' = inflight \ {message}
    /\ executed' = IF outcome.ran
                   THEN Append(executed, [preview |-> message.preview, stamp |-> message.stamp])
                   ELSE executed
    /\ UNCHANGED clock

Lost(message) ==
    /\ inflight' = inflight \ {message}
    /\ UNCHANGED <<clock, executed>>

Sent(message) ==
    /\ inflight' = inflight \cup {message}
    /\ UNCHANGED <<clock, executed>>

Passes ==
    /\ clock < MaxClock
    /\ clock' = clock + 1
    /\ UNCHANGED <<executed, inflight>>

\* A call that has not run, and that no message can make run any more.
NeverRuns(preview, stamp) ==
    /\ \A i \in DOMAIN executed : executed[i].preview # preview
    /\ \/ \A message \in inflight : message.preview # preview
       \/ stamp # NoStamp /\ Expired(stamp)
=============================================================================
