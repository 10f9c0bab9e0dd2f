------------------------------ MODULE ToolLayer ------------------------------
(***************************************************************************)
(* The tool layer an agent calls: prepare an update, show the person its   *)
(* preview, commit it.  `createToolLayer` is single-threaded, but every    *)
(* host function it awaits (clock, encode, confirm, call, reconcile) lets  *)
(* another call of the agent run, so a handler is one action from each     *)
(* await to the next.                                                      *)
(*                                                                         *)
(* One identity: all calls prepare the same canister, method and           *)
(* arguments, which is where they interact.  A host function that rejects  *)
(* is an action of its own.                                                *)
(***************************************************************************)
EXTENDS DedupLedger

CONSTANTS
    Callers,             \* calls the agent can have open at once
    Stampings,           \* methods explored: with an idempotency stamp (TRUE), without
    Management,          \* the canister is aaaaa-aa
    HasReconcile,        \* a reconcile hook was given
    HostMayFail,         \* the host's encoder and clock may reject
    Skew,                \* how far ahead of the canister the clock reading can be
    MaxAnsweredUnknown,  \* MAX_ANSWERED_UNKNOWN
    MaxRetrySame,        \* MAX_RETRY_SAME
    MaxIntents,          \* bounds of the model: intents,
    MaxRestamps,         \* previews beyond one per intent,
    MaxSends             \* and messages

VARIABLES
    stamped,    \* the method has an idempotency stamp
    intents,    \* every intent made, in order
    entry,      \* the one `intents` holds for the key, 0 for none
    previews,   \* every preview made: [intent, stamp, superseded]
    taken,      \* stamps handed out
    sent,       \* stamps sent
    sends,      \* messages sent so far
    call,       \* what each caller awaits
    woken,      \* callers whose awaited preparation ended, not resumed yet
    told        \* what the last step answered

layer == <<intents, entry, previews, taken, sent, sends>>
vars == <<stamped, ledger, layer, call, woken, told>>

ASSUME ToolLayerAssumption ==
    /\ Stampings \subseteq BOOLEAN /\ Management \in BOOLEAN
    /\ HasReconcile \in BOOLEAN /\ HostMayFail \in BOOLEAN
    /\ Skew \in Nat /\ MaxAnsweredUnknown \in Nat /\ MaxRetrySame \in Nat \ {0}
    /\ MaxIntents \in Nat /\ MaxRestamps \in Nat /\ MaxSends \in Nat

-----------------------------------------------------------------------------
Idle == [at |-> "idle", intent |-> 0, preview |-> 0, previous |-> 0,
         clock |-> 0, stamp |-> 0, send |-> 0, reply |-> "none"]
Silent == [outcome |-> "none", intent |-> 0]

NewIntent == [state |-> "preparing", preview |-> 0, hadUnknown |-> FALSE,
              answeredUnknown |-> 0, retriedSame |-> 0, attempts |-> 0, busy |-> FALSE]

\* Microtasks: the callers a settled promise woke run before anything else.
Turn == woken = {}
At(c, place) == Turn /\ call[c].at = place

Awaits(c, at) == call' = [call EXCEPT ![c] = at] /\ told' = Silent
Answers(c, outcome, i) ==
    /\ call' = [call EXCEPT ![c] = Idle]
    /\ told' = [outcome |-> outcome, intent |-> i]

\* The intent and the preview a caller works on.
Mine(c) == intents[call[c].intent]
MyPreview(c) == previews[call[c].preview]

Becomes(i, intent) == intents' = [intents EXCEPT ![i] = intent]
\* The end of a commit: the intent is free again.
Ends(c, intent, outcome) ==
    /\ Becomes(call[c].intent, [intent EXCEPT !.busy = FALSE])
    /\ Answers(c, outcome, call[c].intent)

\* The highest stamp sent is the floor; a stamp handed out is never reused.
HighestOf(S) == CHOOSE s \in S : \A t \in S : t <= s
LowestOf(S) == CHOOSE s \in S : \A t \in S : s <= t
Floored(now) == IF sent # {} /\ now <= HighestOf(sent) THEN HighestOf(sent) + 1 ELSE now
Untaken(from, down) ==
    IF down THEN HighestOf({s \in (from - Cardinality(taken))..from : s \notin taken})
    ELSE LowestOf({s \in from..(from + Cardinality(taken)) : s \notin taken})
StampFor(now, cap) ==
    LET floored == Floored(now)
        capped == cap # {} /\ HighestOf(cap) < floored
    IN  IF ~stamped THEN NoStamp
        ELSE Untaken(IF capped THEN HighestOf(cap) ELSE floored, capped)

Handed(stamp) == taken' = IF stamped THEN taken \cup {stamp} ELSE taken

Unsettled == {"prepared", "unknown", "reconcile"}

-----------------------------------------------------------------------------
Init ==
    /\ stamped \in Stampings
    /\ LedgerInit
    /\ intents = << >>
    /\ entry = 0
    /\ previews = << >>
    /\ taken = {} /\ sent = {} /\ sends = 0
    /\ call = [c \in Callers |-> Idle]
    /\ woken = {}
    /\ told = Silent

\* prepare: the clock and the names are read before anything else.
Prepare(c) ==
    /\ At(c, "idle")
    /\ Len(intents) + Cardinality({d \in Callers : call[d].at \in {"clocked", "waiting"}})
         < MaxIntents
    /\ \E now \in clock..(clock + Skew) :
          Awaits(c, [Idle EXCEPT !.at = "clocked", !.clock = now])
    /\ UNCHANGED <<ledger, layer, woken>>

\* A preparation that found nothing to return: registered before its await.
Register(c) ==
    LET stamp == StampFor(call[c].clock, {})
    IN  /\ intents' = Append(intents, NewIntent)
        /\ entry' = Len(intents) + 1
        /\ Handed(stamp)
        /\ Awaits(c, [call[c] EXCEPT !.at = "encoding", !.intent = Len(intents) + 1,
                                     !.previous = entry, !.stamp = stamp])
        /\ UNCHANGED <<previews, sent, sends>>

\* The same preview again, with the warning an unknown outcome left.
Repeats(c) ==
    /\ Answers(c, IF intents[entry].state = "reconcile" THEN "reconcile"
                  ELSE IF intents[entry].state = "unknown" \/ intents[entry].hadUnknown
                  THEN "repeated_unknown" ELSE "repeated", entry)
    /\ UNCHANGED layer

Unprepared(state) == state \in {"preparing", "done", "settled"}
Awaited_Never(intent) == FALSE
Awaited(intent) == intent.state = "preparing"

\* A preparation put back by the failure of a later one may itself have failed:
\* awaiting it ends at once, before anything else.
Pending(i) == \E c \in Callers : call[c].at = "encoding" /\ call[c].intent = i

Look(c) ==
    /\ At(c, "clocked")
    /\ IF entry = 0 THEN Register(c)
       ELSE IF Awaited(intents[entry]) /\ Pending(entry)
       THEN Awaits(c, [call[c] EXCEPT !.at = "waiting", !.intent = entry]) /\ UNCHANGED layer
       ELSE IF intents[entry].state \in Unsettled THEN Repeats(c)
       ELSE Register(c)
    /\ UNCHANGED <<ledger, woken>>

\* The preparation it waited for ended; it looks once more, and waits no more.
LookAgain(c) ==
    /\ c \in woken
    /\ woken' = woken \ {c}
    /\ IF entry # 0 /\ ~Unprepared(intents[entry].state) THEN Repeats(c) ELSE Register(c)
    /\ UNCHANGED ledger

WaitingOn_None(i) == {}
WaitingOn(i) == {c \in Callers : call[c].at = "waiting" /\ call[c].intent = i}

\* makePreview, once the bytes are encoded.
Made(i, stamp) == Append(previews, [intent |-> i, stamp |-> stamp, superseded |-> FALSE])

Prepared(c) ==
    /\ At(c, "encoding")
    /\ previews' = Made(call[c].intent, call[c].stamp)
    /\ Becomes(call[c].intent, [Mine(c) EXCEPT !.preview = Len(previews) + 1, !.state = "prepared"])
    /\ woken' = WaitingOn(call[c].intent)
    /\ Answers(c, "prepared", call[c].intent)
    /\ UNCHANGED <<ledger, entry, taken, sent, sends>>

NotPrepared(c) ==
    /\ HostMayFail
    /\ At(c, "encoding")
    /\ entry' = call[c].previous
    /\ woken' = WaitingOn(call[c].intent)
    /\ Answers(c, "error", call[c].intent)
    /\ UNCHANGED <<ledger, intents, previews, taken, sent, sends>>

-----------------------------------------------------------------------------
\* commit

\* Answered without a send: the preview was replaced, or its intent is over
\* or being committed.
Spurned(p) ==
    LET intent == intents[previews[p].intent]
    IN  previews[p].superseded \/ intent.state \in {"done", "settled"} \/ intent.busy

CommitAnswered(c, p) ==
    /\ At(c, "idle")
    /\ Spurned(p)
    /\ Answers(c, IF ~previews[p].superseded /\ intents[previews[p].intent].state = "done"
                  THEN "already_done" ELSE "error", previews[p].intent)
    /\ UNCHANGED <<ledger, layer, woken>>

\* runReconcile: held until the read-back settles it.  Without a stamp or a
\* hook nothing is awaited.
Held(intent) == [intent EXCEPT !.state = "reconcile"]

HoldsFor(c, i, intent) ==
    LET held == Held(intent)
    IN  IF stamped /\ HasReconcile
        THEN /\ Becomes(i, held)
             /\ Awaits(c, [Idle EXCEPT !.at = "reconciling", !.intent = i, !.preview = held.preview])
        ELSE /\ Becomes(i, [held EXCEPT !.busy = FALSE])
             /\ Answers(c, "reconcile", i)

Commit(c, p) ==
    /\ At(c, "idle")
    /\ ~Spurned(p)
    /\ LET i == previews[p].intent
           busy == [intents[i] EXCEPT !.busy = TRUE]
       IN  IF busy.state = "reconcile" THEN HoldsFor(c, i, busy)
           ELSE /\ Becomes(i, busy)
                /\ Awaits(c, [Idle EXCEPT !.at = "confirming", !.intent = i, !.preview = p])
    /\ UNCHANGED <<ledger, entry, previews, taken, sent, sends, woken>>

\* A decline settles an intent no attempt was made of.
Declined_Settles(intent) == [intent EXCEPT !.state = "settled"]
Declined(intent) == IF intent.attempts = 0 THEN [intent EXCEPT !.state = "settled"] ELSE intent

Decline(c) ==
    /\ At(c, "confirming")
    /\ Ends(c, Declined(Mine(c)), IF Mine(c).hadUnknown THEN "declined_unknown" ELSE "declined")
    /\ UNCHANGED <<ledger, entry, previews, taken, sent, sends, woken>>

Freed_NotOnThrow(intent) == intent
Freed(intent) == [intent EXCEPT !.busy = FALSE]

ConfirmThrows(c) ==
    /\ At(c, "confirming")
    /\ Becomes(call[c].intent, Freed(Mine(c)))
    /\ Answers(c, "error", call[c].intent)
    /\ UNCHANGED <<ledger, entry, previews, taken, sent, sends, woken>>

Approve(c) ==
    /\ At(c, "confirming")
    /\ sends < MaxSends
    /\ Sent([send |-> sends + 1, preview |-> call[c].preview, stamp |-> MyPreview(c).stamp])
    /\ sends' = sends + 1
    /\ sent' = IF stamped THEN sent \cup {MyPreview(c).stamp} ELSE sent
    /\ Becomes(call[c].intent, [Mine(c) EXCEPT !.attempts = @ + 1])
    /\ Awaits(c, [call[c] EXCEPT !.at = "sending", !.send = sends + 1])
    /\ UNCHANGED <<entry, previews, taken, woken>>

\* The message arrives, whoever still waits for its answer.
Arrive(message) ==
    /\ Turn
    /\ \E outcome \in Outcomes(message.stamp) :
          /\ Arrives(message, outcome)
          /\ call' = [c \in Callers |->
                IF call[c].at = "sending" /\ call[c].send = message.send
                THEN [call[c] EXCEPT !.reply = outcome.reply, !.clock = clock] ELSE call[c]]
    /\ told' = Silent
    /\ UNCHANGED <<layer, woken>>

Lose(message) ==
    /\ Turn
    /\ Lost(message)
    /\ told' = Silent
    /\ UNCHANGED <<layer, call, woken>>

Pass ==
    /\ Turn
    /\ Passes
    /\ told' = Silent
    /\ UNCHANGED <<layer, call, woken>>

-----------------------------------------------------------------------------
\* settle, one action per answer

Replied(c, replies) == At(c, "sending") /\ call[c].reply \in replies
Holds(c, intent) == HoldsFor(c, call[c].intent, intent)
LayerElse == UNCHANGED <<ledger, entry, previews, taken, sent, sends, woken>>

\* The call threw or answered unknown, whatever became of its message.
Unknown(intent) == [intent EXCEPT !.hadUnknown = TRUE]

NoAnswer(c) ==
    /\ At(c, "sending")
    /\ IF stamped THEN Ends(c, [Unknown(Mine(c)) EXCEPT !.state = "unknown"], "unknown")
       ELSE Holds(c, Unknown(Mine(c)))
    /\ LayerElse

NotExecuted(c) ==
    /\ ~Management
    /\ Replied(c, {"rejected"})
    /\ Ends(c, Mine(c), "not_executed")
    /\ LayerElse

Trapped(c) ==
    /\ Replied(c, IF Management THEN {"rejected", "trapped"} ELSE {"trapped"})
    /\ LET intent == [Unknown(Mine(c)) EXCEPT !.answeredUnknown = @ + 1]
       IN  IF ~stamped \/ intent.answeredUnknown > MaxAnsweredUnknown THEN Holds(c, intent)
           ELSE Ends(c, [intent EXCEPT !.state = "unknown"], "unknown")
    /\ LayerElse

Succeeded(c) ==
    /\ Replied(c, {"success", "already_done"})
    /\ Ends(c, [Mine(c) EXCEPT !.state = "done"], call[c].reply)
    /\ LayerElse

\* After an unknown outcome only these two, and retry_same, settle anything.
MustReconcile_Never(intent) == FALSE
MustReconcile(intent) == intent.hadUnknown

Reconcile(c) ==
    /\ Replied(c, {"fail", "too_old", "in_future"})
    /\ MustReconcile(Mine(c))
    /\ Holds(c, Mine(c))
    /\ LayerElse

Fails(c) ==
    /\ Replied(c, {"fail"})
    /\ ~MustReconcile(Mine(c))
    /\ Ends(c, [Mine(c) EXCEPT !.state = "settled"], "fail")
    /\ LayerElse

SpentRetries_Settle(c, intent) == Ends(c, [intent EXCEPT !.state = "settled"], "fail")
SpentRetries(c, intent) ==
    IF intent.hadUnknown THEN Holds(c, intent)
    ELSE Ends(c, [intent EXCEPT !.state = "settled"], "fail")

RetrySame(c) ==
    /\ Replied(c, {"retry_same"})
    /\ LET intent == [Mine(c) EXCEPT !.retriedSame = @ + 1]
       IN  IF intent.retriedSame >= MaxRetrySame THEN SpentRetries(c, intent)
           ELSE Ends(c, intent, "retry_same")
    /\ LayerElse

\* retry_new: a clock reading, then the bytes, and the new preview replaces
\* the old.  Inputs not read again at the new clock settle the intent.
RetryNew(c) ==
    /\ Replied(c, {"too_old", "in_future"})
    /\ ~MustReconcile(Mine(c))
    /\ Awaits(c, [call[c] EXCEPT !.at = "restamping"])
    /\ UNCHANGED <<layer, ledger, woken>>

Restamp(c) ==
    /\ At(c, "restamping")
    /\ Len(previews) < MaxIntents + MaxRestamps
    /\ \E now \in clock..(clock + Skew) :
          LET stamp == StampFor(now, IF call[c].reply = "in_future" THEN {call[c].clock} ELSE {})
          IN  /\ Handed(stamp)
              /\ Awaits(c, [call[c] EXCEPT !.at = "reencoding", !.stamp = stamp])
    /\ UNCHANGED <<ledger, intents, entry, previews, sent, sends, woken>>

NotRestamped(c) ==
    /\ At(c, "restamping")
    /\ Ends(c, [Mine(c) EXCEPT !.state = "settled"], "fix_input")
    /\ LayerElse

Superseding(p) == [previews EXCEPT ![p].superseded = TRUE]

Restamped(c) ==
    /\ At(c, "reencoding")
    /\ previews' = Append(Superseding(call[c].preview),
                          [intent |-> call[c].intent, stamp |-> call[c].stamp, superseded |-> FALSE])
    /\ Ends(c, [Mine(c) EXCEPT !.preview = Len(previews) + 1, !.attempts = 0], "retry_new")
    /\ UNCHANGED <<ledger, entry, taken, sent, sends, woken>>

RestampFails(c) ==
    /\ HostMayFail
    /\ At(c, "restamping") \/ At(c, "reencoding")
    /\ Ends(c, Mine(c), "error")
    /\ LayerElse

\* The hook reads the history back: it says found of a call that ran, absent
\* of one that has not and cannot any more, and may always know neither.
Findings(p) ==
    {"unreadable"}
      \cup (IF \E i \in DOMAIN executed : executed[i].preview = p THEN {"found"} ELSE {})
      \cup (IF NeverRuns(p, previews[p].stamp) THEN {"absent"} ELSE {})

AfterFinding(finding) ==
    IF finding = "found" THEN "done" ELSE IF finding = "absent" THEN "settled" ELSE "reconcile"

ReadBack(c) ==
    /\ At(c, "reconciling")
    /\ \E finding \in Findings(call[c].preview) :
          Ends(c, [Mine(c) EXCEPT !.state = AfterFinding(finding)],
               IF finding = "found" THEN "already_done" ELSE "reconcile")
    /\ LayerElse

-----------------------------------------------------------------------------
\* The host's functions settle what a caller awaits.
Resumes(c) ==
    /\ \/ Look(c) \/ LookAgain(c) \/ Prepared(c) \/ NotPrepared(c)
       \/ Decline(c) \/ ConfirmThrows(c) \/ Approve(c)
       \/ NoAnswer(c) \/ NotExecuted(c) \/ Trapped(c) \/ Succeeded(c) \/ Reconcile(c)
       \/ Fails(c) \/ RetrySame(c) \/ RetryNew(c)
       \/ Restamp(c) \/ NotRestamped(c) \/ Restamped(c) \/ RestampFails(c) \/ ReadBack(c)
    /\ UNCHANGED stamped

Begins(c) == Prepare(c) \/ \E p \in DOMAIN previews : CommitAnswered(c, p) \/ Commit(c, p)

Next ==
    \/ \E c \in Callers : Resumes(c)
    \/ /\ \/ \E c \in Callers : Begins(c)
          \/ \E message \in inflight : Arrive(message) \/ Lose(message)
          \/ Pass
       /\ UNCHANGED stamped

Spec == Init /\ [][Next]_vars
FairSpec == Spec /\ \A c \in Callers : WF_vars(Resumes(c))

-----------------------------------------------------------------------------
Places == {"idle", "clocked", "waiting", "encoding", "confirming", "sending", "restamping",
           "reencoding", "reconciling"}
PreviewsOf(i) == {p \in DOMAIN previews : previews[p].intent = i}
HasExecuted(i) == \E k \in DOMAIN executed : previews[executed[k].preview].intent = i

\* A call never runs a second time before the layer knows that the first run
\* is done: not by a resend, a late message, a new stamp or a new intent.
NeverTwiceUnknowingly ==
    [][Len(executed') > Len(executed) =>
         \A k \in DOMAIN executed : intents[previews[executed[k].preview].intent].state = "done"]_vars

\* A settled intent may be prepared again with a new stamp, so nothing sent
\* for it has run or can still run.
SettledNeverRuns ==
    \A i \in DOMAIN intents : intents[i].state = "settled" =>
        \A p \in PreviewsOf(i) : NeverRuns(p, previews[p].stamp)

\* "success" and "already_done" are answered of calls that ran; "declined",
\* "fail", "fix_input" and "retry_new" of calls that did not, and so are
\* "retry_same" and "not_executed" when no earlier attempt is unknown.
HonestAnswers ==
    /\ told.outcome \in {"success", "already_done"} => HasExecuted(told.intent)
    /\ told.outcome \in {"prepared", "declined", "fail", "fix_input", "retry_new"} =>
          ~HasExecuted(told.intent)
    /\ told.outcome \in {"retry_same", "not_executed"} /\ ~intents[told.intent].hadUnknown =>
          ~HasExecuted(told.intent)

\* One intent, one stamp: of the intents of an identity at most one is
\* prepared, unknown or held, however many are prepared at once.
OneLiveIntent ==
    \A i, j \in DOMAIN intents :
        intents[i].state \in Unsettled /\ intents[j].state \in Unsettled => i = j

\* A call of the agent is answered once the host's functions settle.
AnsweredEventually == \A c \in Callers : call[c].at # "idle" ~> call[c].at = "idle"

\* An intent being committed is not refused as busy for ever.
Busy(i) == i \in DOMAIN intents /\ intents[i].busy
FreedEventually == \A i \in 1..MaxIntents : Busy(i) ~> ~Busy(i)

\* Neither the agent nor a commit is left waiting for a host that has settled.
NobodyWaitsForEver == AnsweredEventually /\ FreedEventually

\* layer.mjs says of an answer "repeated": "It has not executed."
RepeatedHasNotExecuted == told.outcome = "repeated" => ~HasExecuted(told.intent)

\* The profile asks that a new intent's stamp be later than the stamp of
\* every earlier intent with the same identity.
LaterIntentLaterStamp ==
    \A p, q \in DOMAIN previews :
        previews[p].intent < previews[q].intent => previews[p].stamp < previews[q].stamp
=============================================================================
