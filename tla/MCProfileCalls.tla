----------------------------- MODULE MCProfileCalls -----------------------------
(***************************************************************************)
(* The two ends of a call in one run: a host that makes tools of a service *)
(* and prepares calls, and a caller that looks for one in the ledger's     *)
(* log.  They share no state; a behaviour is of one or of the other.       *)
(***************************************************************************)
EXTENDS MCProfileTools, MCReconcile

Idle ==
    /\ subject = Nothing /\ verdict = "unread"
    /\ refining = Nothing /\ service = Nothing /\ resolved = Nothing /\ plan = Nothing
    /\ prepared = Nothing /\ repeated = Nothing /\ answer = Nothing
NoCall ==
    /\ clock = Stamp /\ log = << >> /\ inflight = {} /\ world = Nothing /\ reader = Nothing
    /\ floor = NoFloor /\ sends = << >> /\ reading = NoReading
    /\ rejected = {} /\ finding = NoFinding

MCInit == (Init /\ Idle) \/ (ToolsInit /\ NoCall)
MCNext ==
    \/ subject = Nothing /\ Next /\ UNCHANGED toolVars
    \/ subject # Nothing /\ ToolsNext /\ UNCHANGED vars
MCSpec == MCInit /\ [][MCNext]_<<vars, toolVars>>
=============================================================================
