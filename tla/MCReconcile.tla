------------------------------ MODULE MCReconcile ------------------------------
EXTENDS Reconcile

Transfer == [method |-> "icrc1_transfer", caller |-> "a", from |-> "a", to |-> "b",
             spender |-> None, ts |-> Stamp, amt |-> 1, memo |-> None, fee |-> NoNat,
             expires_at |-> NoNat]
TransferFrom(spender) ==
    [Transfer EXCEPT !.method = "icrc2_transfer_from", !.spender = spender, !.caller = spender]
Approve(amt) == [Transfer EXCEPT !.method = "icrc2_approve", !.to = None, !.spender = "b",
                                 !.amt = amt]
Later == [Transfer EXCEPT !.ts = Stamp + Window + 1]

\* Each rival differs from the call in one thing: the method, the spender, a
\* party, a field of its payload or the stamp.
MCWorlds ==
    [call : {Transfer}, minting : {None, "a", "b"},
     rivals : {{TransferFrom("a"), TransferFrom("b"), Later, [Transfer EXCEPT !.memo = "empty"],
                [Transfer EXCEPT !.to = "c"]}}]
    \cup [call : {TransferFrom("a")}, minting : {None, "a", "b"},
          rivals : {{Transfer, TransferFrom("b"), [TransferFrom("a") EXCEPT !.fee = 1]}}]
    \cup [call : {TransferFrom("b")}, minting : {None, "a", "b"},
          rivals : {{Transfer, TransferFrom("c"), [TransferFrom("b") EXCEPT !.from = "c"]}}]
    \cup [call : {Approve(3)}, minting : {None},
          rivals : {{Approve(2), [Approve(3) EXCEPT !.expires_at = 1],
                     [Approve(3) EXCEPT !.spender = "c"]}}]
    \cup [call : {Approve(2)}, minting : {None}, rivals : {{Approve(3)}}]
    \cup [call : {[Transfer EXCEPT !.ts = NoNat]}, minting : {None}, rivals : {{}}]
=============================================================================
