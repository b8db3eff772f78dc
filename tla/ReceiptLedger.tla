---------------------------- MODULE ReceiptLedger ----------------------------
(***************************************************************************)
(* What the receipt pipeline promises about each receipt, without workers, *)
(* claims, retries or crashes: an accepted receipt stays queued until it   *)
(* is booked with some amount, in one step; what is booked stays as it is  *)
(* until the operator re-opens the receipt or the user deletes it; nothing *)
(* happens to a deleted receipt any more.                                  *)
(***************************************************************************)
EXTENDS Integers

CONSTANT Receipts

VARIABLES
    status,   \* where each receipt is
    amount    \* what is booked for it, 0 while nothing is

vars == <<status, amount>>

Status == {"absent", "queued", "booked", "deleted"}

Init ==
    /\ status = [r \in Receipts |-> "absent"]
    /\ amount = [r \in Receipts |-> 0]

Accept(r) ==
    /\ status[r] = "absent"
    /\ status' = [status EXCEPT ![r] = "queued"]
    /\ UNCHANGED amount

Book(r) ==
    /\ status[r] = "queued"
    /\ status' = [status EXCEPT ![r] = "booked"]
    /\ amount' = [amount EXCEPT ![r] = amount'[r]]
    /\ amount'[r] \in Nat \ {0}

Reopen(rs) ==
    /\ \A r \in rs : status[r] \in {"queued", "booked"}
    /\ status' = [r \in Receipts |-> IF r \in rs THEN "queued" ELSE status[r]]
    /\ amount' = [r \in Receipts |-> IF r \in rs THEN 0 ELSE amount[r]]

Delete(r) ==
    /\ status[r] \in {"queued", "booked"}
    /\ status' = [status EXCEPT ![r] = "deleted"]
    /\ amount' = [amount EXCEPT ![r] = 0]

Next ==
    \/ \E r \in Receipts : Accept(r) \/ Book(r) \/ Delete(r)
    \/ \E rs \in SUBSET Receipts : Reopen(rs)

Spec == Init /\ [][Next]_vars
=============================================================================
