--------------------------- MODULE ExpenseOutbox ---------------------------
(***************************************************************************)
(* What the logging queue promises about each expense, without sweeps,     *)
(* claims, positions, failures or crashes: an expense is owed to the       *)
(* sheet from the moment it is stored; it is shown there while it is owed, *)
(* or after it was deleted from under the drain's hands; it stops being    *)
(* owed only by being shown or deleted; and neither is ever taken back.    *)
(***************************************************************************)

CONSTANT Expenses

VARIABLES
    stage,   \* where each expense is
    owed,    \* the expenses that still have to be shown
    shown    \* the expenses in the sheet

vars == <<stage, owed, shown>>

Stages == {"absent", "live", "deleted"}

Init ==
    /\ stage = [e \in Expenses |-> "absent"]
    /\ owed = {} /\ shown = {}

Store(e) ==
    /\ stage[e] = "absent"
    /\ stage' = [stage EXCEPT ![e] = "live"]
    /\ owed' = owed \union {e}
    /\ UNCHANGED shown

Show(e) ==
    /\ e \in owed \/ stage[e] = "deleted"
    /\ shown' = shown \union {e}
    /\ UNCHANGED <<stage, owed>>

Settle(e) ==
    /\ e \in owed \intersect shown
    /\ owed' = owed \ {e}
    /\ UNCHANGED <<stage, shown>>

Delete(e) ==
    /\ stage[e] = "live"
    /\ stage' = [stage EXCEPT ![e] = "deleted"]
    /\ owed' = owed \ {e}
    /\ UNCHANGED shown

Next == \E e \in Expenses : Store(e) \/ Show(e) \/ Settle(e) \/ Delete(e)

Spec == Init /\ [][Next]_vars
=============================================================================
