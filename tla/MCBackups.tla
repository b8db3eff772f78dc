----------------------------- MODULE MCBackups -----------------------------
(***************************************************************************)
(* An instance of Backups for TLC: four days, on which weeks, months and   *)
(* years end in turn.                                                      *)
(***************************************************************************)
EXTENDS Backups

Weeks == <<1, 1, 2, 3>>
Months == <<1, 1, 1, 2>>
Years == <<1, 1, 2, 2>>
=============================================================================
