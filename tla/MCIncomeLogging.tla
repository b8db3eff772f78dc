-------------------------- MODULE MCIncomeLogging --------------------------
(***************************************************************************)
(* Instances of IncomeLogging for TLC.                                     *)
(***************************************************************************)
EXTENDS IncomeLogging
-----------------------------------------------------------------------------
(* Statements of the repository that the code does not keep. *)

\* "one row per calendar month" (income_sheet_logging.py): without a header the first
\* month lands in row 1, where the lookup does not see it.
OneRowPerMonth ==
    \A i, j \in 1..Len(worksheet) :
        worksheet[i].month = worksheet[j].month => i = j
=============================================================================
