--------------------------- MODULE MCSheetLogging ---------------------------
(***************************************************************************)
(* Instances of SheetLogging for TLC.                                      *)
(***************************************************************************)
EXTENDS SheetLogging
=============================================================================
