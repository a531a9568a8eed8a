----------------------------- MODULE MCRecords -----------------------------
(***************************************************************************)
(* TLC instance of Records.                                                 *)
(***************************************************************************)
EXTENDS Records
=============================================================================
