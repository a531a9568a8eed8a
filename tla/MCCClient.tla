------------------------------ MODULE MCCClient ------------------------------
(***************************************************************************)
(* TLC instance of CClient.                                                 *)
(***************************************************************************)
EXTENDS CClient
=============================================================================
