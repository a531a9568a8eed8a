---------------------------- MODULE MCSyncClient ----------------------------
(***************************************************************************)
(* TLC instance of SyncClient.                                              *)
(***************************************************************************)
EXTENDS SyncClient
=============================================================================
