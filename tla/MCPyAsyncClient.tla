-------------------------- MODULE MCPyAsyncClient --------------------------
(* TLC instance of PyAsyncClient. *)
EXTENDS PyAsyncClient
=============================================================================
