--------------------------- MODULE MCBusyService ---------------------------
(***************************************************************************)
(* TLC instance of BusyService and of its refinement of Session.            *)
(***************************************************************************)
EXTENDS BusyService, ServiceSession
=============================================================================
