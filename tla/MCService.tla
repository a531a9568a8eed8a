------------------------------ MODULE MCService ------------------------------
(***************************************************************************)
(* TLC instances of Service and of its refinement of Session.  Publishers   *)
(* are interchangeable.                                                     *)
(***************************************************************************)
EXTENDS ServiceSession, TLC

Symmetry == Permutations(Publishers)
=============================================================================
