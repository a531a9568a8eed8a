------------------------------ MODULE MCBinding ------------------------------
(***************************************************************************)
(* TLC instance of Binding.  The bodies of messages are only compared, so   *)
(* permuting them is a symmetry.                                            *)
(***************************************************************************)
EXTENDS Binding, TLC

Symmetry == Permutations(Body)
=============================================================================
