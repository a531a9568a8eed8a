----------------------------- MODULE MCCValues -----------------------------
(* TLC instance of CValues.  Boxes are interchangeable. *)
EXTENDS CValues, TLC

Symmetry == Permutations(Box)
=============================================================================
