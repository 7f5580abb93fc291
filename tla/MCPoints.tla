------------------------------- MODULE MCPoints -------------------------------
(* Instances of Points for TLC. *)
EXTENDS Points, TLC

Symmetry == Permutations(Users)
===============================================================================
