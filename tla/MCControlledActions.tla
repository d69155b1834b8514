-------------------------- MODULE MCControlledActions --------------------------
(* A small instance of ControlledActions.                                   *)
EXTENDS ControlledActions, TLC

Symmetry == Permutations(Requests) \cup Permutations(Payloads) \cup Permutations(Terms)
=============================================================================
