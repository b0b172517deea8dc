------------------------------- MODULE MCPool -------------------------------
(***************************************************************************)
(* Pool for TLC: the Receive goroutines are interchangeable.               *)
(***************************************************************************)
EXTENDS Pool, TLC

Symmetry == Permutations(Handler)
=============================================================================
