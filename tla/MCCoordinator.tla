--------------------------- MODULE MCCoordinator ---------------------------
(***************************************************************************)
(* Coordinator for TLC: connections and handlers are interchangeable.      *)
(***************************************************************************)
EXTENDS Coordinator, TLC

Symmetry == Permutations(Chan) \cup Permutations(Handler)
=============================================================================
