----------------------------- MODULE MCHermesRun -----------------------------
(* A model that answers at most four times, three times in one drive. *)
EXTENDS HermesRun, TLC

CONSTANTS x, y

Symmetry == Permutations({x, y})
=============================================================================
