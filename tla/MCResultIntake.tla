--------------------------- MODULE MCResultIntake ---------------------------
(* Instances of ResultIntake for TLC. *)
EXTENDS ResultIntake, TLC

CONSTANTS r1, r2, h1, h2

RunSymmetry == Permutations(Runs) \cup Permutations(Handlers)
=============================================================================
