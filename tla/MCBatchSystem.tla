--------------------------- MODULE MCBatchSystem ---------------------------
(* Instances of BatchSystem for TLC. *)
EXTENDS BatchSystem, TLC

CONSTANTS a1, a2, h1, h2

OneCv == <<a1>>
TwoCvs == <<a1, a2>>
SameCvs == <<a1, a1>>

HandlerSymmetry == Permutations(Handlers)
=============================================================================
