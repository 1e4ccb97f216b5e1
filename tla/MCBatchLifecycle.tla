--------------------------- MODULE MCBatchLifecycle ---------------------------
(* Instances of BatchLifecycle for TLC.                                     *)
EXTENDS BatchLifecycle, TLC

CONSTANTS c1, c2, p1, p2

OneCall == {c1}
TwoCalls == {c1, c2}
OnePayload == {p1}
TwoPayloads == {p1, p2}

CallSymmetry == Permutations(TwoCalls)
=============================================================================
