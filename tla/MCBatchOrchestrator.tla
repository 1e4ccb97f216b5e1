------------------------ MODULE MCBatchOrchestrator ------------------------
(* Instances of BatchOrchestrator for TLC. *)
EXTENDS BatchOrchestrator

CONSTANTS a1, a2

OneCv == <<a1>>
TwoCvs == <<a1, a2>>
=============================================================================
