--------------------------- MODULE MCFinalization ---------------------------
(* An instance of Finalization for TLC: three CVs of one application, so that *)
(* three results of one run are aggregated.                                   *)
EXTENDS Finalization

CONSTANTS a1

ThreeCvs == <<a1, a1, a1>>

Doc(score, decision, mustHaves, status) ==
    [score |-> score, decision |-> decision, mustHaves |-> mustHaves, status |-> status]

Docs == {
    Doc(3, "none", "met", "none"),
    Doc(1, "negative", "met", "none"),
    Doc(NoScore, "none", "none", "insufficient") }
=============================================================================
