---------------------------- MODULE MCDlqReplay ----------------------------
(* Instances of DlqReplay, and with it of ResultIntake, for TLC. *)
EXTENDS DlqReplay, TLC

CONSTANTS r1, h1, h2

=============================================================================
