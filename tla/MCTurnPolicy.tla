---------------------------- MODULE MCTurnPolicy ----------------------------
(* Instances of TurnPolicy for TLC.                                         *)
EXTENDS TurnPolicyProperties

NoMatterWhat == {"ok", "failed", "fatal", "overflow", "silent", "length"}
FailOrAnswer == {"ok", "failed"}
=============================================================================
