----------------------------- MODULE MCAgentLoop -----------------------------
(* Instances of AgentLoop for TLC; the scenarios differ in their .cfg.     *)
EXTENDS AgentProperties

NoKinds      == {}
TakeOnly     == {"take"}
AllEdits     == {"reset", "compact", "hook", "take"}
PreparePanic == {"prepare"}
HookPanic    == {"hook"}

Symmetric == Permutations(Callers) \cup Permutations(Messages)
=============================================================================
