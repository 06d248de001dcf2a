----------------------------- MODULE CredentialMap -----------------------------
(***************************************************************************)
(* What the credential store is for: a map that changes one entry at a     *)
(* time, in which a login is replaced only by its own refresh or by        *)
(* another login, or removed.                                              *)
(***************************************************************************)
CONSTANT NoLogin

VARIABLES login, other, refreshedFrom

LoginChanges ==
  /\ other' = other
  /\ login' = NoLogin \/ refreshedFrom[login'] \in {NoLogin, login}

OtherChanges == login' = login

Next == LoginChanges \/ OtherChanges
=============================================================================
