---------------------------- MODULE MCCredentials ----------------------------
(* Two threads of one process that resolve a login, and one of another     *)
(* process that may also log in or out.                                    *)
EXTENDS CredentialProperties, TLC

CONSTANTS t1, t2, t3, p1, p2

MCThreads   == {t1, t2, t3}
MCProcessOf == [t \in MCThreads |-> IF t = t3 THEN p2 ELSE p1]
MCUses      == [t \in MCThreads |-> IF t = t3 THEN {"resolve", "login", "logout"}
                                    ELSE {"resolve"}]

MCSymmetry == Permutations({t1, t2})
=============================================================================
