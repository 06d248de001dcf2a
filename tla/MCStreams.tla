------------------------------ MODULE MCStreams ------------------------------
(***************************************************************************)
(* A stream that is used by two pushers, two takers and a watcher making   *)
(* any calls they like, or that carries one provider request between one   *)
(* of the pushers and one of the takers.                                   *)
(***************************************************************************)
EXTENDS ProviderStream, EventStreamProperties

VARIABLE use

MCInit == PInit /\ use \in {"calls", "request"}

Calls == use = "calls" /\ Next /\ UNCHANGED <<pvars, use>>
Request == use = "request" /\ PNext /\ UNCHANGED use

MCSpec ==
    /\ MCInit /\ [][Calls \/ Request]_<<allvars, use>>
    /\ WF_allvars(Slice(Worker)) /\ WF_allvars(Slice(Responder))
=============================================================================
