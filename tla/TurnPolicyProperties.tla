------------------------ MODULE TurnPolicyProperties ------------------------
(* What the turn policy promises.                                          *)
EXTENDS TurnPolicy

(* What a thread carries to a position where it needs it: the reply to drop,    *)
(* the place to cut.                                                            *)
Prepared(at, l) ==
  /\ at \in {"arm", "pause", "drop", "shed"} => LastReply(l.snap)
  /\ at = "compact" => l.cut \in 1 .. Len(l.snap)

(* Every variable stays in its range; a thread counts at most MaxRetries     *)
(* attempts, and what finish_run acts on after its first look ends in a reply. *)
TypeOK ==
  /\ transcript \in Seq(Entries) /\ steering \in Nat
  /\ {runActive, streaming, cancelled, transition, result, notice,
      turnPending, shown} \subseteq BOOLEAN
  /\ aborts \in Nat /\ steers \in Nat
  /\ pc \in [Prompts -> Positions] /\ local \in [Prompts -> Locals]
  /\ ui \in {"events", "results", "notices", "input"}
  /\ event \in {"none", "start", "end"}
  /\ \A p \in Prompts : Prepared(pc[p], local[p])

(* However the provider fails and whatever the user types, a prompt costs a    *)
(* bounded number of requests: the prompt itself, each steered message and the  *)
(* one recovery from an overflow buy one request and its retries (turns.rs: the *)
(* attempt counter restarts on any reply that is not an error,                  *)
(* overflow_attempted never).                                                   *)
RequestsBounded ==
  \A p \in Prompts : local[p].requests <= (MaxRetries + 1) * (steers + 2)

(* A prompt whose wait was ended by Esc sends nothing more: "the error stays  *)
(* as the turn's last word instead of a retry nobody wants", whichever thread  *)
(* and whichever run the abort was meant for.                                  *)
AbortEndsBackoff ==
  [][\A p \in Prompts :
        local[p].stopped => local'[p].requests <= local[p].requests]_vars

(* Every prompt ends, so the interface hears a result and its Enter key stops  *)
(* steering an agent that does nothing.                                        *)
PromptReturns == \A p \in Prompts : pc[p] = "pre" ~> pc[p] = "done"

(* "The failed message stays in the session file but leaves the context the    *)
(* retry sees": the failed reply, and nothing else.                            *)
OnlyFailureLeaves ==
  [][\A p \in Prompts : DropLast(p) => transcript' = Front(transcript)]_vars

=============================================================================
