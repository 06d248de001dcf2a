----------------------- MODULE SessionRuntimeProperties -----------------------
(* What a session file must tell of the conversation it records.           *)
EXTENDS SessionRuntime

\* The recorder has heard of the transcript's last change and is recording, and
\* no move is under way.
Settled == turn.at \notin {"recording", "cut"} /\ ui.at = "free" /\ ~stopped /\ ~apart

\* What a process that resumes the session now would start from: the newest
\* line decides, not the write head.
Resumed == Restore(log[cur], Len(log[cur]))

NoFailed(ms) == SelectSeq(ms, LAMBDA m : m.kind # "failed")

\* A conversation: the summary it starts with, if any, and what was said since.
Conversation(ms) ==
  LET kept == NoFailed(ms)
  IN IF kept = <<>> THEN <<>>
     ELSE <<Head(kept)>> \o SelectSeq(Tail(kept), LAMBDA m : m.kind # "summary")

(* Whoever resumes the open session finds the conversation the agent has   *)
(* in memory, whatever rewinds, resets, compactions, retries, copies and   *)
(* switches led to it (restore_from_tree against set_context,              *)
(* append_compaction and fork_to).  A failed reply that was retried stays  *)
(* in the file (turns.rs), and summaries before the newest are looked at   *)
(* by ResumeExact.                                                         *)
ResumeSame == Settled => Conversation(Resumed) = Conversation(context)

(* "agent_compaction_event_persists_the_same_live_context_cut", a test of  *)
(* session.rs says: what is restored is what the agent had, apart from     *)
(* failed replies.                                                         *)
ResumeExact == Settled => NoFailed(Resumed) = NoFailed(context)
=============================================================================
