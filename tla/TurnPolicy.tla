----------------------------- MODULE TurnPolicy -----------------------------
(* turns.rs and its caller, the interactive interface of main.rs.          *)
(*                                                                          *)
(* Each prompt is a thread running run_prompt: an optional compaction, one  *)
(* run of the agent, and then finish_run, which retries transient failures  *)
(* after a pause, recovers once from a context overflow, compacts when a    *)
(* threshold is crossed, and continues for queued messages.  Between these  *)
(* steps it holds nothing; the agent's mutex only guards single calls, as   *)
(* AgentLoop shows in detail.  Here a run of the agent is its claim, its    *)
(* replies and its release.                                                 *)
(*                                                                          *)
(* The interface learns of a run through three channels it drains one after *)
(* the other (events, results, notices) before it looks at the keyboard,    *)
(* and decides from what it has drained whether a line starts a prompt of   *)
(* its own or steers the one that is going on.                              *)
(*                                                                          *)
(* An operator named X_bug is the form of X a plausible mistake would give; *)
(* the specification never uses it.                                         *)
EXTENDS Integers, Sequences, SequencesExt

CONSTANTS
  Prompts,        \* the threads begin_interactive_turn may start, one each
  MaxRetries,     \* RetryPolicy::max_retries
  Outcomes,       \* the replies the provider may give, a subset of Replies
  MaxSteers,      \* bound: messages the user steers
  MaxAborts,      \* bound: times the user presses Esc
  MayReset        \* the user uses /new or /clear

(* What finish_run tells apart in an assistant message.  "failed" is an error  *)
(* is_retryable_assistant_error accepts and "fatal" one it does not;           *)
(* "overflow" an error and "silent" a completed turn that is_context_overflow  *)
(* recognises; "length" a truncation worth one compact-and-retry.              *)
Replies == {"ok", "failed", "fatal", "overflow", "silent", "length", "aborted"}
Errors  == {"failed", "fatal", "overflow"}
Entries == Replies \cup {"user", "marker"}

ASSUME TurnPolicyAssumption ==
  /\ MaxRetries \in Nat /\ MaxSteers \in Nat
  /\ MaxAborts \in Nat /\ MayReset \in BOOLEAN
  /\ Outcomes \subseteq Replies

VARIABLES
  transcript,     \* InnerState::messages
  steering,       \* how many messages wait in InnerState::steering
  runActive,      \* InnerState::run_active
  streaming,      \* InnerState::cancellation is set
  cancelled,      \* that token is cancelled
  transition,     \* InnerState::lifecycle_transition
  aborts,         \* Inner::aborts
  pc,             \* [Prompts -> Positions]
  local,          \* [Prompts -> Locals], what a thread knows until it ends
  ui,             \* what the interface does next
  event, result, notice,                \* what its three channels hold
  turnPending, shown,                   \* InteractiveView::turn_pending, App::streaming
  steers                                \* messages steered so far, for the bound

agentVars  == <<transcript, steering, runActive, streaming, cancelled, transition>>
uiVars     == <<ui, turnPending, shown, steers>>
channels   == <<event, result, notice>>
vars == <<agentVars, aborts, pc, local, uiVars, channels>>

Positions == {"idle", "pre", "prompt", "running", "ended", "again", "look", "arm",
              "pause", "drop", "shed", "measure", "compact", "announce",
              "continue", "queued", "done"}
Reasons   == {"none", "pre", "overflow", "silent", "threshold"}

(* snap is finish_run's `state`, or the state a compaction was computed from,  *)
(* cut where that compaction cuts and why which of the four it is; requests    *)
(* and stopped are history: what the thread sent, and whether Esc was pressed  *)
(* while it waited.                                                            *)
Locals == [snap : Seq(Entries), cut : Nat, why : Reasons,
           attempt : 0 .. MaxRetries, overflowTried : BOOLEAN, abortsSeen : Nat,
           requests : Nat, stopped : BOOLEAN]
NoLocals == [snap |-> <<>>, cut |-> 0, why |-> "none",
             attempt |-> 0, overflowTried |-> FALSE, abortsSeen |-> 0,
             requests |-> 0, stopped |-> FALSE]

-----------------------------------------------------------------------------
IsReply(m)      == m \in Replies
LastReply(s)    == s # <<>> /\ IsReply(Last(s))          \* last_assistant
IsOverflow(m)   == m \in {"overflow", "silent"}           \* is_context_overflow
WillRetry(m)    == m \in {"overflow", "length"}           \* stop_reason != STOP_STOP
Busy            == runActive \/ transition

(* cut_index: some user message after the first, none in a short transcript. *)
Cuts(s) == IF Len(s) < 3 THEN {} ELSE {i \in 2 .. Len(s) : s[i] \in {"user", "marker"}}

(* Ends the thread; TurnCompletion sends the result whatever it is. *)
Finish(p) ==
  /\ pc' = [pc EXCEPT ![p] = "done"] /\ result' = TRUE
  /\ local' = [local EXCEPT ![p] = NoLocals]

(* The next step of a thread that knows, or learns, this much. *)
GotoWith(p, where, l) ==
  /\ pc' = [pc EXCEPT ![p] = where] /\ UNCHANGED result
  /\ local' = [local EXCEPT ![p] = l]
Goto(p, where) == GotoWith(p, where, local[p])

(* run_with's claim of the free slot for this transcript; the next steered     *)
(* message joins it, if there is one: the poll before the first request, or    *)
(* the message that becomes the prompt.                                        *)
ClaimRun(p, s) ==
  LET takes == steering > 0
  IN /\ runActive' = TRUE /\ streaming' = TRUE /\ cancelled' = FALSE
     /\ event' = "start"
     /\ transcript' = IF takes THEN Append(s, "user") ELSE s
     /\ steering'   = IF takes THEN steering - 1 ELSE 0
     /\ Goto(p, "running")

Refused(p) ==
  Finish(p) /\ UNCHANGED <<transcript, steering, runActive, streaming, cancelled, event>>

Init ==
  /\ transcript = <<"user", "ok">> /\ steering = 0
  /\ runActive = FALSE /\ streaming = FALSE /\ cancelled = FALSE /\ transition = FALSE
  /\ aborts = 0
  /\ pc = [p \in Prompts |-> "idle"]
  /\ local = [p \in Prompts |-> NoLocals]
  /\ ui = "events" /\ event = "none" /\ result = FALSE /\ notice = FALSE
  /\ turnPending = FALSE /\ shown = FALSE /\ steers = 0

-----------------------------------------------------------------------------
(* A run of the agent on behalf of p.                                       *)

(* agent.prompt, after the compaction that may precede it. *)
PromptAgent(p) ==
  /\ pc[p] = "prompt"
  /\ \/ ~Busy /\ ClaimRun(p, Append(transcript, "user"))
     \/ Busy /\ Refused(p)
  /\ UNCHANGED <<transition, aborts, uiVars, notice>>

(* The responder answers.  A run ends with its reply unless more messages    *)
(* were steered, and then it delivers the next; an error or an abort leaves  *)
(* them behind.                                                              *)
Reply(p) ==
  /\ pc[p] = "running"
  /\ \E r \in (IF cancelled THEN {"aborted"} ELSE Outcomes) :
       LET goesOn == r \notin Errors \cup {"aborted"} /\ steering > 0
       IN /\ transcript' = IF goesOn THEN transcript \o <<r, "user">>
                                     ELSE Append(transcript, r)
          /\ steering'  = IF goesOn THEN steering - 1 ELSE steering
          /\ GotoWith(p, IF goesOn THEN "running" ELSE "ended",
                      [local[p] EXCEPT !.requests = @ + 1])
  /\ UNCHANGED <<runActive, streaming, cancelled, transition, aborts, uiVars,
                 event, notice>>

(* The end of run_with: the token is dropped and AgentEnd emitted ... *)
EndRun(p) ==
  /\ pc[p] = "ended" /\ streaming
  /\ streaming' = FALSE /\ event' = "end"
  /\ UNCHANGED <<transcript, steering, runActive, cancelled, transition, aborts, pc,
                 local, uiVars, result, notice>>

(* ... before the slot is free again. *)
ReleaseRun(p) ==
  /\ pc[p] = "ended" /\ ~streaming
  /\ runActive' = FALSE
  /\ Goto(p, "again")
  /\ UNCHANGED <<transcript, steering, streaming, cancelled, transition, aborts,
                 uiVars, event, notice>>

(* continuation: queued messages become the prompt after a reply; any other tail *)
(* is resumed as it stands.                                                      *)
CannotContinue == Busy \/ transcript = <<>> \/ (LastReply(transcript) /\ steering = 0)

(* run_queued_messages runs whatever the run left behind. *)
RunQueued(p) ==
  /\ pc[p] = "again"
  /\ \/ /\ Busy /\ Refused(p)
     \/ /\ ~Busy /\ steering = 0 /\ Goto(p, "look")
        /\ UNCHANGED <<transcript, steering, runActive, streaming, cancelled, event>>
     \/ /\ ~Busy /\ steering > 0 /\ transcript # <<>> /\ ClaimRun(p, transcript)
     \/ /\ ~Busy /\ steering > 0 /\ transcript = <<>> /\ Refused(p)
  /\ UNCHANGED <<transition, aborts, uiVars, notice>>

ContinueRun(p) ==
  /\ pc[p] = "continue"
  /\ \/ CannotContinue /\ Refused(p)
     \/ ~CannotContinue /\ ClaimRun(p, transcript)
  /\ UNCHANGED <<transition, aborts, uiVars, notice>>

-----------------------------------------------------------------------------
(* finish_run                                                                *)

AttemptAfter_bug(p, m) == 0
AttemptAfter(p, m) == IF m \in Errors THEN local[p].attempt ELSE 0

HasAttempts(n) == n < MaxRetries

(* One turn of the loop: agent.state(), the decision taken from it, and the    *)
(* notice of a retry.                                                          *)
Look(p) ==
  /\ pc[p] = "look"
  /\ IF ~LastReply(transcript)
     THEN Finish(p) /\ UNCHANGED notice
     ELSE LET m == Last(transcript)
              retries  == m = "failed" /\ HasAttempts(AttemptAfter(p, m))
              recovers == IsOverflow(m) \/ m = "length"
              next == CASE retries -> "arm"
                        [] ~retries /\ recovers /\ local[p].overflowTried -> "queued"
                        [] ~retries /\ recovers /\ ~local[p].overflowTried
                             /\ WillRetry(m) -> "shed"
                        [] OTHER -> "measure"
          IN /\ GotoWith(p, next,
                   [local[p] EXCEPT
                      !.snap = IF next \in {"arm", "shed"} THEN transcript ELSE <<>>,
                      !.attempt = AttemptAfter(p, m) + (IF retries THEN 1 ELSE 0),
                      !.overflowTried = @ \/ recovers,
                      !.why = IF WillRetry(m) THEN "overflow"
                              ELSE IF recovers THEN "silent" ELSE "threshold"])
             /\ notice' = (notice \/ retries)
  /\ UNCHANGED <<agentVars, aborts, uiVars, event>>

(* The abort count the pause is compared with is read after the notice. *)
Arm(p) ==
  /\ pc[p] = "arm"
  /\ GotoWith(p, "pause", [local[p] EXCEPT !.abortsSeen = aborts])
  /\ UNCHANGED <<agentVars, aborts, uiVars, event, notice>>

(* agent.pause returns, early after an abort. *)
AbortedSince_bug(p) == streaming /\ cancelled
AbortedSince(p) == aborts # local[p].abortsSeen

WakeUp(p) ==
  /\ pc[p] = "pause"
  /\ \/ AbortedSince(p) /\ Finish(p)
     \/ ~AbortedSince(p) /\ Goto(p, "drop")
  /\ UNCHANGED <<agentVars, aborts, uiVars, event, notice>>

(* drop_last_assistant puts the snapshot back without its last message. *)
DropLast(p) ==
  /\ pc[p] \in {"drop", "shed"}
  /\ transcript' = Front(local[p].snap)
  /\ GotoWith(p, IF pc[p] = "drop" THEN "continue" ELSE "measure",
              [local[p] EXCEPT !.snap = <<>>])
  /\ UNCHANGED <<steering, runActive, streaming, cancelled, transition, aborts,
                 uiVars, event, notice>>

(* "Anything queued by a listener after the loop drained its queues". *)
CheckQueue(p) ==
  /\ pc[p] = "queued"
  /\ IF steering > 0 THEN Goto(p, "continue") ELSE Finish(p)
  /\ UNCHANGED <<agentVars, aborts, uiVars, event, notice>>

-----------------------------------------------------------------------------
(* Compaction: before a prompt, after an overflow, after a completed turn.   *)

(* What follows a compaction, one that was refused, and one not needed. *)
Optional(p) == local[p].why \in {"pre", "threshold"}      \* maybe_auto_compact
After(p)    == CASE local[p].why = "pre" -> "prompt"
                 [] local[p].why = "overflow" -> "continue"
                 [] OTHER -> "queued"
Failed_bug(p) == IF Optional(p) THEN Finish(p) ELSE Goto(p, "measure")
Failed(p)   == IF Optional(p) THEN Finish(p) ELSE Goto(p, "queued")
Skipped(p)  == Goto(p, IF local[p].why = "pre" THEN "prompt" ELSE "queued")

(* maybe_auto_compact or compact, up to the request for a summary. *)
Measure(p) ==
  /\ pc[p] \in {"pre", "measure"}
  /\ \/ ~Busy /\ \E c \in Cuts(transcript) :
          GotoWith(p, "compact", [local[p] EXCEPT !.cut = c, !.snap = transcript])
     \/ Optional(p) /\ Skipped(p)                   \* below the threshold
     \/ Busy /\ Failed(p)
     \/ ~Optional(p) /\ Cuts(transcript) = {} /\ Failed(p)
  /\ UNCHANGED <<agentVars, aborts, uiVars, event, notice>>

(* The summary arrives and the cut is applied if the length is the same. *)
ApplyCut(p) ==
  /\ pc[p] = "compact"
  /\ \/ LET s == local[p].snap
        IN /\ ~Busy /\ Len(transcript) = Len(s)
           /\ transcript' = <<"marker">> \o SubSeq(s, local[p].cut, Len(s))
           /\ transition' = TRUE
           /\ GotoWith(p, "announce", [local[p] EXCEPT !.snap = <<>>, !.cut = 0])
     \/ Failed(p) /\ UNCHANGED <<transcript, transition>>  \* also without a summary
  /\ UNCHANGED <<steering, runActive, streaming, cancelled, aborts, uiVars, event, notice>>

(* Listeners have heard of it; both queues are cleared. *)
AnnounceCut(p) ==
  /\ pc[p] = "announce"
  /\ transition' = FALSE /\ steering' = 0
  /\ Goto(p, After(p))
  /\ UNCHANGED <<transcript, runActive, streaming, cancelled, aborts, uiVars,
                 event, notice>>

-----------------------------------------------------------------------------
(* The interface                                                             *)

DrainEvents ==
  /\ ui = "events" /\ ui' = "results"
  /\ turnPending' = CASE event = "start" -> TRUE [] event = "end" -> FALSE
                      [] OTHER -> turnPending
  /\ event' = "none"
  /\ UNCHANGED <<agentVars, aborts, pc, local, shown, steers, result, notice>>

DrainResults ==
  /\ ui = "results" /\ ui' = "notices"
  /\ turnPending' = (turnPending /\ ~result)
  /\ result' = FALSE
  /\ UNCHANGED <<agentVars, aborts, pc, local, shown, steers, event, notice>>

DrainNotices ==
  /\ ui = "notices" /\ ui' = "input"
  /\ turnPending' = (turnPending \/ notice)
  /\ shown' = (turnPending' \/ streaming)
  /\ notice' = FALSE
  /\ UNCHANGED <<agentVars, aborts, pc, local, steers, event, result>>

(* A line that is not a command: a prompt of its own, or steering. *)
Submit ==
  /\ ui = "input" /\ ui' = "events"
  /\ IF shown \/ turnPending \/ streaming
     THEN /\ steers < MaxSteers /\ steers' = steers + 1
          /\ steering' = steering + 1
          /\ UNCHANGED <<pc, local, turnPending>>
     ELSE /\ \E p \in Prompts : /\ pc[p] = "idle"
                                /\ pc' = [pc EXCEPT ![p] = "pre"]
                                /\ local' = [local EXCEPT ![p].why = "pre"]
          /\ turnPending' = TRUE
          /\ UNCHANGED <<steering, steers>>
  /\ UNCHANGED <<transcript, runActive, streaming, cancelled, transition, aborts,
                 shown, channels>>

(* Esc: the queue goes back to the editor, the run is cancelled. *)
Abort ==
  /\ ui = "input" /\ ui' = "events"
  /\ aborts < MaxAborts /\ aborts' = aborts + 1
  /\ steering' = 0
  /\ cancelled' = streaming
  /\ local' = [p \in Prompts |->
                 [local[p] EXCEPT !.stopped = @ \/ pc[p] = "pause"]]
  /\ UNCHANGED <<transcript, runActive, streaming, transition, pc,
                 turnPending, shown, steers, channels>>

(* /new and /clear: reset_with_reason refuses only while a run is active. *)
Reset ==
  /\ ui = "input" /\ ui' = "events"
  /\ MayReset /\ ~Busy
  /\ transcript' = <<>> /\ steering' = 0
  /\ UNCHANGED <<runActive, streaming, cancelled, transition, aborts, pc, local,
                 turnPending, shown, steers, channels>>

NoInput ==
  /\ ui = "input" /\ ui' = "events"
  /\ UNCHANGED <<agentVars, aborts, pc, local, turnPending, shown, steers, channels>>

-----------------------------------------------------------------------------
PolicyStep(p) ==
  \/ PromptAgent(p) \/ Reply(p) \/ EndRun(p) \/ ReleaseRun(p) \/ RunQueued(p)
  \/ ContinueRun(p) \/ Look(p) \/ Arm(p) \/ WakeUp(p) \/ DropLast(p) \/ CheckQueue(p)
  \/ Measure(p) \/ ApplyCut(p) \/ AnnounceCut(p)

Interface == DrainEvents \/ DrainResults \/ DrainNotices
             \/ Submit \/ Abort \/ Reset \/ NoInput

Next == (\E p \in Prompts : PolicyStep(p)) \/ Interface

Spec == Init /\ [][Next]_vars

(* The threads of a prompt run on their own and the responder answers. *)
FairSpec == Spec /\ \A p \in Prompts : WF_vars(PolicyStep(p))
=============================================================================
