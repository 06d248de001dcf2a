------------------------------ MODULE AgentLoop ------------------------------
(***************************************************************************)
(* The agent runtime of src/src/agent.rs: one mutex-protected InnerState   *)
(* shared by the threads that call prompt, continue_run, reset and compact *)
(* (Callers, a call runs the loop on the caller's own thread), by one      *)
(* worker thread per parallel tool call, and by the user interface, which  *)
(* may steer, queue, abort or take the queues back at any moment.  A step  *)
(* is one critical section of that mutex, or one event emission where      *)
(* another thread can get in between.                                      *)
(*                                                                         *)
(* A transcript entry keeps what the properties tell apart: who wrote it,  *)
(* which submitted message it is, why a reply stopped, how many tool calls *)
(* it makes and how a call ended.  An operator named X_bug is the form of  *)
(* X a plausible mistake would give it; no behaviour of Spec uses one.     *)
(***************************************************************************)
EXTENDS Integers, FiniteSets, SequencesExt

CONSTANTS
  Callers,        \* threads that make the blocking calls of Agent
  Messages,       \* user messages, each submitted at most once
  NoThread,       \* turn_preparation = None
  SteeringMode,   \* QueueMode of the steering queue: "all" or "one"
  FollowUpMode,   \* QueueMode of the follow-up queue
  EditKinds,      \* transcript and queue edits of this scenario
  PanicSites,     \* foreign callbacks of this scenario that may panic
  MaxCalls,       \* most tool calls in one reply
  MaxToolTurns,   \* replies with tool calls in a behaviour
  MaxAborts,      \* calls of Agent::abort in a behaviour
  MaxEdits,       \* resets, compactions and queue takes in a behaviour
  MaxPanics       \* panics in a behaviour

ASSUME ConstantsAssumption ==
  /\ NoThread \notin Callers
  /\ SteeringMode \in {"all", "one"} /\ FollowUpMode \in {"all", "one"}
  /\ EditKinds \subseteq {"reset", "compact", "hook", "take"}
  /\ PanicSites \subseteq {"hook", "prepare"}
  /\ MaxCalls \in Nat /\ MaxToolTurns \in Nat /\ MaxAborts \in Nat
  /\ MaxEdits \in Nat /\ MaxPanics \in Nat

ASSUME SummaryAssumption == "summary" \notin Messages   \* nobody submits a summary

VARIABLES
  messages, streaming, pendingCalls, token, runActive, turnPrep, transition,
  steering, followUps,                      \* InnerState
  pc, run, unsent, edit,                    \* the callers' own control state
  mirror, open,                             \* what a listener has been told
  fresh, gone, torn, steered, turnSteered, lateAnswers,   \* history
  aborts, edits, toolTurns, panics                  \* bounded counters

state   == <<messages, streaming, pendingCalls, token, runActive, turnPrep,
             transition, steering, followUps>>
threads == <<pc, run, unsent, edit>>
history == <<fresh, gone, torn, steered, turnSteered, lateAnswers>>
counts  == <<aborts, edits, toolTurns, panics>>
vars    == <<state, threads, mirror, open, history, counts>>

-----------------------------------------------------------------------------
(* Transcript entries.                                                     *)

Stops == {"stop", "length", "error", "aborted"}   \* "stop" covers toolUse
Done  == {"ok", "terminate", "error", "aborted"}  \* a tool call's outcome

User(m)         == [role |-> "user", id |-> m]
Assistant(s, n) == [role |-> "assistant", stop |-> s, calls |-> n]
Result(i, o)    == [role |-> "toolResult", call |-> i, outcome |-> o]
Marker          == User("summary")

UserEntry == {User(m) : m \in Messages}
Entry == UserEntry \cup {Marker}
           \cup {Assistant(s, n) : s \in Stops, n \in 0..MaxCalls}
           \cup {Result(i, o) : i \in 1..MaxCalls, o \in Done}

IsTerminal(stop) == stop \in {"error", "aborted"}
Submitted(s)     == {m \in Messages : \E i \in DOMAIN s : s[i] = User(m)}

-----------------------------------------------------------------------------
(* Control state of a caller.                                              *)

LoopPhases == {"claimed", "start", "poll", "inner", "hook", "afterHook",
               "inject", "request", "waiting", "prepare", "execute", "results",
               "turnEnd", "outer", "finish", "agentEnd"}
Phases == LoopPhases \cup {"idle", "requeue"}

RunFrom(batch, skip, terminal) ==
  [todo |-> batch, skip |-> skip, lastTurn |-> FALSE, hasMore |-> TRUE,
   terminal |-> terminal, work |-> <<>>, serial |-> FALSE]
NoRun  == RunFrom(<<>>, FALSE, FALSE)
NoEdit == [step |-> "none", snap |-> <<>>, queued |-> 0, mid |-> FALSE]

InRun(c)    == pc[c] \in LoopPhases
Cancelled   == token = "cancelled"

Accepts(c)  == ~transition /\ (~runActive \/ turnPrep = c)

Opened(b) == Append(open, b)
Closed(b) == IF open # <<>> /\ Last(open) = b THEN Front(open)
                                              ELSE Append(open, "mismatch")

(* drain: the batch a poll of a queue takes, and what it leaves behind.    *)
Taken(queue, mode) == IF mode = "all" \/ queue = <<>> THEN queue ELSE <<Head(queue)>>
Left_bug(queue, mode) == <<>>
Left(queue, mode)  == IF mode = "all" \/ queue = <<>> THEN <<>> ELSE Tail(queue)

DrainSteering_bug(c) ==
  /\ steering # <<>>
  /\ run' = [run EXCEPT ![c].todo = <<Last(steering)>>]
  /\ steering' = Front(steering)
DrainSteering(c) ==
  /\ run' = [run EXCEPT ![c].todo = Taken(steering, SteeringMode)]
  /\ steering' = Left(steering, SteeringMode)

Init ==
  /\ messages = <<>> /\ steering = <<>> /\ followUps = <<>>
  /\ streaming = "none" /\ pendingCalls = {} /\ token = "none"
  /\ runActive = FALSE /\ turnPrep = NoThread /\ transition = FALSE
  /\ pc = [c \in Callers |-> "idle"]
  /\ run = [c \in Callers |-> NoRun]
  /\ unsent = [c \in Callers |-> <<>>]
  /\ edit = [c \in Callers |-> NoEdit]
  /\ mirror = <<>> /\ open = <<>>
  /\ fresh = Messages /\ gone = {} /\ torn = FALSE /\ steered = <<>>
  /\ turnSteered = 0 /\ lateAnswers = 0
  /\ aborts = 0 /\ edits = 0 /\ toolTurns = 0 /\ panics = 0

-----------------------------------------------------------------------------
(* Starting a run: run_with claims the slot under the state lock.          *)

Free(c)  == pc[c] \in {"idle", "requeue"} /\ edit[c].step = "none"
Busy_bug == runActive
Busy     == runActive \/ transition

Claim(c, batch, skip) ==
  /\ runActive' = TRUE
  /\ token' = "live"
  /\ streaming' = "none"
  /\ pc' = [pc EXCEPT ![c] = "claimed"]
  /\ run' = [run EXCEPT ![c] = RunFrom(batch, skip, FALSE)]
  /\ lateAnswers' = 0
  /\ UNCHANGED <<messages, pendingCalls, turnPrep, transition, unsent, edit,
                 mirror, open, gone, torn, steered, turnSteered, counts>>

PromptMessages(c, m) ==
  /\ Free(c) /\ pc[c] = "idle" /\ ~Busy
  /\ m \in fresh
  /\ fresh' = fresh \ {m}
  /\ Claim(c, <<User(m)>>, FALSE)
  /\ UNCHANGED <<steering, followUps>>

(* continuation: a transcript that does not end in a reply is resumed as   *)
(* it stands; otherwise the steering queue, then the follow-ups, become    *)
(* the prompt.  Not enabled where the code returns an error.               *)
Continuation(c) ==
  /\ messages # <<>>
  /\ \/ /\ Last(messages).role # "assistant"
        /\ Claim(c, <<>>, FALSE)
        /\ UNCHANGED <<steering, followUps>>
     \/ /\ Last(messages).role = "assistant" /\ steering # <<>>
        /\ Claim(c, Taken(steering, SteeringMode), TRUE)
        /\ steering' = Left(steering, SteeringMode)
        /\ UNCHANGED followUps
     \/ /\ Last(messages).role = "assistant" /\ steering = <<>> /\ followUps # <<>>
        /\ Claim(c, Taken(followUps, FollowUpMode), FALSE)
        /\ followUps' = Left(followUps, FollowUpMode)
        /\ UNCHANGED steering
  /\ UNCHANGED fresh

ContinueRun(c) == Free(c) /\ pc[c] = "idle" /\ ~Busy /\ Continuation(c)

(* run_queued_messages: after a run of its own, the caller runs what is    *)
(* still queued; it returns Busy when another thread got in first.         *)
CannotRequeue_bug == TRUE
CannotRequeue == Busy \/ (steering = <<>> /\ followUps = <<>>) \/ messages = <<>>

RunQueued(c) ==
  /\ pc[c] = "requeue"
  /\ ~CannotRequeue
  /\ Continuation(c)

ReturnToCaller(c) ==
  /\ pc[c] = "requeue"
  /\ CannotRequeue
  /\ pc' = [pc EXCEPT ![c] = "idle"]
  /\ run' = [run EXCEPT ![c] = NoRun]
  /\ UNCHANGED <<state, unsent, edit, mirror, open, history, counts>>

-----------------------------------------------------------------------------
(* The loop.  record_message pushes under the lock (Push) and tells the    *)
(* listeners afterwards (Announce); the loop does nothing in between.      *)

At(c, phase) == pc[c] = phase /\ unsent[c] = <<>>

AlreadyStarted_bug(e) == FALSE
AlreadyStarted(e) == e.role = "assistant" /\ streaming = "partial"

Push(c, e) ==
  /\ messages' = Append(messages, e)
  /\ streaming' = "none"
  /\ unsent' = [unsent EXCEPT ![c] = <<e>>]
  /\ open' = IF AlreadyStarted(e) THEN open ELSE Opened("message")

Announce_bug(c) ==
  /\ unsent[c] # <<>>
  /\ open' = Closed("message")
  /\ unsent' = [unsent EXCEPT ![c] = <<>>]
  /\ UNCHANGED <<state, pc, run, edit, mirror, history, counts>>

Announce(c) ==
  /\ unsent[c] # <<>>
  /\ mirror' = mirror \o unsent[c]
  /\ open' = Closed("message")
  /\ unsent' = [unsent EXCEPT ![c] = <<>>]
  /\ UNCHANGED <<state, pc, run, edit, history, counts>>

AgentStart(c) ==
  /\ At(c, "claimed")
  /\ open' = open \o <<"agent", "turn">>
  /\ turnSteered' = 0
  /\ pc' = [pc EXCEPT ![c] = "start"]
  /\ UNCHANGED <<state, run, unsent, edit, mirror, fresh, gone, torn, steered,
                 lateAnswers, counts>>

(* The start messages, the drained pending ones and the tool results are   *)
(* all recorded one by one from the front of a local vector.               *)
RecordNext(c) ==
  /\ \E phase \in {"start", "inject", "results"} : At(c, phase)
  /\ run[c].todo # <<>>
  /\ Push(c, Head(run[c].todo))
  /\ run' = [run EXCEPT ![c].todo = Tail(@)]
  /\ turnSteered' = IF \E i \in DOMAIN steered : Head(run[c].todo) = User(steered[i])
                    THEN turnSteered + 1 ELSE turnSteered
  /\ UNCHANGED <<pendingCalls, token, runActive, turnPrep, transition, steering,
                 followUps, pc, edit, mirror, fresh, gone, torn, steered, lateAnswers,
                 counts>>

RecordedAll(c) ==
  /\ \E phase \in {"start", "inject", "results"} :
       /\ At(c, phase)
       /\ pc' = [pc EXCEPT ![c] = CASE phase = "start" -> "poll"
                                    [] phase = "inject" -> "request"
                                    [] phase = "results" -> "turnEnd"]
  /\ run[c].todo = <<>>
  /\ UNCHANGED <<state, run, unsent, edit, mirror, open, history, counts>>

PollsFirst(c) == ~run[c].skip

InitialPoll(c) ==
  /\ At(c, "poll")
  /\ IF PollsFirst(c) THEN DrainSteering(c) ELSE UNCHANGED <<run, steering>>
  /\ pc' = [pc EXCEPT ![c] = "inner"]
  /\ UNCHANGED <<messages, streaming, pendingCalls, token, runActive, turnPrep,
                 transition, followUps, unsent, edit, mirror, open, history, counts>>

(* Head of the inner loop; a finished turn is handed to the hook first.    *)
InnerLoop(c) ==
  /\ At(c, "inner")
  /\ run[c].hasMore \/ run[c].todo # <<>>
  /\ run' = [run EXCEPT ![c].lastTurn = FALSE]
  /\ IF run[c].lastTurn
     THEN pc' = [pc EXCEPT ![c] = "hook"] /\ turnPrep' = c
     ELSE pc' = [pc EXCEPT ![c] = "inject"] /\ UNCHANGED turnPrep
  /\ UNCHANGED <<messages, streaming, pendingCalls, token, runActive, transition,
                 steering, followUps, unsent, edit, mirror, open, history, counts>>

InnerLoopExit(c) ==
  /\ At(c, "inner")
  /\ ~run[c].hasMore /\ run[c].todo = <<>>
  /\ pc' = [pc EXCEPT ![c] = "outer"]
  /\ UNCHANGED <<state, run, unsent, edit, mirror, open, history, counts>>

HookReturn(c) ==
  /\ At(c, "hook") /\ edit[c].step = "none"
  /\ turnPrep' = NoThread
  /\ pc' = [pc EXCEPT ![c] = "afterHook"]
  /\ UNCHANGED <<messages, streaming, pendingCalls, token, runActive, transition,
                 steering, followUps, run, unsent, edit, mirror, open, history,
                 counts>>

(* Steering that arrived while the hook ran is polled only if the poll at  *)
(* the end of the turn came back empty.                                    *)
NextTurn(c) ==
  /\ At(c, "afterHook")
  /\ IF run[c].todo = <<>> THEN DrainSteering(c) ELSE UNCHANGED <<run, steering>>
  /\ open' = Opened("turn")
  /\ turnSteered' = 0
  /\ pc' = [pc EXCEPT ![c] = "inject"]
  /\ UNCHANGED <<messages, streaming, pendingCalls, token, runActive, turnPrep,
                 transition, followUps, unsent, edit, mirror, fresh, gone, torn, steered,
                 lateAnswers, counts>>

-----------------------------------------------------------------------------
(* The provider request and its reply.                                     *)

RecordReply(c, s, n) ==
  /\ Push(c, Assistant(s, n))
  /\ lateAnswers' = lateAnswers + (IF Cancelled THEN 1 ELSE 0)
  /\ run' = [run EXCEPT ![c] = [@ EXCEPT
                !.hasMore = FALSE, !.terminal = IsTerminal(s),
                !.work = IF IsTerminal(s) THEN <<>> ELSE [i \in 1..n |-> "new"]]]
  /\ UNCHANGED <<pendingCalls, token, runActive, turnPrep, transition, steering,
                 followUps, edit, mirror, fresh, gone, torn, steered, turnSteered,
                 aborts, edits, panics>>

SkipRequest(c) ==
  /\ At(c, "request") /\ Cancelled
  /\ RecordReply(c, "aborted", 0)
  /\ pc' = [pc EXCEPT ![c] = "turnEnd"]
  /\ UNCHANGED toolTurns

RequestAssistant(c) ==
  /\ At(c, "request") /\ ~Cancelled
  /\ pc' = [pc EXCEPT ![c] = "waiting"]
  /\ UNCHANGED <<state, run, unsent, edit, mirror, open, history, counts>>

(* EVENT_START of a streamed reply, forwarded on the loop thread.          *)
StreamStart(c) ==
  /\ At(c, "waiting") /\ streaming = "none"
  /\ streaming' = "partial"
  /\ open' = Opened("message")
  /\ UNCHANGED <<messages, pendingCalls, token, runActive, turnPrep, transition,
                 steering, followUps, threads, mirror, history, counts>>

(* The responder's answer, its error and its panic all become a reply.  It *)
(* may finish normally although the token was cancelled meanwhile.         *)
Reply(c, s, n) ==
  /\ At(c, "waiting")
  /\ n > 0 => toolTurns < MaxToolTurns
  /\ s = "aborted" => Cancelled
  /\ RecordReply(c, s, n)
  /\ toolTurns' = toolTurns + (IF n > 0 THEN 1 ELSE 0)
  /\ pc' = [pc EXCEPT ![c] = IF IsTerminal(s) \/ n = 0 THEN "turnEnd" ELSE "prepare"]

-----------------------------------------------------------------------------
(* Tool calls.  A call is started and prepared on the loop thread in call  *)
(* order; execution is serial or one thread per call.                      *)

LastReply == messages[Len(messages)]
InState(c, kinds) == {i \in DOMAIN run[c].work : run[c].work[i] \in kinds}
Starting(c, i) == i \in InState(c, {"new"}) /\ \A j \in InState(c, {"new"}) : i <= j

(* tool_ended: the call leaves the pending set.                            *)
ToolEnded_bug(i) == UNCHANGED pendingCalls
ToolEnded(i) == pendingCalls' = pendingCalls \ {i}

(* fail_truncated_tool_calls: no call of a reply cut at the token limit    *)
(* is executed.                                                            *)
Truncated     == LastReply.stop = "length"

TruncatedStatus     == "error"

FailTruncated(c) ==
  /\ At(c, "prepare") /\ Truncated
  /\ run' = [run EXCEPT ![c].work = [i \in DOMAIN @ |-> TruncatedStatus]]
  /\ pc' = [pc EXCEPT ![c] = "execute"]
  /\ UNCHANGED <<state, unsent, edit, mirror, open, history, counts>>

(* tool_started, then prepare_tool_call: an unknown tool or invalid        *)
(* arguments end the call at once.                                         *)
StartCall(c, i) ==
  /\ At(c, "prepare") /\ ~Truncated
  /\ Starting(c, i)
  /\ \/ /\ run' = [run EXCEPT ![c].work[i] = "ready"]
        /\ pendingCalls' = pendingCalls \cup {i}
     \/ /\ run' = [run EXCEPT ![c].work[i] = "error"]
        /\ UNCHANGED pendingCalls
  /\ UNCHANGED <<messages, streaming, token, runActive, turnPrep, transition,
                 steering, followUps, pc, unsent, edit, mirror, open, history,
                 counts>>

StartExecution(c) ==
  /\ At(c, "prepare") /\ ~Truncated
  /\ InState(c, {"new"}) = {}
  /\ \E serial \in BOOLEAN : run' = [run EXCEPT ![c].serial = serial]
  /\ pc' = [pc EXCEPT ![c] = "execute"]
  /\ UNCHANGED <<state, unsent, edit, mirror, open, history, counts>>

BeginTool(c, i) ==
  /\ At(c, "execute")
  /\ i \in InState(c, {"ready"})
  /\ run[c].serial => \A j \in InState(c, {"ready", "running"}) : i <= j
  /\ IF Cancelled
     THEN /\ run' = [run EXCEPT ![c].work[i] = "aborted"]
          /\ ToolEnded(i)
     ELSE /\ run' = [run EXCEPT ![c].work[i] = "running"]
          /\ UNCHANGED pendingCalls
  /\ UNCHANGED <<messages, streaming, token, runActive, turnPrep, transition,
                 steering, followUps, pc, unsent, edit, mirror, open, history,
                 counts>>

EndTool(c, i, outcome) ==
  /\ At(c, "execute")
  /\ i \in InState(c, {"running"})
  /\ run' = [run EXCEPT ![c].work[i] = outcome]
  /\ ToolEnded(i)
  /\ UNCHANGED <<messages, streaming, token, runActive, turnPrep, transition,
                 steering, followUps, pc, unsent, edit, mirror, open, history,
                 counts>>

(* Join the workers; results are recorded in call order whatever order the *)
(* calls ended in.  The batch ends the run only if every result says so.   *)
ResultsOfBatch_bug(work) ==
  [i \in DOMAIN work |-> Result(Len(work) + 1 - i, work[Len(work) + 1 - i])]
ResultsOfBatch(work) == [i \in DOMAIN work |-> Result(i, work[i])]

JoinTools(c) ==
  /\ At(c, "execute")
  /\ InState(c, Done) = DOMAIN run[c].work
  /\ run' = [run EXCEPT ![c] = [@ EXCEPT
                !.todo = ResultsOfBatch(run[c].work),
                !.hasMore = InState(c, {"terminate"}) # DOMAIN run[c].work,
                !.work = <<>>, !.serial = FALSE]]
  /\ pc' = [pc EXCEPT ![c] = "results"]
  /\ UNCHANGED <<state, unsent, edit, mirror, open, history, counts>>

-----------------------------------------------------------------------------
(* End of a turn and of a run.                                             *)

StopsHere_bug(c) == run[c].terminal
StopsHere(c) == run[c].terminal \/ Cancelled

EndTurn(c) ==
  /\ At(c, "turnEnd")
  /\ open' = Closed("turn")
  /\ IF StopsHere(c)
     THEN /\ pc' = [pc EXCEPT ![c] = "finish"]
          /\ UNCHANGED <<run, steering>>
     ELSE /\ pc' = [pc EXCEPT ![c] = "inner"]
          /\ run' = [run EXCEPT ![c] = [@ EXCEPT !.lastTurn = TRUE,
                                         !.todo = Taken(steering, SteeringMode)]]
          /\ steering' = Left(steering, SteeringMode)
  /\ UNCHANGED <<messages, streaming, pendingCalls, token, runActive, turnPrep,
                 transition, followUps, unsent, edit, mirror, history, counts>>

OuterLoop_bug(c) ==
  /\ At(c, "outer")
  /\ pc' = [pc EXCEPT ![c] = "inner"]
  /\ run' = [run EXCEPT ![c].todo = Taken(followUps, FollowUpMode)]
  /\ followUps' = Left(followUps, FollowUpMode)
  /\ UNCHANGED <<messages, streaming, pendingCalls, token, runActive, turnPrep,
                 transition, steering, unsent, edit, mirror, open, history, counts>>

OuterLoop(c) ==
  /\ At(c, "outer")
  /\ IF followUps = <<>>
     THEN pc' = [pc EXCEPT ![c] = "finish"] /\ UNCHANGED <<run, followUps>>
     ELSE /\ pc' = [pc EXCEPT ![c] = "inner"]
          /\ run' = [run EXCEPT ![c] = [@ EXCEPT !.hasMore = TRUE,
                                         !.todo = Taken(followUps, FollowUpMode)]]
          /\ followUps' = Left(followUps, FollowUpMode)
  /\ UNCHANGED <<messages, streaming, pendingCalls, token, runActive, turnPrep,
                 transition, steering, unsent, edit, mirror, open, history, counts>>

(* A panic of the between-turn hook or of a tool's prepare_arguments       *)
(* unwinds run_loop; run_with records a last error reply and its TurnEnd.  *)
(* What the loop had drained into its own vectors is dropped with it.      *)
RuntimePanic(c) ==
  /\ panics < MaxPanics /\ panics' = panics + 1
  /\ \/ At(c, "hook") /\ edit[c].step = "none" /\ "hook" \in PanicSites
     \/ At(c, "prepare") /\ "prepare" \in PanicSites
          /\ InState(c, {"new"}) # {} /\ ~Truncated
  /\ Push(c, Assistant(IF Cancelled THEN "aborted" ELSE "error", 0))
  /\ turnPrep' = NoThread
  /\ gone' = gone \cup Submitted(run[c].todo)
  /\ run' = [run EXCEPT ![c] = RunFrom(<<>>, FALSE, TRUE)]
  /\ pc' = [pc EXCEPT ![c] = "turnEnd"]
  /\ UNCHANGED <<pendingCalls, token, runActive, transition, steering, followUps,
                 edit, mirror, fresh, torn, steered, turnSteered, lateAnswers, aborts,
                 edits, toolTurns>>

FinishRun(c) ==
  /\ At(c, "finish")
  /\ streaming' = "none" /\ pendingCalls' = {} /\ token' = "none"
  /\ pc' = [pc EXCEPT ![c] = "agentEnd"]
  /\ UNCHANGED <<messages, runActive, turnPrep, transition, steering, followUps,
                 run, unsent, edit, mirror, open, history, counts>>

(* AgentEnd reaches the listeners, then ActiveRun is dropped.              *)
ReleaseRun(c) ==
  /\ At(c, "agentEnd")
  /\ open' = Closed("agent")
  /\ streaming' = "none" /\ pendingCalls' = {} /\ token' = "none"
  /\ turnPrep' = NoThread /\ runActive' = FALSE
  /\ pc' = [pc EXCEPT ![c] = "requeue"]
  /\ UNCHANGED <<messages, transition, steering, followUps, run, unsent, edit,
                 mirror, history, counts>>

-----------------------------------------------------------------------------
(* Transcript edits: reset while idle, compaction (agent.rs with its only  *)
(* client, compaction.rs) while idle or inside the hook of the running     *)
(* thread.  Each holds lifecycle_transition until its event is out.        *)

MayCompact(c) == \/ pc[c] = "idle" /\ "compact" \in EditKinds
                 \/ At(c, "hook") /\ "hook" \in EditKinds

(* cut_index: some user message after the first entry.                     *)
CutPoints(s) == IF Len(s) < 3 THEN {}
                ELSE {i \in 2..Len(s) : s[i].role = "user"}

StepEdit(c, step) == edit' = [edit EXCEPT ![c].step = step]

CompactCheck(c) ==
  /\ MayCompact(c) /\ edit[c].step = "none"
  /\ edits < MaxEdits /\ edits' = edits + 1
  /\ Accepts(c)
  /\ StepEdit(c, "checked")
  /\ UNCHANGED <<state, pc, run, unsent, mirror, open, history, aborts, toolTurns,
                 panics>>

(* can_compact let go of the lock: another thread's run may have begun, and *)
(* the snapshot be one of its middle.                                       *)
OtherRuns(c) == \E d \in Callers \ {c} : InRun(d)

CompactSnapshot(c) ==
  /\ edit[c].step = "checked" /\ CutPoints(messages) # {}
  /\ edit' = [edit EXCEPT ![c] = [step |-> "summarizing", snap |-> messages, queued |-> 0,
                                 mid |-> OtherRuns(c)]]
  /\ UNCHANGED <<state, pc, run, unsent, mirror, open, history, counts>>

TooShort(c) ==
  /\ edit[c].step = "checked" /\ CutPoints(messages) = {}
  /\ edit' = [edit EXCEPT ![c] = NoEdit]
  /\ UNCHANGED <<state, pc, run, unsent, mirror, open, history, counts>>

(* The summary arrived, or failed; the queues it will drop are counted.    *)
CompactCount(c) ==
  /\ edit[c].step = "summarizing"
  /\ \/ edit' = [edit EXCEPT ![c] = [@ EXCEPT !.step = "counted",
                                       !.queued = Len(steering) + Len(followUps)]]
     \/ edit' = [edit EXCEPT ![c] = NoEdit]
  /\ UNCHANGED <<state, pc, run, unsent, mirror, open, history, counts>>

CutRefused(c) == ~Accepts(c) \/ Len(messages) # Len(edit[c].snap)

CompactRefused(c) ==
  /\ edit[c].step = "counted" /\ CutRefused(c)
  /\ edit' = [edit EXCEPT ![c] = NoEdit]
  /\ UNCHANGED <<state, pc, run, unsent, mirror, open, history, counts>>

(* compact_if_unchanged compares lengths only; the kept messages are those *)
(* of the snapshot, so that a cut which comes late may drop newer messages *)
(* and bring back older ones, the middle of a run among them (torn).       *)
CompactApply(c) ==
  /\ edit[c].step = "counted" /\ ~CutRefused(c)
  /\ \E cut \in CutPoints(edit[c].snap) :
       messages' = <<Marker>> \o SubSeq(edit[c].snap, cut, Len(edit[c].snap))
  /\ gone' = (gone \cup Submitted(messages)) \ Submitted(messages')
  /\ torn' = (torn \/ edit[c].mid)
  /\ streaming' = "none" /\ pendingCalls' = {}
  /\ transition' = TRUE
  /\ edit' = [edit EXCEPT ![c] = [@ EXCEPT !.step = "compacted", !.snap = messages']]
  /\ UNCHANGED <<token, runActive, turnPrep, steering, followUps, pc, run, unsent,
                 mirror, open, fresh, steered, turnSteered, lateAnswers, counts>>

CompactAnnounce(c) ==
  /\ edit[c].step = "compacted"
  /\ mirror' = edit[c].snap
  /\ transition' = FALSE
  /\ edit' = [edit EXCEPT ![c] = [@ EXCEPT !.step = "clearing", !.snap = <<>>]]
  /\ UNCHANGED <<messages, streaming, pendingCalls, token, runActive, turnPrep,
                 steering, followUps, pc, run, unsent, open, history, counts>>

CompactClear(c) ==
  /\ edit[c].step = "clearing"
  /\ gone' = gone \cup Submitted(steering) \cup Submitted(followUps)
  /\ steering' = <<>> /\ followUps' = <<>>
  /\ edit' = [edit EXCEPT ![c] = NoEdit]
  /\ UNCHANGED <<messages, streaming, pendingCalls, token, runActive, turnPrep,
                 transition, pc, run, unsent, mirror, open, fresh, torn, steered,
                 turnSteered, lateAnswers, counts>>

Reset(c) ==
  /\ Free(c) /\ pc[c] = "idle" /\ "reset" \in EditKinds
  /\ edits < MaxEdits /\ edits' = edits + 1
  /\ ~runActive /\ ~transition
  /\ gone' = gone \cup Submitted(messages) \cup Submitted(steering) \cup Submitted(followUps)
  /\ messages' = <<>> /\ steering' = <<>> /\ followUps' = <<>>
  /\ streaming' = "none" /\ pendingCalls' = {}
  /\ transition' = TRUE
  /\ StepEdit(c, "reset")
  /\ UNCHANGED <<token, runActive, turnPrep, pc, run, unsent, mirror, open, fresh,
                 torn, steered, turnSteered, lateAnswers, aborts, toolTurns, panics>>

ResetAnnounce(c) ==
  /\ edit[c].step = "reset"
  /\ mirror' = <<>>
  /\ transition' = FALSE
  /\ edit' = [edit EXCEPT ![c] = NoEdit]
  /\ UNCHANGED <<messages, streaming, pendingCalls, token, runActive, turnPrep,
                 steering, followUps, pc, run, unsent, open, history, counts>>

-----------------------------------------------------------------------------
(* The user interface.                                                     *)

Steer(m) ==
  /\ m \in fresh
  /\ fresh' = fresh \ {m}
  /\ steering' = Append(steering, User(m))
  /\ steered' = Append(steered, m)
  /\ UNCHANGED <<messages, streaming, pendingCalls, token, runActive, turnPrep,
                 transition, followUps, threads, mirror, open, gone, turnSteered,
                 lateAnswers, torn, counts>>

FollowUp(m) ==
  /\ m \in fresh
  /\ fresh' = fresh \ {m}
  /\ followUps' = Append(followUps, User(m))
  /\ UNCHANGED <<messages, streaming, pendingCalls, token, runActive, turnPrep,
                 transition, steering, threads, mirror, open, gone, torn, steered,
                 turnSteered, lateAnswers, counts>>

TakeQueued ==
  /\ "take" \in EditKinds /\ edits < MaxEdits /\ edits' = edits + 1
  /\ steering # <<>> \/ followUps # <<>>
  /\ gone' = gone \cup Submitted(steering) \cup Submitted(followUps)
  /\ steering' = <<>> /\ followUps' = <<>>
  /\ UNCHANGED <<messages, streaming, pendingCalls, token, runActive, turnPrep,
                 transition, threads, mirror, open, fresh, torn, steered, turnSteered,
                 lateAnswers, aborts, toolTurns, panics>>

(* abort counts even when it finds no token to cancel.                     *)
Abort ==
  /\ aborts < MaxAborts /\ aborts' = aborts + 1
  /\ token' = IF token = "none" THEN "none" ELSE "cancelled"
  /\ UNCHANGED <<messages, streaming, pendingCalls, runActive, turnPrep, transition,
                 steering, followUps, threads, mirror, open, history, edits,
                 toolTurns, panics>>

-----------------------------------------------------------------------------
CallStep(c) ==
  \/ \E m \in Messages : PromptMessages(c, m)
  \/ ContinueRun(c) \/ Reset(c) \/ CompactCheck(c)

LoopStep(c) ==
  \/ Announce(c)
  \/ AgentStart(c) \/ RecordNext(c) \/ RecordedAll(c) \/ InitialPoll(c)
  \/ InnerLoop(c) \/ InnerLoopExit(c) \/ HookReturn(c) \/ NextTurn(c)
  \/ SkipRequest(c) \/ RequestAssistant(c)
  \/ \E s \in Stops, n \in 0..MaxCalls : Reply(c, s, n)
  \/ FailTruncated(c) \/ StartExecution(c) \/ JoinTools(c)
  \/ \E i \in 1..MaxCalls : StartCall(c, i)
  \/ EndTurn(c) \/ OuterLoop(c) \/ FinishRun(c) \/ ReleaseRun(c)
  \/ RunQueued(c) \/ ReturnToCaller(c)

ToolStep(c, i) ==
  BeginTool(c, i) \/ \E outcome \in Done \ {"aborted"} : EndTool(c, i, outcome)

EditStep(c) ==
  \/ CompactSnapshot(c) \/ TooShort(c)
  \/ CompactCount(c) \/ CompactRefused(c) \/ CompactApply(c)
  \/ CompactAnnounce(c) \/ CompactClear(c) \/ ResetAnnounce(c)

UserStep ==
  \/ \E m \in Messages : Steer(m) \/ FollowUp(m)
  \/ TakeQueued \/ Abort

(* Everybody is back with nothing to finish: the only place to stop.       *)
Quiet ==
  /\ \A c \in Callers : pc[c] = "idle" /\ edit[c].step = "none"
  /\ UNCHANGED vars

Next ==
  \/ \E c \in Callers :
       \/ CallStep(c) \/ LoopStep(c) \/ StreamStart(c) \/ RuntimePanic(c)
       \/ EditStep(c) \/ \E i \in 1..MaxCalls : ToolStep(c, i)
  \/ UserStep
  \/ Quiet

Spec == Init /\ [][Next]_vars

(* Threads run: the loop, the tools and the edits make progress.  Nobody   *)
(* is obliged to call, steer or abort, and nothing has to panic.           *)
Fairness ==
  \A c \in Callers :
    /\ WF_vars(LoopStep(c)) /\ WF_vars(EditStep(c))
    /\ \A i \in 1..MaxCalls : WF_vars(ToolStep(c, i))

FairSpec == Spec /\ Fairness
=============================================================================
