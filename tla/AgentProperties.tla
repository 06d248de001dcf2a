---------------------------- MODULE AgentProperties ----------------------------
(***************************************************************************)
(* What AgentLoop must never and must eventually do.                       *)
(***************************************************************************)
EXTENDS AgentLoop

RunState == [todo : Seq(Entry), skip : BOOLEAN, lastTurn : BOOLEAN, hasMore : BOOLEAN,
             terminal : BOOLEAN, work : Seq(Done \cup {"new", "ready", "running"}),
             serial : BOOLEAN]
EditSteps == {"none", "checked", "summarizing", "counted", "compacted", "clearing", "reset"}
EditState == [step : EditSteps, snap : Seq(Entry), queued : Nat, mid : BOOLEAN]
Brackets  == {"agent", "turn", "message", "mismatch"}

(* Types of the shared state and of the callers' control state.            *)
TypeOK ==
  /\ messages \in Seq(Entry) /\ mirror \in Seq(Entry)
  /\ steering \in Seq(UserEntry) /\ followUps \in Seq(UserEntry)
  /\ streaming \in {"none", "partial"}
  /\ pendingCalls \subseteq 1..MaxCalls
  /\ token \in {"none", "live", "cancelled"}
  /\ runActive \in BOOLEAN /\ transition \in BOOLEAN
  /\ turnPrep \in Callers \cup {NoThread}
  /\ pc \in [Callers -> Phases]
  /\ run \in [Callers -> RunState]
  /\ unsent \in [Callers -> Seq(Entry)]
  /\ edit \in [Callers -> EditState]
  /\ open \in Seq(Brackets)
  /\ fresh \subseteq Messages /\ gone \subseteq Messages /\ torn \in BOOLEAN
  /\ steered \in Seq(Messages)
  /\ turnSteered \in Nat /\ lateAnswers \in Nat
  /\ aborts \in Nat /\ edits \in Nat /\ toolTurns \in Nat /\ panics \in Nat

-----------------------------------------------------------------------------
(* Two threads never run the loop at once, and no thread runs it while     *)
(* another holds the transcript for a reset or a compaction whose event is *)
(* still on its way to the listeners (run_active, lifecycle_transition and *)
(* turn_preparation together: accepts_compaction, run_with).               *)
Rewriting(c) == edit[c].step \in {"compacted", "reset"}

OneWriter ==
  /\ \A c, d \in Callers : InRun(c) /\ InRun(d) => c = d
  /\ \A c, d \in Callers : Rewriting(c) /\ Rewriting(d) => c = d
  /\ \A c, d \in Callers : Rewriting(c) /\ InRun(d) => c = d /\ pc[d] = "hook"

(* No submitted message is lost or delivered twice: at any moment it is in *)
(* exactly one of the queues, a run's own vectors and the transcript, or   *)
(* it was deliberately removed (taken back, reset, compacted away, be it   *)
(* by a late cut, or drained by a run that then panicked).                 *)
Places(s, m) == Cardinality({i \in DOMAIN s : s[i] = User(m)})

HeldAt(c, m) == {c} \X {i \in DOMAIN run[c].todo : run[c].todo[i] = User(m)}

Copies(m) ==
  Places(messages, m) + Places(steering, m) + Places(followUps, m)
    + Cardinality(UNION {HeldAt(c, m) : c \in Callers})

ExactlyOnce == \A m \in Messages : Copies(m) = IF m \in fresh \cup gone THEN 0 ELSE 1

(* Steering messages reach the transcript in the order they were sent,     *)
(* whichever of the four polls delivers each of them; in one-at-a-time     *)
(* mode a turn gets one at most, though three polls can precede a request. *)
Pipeline(c) == messages \o run[c].todo \o steering

SteeringInOrder ==
  /\ \A c \in Callers : InRun(c) =>
       \A a, b \in DOMAIN steered : \A i, j \in DOMAIN Pipeline(c) :
         (i < j /\ Pipeline(c)[i] = User(steered[a])
                /\ Pipeline(c)[j] = User(steered[b])) => a < b
  /\ SteeringMode = "one" => turnSteered <= 1

(* Whenever a request is in flight every earlier reply's tool calls are    *)
(* answered by exactly their results, in call order, before anything else; *)
(* a reply that failed has none, and one that was cut at the token limit   *)
(* has only errors: its calls are never run.  Only a runtime panic, which  *)
(* records an error reply, leaves calls unanswered; and a compaction whose *)
(* snapshot another thread's run got in front of, applied after the whole  *)
(* transcript was replaced meanwhile (torn).                               *)
Answered(s, k) ==
  LET n == s[k].calls IN
  IF IsTerminal(s[k].stop) THEN k < Len(s) => s[k + 1].role # "toolResult"
  ELSE \/ k + n <= Len(s) /\ \A i \in 1..n : /\ s[k + i].role = "toolResult"
                                             /\ s[k + i].call = i
       \/ n > 0 /\ k < Len(s) /\ s[k + 1].role = "assistant"
                /\ IsTerminal(s[k + 1].stop)

ResultsOf(s, k) == {j \in k+1..Len(s) : \A i \in k+1..j : s[i].role = "toolResult"}

RequestWellFormed ==
  ~torn => \A c \in Callers : pc[c] = "waiting" =>
    /\ \A k \in DOMAIN messages : messages[k].role = "assistant" =>
         /\ Answered(messages, k)
         /\ Cardinality(ResultsOf(messages, k)) <= messages[k].calls
         /\ messages[k].stop = "length" =>
              \A j \in ResultsOf(messages, k) : messages[j].outcome = "error"
    /\ messages[1].role = "user"

(* The pending-call set an interface shows is exactly the calls that were  *)
(* started and not yet ended, and nothing of a run outlives it.            *)
PendingExact ==
  /\ \A c \in Callers : pc[c] \in {"prepare", "execute"} =>
       pendingCalls = InState(c, {"ready", "running"})
  /\ (\A c \in Callers : ~InRun(c)) =>
       pendingCalls = {} /\ token = "none" /\ streaming = "none"
         /\ turnPrep = NoThread /\ ~runActive

(* After an abort the run records at most one more reply: the one in       *)
(* flight or the notice that nothing was requested, never both.            *)
AbortStopsRun == lateAnswers <= 1

(* Listeners see properly nested events: messages only inside a turn,      *)
(* turns only inside a run, every start closed by its own end.  A panic of *)
(* the hook between two turns is reported outside any turn.                *)
EventsNested ==
  "hook" \notin PanicSites \/ panics = 0 => IsPrefix(open, <<"agent", "turn", "message">>)

(* The transcript and a recorder's copy of it follow TranscriptFeed.       *)
Feed == INSTANCE TranscriptFeed WITH log <- messages, copy <- mirror
RecorderFollows == Feed!Spec

-----------------------------------------------------------------------------
(* A run, once started, ends and its caller gets back control, whatever is *)
(* steered or aborted meanwhile.                                           *)
RunsReturn == \A c \in Callers : InRun(c) ~> pc[c] = "idle"

(* A message queued during a run is delivered or handed back without       *)
(* waiting for another prompt: run_queued_messages picks up what a failed  *)
(* or aborted run left behind.                                             *)
QueuedDelivered ==
  \A m \in Messages :
    ((\E c \in Callers : InRun(c)) /\ User(m) \in ToSet(steering) \cup ToSet(followUps))
      ~> (User(m) \notin ToSet(steering) \cup ToSet(followUps))
=============================================================================
