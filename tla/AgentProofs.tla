----------------------------- MODULE AgentProofs ------------------------------
(***************************************************************************)
(* Type correctness of AgentLoop and mutual exclusion of the transcript's  *)
(* writers, for any number of calling threads, messages and tool calls.    *)
(*                                                                         *)
(* What a run of AgentLoop leaves behind and tells its listeners, for any  *)
(* number of callers, messages, tool calls, edits and panics: the pending  *)
(* set, the answer to an abort, the nesting of events, the recorder's copy *)
(* of the transcript, which follows TranscriptFeed, the transcript every   *)
(* request is made from, the place of every submitted message and the      *)
(* order in which those that steer a run get into it.                      *)
(*                                                                         *)
(* At most one thread is in a run (SlotInv), so the invariant says of that *)
(* thread, phase by phase, what the shared state is (RunsWell), and what   *)
(* is left when there is none (RestsWell).  The transcript is whole except *)
(* for the batch of calls that is open on its last reply (TranscriptInv),  *)
(* every message is in exactly one place (PlacesInv), and what was told    *)
(* precedes what a thread holds, which precedes what is queued (OrderInv); *)
(* phase by phase PaceInv says what may still be recorded in the turn.     *)
(***************************************************************************)
EXTENDS AgentProperties, SequenceTheorems, FiniteSetTheorems, TLAPS

-----------------------------------------------------------------------------
(* Sequence helpers.                                                       *)

(* Front takes nothing that was not in the sequence.                       *)
LEMMA FrontType ==
  ASSUME NEW S, NEW s \in Seq(S), s # <<>>
  PROVE  Front(s) \in Seq(S)
BY DEF Front

(* A sequence over a set is one over every larger set.                     *)
LEMMA SeqMonotone ==
  ASSUME NEW S, NEW T, S \subseteq T, NEW s \in Seq(S)
  PROVE  s \in Seq(T)
OBVIOUS

(* A drain splits a queue into two sequences of the same entries.          *)
LEMMA DrainType ==
  ASSUME NEW S, NEW q \in Seq(S), NEW mode
  PROVE  Taken(q, mode) \in Seq(S) /\ Left(q, mode) \in Seq(S)
<1>1. CASE mode = "all" \/ q = <<>>
  BY <1>1 DEF Taken, Left
<1>2. CASE ~(mode = "all" \/ q = <<>>)
  <2>1. Head(q) \in S /\ Tail(q) \in Seq(S)
    BY <1>2
  <2> QED
    BY <1>2, <2>1 DEF Taken, Left
<1> QED
  BY <1>1, <1>2

(* The entries a reply and its tools are recorded as.                      *)
LEMMA EntryType ==
  /\ \A s \in Stops, n \in 0..MaxCalls : Assistant(s, n) \in Entry
  /\ \A i \in 1..MaxCalls, o \in Done : Result(i, o) \in Entry
  /\ Marker \in Entry
  /\ UserEntry \subseteq Entry
  /\ \A m \in Messages : User(m) \in UserEntry
BY DEF Entry, UserEntry

-----------------------------------------------------------------------------
(* The type invariant.  A batch has at most MaxCalls calls, so that its    *)
(* results are entries.                                                    *)
BoundedRun == {r \in RunState : DOMAIN r.work \subseteq 1..MaxCalls}

TypeInv == TypeOK /\ run \in [Callers -> BoundedRun]

(* The control state a run starts from, with its first batch.              *)
LEMMA RunFromType ==
  ASSUME NEW batch \in Seq(Entry), NEW skip \in BOOLEAN, NEW terminal \in BOOLEAN
  PROVE  RunFrom(batch, skip, terminal) \in BoundedRun
<1>1. DOMAIN <<>> \subseteq 1..MaxCalls
  OBVIOUS
<1>2. RunFrom(batch, skip, terminal) \in RunState
  BY DEF RunFrom, RunState
<1>3. RunFrom(batch, skip, terminal).work = <<>>
  BY DEF RunFrom
<1> QED
  BY <1>1, <1>2, <1>3 DEF BoundedRun

(* No run, no edit, nothing queued.                                        *)
LEMMA TypeInit == Init => TypeInv
<1> SUFFICES ASSUME Init PROVE TypeInv
  OBVIOUS
<1>0. NoRun \in BoundedRun
  <2>1. <<>> \in Seq(Entry)
    OBVIOUS
  <2> QED
    BY <2>1, RunFromType DEF NoRun
<1>1. run \in [Callers -> BoundedRun] /\ run \in [Callers -> RunState]
  BY <1>0 DEF Init, BoundedRun
<1>2. edit \in [Callers -> EditState]
  BY DEF Init, NoEdit, EditState, EditSteps
<1>3. pc \in [Callers -> Phases]
  BY DEF Init, Phases
<1>4. unsent \in [Callers -> Seq(Entry)]
  BY DEF Init
<1>5. /\ messages \in Seq(Entry) /\ mirror \in Seq(Entry)
      /\ steering \in Seq(UserEntry) /\ followUps \in Seq(UserEntry)
      /\ open \in Seq(Brackets) /\ steered \in Seq(Messages)
  BY DEF Init
<1>6. /\ turnPrep \in Callers \cup {NoThread}
      /\ fresh \subseteq Messages /\ gone \subseteq Messages
      /\ pendingCalls \subseteq 1..MaxCalls
  BY DEF Init
<1> QED
  BY <1>1, <1>2, <1>3, <1>4, <1>5, <1>6 DEF Init, TypeInv, TypeOK

(* Starting a run types its thread's new control state.                    *)
LEMMA ClaimType ==
  ASSUME TypeInv, NEW c \in Callers, NEW batch \in Seq(Entry), NEW skip \in BOOLEAN,
         Claim(c, batch, skip), steering' \in Seq(UserEntry), followUps' \in Seq(UserEntry),
         fresh' \subseteq Messages
  PROVE  TypeInv'
<1>1. run' \in [Callers -> BoundedRun] /\ run' \in [Callers -> RunState]
  BY RunFromType DEF Claim, TypeInv, TypeOK, BoundedRun
<1>2. pc' \in [Callers -> Phases]
  BY DEF Claim, TypeInv, TypeOK, Phases, LoopPhases
<1> QED
  BY <1>1, <1>2 DEF Claim, TypeInv, TypeOK, counts

(* So does a push of an entry, which leaves the rest to its caller.        *)
LEMMA PushType ==
  ASSUME TypeInv, NEW c \in Callers, NEW e \in Entry, Push(c, e)
  PROVE  /\ messages' \in Seq(Entry)
         /\ streaming' = "none"
         /\ unsent' \in [Callers -> Seq(Entry)]
         /\ open' \in Seq(Brackets)
BY DEF Push, TypeInv, TypeOK, Opened, AlreadyStarted, Brackets

(* Changing a thread's own vectors and flags keeps their types.             *)
LEMMA RunField ==
  ASSUME NEW r \in BoundedRun, NEW todo \in Seq(Entry), NEW b \in BOOLEAN
  PROVE  /\ [r EXCEPT !.todo = todo] \in BoundedRun
         /\ [r EXCEPT !.lastTurn = b] \in BoundedRun
         /\ [r EXCEPT !.serial = b] \in BoundedRun
         /\ [r EXCEPT !.hasMore = b, !.todo = todo] \in BoundedRun
         /\ [r EXCEPT !.lastTurn = b, !.todo = todo] \in BoundedRun
BY DEF BoundedRun, RunState

Work == Seq(Done \cup {"new", "ready", "running"})

(* The same of a batch, of at most MaxCalls calls, and what goes with it.  *)
LEMMA RunWork ==
  ASSUME NEW r \in BoundedRun, NEW work \in Work, DOMAIN work \subseteq 1..MaxCalls,
         NEW todo \in Seq(Entry), NEW b \in BOOLEAN, NEW d \in BOOLEAN
  PROVE  /\ [r EXCEPT !.work = work] \in BoundedRun
         /\ [r EXCEPT !.hasMore = b, !.terminal = d, !.work = work] \in BoundedRun
         /\ [r EXCEPT !.todo = todo, !.hasMore = b, !.work = work, !.serial = d]
              \in BoundedRun
BY DEF BoundedRun, RunState, Work

(* A call that moves on keeps its batch a batch.                           *)
LEMMA WorkItem ==
  ASSUME NEW work \in Work, NEW i \in DOMAIN work,
         NEW x \in Done \cup {"new", "ready", "running"}
  PROVE  [work EXCEPT ![i] = x] \in Work /\ DOMAIN [work EXCEPT ![i] = x] = DOMAIN work
BY DEF Work

(* A thread's run is bounded, and its batch is a batch.                    *)
LEMMA RunIsBounded ==
  ASSUME TypeInv, NEW c \in Callers
  PROVE  /\ run[c] \in BoundedRun /\ run[c] \in RunState
         /\ run[c].todo \in Seq(Entry)
         /\ run[c].work \in Work /\ DOMAIN run[c].work \subseteq 1..MaxCalls
BY DEF TypeInv, BoundedRun, RunState, Work

(* What a step has to show of the threads' runs.                           *)
LEMMA RunType ==
  ASSUME TypeInv, NEW c \in Callers, NEW r \in BoundedRun, run' = [run EXCEPT ![c] = r]
  PROVE  run' \in [Callers -> BoundedRun] /\ run' \in [Callers -> RunState]
BY DEF TypeInv, BoundedRun

(* A drain of the steering queue fills the thread's vector.                *)
LEMMA DrainSteeringType ==
  ASSUME TypeInv, NEW c \in Callers, DrainSteering(c)
  PROVE  /\ run' \in [Callers -> BoundedRun] /\ run' \in [Callers -> RunState]
         /\ steering' \in Seq(UserEntry)
<1>1. /\ Taken(steering, SteeringMode) \in Seq(UserEntry)
      /\ Left(steering, SteeringMode) \in Seq(UserEntry)
  BY DrainType DEF TypeInv, TypeOK
<1>2. Taken(steering, SteeringMode) \in Seq(Entry)
  BY <1>1, EntryType, SeqMonotone
<1>3. [run[c] EXCEPT !.todo = Taken(steering, SteeringMode)] \in BoundedRun
  BY <1>2, RunIsBounded, RunField
<1> QED
  BY <1>1, <1>3, RunType DEF DrainSteering

(* Recording a reply types everything but pc and toolTurns.                *)
LEMMA RecordReplyType ==
  ASSUME TypeInv, NEW c \in Callers, NEW s \in Stops, NEW n \in 0..MaxCalls,
         RecordReply(c, s, n), pc' \in [Callers -> Phases], toolTurns' \in Nat
  PROVE  TypeInv'
<1> DEFINE work == IF IsTerminal(s) THEN <<>> ELSE [i \in 1..n |-> "new"]
<1>1. work \in Work /\ DOMAIN work \subseteq 1..MaxCalls
  BY ConstantsAssumption DEF Work
<1>2. IsTerminal(s) \in BOOLEAN
  BY DEF IsTerminal
<1>3. run' = [run EXCEPT ![c] = [run[c] EXCEPT !.hasMore = FALSE,
                                   !.terminal = IsTerminal(s), !.work = work]]
  BY DEF RecordReply
<1> HIDE DEF work
<1>4. [run[c] EXCEPT !.hasMore = FALSE, !.terminal = IsTerminal(s), !.work = work]
        \in BoundedRun
  BY <1>1, <1>2, RunIsBounded, RunWork
<1>5. run' \in [Callers -> BoundedRun] /\ run' \in [Callers -> RunState]
  BY <1>3, <1>4, RunType
<1>6. Assistant(s, n) \in Entry
  BY EntryType
<1>7. lateAnswers' \in Nat
  BY DEF RecordReply, TypeInv, TypeOK
<1>8. /\ messages' \in Seq(Entry) /\ streaming' = "none"
      /\ unsent' \in [Callers -> Seq(Entry)] /\ open' \in Seq(Brackets)
  BY <1>6, PushType DEF RecordReply
<1> QED
  BY <1>5, <1>7, <1>8 DEF RecordReply, TypeInv, TypeOK

(* One call of the batch moves on; the pending set follows.                *)
LEMMA CallMoves ==
  ASSUME TypeInv, NEW c \in Callers, NEW i \in DOMAIN run[c].work,
         NEW x \in Done \cup {"new", "ready", "running"},
         run' = [run EXCEPT ![c].work[i] = x],
         pendingCalls' \in {pendingCalls, pendingCalls \cup {i}, pendingCalls \ {i}},
         UNCHANGED <<messages, streaming, token, runActive, turnPrep, transition,
                     steering, followUps, pc, unsent, edit, mirror, open, history, counts>>
  PROVE  TypeInv'
<1> DEFINE work == [run[c].work EXCEPT ![i] = x]
<1>1. work \in Work /\ DOMAIN work \subseteq 1..MaxCalls
  BY RunIsBounded, WorkItem
<1>2. run' = [run EXCEPT ![c] = [run[c] EXCEPT !.work = work]]
  OBVIOUS
<1>3. i \in 1..MaxCalls
  BY RunIsBounded
<1> HIDE DEF work
<1>4. [run[c] EXCEPT !.work = work] \in BoundedRun
  BY <1>1, RunIsBounded, RunWork
<1>5. run' \in [Callers -> BoundedRun] /\ run' \in [Callers -> RunState]
  BY <1>2, <1>4, RunType
<1>6. pendingCalls' \subseteq 1..MaxCalls
  BY <1>3 DEF TypeInv, TypeOK
<1> QED
  BY <1>5, <1>6 DEF TypeInv, TypeOK, history, counts

-----------------------------------------------------------------------------
(* Every step keeps the types: one lemma per group of actions.             *)

(* Calls of the agent that start a run.                                    *)
LEMMA TypeStart ==
  ASSUME TypeInv, NEW c \in Callers
  PROVE  /\ \A m \in Messages : PromptMessages(c, m) => TypeInv'
         /\ Continuation(c) => TypeInv'
<1>1. ASSUME NEW m \in Messages, PromptMessages(c, m) PROVE TypeInv'
  <2>1. <<User(m)>> \in Seq(Entry)
    BY EntryType
  <2>2. /\ Claim(c, <<User(m)>>, FALSE)
        /\ steering' \in Seq(UserEntry) /\ followUps' \in Seq(UserEntry)
        /\ fresh' \subseteq Messages
    BY <1>1 DEF PromptMessages, TypeInv, TypeOK
  <2> QED
    BY <2>1, <2>2, ClaimType
<1>2. ASSUME Continuation(c) PROVE TypeInv'
  <2>1. /\ Taken(steering, SteeringMode) \in Seq(UserEntry)
        /\ Left(steering, SteeringMode) \in Seq(UserEntry)
        /\ Taken(followUps, FollowUpMode) \in Seq(UserEntry)
        /\ Left(followUps, FollowUpMode) \in Seq(UserEntry)
    BY DrainType DEF TypeInv, TypeOK
  <2>2. /\ Taken(steering, SteeringMode) \in Seq(Entry)
        /\ Taken(followUps, FollowUpMode) \in Seq(Entry) /\ <<>> \in Seq(Entry)
    BY <2>1, EntryType, SeqMonotone
  <2>3. /\ steering \in Seq(UserEntry) /\ followUps \in Seq(UserEntry)
        /\ fresh' \subseteq Messages
    BY <1>2 DEF Continuation, TypeInv, TypeOK
  <2>4. CASE Claim(c, <<>>, FALSE) /\ UNCHANGED <<steering, followUps>>
    BY <2>2, <2>3, <2>4, ClaimType
  <2>5. CASE /\ Claim(c, Taken(steering, SteeringMode), TRUE)
             /\ steering' = Left(steering, SteeringMode) /\ UNCHANGED followUps
    BY <2>1, <2>2, <2>3, <2>5, ClaimType
  <2>6. CASE /\ Claim(c, Taken(followUps, FollowUpMode), FALSE)
             /\ followUps' = Left(followUps, FollowUpMode) /\ UNCHANGED steering
    BY <2>1, <2>2, <2>3, <2>6, ClaimType
  <2> QED
    BY <1>2, <2>4, <2>5, <2>6 DEF Continuation
<1> QED
  BY <1>1, <1>2

(* Recording messages.                                                     *)
LEMMA TypeRecord ==
  ASSUME TypeInv, NEW c \in Callers
  PROVE  /\ Announce(c) => TypeInv'
         /\ RecordNext(c) => TypeInv'
         /\ RecordedAll(c) => TypeInv'
<1>1. ASSUME Announce(c) PROVE TypeInv'
  BY <1>1, FrontType DEF Announce, Closed, TypeInv, TypeOK, Brackets, state, history, counts
<1>2. ASSUME RecordNext(c) PROVE TypeInv'
  <2>1. Head(run[c].todo) \in Entry /\ Tail(run[c].todo) \in Seq(Entry)
    BY <1>2, RunIsBounded DEF RecordNext
  <2>2. [run[c] EXCEPT !.todo = Tail(run[c].todo)] \in BoundedRun
    BY <2>1, RunIsBounded, RunField
  <2>3. run' \in [Callers -> BoundedRun] /\ run' \in [Callers -> RunState]
    BY <1>2, <2>2, RunType DEF RecordNext
  <2>4. turnSteered' \in Nat
    BY <1>2 DEF RecordNext, TypeInv, TypeOK
  <2> QED
    BY <1>2, <2>1, <2>3, <2>4, PushType DEF RecordNext, TypeInv, TypeOK, counts
<1>3. ASSUME RecordedAll(c) PROVE TypeInv'
  BY <1>3 DEF RecordedAll, TypeInv, TypeOK, Phases, LoopPhases, state, history, counts
<1> QED
  BY <1>1, <1>2, <1>3

(* The loop between two requests.                                          *)
LEMMA TypeLoop ==
  ASSUME TypeInv, NEW c \in Callers
  PROVE  /\ AgentStart(c) => TypeInv'
         /\ InitialPoll(c) => TypeInv'
         /\ InnerLoop(c) => TypeInv'
         /\ InnerLoopExit(c) => TypeInv'
         /\ HookReturn(c) => TypeInv'
         /\ NextTurn(c) => TypeInv'
         /\ EndTurn(c) => TypeInv'
         /\ OuterLoop(c) => TypeInv'
<1>1. ASSUME AgentStart(c) PROVE TypeInv'
  BY <1>1 DEF AgentStart, TypeInv, TypeOK, Phases, LoopPhases, Brackets, state, counts
<1>2. ASSUME InitialPoll(c) PROVE TypeInv'
  <2>1. /\ run' \in [Callers -> BoundedRun] /\ run' \in [Callers -> RunState]
        /\ steering' \in Seq(UserEntry)
    BY <1>2, DrainSteeringType DEF InitialPoll, TypeInv, TypeOK
  <2>2. pc' \in [Callers -> Phases]
    BY <1>2 DEF InitialPoll, TypeInv, TypeOK, Phases, LoopPhases
  <2> QED
    BY <1>2, <2>1, <2>2 DEF InitialPoll, TypeInv, TypeOK, history, counts
<1>3. ASSUME InnerLoop(c) PROVE TypeInv'
  <2>1. [run[c] EXCEPT !.lastTurn = FALSE] \in BoundedRun
    BY RunIsBounded, RunField
  <2>2. run' \in [Callers -> BoundedRun] /\ run' \in [Callers -> RunState]
    BY <1>3, <2>1, RunType DEF InnerLoop
  <2>3. pc' \in [Callers -> Phases] /\ turnPrep' \in Callers \cup {NoThread}
    BY <1>3 DEF InnerLoop, TypeInv, TypeOK, Phases, LoopPhases
  <2> QED
    BY <1>3, <2>2, <2>3 DEF InnerLoop, TypeInv, TypeOK, history, counts
<1>4. ASSUME InnerLoopExit(c) PROVE TypeInv'
  BY <1>4 DEF InnerLoopExit, TypeInv, TypeOK, Phases, LoopPhases, state, history, counts
<1>5. ASSUME HookReturn(c) PROVE TypeInv'
  BY <1>5 DEF HookReturn, TypeInv, TypeOK, Phases, LoopPhases, history, counts
<1>6. ASSUME NextTurn(c) PROVE TypeInv'
  <2>1. /\ run' \in [Callers -> BoundedRun] /\ run' \in [Callers -> RunState]
        /\ steering' \in Seq(UserEntry)
    BY <1>6, DrainSteeringType DEF NextTurn, TypeInv, TypeOK
  <2>2. open' \in Seq(Brackets)
    BY <1>6 DEF NextTurn, Opened, Brackets, TypeInv, TypeOK
  <2>3. pc' \in [Callers -> Phases]
    BY <1>6 DEF NextTurn, TypeInv, TypeOK, Phases, LoopPhases
  <2> QED
    BY <1>6, <2>1, <2>2, <2>3 DEF NextTurn, TypeInv, TypeOK, counts
<1>7. ASSUME EndTurn(c) PROVE TypeInv'
  <2>1. /\ Taken(steering, SteeringMode) \in Seq(UserEntry)
        /\ Left(steering, SteeringMode) \in Seq(UserEntry)
    BY DrainType DEF TypeInv, TypeOK
  <2>2. Taken(steering, SteeringMode) \in Seq(Entry)
    BY <2>1, EntryType, SeqMonotone
  <2>3. [run[c] EXCEPT !.lastTurn = TRUE, !.todo = Taken(steering, SteeringMode)]
          \in BoundedRun
    BY <2>2, RunIsBounded, RunField
  <2>4. /\ run' \in [Callers -> BoundedRun] /\ run' \in [Callers -> RunState]
        /\ steering' \in Seq(UserEntry)
    BY <1>7, <2>1, <2>3, RunType DEF EndTurn, TypeInv, TypeOK
  <2>5. open' \in Seq(Brackets)
    BY <1>7, FrontType DEF EndTurn, Closed, Brackets, TypeInv, TypeOK
  <2>6. pc' \in [Callers -> Phases]
    BY <1>7 DEF EndTurn, TypeInv, TypeOK, Phases, LoopPhases
  <2> QED
    BY <1>7, <2>4, <2>5, <2>6 DEF EndTurn, TypeInv, TypeOK, history, counts
<1>8. ASSUME OuterLoop(c) PROVE TypeInv'
  <2>1. /\ Taken(followUps, FollowUpMode) \in Seq(UserEntry)
        /\ Left(followUps, FollowUpMode) \in Seq(UserEntry)
    BY DrainType DEF TypeInv, TypeOK
  <2>2. Taken(followUps, FollowUpMode) \in Seq(Entry)
    BY <2>1, EntryType, SeqMonotone
  <2>3. [run[c] EXCEPT !.hasMore = TRUE, !.todo = Taken(followUps, FollowUpMode)]
          \in BoundedRun
    BY <2>2, RunIsBounded, RunField
  <2>4. /\ run' \in [Callers -> BoundedRun] /\ run' \in [Callers -> RunState]
        /\ followUps' \in Seq(UserEntry)
    BY <1>8, <2>1, <2>3, RunType DEF OuterLoop, TypeInv, TypeOK
  <2>5. pc' \in [Callers -> Phases]
    BY <1>8 DEF OuterLoop, TypeInv, TypeOK, Phases, LoopPhases
  <2> QED
    BY <1>8, <2>4, <2>5 DEF OuterLoop, TypeInv, TypeOK, history, counts
<1> QED
  BY <1>1, <1>2, <1>3, <1>4, <1>5, <1>6, <1>7, <1>8

(* Requests and replies.                                                   *)
LEMMA TypeRequest ==
  ASSUME TypeInv, NEW c \in Callers
  PROVE  /\ SkipRequest(c) => TypeInv'
         /\ RequestAssistant(c) => TypeInv'
         /\ StreamStart(c) => TypeInv'
         /\ \A s \in Stops, n \in 0..MaxCalls : Reply(c, s, n) => TypeInv'
<1>1. ASSUME SkipRequest(c) PROVE TypeInv'
  <2>1. pc' \in [Callers -> Phases] /\ toolTurns' \in Nat
    BY <1>1 DEF SkipRequest, TypeInv, TypeOK, Phases, LoopPhases
  <2>2. "aborted" \in Stops /\ 0 \in 0..MaxCalls
    BY ConstantsAssumption DEF Stops
  <2> QED
    BY <1>1, <2>1, <2>2, RecordReplyType DEF SkipRequest
<1>2. ASSUME RequestAssistant(c) PROVE TypeInv'
  BY <1>2 DEF RequestAssistant, TypeInv, TypeOK, Phases, LoopPhases, state, history, counts
<1>3. ASSUME StreamStart(c) PROVE TypeInv'
  BY <1>3 DEF StreamStart, Opened, Brackets, TypeInv, TypeOK, threads, history, counts
<1>4. ASSUME NEW s \in Stops, NEW n \in 0..MaxCalls, Reply(c, s, n) PROVE TypeInv'
  <2>1. pc' \in [Callers -> Phases] /\ toolTurns' \in Nat
    BY <1>4 DEF Reply, TypeInv, TypeOK, Phases, LoopPhases
  <2> QED
    BY <1>4, <2>1, RecordReplyType DEF Reply
<1> QED
  BY <1>1, <1>2, <1>3, <1>4

(* Tool batches.                                                           *)
LEMMA TypeTools ==
  ASSUME TypeInv, NEW c \in Callers
  PROVE  /\ FailTruncated(c) => TypeInv'
         /\ StartExecution(c) => TypeInv'
         /\ JoinTools(c) => TypeInv'
         /\ \A i \in 1..MaxCalls : StartCall(c, i) => TypeInv'
         /\ \A i \in 1..MaxCalls : ToolStep(c, i) => TypeInv'
<1>1. ASSUME FailTruncated(c) PROVE TypeInv'
  <2> DEFINE work == [i \in DOMAIN run[c].work |-> TruncatedStatus]
  <2>1. work \in Work /\ DOMAIN work \subseteq 1..MaxCalls
    BY RunIsBounded DEF Work, TruncatedStatus, Done
  <2>2. run' = [run EXCEPT ![c] = [run[c] EXCEPT !.work = work]]
    BY <1>1 DEF FailTruncated
  <2> HIDE DEF work
  <2>3. [run[c] EXCEPT !.work = work] \in BoundedRun
    BY <2>1, RunIsBounded, RunWork
  <2>4. run' \in [Callers -> BoundedRun] /\ run' \in [Callers -> RunState]
    BY <2>2, <2>3, RunType
  <2>5. pc' \in [Callers -> Phases]
    BY <1>1 DEF FailTruncated, TypeInv, TypeOK, Phases, LoopPhases
  <2> QED
    BY <1>1, <2>4, <2>5 DEF FailTruncated, TypeInv, TypeOK, state, history, counts
<1>2. ASSUME StartExecution(c) PROVE TypeInv'
  <2>1. PICK serial \in BOOLEAN : run' = [run EXCEPT ![c] = [run[c] EXCEPT !.serial = serial]]
    BY <1>2 DEF StartExecution
  <2>2. [run[c] EXCEPT !.serial = serial] \in BoundedRun
    BY RunIsBounded, RunField
  <2>3. run' \in [Callers -> BoundedRun] /\ run' \in [Callers -> RunState]
    BY <2>1, <2>2, RunType
  <2>4. pc' \in [Callers -> Phases]
    BY <1>2 DEF StartExecution, TypeInv, TypeOK, Phases, LoopPhases
  <2> QED
    BY <1>2, <2>3, <2>4 DEF StartExecution, TypeInv, TypeOK, state, history, counts
<1>3. ASSUME JoinTools(c) PROVE TypeInv'
  <2> DEFINE results == ResultsOfBatch(run[c].work)
             more    == InState(c, {"terminate"}) # DOMAIN run[c].work
  <2>1. \A i \in DOMAIN run[c].work : run[c].work[i] \in Done
    BY <1>3 DEF JoinTools, InState
  <2>2. \A i \in DOMAIN run[c].work : Result(i, run[c].work[i]) \in Entry
    BY <2>1, RunIsBounded, EntryType
  <2>3. results \in Seq(Entry)
    BY <2>2, RunIsBounded DEF ResultsOfBatch, Work
  <2>4. run' = [run EXCEPT ![c] = [run[c] EXCEPT !.todo = results, !.hasMore = more,
                                                 !.work = <<>>, !.serial = FALSE]]
    BY <1>3 DEF JoinTools
  <2>5. <<>> \in Work /\ DOMAIN <<>> \subseteq 1..MaxCalls /\ more \in BOOLEAN
    BY DEF Work
  <2> HIDE DEF results, more
  <2>6. [run[c] EXCEPT !.todo = results, !.hasMore = more, !.work = <<>>, !.serial = FALSE]
          \in BoundedRun
    BY <2>3, <2>5, RunIsBounded, RunWork
  <2>7. run' \in [Callers -> BoundedRun] /\ run' \in [Callers -> RunState]
    BY <2>4, <2>6, RunType
  <2>8. pc' \in [Callers -> Phases]
    BY <1>3 DEF JoinTools, TypeInv, TypeOK, Phases, LoopPhases
  <2> QED
    BY <1>3, <2>7, <2>8 DEF JoinTools, TypeInv, TypeOK, state, history, counts
<1>4. ASSUME NEW i \in 1..MaxCalls, StartCall(c, i) PROVE TypeInv'
  <2>1. i \in DOMAIN run[c].work
    BY <1>4 DEF StartCall, Starting, InState
  <2> QED
    BY <1>4, <2>1, CallMoves DEF StartCall, Done
<1>5. ASSUME NEW i \in 1..MaxCalls, ToolStep(c, i) PROVE TypeInv'
  <2>1. CASE BeginTool(c, i)
    <3>1. i \in DOMAIN run[c].work
      BY <2>1 DEF BeginTool, InState
    <3> QED
      BY <2>1, <3>1, CallMoves DEF BeginTool, ToolEnded, Done
  <2>2. ASSUME NEW outcome \in Done \ {"aborted"}, EndTool(c, i, outcome) PROVE TypeInv'
    <3>1. i \in DOMAIN run[c].work
      BY <2>2 DEF EndTool, InState
    <3> QED
      BY <2>2, <3>1, CallMoves DEF EndTool, ToolEnded
  <2> QED
    BY <1>5, <2>1, <2>2 DEF ToolStep
<1> QED
  BY <1>1, <1>2, <1>3, <1>4, <1>5

(* The end of a run, and of one that panicked.                             *)
LEMMA TypeEnd ==
  ASSUME TypeInv, NEW c \in Callers
  PROVE  /\ RuntimePanic(c) => TypeInv'
         /\ FinishRun(c) => TypeInv'
         /\ ReleaseRun(c) => TypeInv'
         /\ ReturnToCaller(c) => TypeInv'
<1>1. ASSUME RuntimePanic(c) PROVE TypeInv'
  <2>1. Assistant(IF Cancelled THEN "aborted" ELSE "error", 0) \in Entry
    BY EntryType, ConstantsAssumption DEF Stops
  <2>2. <<>> \in Seq(Entry)
    OBVIOUS
  <2>3. RunFrom(<<>>, FALSE, TRUE) \in BoundedRun
    BY <2>2, RunFromType
  <2>4. run' \in [Callers -> BoundedRun] /\ run' \in [Callers -> RunState]
    BY <1>1, <2>3, RunType DEF RuntimePanic
  <2>5. /\ messages' \in Seq(Entry) /\ streaming' = "none"
        /\ unsent' \in [Callers -> Seq(Entry)] /\ open' \in Seq(Brackets)
    BY <1>1, <2>1, PushType DEF RuntimePanic
  <2>6. gone' \subseteq Messages /\ panics' \in Nat /\ pc' \in [Callers -> Phases]
    BY <1>1 DEF RuntimePanic, Submitted, TypeInv, TypeOK, Phases, LoopPhases
  <2> QED
    BY <1>1, <2>4, <2>5, <2>6 DEF RuntimePanic, TypeInv, TypeOK
<1>2. ASSUME FinishRun(c) PROVE TypeInv'
  BY <1>2 DEF FinishRun, TypeInv, TypeOK, Phases, LoopPhases, history, counts
<1>3. ASSUME ReleaseRun(c) PROVE TypeInv'
  <2>1. open' \in Seq(Brackets)
    BY <1>3, FrontType DEF ReleaseRun, Closed, Brackets, TypeInv, TypeOK
  <2>2. pc' \in [Callers -> Phases]
    BY <1>3 DEF ReleaseRun, TypeInv, TypeOK, Phases
  <2> QED
    BY <1>3, <2>1, <2>2 DEF ReleaseRun, TypeInv, TypeOK, history, counts
<1>4. ASSUME ReturnToCaller(c) PROVE TypeInv'
  <2>1. <<>> \in Seq(Entry)
    OBVIOUS
  <2>2. NoRun \in BoundedRun
    BY <2>1, RunFromType DEF NoRun
  <2>3. run' \in [Callers -> BoundedRun] /\ run' \in [Callers -> RunState]
    BY <1>4, <2>2, RunType DEF ReturnToCaller
  <2>4. pc' \in [Callers -> Phases]
    BY <1>4 DEF ReturnToCaller, TypeInv, TypeOK, Phases
  <2> QED
    BY <1>4, <2>3, <2>4 DEF ReturnToCaller, TypeInv, TypeOK, state, history, counts
<1> QED
  BY <1>1, <1>2, <1>3, <1>4

(* A caller's edit state stays one when a step of its edit changes it.     *)
LEMMA EditField ==
  ASSUME NEW e \in EditState, NEW step \in EditSteps, NEW s \in Seq(Entry), NEW n \in Nat,
         NEW b \in BOOLEAN
  PROVE  /\ [step |-> step, snap |-> s, queued |-> n, mid |-> b] \in EditState
         /\ [e EXCEPT !.step = step] \in EditState
         /\ [e EXCEPT !.step = step, !.snap = s] \in EditState
         /\ [e EXCEPT !.step = step, !.queued = n] \in EditState
BY DEF EditState

(* Resets and compactions.                                                 *)
LEMMA TypeEdits ==
  ASSUME TypeInv, NEW c \in Callers
  PROVE  /\ CompactCheck(c) => TypeInv'
         /\ EditStep(c) => TypeInv'
         /\ Reset(c) => TypeInv'
<1> DEFINE EditIs(e) == edit' = [edit EXCEPT ![c] = e]
<1>1. edit[c] \in EditState /\ edit[c].snap \in Seq(Entry)
  BY DEF TypeInv, TypeOK, EditState
<1>2. <<>> \in Seq(Entry) /\ NoEdit \in EditState
  BY DEF NoEdit, EditState, EditSteps
<1>3. \A e \in EditState : EditIs(e) => edit' \in [Callers -> EditState]
  BY DEF TypeInv, TypeOK
<1>4. \A s \in Seq(Entry) : Submitted(s) \subseteq Messages
  BY DEF Submitted
<1>5. ASSUME CompactCheck(c) PROVE TypeInv'
  <2>1. [edit[c] EXCEPT !.step = "checked"] \in EditState
    BY <1>1, <1>2, EditField DEF EditSteps
  <2>2. edit' \in [Callers -> EditState] /\ edits' \in Nat
    BY <1>3, <1>5, <2>1 DEF CompactCheck, StepEdit, TypeInv, TypeOK
  <2> QED
    BY <1>5, <2>2 DEF CompactCheck, TypeInv, TypeOK, state, history
<1>13. ASSUME CompactSnapshot(c) PROVE TypeInv'
  <2>1. OtherRuns(c) \in BOOLEAN
    BY DEF OtherRuns
  <2>2. [step |-> "summarizing", snap |-> messages, queued |-> 0, mid |-> OtherRuns(c)]
          \in EditState
    BY <2>1 DEF EditState, EditSteps, TypeInv, TypeOK
  <2>3. edit' \in [Callers -> EditState]
    BY <1>3, <1>13, <2>2 DEF CompactSnapshot
  <2> QED
    BY <1>13, <2>3 DEF CompactSnapshot, TypeInv, TypeOK, state, history, counts
<1>14. ASSUME TooShort(c) PROVE TypeInv'
  <2>1. edit' \in [Callers -> EditState]
    BY <1>2, <1>3, <1>14 DEF TooShort
  <2> QED
    BY <1>14, <2>1 DEF TooShort, TypeInv, TypeOK, state, history, counts
<1>6. ASSUME CompactCount(c) PROVE TypeInv'
  <2>1. Len(steering) + Len(followUps) \in Nat
    BY DEF TypeInv, TypeOK
  <2>2. [edit[c] EXCEPT !.step = "counted", !.queued = Len(steering) + Len(followUps)]
          \in EditState
    BY <1>1, <2>1, EditField DEF EditSteps
  <2>3. edit' \in [Callers -> EditState]
    BY <1>2, <1>3, <1>6, <2>2 DEF CompactCount
  <2> QED
    BY <1>6, <2>3 DEF CompactCount, TypeInv, TypeOK, state, history, counts
<1>7. ASSUME CompactRefused(c) PROVE TypeInv'
  <2>1. edit' \in [Callers -> EditState]
    BY <1>2, <1>3, <1>7 DEF CompactRefused
  <2> QED
    BY <1>7, <2>1 DEF CompactRefused, TypeInv, TypeOK, state, history, counts
<1>8. ASSUME CompactApply(c) PROVE TypeInv'
  <2>1. PICK cut \in CutPoints(edit[c].snap) :
          messages' = <<Marker>> \o SubSeq(edit[c].snap, cut, Len(edit[c].snap))
    BY <1>8 DEF CompactApply
  <2>2. cut \in 2..Len(edit[c].snap)
    BY DEF CutPoints
  <2>3. SubSeq(edit[c].snap, cut, Len(edit[c].snap)) \in Seq(Entry)
    BY <1>1, <2>2
  <2>4. messages' \in Seq(Entry)
    BY <2>1, <2>3, EntryType
  <2>5. [edit[c] EXCEPT !.step = "compacted", !.snap = messages'] \in EditState
    BY <1>1, <2>4, EditField DEF EditSteps
  <2>6. edit' \in [Callers -> EditState]
    BY <1>3, <1>8, <2>5 DEF CompactApply
  <2>7. gone' \subseteq Messages /\ torn' \in BOOLEAN
    BY <1>1, <1>8 DEF CompactApply, Submitted, EditState, TypeInv, TypeOK
  <2> QED
    BY <1>8, <2>4, <2>6, <2>7 DEF CompactApply, TypeInv, TypeOK, counts
<1>9. ASSUME CompactAnnounce(c) PROVE TypeInv'
  <2>1. [edit[c] EXCEPT !.step = "clearing", !.snap = <<>>] \in EditState
    BY <1>1, <1>2, EditField DEF EditSteps
  <2>2. edit' \in [Callers -> EditState] /\ mirror' \in Seq(Entry)
    BY <1>1, <1>3, <1>9, <2>1 DEF CompactAnnounce
  <2> QED
    BY <1>9, <2>2 DEF CompactAnnounce, TypeInv, TypeOK, history, counts
<1>10. ASSUME CompactClear(c) PROVE TypeInv'
  <2>1. edit' \in [Callers -> EditState]
    BY <1>2, <1>3, <1>10 DEF CompactClear
  <2>2. gone' \subseteq Messages
    BY <1>10 DEF CompactClear, Submitted, TypeInv, TypeOK
  <2>3. steering' \in Seq(UserEntry) /\ followUps' \in Seq(UserEntry)
    BY <1>10 DEF CompactClear
  <2> QED
    BY <1>10, <2>1, <2>2, <2>3 DEF CompactClear, TypeInv, TypeOK, counts
<1>11. ASSUME ResetAnnounce(c) PROVE TypeInv'
  <2>1. edit' \in [Callers -> EditState] /\ mirror' \in Seq(Entry)
    BY <1>2, <1>3, <1>11 DEF ResetAnnounce
  <2> QED
    BY <1>11, <2>1 DEF ResetAnnounce, TypeInv, TypeOK, history, counts
<1>12. ASSUME Reset(c) PROVE TypeInv'
  <2>1. [edit[c] EXCEPT !.step = "reset"] \in EditState
    BY <1>1, <1>2, EditField DEF EditSteps
  <2>2. edit' \in [Callers -> EditState]
    BY <1>3, <1>12, <2>1 DEF Reset, StepEdit
  <2>3. gone' \subseteq Messages /\ edits' \in Nat
    BY <1>12 DEF Reset, Submitted, TypeInv, TypeOK
  <2>4. /\ messages' \in Seq(Entry)
        /\ steering' \in Seq(UserEntry) /\ followUps' \in Seq(UserEntry)
    BY <1>12 DEF Reset
  <2> QED
    BY <1>12, <2>2, <2>3, <2>4 DEF Reset, TypeInv, TypeOK
<1> QED
  BY <1>5, <1>6, <1>7, <1>8, <1>9, <1>10, <1>11, <1>12, <1>13, <1>14 DEF EditStep

(* Steering, queueing, taking back and aborting.                           *)
LEMMA TypeUser == TypeInv /\ UserStep => TypeInv'
<1> SUFFICES ASSUME TypeInv, UserStep PROVE TypeInv'
  OBVIOUS
<1>1. ASSUME NEW m \in Messages, Steer(m) PROVE TypeInv'
  <2>1. User(m) \in UserEntry
    BY EntryType
  <2> QED
    BY <1>1, <2>1 DEF Steer, TypeInv, TypeOK, threads, counts
<1>2. ASSUME NEW m \in Messages, FollowUp(m) PROVE TypeInv'
  <2>1. User(m) \in UserEntry
    BY EntryType
  <2> QED
    BY <1>2, <2>1 DEF FollowUp, TypeInv, TypeOK, threads, counts
<1>3. ASSUME TakeQueued PROVE TypeInv'
  <2>1. gone' \subseteq Messages /\ edits' \in Nat
    BY <1>3 DEF TakeQueued, Submitted, TypeInv, TypeOK
  <2>2. steering' \in Seq(UserEntry) /\ followUps' \in Seq(UserEntry)
    BY <1>3 DEF TakeQueued
  <2> QED
    BY <1>3, <2>1, <2>2 DEF TakeQueued, TypeInv, TypeOK, threads
<1>4. ASSUME Abort PROVE TypeInv'
  BY <1>4 DEF Abort, TypeInv, TypeOK, threads, history
<1> QED
  BY <1>1, <1>2, <1>3, <1>4 DEF UserStep

(* The type invariant is inductive.                                        *)
LEMMA TypeStep == TypeInv /\ [Next]_vars => TypeInv'
<1> SUFFICES ASSUME TypeInv, [Next]_vars PROVE TypeInv'
  OBVIOUS
<1>1. CASE UNCHANGED vars
  BY <1>1 DEF vars, state, threads, history, counts, TypeInv, TypeOK
<1>2. ASSUME NEW c \in Callers, CallStep(c) PROVE TypeInv'
  BY <1>2, TypeStart, TypeEdits DEF CallStep, ContinueRun
<1>3. ASSUME NEW c \in Callers, LoopStep(c) PROVE TypeInv'
  BY <1>3, TypeStart, TypeRecord, TypeLoop, TypeRequest, TypeTools, TypeEnd
     DEF LoopStep, RunQueued
<1>4. ASSUME NEW c \in Callers, StreamStart(c) \/ RuntimePanic(c) PROVE TypeInv'
  BY <1>4, TypeRequest, TypeEnd
<1>5. ASSUME NEW c \in Callers, EditStep(c) PROVE TypeInv'
  BY <1>5, TypeEdits
<1>6. ASSUME NEW c \in Callers, NEW i \in 1..MaxCalls, ToolStep(c, i) PROVE TypeInv'
  BY <1>6, TypeTools
<1>7. CASE UserStep
  BY <1>7, TypeUser
<1>8. CASE Quiet
  BY <1>1, <1>8 DEF Quiet
<1> QED
  BY <1>1, <1>2, <1>3, <1>4, <1>5, <1>6, <1>7, <1>8 DEF Next

(* Whatever the callers, the tools and the user do, the shared state and   *)
(* every thread's own state have their types (InnerState, run_loop).       *)
THEOREM TypeCorrect == Spec => []TypeOK
<1>1. TypeInv => TypeOK
  BY DEF TypeInv
<1> QED
  BY <1>1, TypeInit, TypeStep, PTL DEF Spec

-----------------------------------------------------------------------------
(* Mutual exclusion.  The run slot, the between-turn window and the        *)
(* transition flag guard the transcript only together: the flags say what  *)
(* the threads do, and no thread that is rewriting leaves its hook.        *)
SlotInv ==
  /\ \A c, d \in Callers : InRun(c) /\ InRun(d) => c = d
  /\ \A c \in Callers : InRun(c) => runActive
  /\ \A c \in Callers : turnPrep = c => pc[c] = "hook"
  /\ \A c, d \in Callers : Rewriting(c) /\ Rewriting(d) => c = d
  /\ \A c \in Callers : Rewriting(c) => transition
  /\ \A c, d \in Callers : Rewriting(c) /\ InRun(d) => c = d /\ pc[d] = "hook"

Slot == <<pc, runActive, turnPrep, transition, edit>>

LEMMA SlotInit == Init => SlotInv
BY ConstantsAssumption DEF Init, SlotInv, InRun, LoopPhases, Rewriting, NoEdit

(* Only these five variables matter.                                       *)
LEMMA SlotFrame == SlotInv /\ UNCHANGED Slot => SlotInv'
BY DEF SlotInv, Slot, InRun, Rewriting

(* A run moves from one phase other than the hook to another.              *)
LEMMA SlotMove ==
  ASSUME TypeInv, SlotInv, NEW c \in Callers, NEW q \in LoopPhases,
         pc[c] \in LoopPhases, pc[c] # "hook", pc' = [pc EXCEPT ![c] = q],
         turnPrep' = turnPrep \/ (turnPrep' = c /\ q = "hook"),
         UNCHANGED <<runActive, transition, edit>>
  PROVE  SlotInv'
<1>1. pc \in [Callers -> Phases]
  BY DEF TypeInv, TypeOK
<1>2. \A d \in Callers : InRun(d)' <=> InRun(d)
  BY <1>1 DEF InRun
<1>3. \A d \in Callers : Rewriting(d)' <=> Rewriting(d)
  BY DEF Rewriting
<1>4. \A d \in Callers : ~Rewriting(d)
  BY DEF SlotInv, InRun
<1>5. \A d \in Callers : turnPrep' = d => pc'[d] = "hook"
  BY <1>1 DEF SlotInv
<1> QED
  BY <1>2, <1>3, <1>4, <1>5 DEF SlotInv

(* A run leaves the hook, having finished what it did there.               *)
LEMMA SlotLeaveHook ==
  ASSUME TypeInv, SlotInv, NEW c \in Callers, NEW q \in LoopPhases,
         pc[c] \in LoopPhases, edit[c].step = "none" \/ pc[c] # "hook",
         pc' = [pc EXCEPT ![c] = q], turnPrep' = NoThread,
         UNCHANGED <<runActive, transition, edit>>
  PROVE  SlotInv'
<1>1. pc \in [Callers -> Phases]
  BY DEF TypeInv, TypeOK
<1>2. \A d \in Callers : InRun(d)' <=> InRun(d)
  BY <1>1 DEF InRun
<1>3. \A d \in Callers : Rewriting(d)' <=> Rewriting(d)
  BY DEF Rewriting
<1>4. \A d \in Callers : ~Rewriting(d)
  BY DEF SlotInv, InRun, Rewriting
<1> QED
  BY <1>2, <1>3, <1>4, ConstantsAssumption DEF SlotInv

(* A thread claims the free slot.                                          *)
LEMMA SlotClaim ==
  ASSUME TypeInv, SlotInv, NEW c \in Callers, ~Busy,
         NEW batch, NEW skip, Claim(c, batch, skip)
  PROVE  SlotInv'
<1>1. pc \in [Callers -> Phases] /\ pc' = [pc EXCEPT ![c] = "claimed"]
  BY DEF TypeInv, TypeOK, Claim
<1>2. \A d \in Callers : ~InRun(d) /\ ~Rewriting(d)
  BY DEF SlotInv, Busy
<1>3. \A d \in Callers : (InRun(d)' <=> d = c) /\ ~Rewriting(d)'
  BY <1>1, <1>2 DEF Claim, InRun, LoopPhases, Rewriting
<1>4. \A d \in Callers : turnPrep' # d
  BY <1>2 DEF SlotInv, Claim, InRun, LoopPhases
<1> QED
  BY <1>3, <1>4 DEF SlotInv, Claim

(* A thread that is not in a run moves without starting one.               *)
LEMMA SlotOutside ==
  ASSUME TypeInv, SlotInv, NEW c \in Callers, NEW q \in {"idle", "requeue"},
         pc[c] \notin LoopPhases, pc' = [pc EXCEPT ![c] = q],
         UNCHANGED <<runActive, turnPrep, transition, edit>>
  PROVE  SlotInv'
<1>1. pc \in [Callers -> Phases]
  BY DEF TypeInv, TypeOK
<1>2. \A d \in Callers : (InRun(d)' <=> InRun(d)) /\ (Rewriting(d)' <=> Rewriting(d))
  BY <1>1 DEF InRun, LoopPhases, Rewriting
<1>3. \A d \in Callers : InRun(d) => pc'[d] = pc[d]
  BY <1>1 DEF InRun
<1>4. \A d \in Callers : turnPrep = d => InRun(d)
  BY DEF SlotInv, InRun, LoopPhases
<1> QED
  BY <1>2, <1>3, <1>4 DEF SlotInv

(* The running thread frees the slot.                                      *)
LEMMA SlotRelease ==
  ASSUME TypeInv, SlotInv, NEW c \in Callers, ReleaseRun(c)
  PROVE  SlotInv'
<1>1. pc \in [Callers -> Phases] /\ pc' = [pc EXCEPT ![c] = "requeue"] /\ InRun(c)
  BY DEF TypeInv, TypeOK, ReleaseRun, At, InRun, LoopPhases
<1>2. \A d \in Callers : ~InRun(d)'
  BY <1>1 DEF SlotInv, InRun, LoopPhases
<1>3. \A d \in Callers : Rewriting(d)' <=> Rewriting(d)
  BY DEF ReleaseRun, Rewriting
<1> QED
  BY <1>2, <1>3, ConstantsAssumption DEF SlotInv, ReleaseRun

(* An edit starts rewriting: nobody else does, and nobody else runs.       *)
LEMMA SlotRewrite ==
  ASSUME TypeInv, SlotInv, NEW c \in Callers, Accepts(c), transition' = TRUE,
         \A d \in Callers \ {c} : edit'[d] = edit[d],
         UNCHANGED <<pc, runActive, turnPrep>>
  PROVE  SlotInv'
<1>1. \A d \in Callers : ~Rewriting(d)
  BY DEF SlotInv, Accepts
<1>2. \A d \in Callers : Rewriting(d)' => d = c
  BY <1>1 DEF Rewriting
<1>3. \A d \in Callers : InRun(d)' <=> InRun(d)
  BY DEF InRun
<1>4. \A d \in Callers : InRun(d) => d = c /\ pc[d] = "hook"
  BY DEF SlotInv, Accepts, InRun, LoopPhases
<1> QED
  BY <1>2, <1>3, <1>4 DEF SlotInv

(* An edit stops rewriting, or changes step without rewriting.             *)
LEMMA SlotEdit ==
  ASSUME TypeInv, SlotInv, NEW c \in Callers, ~Rewriting(c)',
         \A d \in Callers \ {c} : edit'[d] = edit[d],
         transition' = transition \/ Rewriting(c),
         UNCHANGED <<pc, runActive, turnPrep>>
  PROVE  SlotInv'
<1>1. \A d \in Callers : Rewriting(d)' => Rewriting(d) /\ d # c
  BY DEF Rewriting
<1>2. \A d \in Callers : InRun(d)' <=> InRun(d)
  BY DEF InRun
<1> QED
  BY <1>1, <1>2 DEF SlotInv

(* Every step keeps the slot invariant.                                    *)
LEMMA SlotLoop ==
  ASSUME TypeInv, SlotInv, NEW c \in Callers, LoopStep(c)
  PROVE  SlotInv'
<1>1. CASE Announce(c)
  BY <1>1, SlotFrame DEF Announce, Slot, state
<1>2. CASE RecordNext(c)
  BY <1>2, SlotFrame DEF RecordNext, Slot
<1>3. CASE \E i \in 1..MaxCalls : StartCall(c, i)
  BY <1>3, SlotFrame DEF StartCall, Slot
<1>4. CASE AgentStart(c)
  BY <1>4, SlotMove DEF AgentStart, At, LoopPhases, state
<1>5. CASE RecordedAll(c)
  BY <1>5, SlotMove DEF RecordedAll, At, LoopPhases, state
<1>6. CASE InitialPoll(c)
  BY <1>6, SlotMove DEF InitialPoll, At, LoopPhases
<1>7. CASE InnerLoop(c)
  <2>1. PICK q \in {"hook", "inject"} : /\ pc' = [pc EXCEPT ![c] = q]
                                        /\ turnPrep' = turnPrep \/ (turnPrep' = c /\ q = "hook")
    BY <1>7 DEF InnerLoop
  <2> QED
    BY <1>7, <2>1, SlotMove DEF InnerLoop, At, LoopPhases
<1>8. CASE InnerLoopExit(c)
  BY <1>8, SlotMove DEF InnerLoopExit, At, LoopPhases, state
<1>9. CASE HookReturn(c)
  BY <1>9, SlotLeaveHook DEF HookReturn, At, LoopPhases
<1>10. CASE NextTurn(c)
  BY <1>10, SlotMove DEF NextTurn, At, LoopPhases
<1>11. CASE SkipRequest(c)
  BY <1>11, SlotMove DEF SkipRequest, RecordReply, At, LoopPhases
<1>12. CASE RequestAssistant(c)
  BY <1>12, SlotMove DEF RequestAssistant, At, LoopPhases, state
<1>13. ASSUME NEW s \in Stops, NEW n \in 0..MaxCalls, Reply(c, s, n) PROVE SlotInv'
  <2>1. PICK q \in {"turnEnd", "prepare"} : pc' = [pc EXCEPT ![c] = q]
    BY <1>13 DEF Reply
  <2> QED
    BY <1>13, <2>1, SlotMove DEF Reply, RecordReply, At, LoopPhases
<1>14. CASE FailTruncated(c)
  BY <1>14, SlotMove DEF FailTruncated, At, LoopPhases, state
<1>15. CASE StartExecution(c)
  BY <1>15, SlotMove DEF StartExecution, At, LoopPhases, state
<1>16. CASE JoinTools(c)
  BY <1>16, SlotMove DEF JoinTools, At, LoopPhases, state
<1>17. CASE EndTurn(c)
  <2>1. PICK q \in {"finish", "inner"} : pc' = [pc EXCEPT ![c] = q]
    BY <1>17 DEF EndTurn
  <2> QED
    BY <1>17, <2>1, SlotMove DEF EndTurn, At, LoopPhases
<1>18. CASE OuterLoop(c)
  <2>1. PICK q \in {"finish", "inner"} : pc' = [pc EXCEPT ![c] = q]
    BY <1>18 DEF OuterLoop
  <2> QED
    BY <1>18, <2>1, SlotMove DEF OuterLoop, At, LoopPhases
<1>19. CASE FinishRun(c)
  BY <1>19, SlotMove DEF FinishRun, At, LoopPhases
<1>20. CASE ReleaseRun(c)
  BY <1>20, SlotRelease
<1>21. CASE RunQueued(c)
  BY <1>21, SlotClaim DEF RunQueued, CannotRequeue, Continuation
<1>22. CASE ReturnToCaller(c)
  BY <1>22, SlotOutside DEF ReturnToCaller, LoopPhases, state
<1> QED
  BY <1>1, <1>2, <1>3, <1>4, <1>5, <1>6, <1>7, <1>8, <1>9, <1>10, <1>11, <1>12, <1>13,
     <1>14, <1>15, <1>16, <1>17, <1>18, <1>19, <1>20, <1>21, <1>22 DEF LoopStep

LEMMA SlotEdits ==
  ASSUME TypeInv, SlotInv, NEW c \in Callers, EditStep(c) \/ CompactCheck(c) \/ Reset(c)
  PROVE  SlotInv'
<1>1. edit \in [Callers -> EditState]
  BY DEF TypeInv, TypeOK
<1>2. CASE CompactSnapshot(c)
  <2>1. edit'[c].step = "summarizing"
    BY <1>1, <1>2 DEF CompactSnapshot
  <2> QED
    BY <1>1, <1>2, <2>1, SlotEdit DEF CompactSnapshot, Rewriting, state
<1>3. CASE CompactCount(c)
  <2> DEFINE e == [edit[c] EXCEPT !.step = "counted",
                                  !.queued = Len(steering) + Len(followUps)]
  <2>0. e.step = "counted" /\ NoEdit.step = "none"
    BY <1>1 DEF EditState, NoEdit
  <2> HIDE DEF e
  <2>1. edit'[c].step \in {"counted", "none"}
    <3>1. edit'[c] \in {e, NoEdit}
      BY <1>1, <1>3 DEF CompactCount, e
    <3> QED
      BY <2>0, <3>1
  <2>2. \A d \in Callers \ {c} : edit'[d] = edit[d]
    BY <1>1, <1>3 DEF CompactCount
  <2> QED
    BY <1>3, <2>1, <2>2, SlotEdit DEF CompactCount, Rewriting, state
<1>4. CASE CompactRefused(c)
  <2>1. edit'[c].step = "none" /\ \A d \in Callers \ {c} : edit'[d] = edit[d]
    BY <1>1, <1>4 DEF CompactRefused, NoEdit
  <2> QED
    BY <1>4, <2>1, SlotEdit DEF CompactRefused, Rewriting, state
<1>5. CASE CompactApply(c)
  <2>1. \A d \in Callers \ {c} : edit'[d] = edit[d]
    BY <1>1, <1>5 DEF CompactApply
  <2> QED
    BY <1>5, <2>1, SlotRewrite DEF CompactApply, CutRefused
<1>6. CASE CompactAnnounce(c)
  <2>1. edit'[c].step = "clearing"
    BY <1>1, <1>6 DEF CompactAnnounce, EditState
  <2>2. \A d \in Callers \ {c} : edit'[d] = edit[d]
    BY <1>1, <1>6 DEF CompactAnnounce
  <2> QED
    BY <1>6, <2>1, <2>2, SlotEdit DEF CompactAnnounce, Rewriting
<1>7. CASE CompactClear(c)
  <2>1. edit'[c].step = "none" /\ \A d \in Callers \ {c} : edit'[d] = edit[d]
    BY <1>1, <1>7 DEF CompactClear, NoEdit
  <2> QED
    BY <1>7, <2>1, SlotEdit DEF CompactClear, Rewriting
<1>8. CASE ResetAnnounce(c)
  <2>1. edit'[c].step = "none" /\ \A d \in Callers \ {c} : edit'[d] = edit[d]
    BY <1>1, <1>8 DEF ResetAnnounce, NoEdit
  <2> QED
    BY <1>8, <2>1, SlotEdit DEF ResetAnnounce, Rewriting
<1>9. CASE Reset(c)
  <2>1. \A d \in Callers \ {c} : edit'[d] = edit[d]
    BY <1>1, <1>9 DEF Reset, StepEdit
  <2> QED
    BY <1>9, <2>1, SlotRewrite DEF Reset, Accepts
<1>10. CASE CompactCheck(c)
  <2>1. edit'[c].step = "checked" /\ \A d \in Callers \ {c} : edit'[d] = edit[d]
    BY <1>1, <1>10 DEF CompactCheck, StepEdit, EditState
  <2> QED
    BY <1>10, <2>1, SlotEdit DEF CompactCheck, Rewriting, state
<1>11. CASE TooShort(c)
  <2>1. edit'[c].step = "none" /\ \A d \in Callers \ {c} : edit'[d] = edit[d]
    BY <1>1, <1>11 DEF TooShort, NoEdit
  <2> QED
    BY <1>11, <2>1, SlotEdit DEF TooShort, Rewriting, state
<1> QED
  BY <1>2, <1>3, <1>4, <1>5, <1>6, <1>7, <1>8, <1>9, <1>10, <1>11 DEF EditStep

LEMMA SlotStep == TypeInv /\ SlotInv /\ [Next]_vars => SlotInv'
<1> SUFFICES ASSUME TypeInv, SlotInv, [Next]_vars PROVE SlotInv'
  OBVIOUS
<1>1. CASE UNCHANGED vars
  BY <1>1, SlotFrame DEF vars, state, threads, Slot
<1>2. ASSUME NEW c \in Callers, CallStep(c) PROVE SlotInv'
  <2>1. ASSUME NEW m \in Messages, PromptMessages(c, m) PROVE SlotInv'
    BY <2>1, SlotClaim DEF PromptMessages
  <2>2. CASE ContinueRun(c)
    BY <2>2, SlotClaim DEF ContinueRun, Continuation
  <2>3. CASE Reset(c) \/ CompactCheck(c)
    BY <2>3, SlotEdits
  <2> QED
    BY <1>2, <2>1, <2>2, <2>3 DEF CallStep
<1>3. ASSUME NEW c \in Callers, LoopStep(c) PROVE SlotInv'
  BY <1>3, SlotLoop
<1>4. ASSUME NEW c \in Callers, StreamStart(c) PROVE SlotInv'
  BY <1>4, SlotFrame DEF StreamStart, threads, Slot
<1>5. ASSUME NEW c \in Callers, RuntimePanic(c) PROVE SlotInv'
  <2>1. pc[c] \in LoopPhases /\ (edit[c].step = "none" \/ pc[c] # "hook")
    BY <1>5 DEF RuntimePanic, At, LoopPhases
  <2> QED
    BY <1>5, <2>1, SlotLeaveHook DEF RuntimePanic, LoopPhases
<1>6. ASSUME NEW c \in Callers, EditStep(c) PROVE SlotInv'
  BY <1>6, SlotEdits
<1>7. ASSUME NEW c \in Callers, NEW i \in 1..MaxCalls, ToolStep(c, i) PROVE SlotInv'
  BY <1>7, SlotFrame DEF ToolStep, BeginTool, EndTool, Slot
<1>8. CASE UserStep
  BY <1>8, SlotFrame DEF UserStep, Steer, FollowUp, TakeQueued, Abort, threads, Slot
<1>9. CASE Quiet
  BY <1>1, <1>9 DEF Quiet
<1> QED
  BY <1>1, <1>2, <1>3, <1>4, <1>5, <1>6, <1>7, <1>8, <1>9 DEF Next

(* Two threads never run the loop at once and nobody rewrites the          *)
(* transcript under a running thread, other than the thread itself from    *)
(* its between-turn hook, with any number of threads.                      *)
THEOREM MutualExclusion == Spec => []OneWriter
<1>1. SlotInv => OneWriter
  BY DEF SlotInv, OneWriter
<1> QED
  BY <1>1, TypeInit, TypeStep, SlotInit, SlotStep, PTL DEF Spec

-----------------------------------------------------------------------------
(* What a run leaves behind.                                               *)

Editing(c) == edit[c].step # "none"

(* Outside a run nothing is left to announce; an edit keeps its thread     *)
(* where it is.                                                            *)
ThreadsWell ==
  \A c \in Callers :
    /\ ~InRun(c) => unsent[c] = <<>>
    /\ Editing(c) => pc[c] \in {"idle", "hook"}

Sent(c) == unsent[c] # <<>> => pc[c] \in {"start", "inject", "results", "turnEnd", "prepare"}

Streams(c) == streaming = "partial" => pc[c] = "waiting"

(* The flags that lead the loop from one turn to the next.                 *)
Flags(c) ==
  /\ pc[c] \in {"claimed", "start", "poll"} => run[c].hasMore /\ ~run[c].lastTurn
  /\ pc[c] = "inner" => run[c].hasMore \/ run[c].lastTurn
  /\ pc[c] = "outer" => run[c].lastTurn

(* The pending set follows the batch; only a panic leaves calls in it, for *)
(* finishRun to remove.                                                    *)
Calls(c) ==
  /\ pc[c] \in {"prepare", "execute"} => pendingCalls = InState(c, {"ready", "running"})
  /\ pc[c] = "prepare" /\ Truncated => InState(c, {"ready", "running"}) = {}
  /\ pc[c] = "turnEnd" /\ ~run[c].terminal => pendingCalls = {}
  /\ pc[c] \notin {"prepare", "execute", "turnEnd", "finish"} => pendingCalls = {}

(* A reply recorded after an abort is the run's last.                      *)
Late(c) ==
  lateAnswers = 0 \/ /\ lateAnswers = 1
                     /\ \/ pc[c] \in {"prepare", "execute", "results", "turnEnd"} /\ Cancelled
                        \/ pc[c] \in {"finish", "agentEnd"}

(* Which brackets are open where.                                          *)
Base(c) == IF pc[c] = "claimed" THEN <<>>
           ELSE IF \/ pc[c] \in {"hook", "afterHook", "outer", "finish", "agentEnd"}
                   \/ pc[c] = "inner" /\ run[c].lastTurn THEN <<"agent">>
           ELSE <<"agent", "turn">>

InMessage(c) == unsent[c] # <<>> \/ streaming = "partial"

NoHookPanic == "hook" \notin PanicSites \/ panics = 0

Bracketed(c) ==
  NoHookPanic => open = IF InMessage(c) THEN Base(c) \o <<"message">> ELSE Base(c)

RunsWell ==
  \A c \in Callers :
    InRun(c) => Sent(c) /\ Streams(c) /\ Flags(c) /\ Calls(c) /\ Late(c) /\ Bracketed(c)

(* Between runs nothing of a run is left.                                  *)
RestsWell ==
  (\A c \in Callers : ~InRun(c)) =>
    /\ pendingCalls = {} /\ token = "none" /\ streaming = "none"
    /\ turnPrep = NoThread /\ ~runActive /\ lateAnswers <= 1
    /\ NoHookPanic => open = <<>>

(* What the listeners have been told of the transcript.                    *)
FeedInv ==
  /\ \A c \in Callers : edit[c].step = "compacted" =>
       messages = edit[c].snap /\ messages # <<>> /\ Head(messages) = Marker
  /\ \A c \in Callers : edit[c].step = "reset" => messages = <<>>
  /\ \A c \in Callers : unsent[c] # <<>> =>
       unsent[c] = <<Last(messages)>> /\ messages = mirror \o unsent[c]
  /\ (\A c \in Callers : unsent[c] = <<>> /\ ~Rewriting(c)) => messages = mirror

RunInv == TypeInv /\ SlotInv /\ ThreadsWell /\ RunsWell /\ RestsWell /\ FeedInv

-----------------------------------------------------------------------------
(* Who can step while a thread is in a run.                                *)

LEMMA OneRunner ==
  ASSUME SlotInv, NEW c \in Callers, InRun(c), NEW d \in Callers, d # c
  PROVE  ~InRun(d)
BY DEF SlotInv

(* A thread whose phase says so is in a run.                               *)
LEMMA AtInRun ==
  ASSUME NEW c \in Callers, NEW q \in LoopPhases, At(c, q)
  PROVE  InRun(c) /\ pc[c] = q /\ unsent[c] = <<>>
BY DEF At, InRun

(* The running thread moves on: only its own part of RunsWell is at stake. *)
LEMMA RunnerStep ==
  ASSUME RunInv, NEW c \in Callers, InRun(c), InRun(c)',
         \A d \in Callers \ {c} : pc'[d] = pc[d],
         Sent(c)', Streams(c)', Flags(c)', Calls(c)', Late(c)', Bracketed(c)'
  PROVE  RunsWell' /\ RestsWell'
<1>1. \A d \in Callers \ {c} : ~InRun(d)'
  BY OneRunner DEF RunInv, InRun
<1>2. \A d \in Callers : InRun(d)' => d = c
  BY <1>1
<1>3. RunsWell'
  BY <1>2 DEF RunsWell
<1>4. RestsWell'
  BY DEF RestsWell
<1> QED
  BY <1>3, <1>4

(* What the thread that runs knows.                                        *)
LEMMA RunnerKnows ==
  ASSUME RunInv, NEW c \in Callers, InRun(c)
  PROVE  /\ Sent(c) /\ Streams(c) /\ Flags(c) /\ Calls(c) /\ Late(c) /\ Bracketed(c)
         /\ pc[c] \in LoopPhases /\ runActive
         /\ run[c] \in BoundedRun /\ run[c] \in RunState
         /\ pc \in [Callers -> Phases] /\ run \in [Callers -> BoundedRun]
         /\ unsent \in [Callers -> Seq(Entry)] /\ open \in Seq(Brackets)
         /\ streaming \in {"none", "partial"}
BY RunIsBounded DEF RunInv, RunsWell, SlotInv, InRun, TypeInv, TypeOK

-----------------------------------------------------------------------------
(* Brackets.                                                               *)

LEMMA CloseOpened ==
  ASSUME NEW s \in Seq(Brackets), NEW b \in Brackets, open = Append(s, b)
  PROVE  Closed(b) = s
<1>1. open # <<>> /\ Last(open) = b
  BY DEF Last
<1>2. Front(open) = s
  <2>1. Front(open) \in Seq(Brackets) /\ Len(Front(open)) = Len(s)
    BY DEF Front
  <2>2. \A i \in 1..Len(s) : Front(open)[i] = s[i]
    BY DEF Front
  <2> QED
    BY <2>1, <2>2, SeqEqual
<1> QED
  BY <1>1, <1>2 DEF Closed

LEMMA Bases ==
  ASSUME NEW c \in Callers
  PROVE  /\ Base(c) \in Seq(Brackets)
         /\ Base(c) \o <<"message">> = Append(Base(c), "message")
         /\ <<"agent">> \in Seq(Brackets) /\ <<>> \in Seq(Brackets)
         /\ <<"agent", "turn">> = Append(<<"agent">>, "turn")
         /\ <<"agent">> = Append(<<>>, "agent")
         /\ <<>> \o <<"agent", "turn">> = <<"agent", "turn">>
         /\ Brackets = {"agent", "turn", "message", "mismatch"}
<1>1. Base(c) \in {<<>>, <<"agent">>, <<"agent", "turn">>}
  BY DEF Base
<1>2. <<>> \in Seq(Brackets) /\ <<"agent">> \in Seq(Brackets) /\ <<"agent", "turn">> \in Seq(Brackets)
  BY DEF Brackets
<1>3. Base(c) \in Seq(Brackets)
  BY <1>1, <1>2
<1>4. \A s \in Seq(Brackets) : s \o <<"message">> = Append(s, "message")
  <2> TAKE s \in Seq(Brackets)
  <2>1. "message" \in Brackets
    BY DEF Brackets
  <2> QED
    BY <2>1, AppendIsConcat
<1>5. <<"agent", "turn">> = Append(<<"agent">>, "turn") /\ <<"agent">> = Append(<<>>, "agent")
  OBVIOUS
<1>6. <<>> \o <<"agent", "turn">> = <<"agent", "turn">>
  OBVIOUS
<1> QED
  BY <1>2, <1>3, <1>4, <1>5, <1>6 DEF Brackets

-----------------------------------------------------------------------------
(* The steps of a run.                                                     *)

(* The listeners are told.                                                 *)
LEMMA RunAnnounce ==
  ASSUME RunInv, NEW c \in Callers, Announce(c)
  PROVE  RunsWell' /\ RestsWell'
<1>1. unsent[c] # <<>> /\ InRun(c)
  BY DEF Announce, RunInv, ThreadsWell
<1>2. /\ pc[c] \in {"start", "inject", "results", "turnEnd", "prepare"}
      /\ UNCHANGED <<messages, streaming, pendingCalls, token, pc, run, lateAnswers, panics>>
      /\ unsent' = [unsent EXCEPT ![c] = <<>>] /\ open' = Closed("message")
  BY <1>1, RunnerKnows DEF Announce, Sent, state, history, counts
<1>3. unsent'[c] = <<>> /\ streaming # "partial"
  BY <1>1, <1>2, RunnerKnows DEF Streams
<1>4. Base(c)' = Base(c) /\ ~InMessage(c)' /\ InMessage(c)
  BY <1>1, <1>2, <1>3 DEF Base, InMessage
<1>5. Bracketed(c)'
  <2> SUFFICES ASSUME NoHookPanic' PROVE open' = Base(c)
    BY <1>4 DEF Bracketed
  <2>1. open = Append(Base(c), "message")
    BY <1>1, <1>2, <1>4, RunnerKnows, Bases DEF Bracketed, NoHookPanic
  <2> QED
    BY <1>2, <2>1, CloseOpened, Bases
<1>6. Sent(c)' /\ Streams(c)' /\ Flags(c)' /\ Late(c)'
  BY <1>1, <1>2, <1>3, RunnerKnows DEF Sent, Streams, Flags, Late, Cancelled
<1>7. Calls(c)'
  BY <1>1, <1>2, RunnerKnows DEF Calls, InState, Truncated, LastReply
<1>8. InRun(c)' /\ \A d \in Callers \ {c} : pc'[d] = pc[d]
  BY <1>1, <1>2 DEF InRun
<1> QED
  BY <1>1, <1>5, <1>6, <1>7, <1>8, RunnerStep

(* A thread whose phase changes, and nobody else's.                        *)
LEMMA Moves ==
  ASSUME RunInv, NEW c \in Callers, NEW q \in LoopPhases, pc' = [pc EXCEPT ![c] = q]
  PROVE  /\ pc'[c] = q /\ InRun(c)'
         /\ \A d \in Callers \ {c} : pc'[d] = pc[d]
BY DEF RunInv, TypeInv, TypeOK, InRun

LEMMA RunStart ==
  ASSUME RunInv, NEW c \in Callers, AgentStart(c)
  PROVE  RunsWell' /\ RestsWell'
<1>1. InRun(c) /\ pc[c] = "claimed" /\ unsent[c] = <<>>
  BY AtInRun DEF AgentStart, LoopPhases
<1>2. pc'[c] = "start" /\ InRun(c)' /\ \A d \in Callers \ {c} : pc'[d] = pc[d]
  BY Moves DEF AgentStart, LoopPhases
<1>3. /\ UNCHANGED <<messages, streaming, pendingCalls, token, run, unsent, lateAnswers, panics>>
      /\ open' = open \o <<"agent", "turn">>
  BY DEF AgentStart, state, counts
<1>4. streaming # "partial" /\ ~InMessage(c) /\ ~InMessage(c)' /\ Base(c) = <<>> /\ Base(c)' = <<"agent", "turn">>
  BY <1>1, <1>2, <1>3, RunnerKnows DEF Streams, InMessage, Base
<1>5. Bracketed(c)'
  BY <1>1, <1>3, <1>4, RunnerKnows, Bases DEF Bracketed, NoHookPanic
<1>6. Sent(c)' /\ Streams(c)' /\ Flags(c)' /\ Late(c)' /\ Calls(c)'
  BY <1>1, <1>2, <1>3, <1>4, RunnerKnows DEF Sent, Streams, Flags, Late, Calls
<1> QED
  BY <1>1, <1>2, <1>5, <1>6, RunnerStep

(* Recording an entry opens the brackets of its message, unless a streamed *)
(* reply has opened them.                                                  *)
LEMMA PushOpens ==
  ASSUME RunInv, NEW c \in Callers, InRun(c), unsent[c] = <<>>, NEW e \in Entry, Push(c, e),
         streaming = "partial" => e.role = "assistant", Base(c)' = Base(c),
         panics' = panics
  PROVE  Bracketed(c)'
<1>1. /\ streaming' = "none" /\ unsent'[c] = <<e>> /\ InMessage(c)'
      /\ open' = IF streaming = "partial" THEN open ELSE Append(open, "message")
  BY RunnerKnows DEF Push, AlreadyStarted, Opened, InMessage
<1> QED
  BY <1>1, RunnerKnows, Bases DEF Bracketed, NoHookPanic, InMessage

LEMMA RunRecord ==
  ASSUME RunInv, NEW c \in Callers, RecordNext(c)
  PROVE  RunsWell' /\ RestsWell'
<1>1. InRun(c) /\ pc[c] \in {"start", "inject", "results"} /\ unsent[c] = <<>>
  BY AtInRun DEF RecordNext, LoopPhases
<1>2. /\ Push(c, Head(run[c].todo)) /\ run[c].todo # <<>>
      /\ run' = [run EXCEPT ![c] = [run[c] EXCEPT !.todo = Tail(run[c].todo)]]
      /\ UNCHANGED <<pendingCalls, token, pc, lateAnswers, panics>>
  BY DEF RecordNext, counts
<1>3. Head(run[c].todo) \in Entry
  BY <1>1, <1>2, RunnerKnows DEF RunState
<1>4. /\ run'[c].hasMore = run[c].hasMore /\ run'[c].lastTurn = run[c].lastTurn
      /\ run'[c].terminal = run[c].terminal
  BY <1>1, <1>2, RunnerKnows DEF RunState
<1>5. streaming # "partial"
  BY <1>1, RunnerKnows DEF Streams
<1>6. Bracketed(c)'
  BY <1>1, <1>2, <1>3, <1>4, <1>5, PushOpens DEF Base
<1>7. streaming' = "none" /\ InRun(c)'
  BY <1>1, <1>2 DEF Push, InRun
<1>8. Sent(c)' /\ Streams(c)' /\ Flags(c)' /\ Late(c)' /\ Calls(c)'
  BY <1>1, <1>2, <1>4, <1>7, RunnerKnows DEF Sent, Streams, Flags, Late, Calls, Cancelled
<1> QED
  BY <1>1, <1>2, <1>6, <1>7, <1>8, RunnerStep

(* A step from phase to phase that opens and closes nothing.               *)
LEMMA PlainStep ==
  ASSUME RunInv, NEW c \in Callers, InRun(c), unsent[c] = <<>>, unsent'[c] = <<>>,
         InRun(c)', \A d \in Callers \ {c} : pc'[d] = pc[d],
         UNCHANGED <<streaming, open, panics, lateAnswers, token>>,
         pc[c] # "waiting", Base(c)' = Base(c), Flags(c)', Calls(c)',
         pc'[c] \in {"prepare", "execute", "results", "turnEnd"}
            => pc[c] \in {"prepare", "execute", "results", "turnEnd"},
         pc[c] \in {"prepare", "execute", "results"}
            => pc'[c] \in {"prepare", "execute", "results", "turnEnd"},
         pc[c] = "turnEnd" /\ Cancelled => pc'[c] = "finish",
         pc[c] \in {"finish", "agentEnd"} => pc'[c] \in {"finish", "agentEnd"}
  PROVE  RunsWell' /\ RestsWell'
<1>1. streaming # "partial" /\ ~InMessage(c) /\ ~InMessage(c)'
  BY RunnerKnows DEF Streams, InMessage
<1>2. Bracketed(c)'
  BY <1>1, RunnerKnows DEF Bracketed, NoHookPanic
<1>3. Late(c)'
  BY RunnerKnows DEF Late, Cancelled
<1>4. Sent(c)' /\ Streams(c)'
  BY <1>1 DEF Sent, Streams
<1> QED
  BY <1>2, <1>3, <1>4, RunnerStep

LEMMA RunPlain ==
  ASSUME RunInv, NEW c \in Callers
  PROVE  /\ RecordedAll(c) => RunsWell' /\ RestsWell'
         /\ InitialPoll(c) => RunsWell' /\ RestsWell'
         /\ InnerLoop(c) => RunsWell' /\ RestsWell'
         /\ InnerLoopExit(c) => RunsWell' /\ RestsWell'
         /\ HookReturn(c) => RunsWell' /\ RestsWell'
         /\ OuterLoop(c) => RunsWell' /\ RestsWell'
         /\ RequestAssistant(c) => RunsWell' /\ RestsWell'
<1>1. ASSUME RecordedAll(c) PROVE RunsWell' /\ RestsWell'
  <2>1. PICK phase \in {"start", "inject", "results"}, q \in {"poll", "request", "turnEnd"} :
            /\ At(c, phase) /\ pc' = [pc EXCEPT ![c] = q]
            /\ phase = "start" <=> q = "poll"
            /\ phase = "inject" <=> q = "request"
            /\ phase = "results" <=> q = "turnEnd"
    BY <1>1 DEF RecordedAll
  <2>2. InRun(c) /\ pc[c] = phase /\ unsent[c] = <<>>
    BY <2>1, AtInRun DEF LoopPhases
  <2>3. pc'[c] = q /\ InRun(c)' /\ \A d \in Callers \ {c} : pc'[d] = pc[d]
    BY <2>1, Moves DEF LoopPhases
  <2>4. UNCHANGED <<messages, streaming, pendingCalls, token, run, unsent, open, lateAnswers, panics>>
    BY <1>1 DEF RecordedAll, state, history, counts
  <2>5. Flags(c)' /\ Calls(c)' /\ Base(c)' = Base(c)
    BY <2>1, <2>2, <2>3, <2>4, RunnerKnows DEF Flags, Calls, Base
  <2> QED
    BY <2>1, <2>2, <2>3, <2>4, <2>5, PlainStep
<1>2. ASSUME InitialPoll(c) PROVE RunsWell' /\ RestsWell'
  <2>1. InRun(c) /\ pc[c] = "poll" /\ unsent[c] = <<>>
    BY <1>2, AtInRun DEF InitialPoll, LoopPhases
  <2>2. pc'[c] = "inner" /\ InRun(c)' /\ \A d \in Callers \ {c} : pc'[d] = pc[d]
    BY <1>2, Moves DEF InitialPoll, LoopPhases
  <2>3. UNCHANGED <<messages, streaming, pendingCalls, token, unsent, open, lateAnswers, panics>>
    BY <1>2 DEF InitialPoll, history, counts
  <2>4. run'[c].hasMore = run[c].hasMore /\ run'[c].lastTurn = run[c].lastTurn
    BY <1>2, <2>1, RunnerKnows DEF InitialPoll, DrainSteering, RunState
  <2>5. Flags(c)' /\ Calls(c)' /\ Base(c)' = Base(c)
    BY <2>1, <2>2, <2>3, <2>4, RunnerKnows DEF Flags, Calls, Base
  <2> QED
    BY <2>1, <2>2, <2>3, <2>5, PlainStep
<1>3. ASSUME InnerLoop(c) PROVE RunsWell' /\ RestsWell'
  <2>1. InRun(c) /\ pc[c] = "inner" /\ unsent[c] = <<>>
    BY <1>3, AtInRun DEF InnerLoop, LoopPhases
  <2>2. PICK q \in {"hook", "inject"} : /\ pc' = [pc EXCEPT ![c] = q]
                                        /\ run[c].lastTurn <=> q = "hook"
    BY <1>3 DEF InnerLoop
  <2>3. pc'[c] = q /\ InRun(c)' /\ \A d \in Callers \ {c} : pc'[d] = pc[d]
    BY <2>2, Moves DEF LoopPhases
  <2>4. UNCHANGED <<messages, streaming, pendingCalls, token, unsent, open, lateAnswers, panics>>
    BY <1>3 DEF InnerLoop, history, counts
  <2>5. Flags(c)' /\ Calls(c)' /\ Base(c)' = Base(c)
    BY <2>1, <2>2, <2>3, <2>4, RunnerKnows DEF Flags, Calls, Base
  <2> QED
    BY <2>1, <2>2, <2>3, <2>4, <2>5, PlainStep
<1>4. ASSUME InnerLoopExit(c) PROVE RunsWell' /\ RestsWell'
  <2>1. InRun(c) /\ pc[c] = "inner" /\ unsent[c] = <<>>
    BY <1>4, AtInRun DEF InnerLoopExit, LoopPhases
  <2>2. pc'[c] = "outer" /\ InRun(c)' /\ \A d \in Callers \ {c} : pc'[d] = pc[d]
    BY <1>4, Moves DEF InnerLoopExit, LoopPhases
  <2>3. /\ UNCHANGED <<messages, streaming, pendingCalls, token, run, unsent, open, lateAnswers, panics>>
        /\ ~run[c].hasMore
    BY <1>4 DEF InnerLoopExit, state, history, counts
  <2>4. Flags(c)' /\ Calls(c)' /\ Base(c)' = Base(c)
    BY <2>1, <2>2, <2>3, RunnerKnows DEF Flags, Calls, Base
  <2> QED
    BY <2>1, <2>2, <2>3, <2>4, PlainStep
<1>5. ASSUME HookReturn(c) PROVE RunsWell' /\ RestsWell'
  <2>1. InRun(c) /\ pc[c] = "hook" /\ unsent[c] = <<>>
    BY <1>5, AtInRun DEF HookReturn, LoopPhases
  <2>2. pc'[c] = "afterHook" /\ InRun(c)' /\ \A d \in Callers \ {c} : pc'[d] = pc[d]
    BY <1>5, Moves DEF HookReturn, LoopPhases
  <2>3. UNCHANGED <<messages, streaming, pendingCalls, token, run, unsent, open, lateAnswers, panics>>
    BY <1>5 DEF HookReturn, history, counts
  <2>4. Flags(c)' /\ Calls(c)' /\ Base(c)' = Base(c)
    BY <2>1, <2>2, <2>3, RunnerKnows DEF Flags, Calls, Base
  <2> QED
    BY <2>1, <2>2, <2>3, <2>4, PlainStep
<1>6. ASSUME OuterLoop(c) PROVE RunsWell' /\ RestsWell'
  <2>1. InRun(c) /\ pc[c] = "outer" /\ unsent[c] = <<>>
    BY <1>6, AtInRun DEF OuterLoop, LoopPhases
  <2>2. PICK q \in {"inner", "finish"} : pc' = [pc EXCEPT ![c] = q]
    BY <1>6 DEF OuterLoop
  <2>3. pc'[c] = q /\ InRun(c)' /\ \A d \in Callers \ {c} : pc'[d] = pc[d]
    BY <2>2, Moves DEF LoopPhases
  <2>4. UNCHANGED <<messages, streaming, pendingCalls, token, unsent, open, lateAnswers, panics>>
    BY <1>6 DEF OuterLoop, history, counts
  <2>5. run'[c].lastTurn = run[c].lastTurn
    <3>1. CASE followUps = <<>>
      BY <1>6, <3>1 DEF OuterLoop
    <3>2. CASE followUps # <<>>
      <4>1. run' = [run EXCEPT ![c] = [run[c] EXCEPT !.hasMore = TRUE,
                                         !.todo = Taken(followUps, FollowUpMode)]]
        BY <1>6, <3>2 DEF OuterLoop
      <4> QED
        BY <2>1, <4>1, RunnerKnows DEF RunState
    <3> QED
      BY <3>1, <3>2
  <2>6. Flags(c)' /\ Calls(c)' /\ Base(c)' = Base(c)
    BY <2>1, <2>3, <2>4, <2>5, RunnerKnows DEF Flags, Calls, Base
  <2> QED
    BY <2>1, <2>3, <2>4, <2>6, PlainStep
<1>7. ASSUME RequestAssistant(c) PROVE RunsWell' /\ RestsWell'
  <2>1. InRun(c) /\ pc[c] = "request" /\ unsent[c] = <<>>
    BY <1>7, AtInRun DEF RequestAssistant, LoopPhases
  <2>2. pc'[c] = "waiting" /\ InRun(c)' /\ \A d \in Callers \ {c} : pc'[d] = pc[d]
    BY <1>7, Moves DEF RequestAssistant, LoopPhases
  <2>3. UNCHANGED <<messages, streaming, pendingCalls, token, run, unsent, open, lateAnswers, panics>>
    BY <1>7 DEF RequestAssistant, state, history, counts
  <2>4. Flags(c)' /\ Calls(c)' /\ Base(c)' = Base(c)
    BY <2>1, <2>2, <2>3, RunnerKnows DEF Flags, Calls, Base
  <2> QED
    BY <2>1, <2>2, <2>3, <2>4, PlainStep
<1> QED
  BY <1>1, <1>2, <1>3, <1>4, <1>5, <1>6, <1>7

LEMMA RunNextTurn ==
  ASSUME RunInv, NEW c \in Callers, NextTurn(c)
  PROVE  RunsWell' /\ RestsWell'
<1>1. InRun(c) /\ pc[c] = "afterHook" /\ unsent[c] = <<>>
  BY AtInRun DEF NextTurn, LoopPhases
<1>2. pc'[c] = "inject" /\ InRun(c)' /\ \A d \in Callers \ {c} : pc'[d] = pc[d]
  BY Moves DEF NextTurn, LoopPhases
<1>3. /\ UNCHANGED <<messages, streaming, pendingCalls, token, unsent, lateAnswers, panics>>
      /\ open' = Append(open, "turn")
  BY DEF NextTurn, Opened, counts
<1>4. /\ streaming # "partial" /\ ~InMessage(c) /\ ~InMessage(c)'
      /\ Base(c) = <<"agent">> /\ Base(c)' = <<"agent", "turn">>
  BY <1>1, <1>2, <1>3, RunnerKnows DEF Streams, InMessage, Base
<1>5. Bracketed(c)'
  BY <1>1, <1>3, <1>4, RunnerKnows, Bases DEF Bracketed, NoHookPanic
<1>6. Sent(c)' /\ Streams(c)' /\ Flags(c)' /\ Late(c)' /\ Calls(c)'
  BY <1>1, <1>2, <1>3, <1>4, RunnerKnows DEF Sent, Streams, Flags, Late, Calls
<1> QED
  BY <1>1, <1>2, <1>5, <1>6, RunnerStep

(* A reply is recorded, with all its calls new.                            *)
LEMMA RunReply ==
  ASSUME RunInv, NEW c \in Callers, NEW s \in Stops, NEW n \in 0..MaxCalls,
         At(c, "request") \/ At(c, "waiting"), RecordReply(c, s, n),
         NEW q \in {"turnEnd", "prepare"}, pc' = [pc EXCEPT ![c] = q]
  PROVE  RunsWell' /\ RestsWell'
<1>1. InRun(c) /\ pc[c] \in {"request", "waiting"} /\ unsent[c] = <<>>
  BY AtInRun DEF LoopPhases
<1>2. pc'[c] = q /\ InRun(c)' /\ \A d \in Callers \ {c} : pc'[d] = pc[d]
  BY Moves DEF LoopPhases
<1>3. /\ Push(c, Assistant(s, n)) /\ UNCHANGED <<pendingCalls, token, panics>>
      /\ lateAnswers' = lateAnswers + (IF Cancelled THEN 1 ELSE 0)
  BY DEF RecordReply
<1>4. Assistant(s, n) \in Entry /\ Assistant(s, n).role = "assistant"
  BY EntryType DEF Assistant
<1>5. streaming' = "none" /\ pendingCalls = {} /\ lateAnswers = 0
  BY <1>1, <1>3, RunnerKnows DEF Push, Calls, Late
<1> DEFINE work == IF IsTerminal(s) THEN <<>> ELSE [i \in 1..n |-> "new"]
<1>6. \A i \in DOMAIN work : work[i] = "new"
  OBVIOUS
<1>7. run' = [run EXCEPT ![c] = [run[c] EXCEPT !.hasMore = FALSE,
                                   !.terminal = IsTerminal(s), !.work = work]]
  BY DEF RecordReply
<1> HIDE DEF work
<1>8. run'[c].work = work
  BY <1>1, <1>7, RunnerKnows DEF RunState
<1>9. InState(c, {"ready", "running"})' = {}
  BY <1>6, <1>8 DEF InState
<1>10. Base(c)' = Base(c)
  BY <1>1, <1>2 DEF Base
<1>11. Bracketed(c)'
  BY <1>1, <1>3, <1>4, <1>10, PushOpens
<1>12. Late(c)'
  BY <1>2, <1>3, <1>5 DEF Late, Cancelled
<1>13. Calls(c)'
  BY <1>2, <1>3, <1>5, <1>9 DEF Calls
<1>14. Sent(c)' /\ Streams(c)' /\ Flags(c)'
  BY <1>2, <1>5 DEF Sent, Streams, Flags
<1> QED
  BY <1>1, <1>2, <1>11, <1>12, <1>13, <1>14, RunnerStep

LEMMA RunRequest ==
  ASSUME RunInv, NEW c \in Callers
  PROVE  /\ SkipRequest(c) => RunsWell' /\ RestsWell'
         /\ \A s \in Stops, n \in 0..MaxCalls : Reply(c, s, n) => RunsWell' /\ RestsWell'
         /\ StreamStart(c) => RunsWell' /\ RestsWell'
<1>1. ASSUME SkipRequest(c) PROVE RunsWell' /\ RestsWell'
  <2>1. "aborted" \in Stops /\ 0 \in 0..MaxCalls
    BY ConstantsAssumption DEF Stops
  <2> QED
    BY <1>1, <2>1, RunReply DEF SkipRequest
<1>2. ASSUME NEW s \in Stops, NEW n \in 0..MaxCalls, Reply(c, s, n) PROVE RunsWell' /\ RestsWell'
  <2>1. PICK q \in {"turnEnd", "prepare"} : pc' = [pc EXCEPT ![c] = q]
    BY <1>2 DEF Reply
  <2> QED
    BY <1>2, <2>1, RunReply DEF Reply
<1>3. ASSUME StreamStart(c) PROVE RunsWell' /\ RestsWell'
  <2>1. InRun(c) /\ pc[c] = "waiting" /\ unsent[c] = <<>>
    BY <1>3, AtInRun DEF StreamStart, LoopPhases
  <2>2. /\ streaming = "none" /\ streaming' = "partial" /\ open' = Append(open, "message")
        /\ UNCHANGED <<messages, pendingCalls, token, pc, run, unsent, lateAnswers, panics>>
    BY <1>3 DEF StreamStart, Opened, threads, history, counts
  <2>3. ~InMessage(c) /\ InMessage(c)' /\ Base(c)' = Base(c)
    BY <2>1, <2>2 DEF InMessage, Base
  <2>4. Bracketed(c)'
    BY <2>1, <2>2, <2>3, RunnerKnows, Bases DEF Bracketed, NoHookPanic
  <2>5. Sent(c)' /\ Streams(c)' /\ Flags(c)' /\ Late(c)' /\ Calls(c)' /\ InRun(c)'
    BY <2>1, <2>2, RunnerKnows DEF Sent, Streams, Flags, Late, Calls, InRun
  <2> QED
    BY <2>1, <2>2, <2>4, <2>5, RunnerStep
<1> QED
  BY <1>1, <1>2, <1>3

-----------------------------------------------------------------------------
(* Tool batches.                                                           *)

(* One call of the batch moves on.                                         *)
LEMMA CallChanges ==
  ASSUME RunInv, NEW c \in Callers, NEW i \in DOMAIN run[c].work, NEW x,
         run' = [run EXCEPT ![c].work[i] = x]
  PROVE  /\ run'[c].work = [run[c].work EXCEPT ![i] = x]
         /\ run'[c].hasMore = run[c].hasMore /\ run'[c].lastTurn = run[c].lastTurn
         /\ run'[c].terminal = run[c].terminal
         /\ x \in {"ready", "running"} =>
              InState(c, {"ready", "running"})' = InState(c, {"ready", "running"}) \cup {i}
         /\ x \notin {"ready", "running"} =>
              InState(c, {"ready", "running"})' = InState(c, {"ready", "running"}) \ {i}
<1>1. run[c] \in RunState /\ run \in [Callers -> BoundedRun]
  BY RunIsBounded DEF RunInv, TypeInv
<1> DEFINE work == [run[c].work EXCEPT ![i] = x]
<1>2. run' = [run EXCEPT ![c] = [run[c] EXCEPT !.work = work]]
  OBVIOUS
<1>3. DOMAIN work = DOMAIN run[c].work /\ work[i] = x
      /\ \A j \in DOMAIN work : j # i => work[j] = run[c].work[j]
  BY <1>1 DEF RunState
<1> HIDE DEF work
<1>4. run'[c].work = work /\ run'[c].hasMore = run[c].hasMore
      /\ run'[c].lastTurn = run[c].lastTurn /\ run'[c].terminal = run[c].terminal
  BY <1>1, <1>2 DEF RunState
<1>5. InState(c, {"ready", "running"})' = {j \in DOMAIN work : work[j] \in {"ready", "running"}}
  BY <1>4 DEF InState
<1>6. x \in {"ready", "running"} =>
        InState(c, {"ready", "running"})' = InState(c, {"ready", "running"}) \cup {i}
  BY <1>3, <1>5 DEF InState
<1>7. x \notin {"ready", "running"} =>
        InState(c, {"ready", "running"})' = InState(c, {"ready", "running"}) \ {i}
  BY <1>3, <1>5 DEF InState
<1> QED
  BY <1>4, <1>6, <1>7 DEF work

LEMMA RunTools ==
  ASSUME RunInv, NEW c \in Callers, NEW i \in 1..MaxCalls,
         StartCall(c, i) \/ ToolStep(c, i)
  PROVE  RunsWell' /\ RestsWell'
<1>1. InRun(c) /\ pc[c] \in {"prepare", "execute"} /\ unsent[c] = <<>> /\ i \in DOMAIN run[c].work
  BY AtInRun DEF StartCall, Starting, ToolStep, BeginTool, EndTool, InState, LoopPhases
<1>2. /\ UNCHANGED <<messages, streaming, token, pc, unsent, open, lateAnswers, panics>>
      /\ pc[c] = "prepare" => ~Truncated
  BY <1>1 DEF StartCall, ToolStep, BeginTool, EndTool, At, history, counts
<1>3. PICK x : /\ run' = [run EXCEPT ![c].work[i] = x]
               /\ \/ x = "ready" /\ pendingCalls' = pendingCalls \cup {i}
                  \/ x = "running" /\ pendingCalls' = pendingCalls
                     /\ i \in InState(c, {"ready"})
                  \/ x = "error" /\ pendingCalls' = pendingCalls /\ i \in InState(c, {"new"})
                  \/ x \in Done /\ pendingCalls' = pendingCalls \ {i}
  BY DEF StartCall, Starting, ToolStep, BeginTool, EndTool, ToolEnded, Done
<1>4. pendingCalls = InState(c, {"ready", "running"})
  BY <1>1, RunnerKnows DEF Calls
<1>5. pendingCalls' = InState(c, {"ready", "running"})'
  <2>1. /\ i \in InState(c, {"ready"}) => i \in InState(c, {"ready", "running"})
        /\ i \in InState(c, {"new"}) => i \notin InState(c, {"ready", "running"})
    BY DEF InState
  <2>2. x \in Done => x \notin {"ready", "running"}
    BY DEF Done
  <2>3. /\ x \in {"ready", "running"} =>
              InState(c, {"ready", "running"})' = InState(c, {"ready", "running"}) \cup {i}
        /\ x \notin {"ready", "running"} =>
              InState(c, {"ready", "running"})' = InState(c, {"ready", "running"}) \ {i}
    BY <1>1, <1>3, CallChanges
  <2>4. CASE x = "ready" /\ pendingCalls' = pendingCalls \cup {i}
    BY <1>4, <2>3, <2>4
  <2>5. CASE x = "running" /\ pendingCalls' = pendingCalls /\ i \in InState(c, {"ready"})
    BY <1>4, <2>1, <2>3, <2>5
  <2>6. CASE x = "error" /\ pendingCalls' = pendingCalls /\ i \in InState(c, {"new"})
    BY <1>4, <2>1, <2>3, <2>6
  <2>7. CASE x \in Done /\ pendingCalls' = pendingCalls \ {i}
    BY <1>4, <2>2, <2>3, <2>7
  <2> QED
    BY <1>3, <2>4, <2>5, <2>6, <2>7
<1>6. run'[c].hasMore = run[c].hasMore /\ run'[c].lastTurn = run[c].lastTurn
  BY <1>1, <1>3, CallChanges
<1>7. Truncated' = Truncated /\ InRun(c)'
  BY <1>1, <1>2 DEF Truncated, LastReply, InRun
<1>8. Calls(c)'
  BY <1>1, <1>2, <1>5, <1>7 DEF Calls
<1>9. Flags(c)' /\ Base(c)' = Base(c)
  BY <1>1, <1>2 DEF Flags, Base
<1> QED
  BY <1>1, <1>2, <1>7, <1>8, <1>9, PlainStep

LEMMA RunBatch ==
  ASSUME RunInv, NEW c \in Callers
  PROVE  /\ FailTruncated(c) => RunsWell' /\ RestsWell'
         /\ StartExecution(c) => RunsWell' /\ RestsWell'
         /\ JoinTools(c) => RunsWell' /\ RestsWell'
<1>1. ASSUME FailTruncated(c) PROVE RunsWell' /\ RestsWell'
  <2>1. InRun(c) /\ pc[c] = "prepare" /\ unsent[c] = <<>> /\ Truncated
    BY <1>1, AtInRun DEF FailTruncated, LoopPhases
  <2>2. pc'[c] = "execute" /\ InRun(c)' /\ \A d \in Callers \ {c} : pc'[d] = pc[d]
    BY <1>1, Moves DEF FailTruncated, LoopPhases
  <2>3. /\ UNCHANGED <<messages, streaming, pendingCalls, token, unsent, open, lateAnswers, panics>>
        /\ run' = [run EXCEPT ![c] = [run[c] EXCEPT !.work = [j \in DOMAIN run[c].work |-> "error"]]]
    BY <1>1 DEF FailTruncated, TruncatedStatus, state, history, counts
  <2>4. run'[c].work = [j \in DOMAIN run[c].work |-> "error"]
    BY <2>1, <2>3, RunnerKnows DEF RunState
  <2>5. InState(c, {"ready", "running"})' = {}
    BY <2>4 DEF InState
  <2>6. pendingCalls = {}
    BY <2>1, RunnerKnows DEF Calls
  <2>7. Flags(c)' /\ Calls(c)' /\ Base(c)' = Base(c)
    BY <2>1, <2>2, <2>3, <2>5, <2>6 DEF Flags, Calls, Base
  <2> QED
    BY <2>1, <2>2, <2>3, <2>7, PlainStep
<1>2. ASSUME StartExecution(c) PROVE RunsWell' /\ RestsWell'
  <2>1. InRun(c) /\ pc[c] = "prepare" /\ unsent[c] = <<>>
    BY <1>2, AtInRun DEF StartExecution, LoopPhases
  <2>2. pc'[c] = "execute" /\ InRun(c)' /\ \A d \in Callers \ {c} : pc'[d] = pc[d]
    BY <1>2, Moves DEF StartExecution, LoopPhases
  <2>3. UNCHANGED <<messages, streaming, pendingCalls, token, unsent, open, lateAnswers, panics>>
    BY <1>2 DEF StartExecution, state, history, counts
  <2>4. PICK serial \in BOOLEAN : run' = [run EXCEPT ![c] = [run[c] EXCEPT !.serial = serial]]
    BY <1>2 DEF StartExecution
  <2>5. run'[c].work = run[c].work
    BY <2>1, <2>4, RunnerKnows DEF RunState
  <2>6. InState(c, {"ready", "running"})' = InState(c, {"ready", "running"})
    BY <2>5 DEF InState
  <2>7. Flags(c)' /\ Calls(c)' /\ Base(c)' = Base(c)
    BY <2>1, <2>2, <2>3, <2>6, RunnerKnows DEF Flags, Calls, Base
  <2> QED
    BY <2>1, <2>2, <2>3, <2>7, PlainStep
<1>3. ASSUME JoinTools(c) PROVE RunsWell' /\ RestsWell'
  <2>1. InRun(c) /\ pc[c] = "execute" /\ unsent[c] = <<>>
    BY <1>3, AtInRun DEF JoinTools, LoopPhases
  <2>2. pc'[c] = "results" /\ InRun(c)' /\ \A d \in Callers \ {c} : pc'[d] = pc[d]
    BY <1>3, Moves DEF JoinTools, LoopPhases
  <2>3. UNCHANGED <<messages, streaming, pendingCalls, token, unsent, open, lateAnswers, panics>>
    BY <1>3 DEF JoinTools, state, history, counts
  <2>4. InState(c, {"ready", "running"}) = {}
    BY <1>3 DEF JoinTools, InState, Done
  <2>5. Flags(c)' /\ Calls(c)' /\ Base(c)' = Base(c)
    BY <2>1, <2>2, <2>3, <2>4, RunnerKnows DEF Flags, Calls, Base
  <2> QED
    BY <2>1, <2>2, <2>3, <2>5, PlainStep
<1> QED
  BY <1>1, <1>2, <1>3

-----------------------------------------------------------------------------
(* The end of a turn and of a run.                                         *)

LEMMA RunEndTurn ==
  ASSUME RunInv, NEW c \in Callers, EndTurn(c)
  PROVE  RunsWell' /\ RestsWell'
<1>1. InRun(c) /\ pc[c] = "turnEnd" /\ unsent[c] = <<>>
  BY AtInRun DEF EndTurn, LoopPhases
<1>2. PICK q \in {"finish", "inner"} :
          /\ pc' = [pc EXCEPT ![c] = q]
          /\ q = "finish" <=> StopsHere(c)
  BY DEF EndTurn
<1>3. pc'[c] = q /\ InRun(c)' /\ \A d \in Callers \ {c} : pc'[d] = pc[d]
  BY <1>2, Moves DEF LoopPhases
<1>4. /\ UNCHANGED <<messages, streaming, pendingCalls, token, unsent, lateAnswers, panics>>
      /\ open' = Closed("turn")
  BY DEF EndTurn, history, counts
<1>5. q = "inner" => run'[c].lastTurn = TRUE
  <2>1. q = "inner" =>
           run' = [run EXCEPT ![c] = [run[c] EXCEPT !.lastTurn = TRUE,
                                         !.todo = Taken(steering, SteeringMode)]]
    BY <1>2 DEF EndTurn
  <2>2. run \in [Callers -> RunState] /\ run[c] \in RunState
    BY DEF RunInv, TypeInv, TypeOK
  <2> DEFINE x == [run[c] EXCEPT !.lastTurn = TRUE, !.todo = Taken(steering, SteeringMode)]
  <2>3. x.lastTurn = TRUE
    BY <2>2 DEF RunState
  <2> HIDE DEF x
  <2>4. run' = [run EXCEPT ![c] = x] => run'[c] = x
    BY <2>2
  <2> QED
    BY <2>1, <2>3, <2>4 DEF x
<1>6. /\ streaming # "partial" /\ ~InMessage(c) /\ ~InMessage(c)'
      /\ Base(c) = <<"agent", "turn">> /\ Base(c)' = <<"agent">>
  BY <1>1, <1>3, <1>4, <1>5, RunnerKnows DEF Streams, InMessage, Base
<1>7. Bracketed(c)'
  <2> SUFFICES ASSUME NoHookPanic' PROVE open' = <<"agent">>
    BY <1>6 DEF Bracketed
  <2>1. open = Append(<<"agent">>, "turn")
    BY <1>1, <1>4, <1>6, RunnerKnows, Bases DEF Bracketed, NoHookPanic
  <2> QED
    BY <1>4, <2>1, CloseOpened, Bases
<1>8. Sent(c)' /\ Streams(c)' /\ Flags(c)' /\ Late(c)' /\ Calls(c)'
  BY <1>1, <1>2, <1>3, <1>4, <1>5, <1>6, RunnerKnows
     DEF Sent, Streams, Flags, Late, Calls, StopsHere, Cancelled
<1> QED
  BY <1>1, <1>3, <1>7, <1>8, RunnerStep

(* A panic ends the run with an error reply, wherever the loop was.        *)
LEMMA RunPanic ==
  ASSUME RunInv, NEW c \in Callers, RuntimePanic(c)
  PROVE  RunsWell' /\ RestsWell'
<1>1. InRun(c) /\ pc[c] \in {"hook", "prepare"} /\ unsent[c] = <<>>
  BY AtInRun DEF RuntimePanic, LoopPhases
<1>2. pc'[c] = "turnEnd" /\ InRun(c)' /\ \A d \in Callers \ {c} : pc'[d] = pc[d]
  BY Moves DEF RuntimePanic, LoopPhases
<1>3. /\ Push(c, Assistant(IF Cancelled THEN "aborted" ELSE "error", 0))
      /\ UNCHANGED <<pendingCalls, token, lateAnswers>>
      /\ run' = [run EXCEPT ![c] = RunFrom(<<>>, FALSE, TRUE)]
      /\ panics' = panics + 1 /\ (pc[c] = "hook" => "hook" \in PanicSites)
  BY <1>1 DEF RuntimePanic, At
<1>4. run'[c].terminal = TRUE
  BY <1>1, <1>3, RunnerKnows DEF RunFrom
<1>5. /\ streaming # "partial" /\ streaming' = "none" /\ InMessage(c)'
      /\ open' = Append(open, "message")
  BY <1>1, <1>3, RunnerKnows DEF Streams, Push, AlreadyStarted, Opened, InMessage
<1>6. Bracketed(c)'
  <2>1. panics \in Nat
    BY DEF RunInv, TypeInv, TypeOK
  <2>2. NoHookPanic' => NoHookPanic /\ pc[c] = "prepare"
    BY <1>1, <1>3, <2>1 DEF NoHookPanic
  <2>3. pc[c] = "prepare" => ~InMessage(c) /\ Base(c)' = Base(c)
    BY <1>1, <1>2, <1>5 DEF InMessage, Base
  <2> QED
    BY <1>1, <1>5, <2>2, <2>3, RunnerKnows, Bases DEF Bracketed
<1>7. Sent(c)' /\ Streams(c)' /\ Flags(c)' /\ Late(c)' /\ Calls(c)'
  BY <1>1, <1>2, <1>3, <1>4, <1>5, RunnerKnows
     DEF Sent, Streams, Flags, Late, Calls, Cancelled
<1> QED
  BY <1>1, <1>2, <1>6, <1>7, RunnerStep

(* The stream state is cleared before the listeners see the end.           *)
LEMMA RunFinish ==
  ASSUME RunInv, NEW c \in Callers, FinishRun(c)
  PROVE  RunsWell' /\ RestsWell'
<1>1. InRun(c) /\ pc[c] = "finish" /\ unsent[c] = <<>>
  BY AtInRun DEF FinishRun, LoopPhases
<1>2. pc'[c] = "agentEnd" /\ InRun(c)' /\ \A d \in Callers \ {c} : pc'[d] = pc[d]
  BY Moves DEF FinishRun, LoopPhases
<1>3. /\ UNCHANGED <<messages, run, unsent, open, lateAnswers, panics>>
      /\ streaming' = "none" /\ pendingCalls' = {}
  BY DEF FinishRun, history, counts
<1>4. streaming # "partial" /\ ~InMessage(c) /\ ~InMessage(c)' /\ Base(c)' = Base(c)
  BY <1>1, <1>2, <1>3, RunnerKnows DEF Streams, InMessage, Base
<1>5. Bracketed(c)'
  BY <1>1, <1>3, <1>4, RunnerKnows DEF Bracketed, NoHookPanic
<1>6. Sent(c)' /\ Streams(c)' /\ Flags(c)' /\ Late(c)' /\ Calls(c)'
  BY <1>1, <1>2, <1>3, RunnerKnows DEF Sent, Streams, Flags, Late, Calls
<1> QED
  BY <1>1, <1>2, <1>5, <1>6, RunnerStep

(* The slot is free again.                                                 *)
LEMMA RunRelease ==
  ASSUME RunInv, NEW c \in Callers, ReleaseRun(c)
  PROVE  RunsWell' /\ RestsWell'
<1>1. InRun(c) /\ pc[c] = "agentEnd" /\ unsent[c] = <<>>
  BY AtInRun DEF ReleaseRun, LoopPhases
<1>2. \A d \in Callers : ~InRun(d)'
  BY <1>1, OneRunner, RunnerKnows DEF RunInv, ReleaseRun, InRun, LoopPhases
<1>3. /\ UNCHANGED <<lateAnswers, panics>> /\ open' = Closed("agent")
      /\ streaming' = "none" /\ pendingCalls' = {} /\ token' = "none"
      /\ turnPrep' = NoThread /\ runActive' = FALSE
  BY DEF ReleaseRun, history, counts
<1>4. lateAnswers <= 1
  BY <1>1, RunnerKnows DEF Late
<1>5. NoHookPanic' => open' = <<>>
  <2> SUFFICES ASSUME NoHookPanic PROVE open' = <<>>
    BY <1>3 DEF NoHookPanic
  <2>1. streaming # "partial" /\ ~InMessage(c) /\ Base(c) = <<"agent">>
    BY <1>1, RunnerKnows DEF Streams, InMessage, Base
  <2>2. open = Append(<<>>, "agent")
    BY <1>1, <2>1, RunnerKnows, Bases DEF Bracketed
  <2> QED
    BY <1>3, <2>2, CloseOpened, Bases
<1> QED
  BY <1>2, <1>3, <1>4, <1>5 DEF RunsWell, RestsWell

-----------------------------------------------------------------------------
(* Steps outside a run.                                                    *)

(* A run starts where none was.                                            *)
LEMMA RunClaim ==
  ASSUME RunInv, NEW c \in Callers, ~Busy, NEW batch, NEW skip, Claim(c, batch, skip)
  PROVE  RunsWell' /\ RestsWell'
<1>1. \A d \in Callers : ~InRun(d)
  BY DEF RunInv, SlotInv, Busy
<1>2. /\ pendingCalls = {}
      /\ NoHookPanic => open = <<>>
      /\ unsent[c] = <<>>
  BY <1>1 DEF RunInv, RestsWell, ThreadsWell
<1>3. /\ pc' = [pc EXCEPT ![c] = "claimed"] /\ streaming' = "none" /\ lateAnswers' = 0
      /\ run' = [run EXCEPT ![c] = RunFrom(batch, skip, FALSE)]
      /\ UNCHANGED <<pendingCalls, unsent, open, panics>>
  BY DEF Claim, counts
<1>4. pc'[c] = "claimed" /\ InRun(c)' /\ \A d \in Callers \ {c} : ~InRun(d)'
  BY <1>1, <1>3 DEF RunInv, TypeInv, TypeOK, InRun, LoopPhases
<1>5. run'[c].hasMore = TRUE /\ run'[c].lastTurn = FALSE
  BY <1>3 DEF RunFrom, RunInv, TypeInv, TypeOK
<1>6. Base(c)' = <<>> /\ ~InMessage(c)'
  BY <1>2, <1>3, <1>4 DEF Base, InMessage
<1>7. Bracketed(c)'
  BY <1>2, <1>3, <1>6 DEF Bracketed, NoHookPanic
<1>8. Sent(c)' /\ Streams(c)' /\ Flags(c)' /\ Late(c)' /\ Calls(c)'
  BY <1>2, <1>3, <1>4, <1>5 DEF Sent, Streams, Flags, Late, Calls
<1> QED
  BY <1>4, <1>7, <1>8 DEF RunsWell, RestsWell

(* Nothing that RunsWell speaks of changes, except what an abort does.     *)
LEMMA RunUntouched ==
  ASSUME RunInv,
         UNCHANGED <<messages, streaming, pendingCalls, runActive, turnPrep, pc, run,
                     unsent, open, lateAnswers, panics>>,
         token' = token \/ (token # "none" /\ token' = "cancelled")
  PROVE  RunsWell' /\ RestsWell'
<1>1. \A c \in Callers : (InRun(c)' <=> InRun(c)) /\ Base(c)' = Base(c) /\ (InMessage(c)' <=> InMessage(c))
  BY DEF InRun, Base, InMessage
<1>2. \A c \in Callers : Bracketed(c) => Bracketed(c)'
  BY <1>1 DEF Bracketed, NoHookPanic
<1>3. \A c \in Callers : Sent(c) /\ Streams(c) /\ Flags(c) => Sent(c)' /\ Streams(c)' /\ Flags(c)'
  BY DEF Sent, Streams, Flags
<1>4. \A c \in Callers : Late(c) => Late(c)'
  BY DEF Late, Cancelled
<1>5. \A c \in Callers : Calls(c) => Calls(c)'
  BY DEF Calls, InState, Truncated, LastReply
<1>6. RunsWell'
  BY <1>1, <1>2, <1>3, <1>4, <1>5 DEF RunInv, RunsWell
<1>7. RestsWell'
  BY <1>1 DEF RunInv, RestsWell, NoHookPanic
<1> QED
  BY <1>6, <1>7

(* The transcript is rewritten while no run is on, or in its hook.         *)
LEMMA RunRewritten ==
  ASSUME RunInv, NEW c \in Callers, Accepts(c), streaming' = "none", pendingCalls' = {},
         UNCHANGED <<token, runActive, turnPrep, pc, run, unsent, open, lateAnswers, panics>>
  PROVE  RunsWell' /\ RestsWell'
<1>1. \A d \in Callers : InRun(d) => d = c /\ pc[d] = "hook"
  BY DEF RunInv, SlotInv, Accepts, InRun, LoopPhases
<1>2. \A d \in Callers : InRun(d)' <=> InRun(d)
  BY DEF InRun
<1>3. ASSUME NEW d \in Callers, InRun(d) 
      PROVE  Sent(d)' /\ Streams(d)' /\ Flags(d)' /\ Calls(d)' /\ Late(d)' /\ Bracketed(d)'
  <2>1. pc[d] = "hook"
    BY <1>1, <1>3
  <2>2. streaming # "partial" /\ (InMessage(d)' <=> InMessage(d)) /\ Base(d)' = Base(d)
    BY <1>3, <2>1, RunnerKnows DEF Streams, InMessage, Base
  <2>3. Bracketed(d)'
    BY <1>3, <2>2, RunnerKnows DEF Bracketed, NoHookPanic
  <2>4. Sent(d)' /\ Streams(d)' /\ Flags(d)' /\ Calls(d)' /\ Late(d)'
    BY <1>3, <2>1, RunnerKnows DEF Sent, Streams, Flags, Calls, Late
  <2> QED
    BY <2>3, <2>4
<1>4. RunsWell'
  BY <1>2, <1>3 DEF RunsWell
<1>5. RestsWell'
  BY <1>2 DEF RunInv, RestsWell, NoHookPanic
<1> QED
  BY <1>4, <1>5

(* A thread gives control back to its caller.                              *)
LEMMA RunReturned ==
  ASSUME RunInv, NEW c \in Callers, ReturnToCaller(c)
  PROVE  RunsWell' /\ RestsWell'
<1>1. /\ pc[c] = "requeue" /\ pc' = [pc EXCEPT ![c] = "idle"]
      /\ run' = [run EXCEPT ![c] = NoRun]
      /\ UNCHANGED <<messages, streaming, pendingCalls, token, runActive, turnPrep,
                     unsent, open, lateAnswers, panics>>
  BY DEF ReturnToCaller, state, history, counts
<1>2. \A d \in Callers : InRun(d)' <=> InRun(d)
  BY <1>1 DEF RunInv, TypeInv, TypeOK, InRun, LoopPhases
<1>3. ASSUME NEW d \in Callers, InRun(d)
      PROVE  Sent(d)' /\ Streams(d)' /\ Flags(d)' /\ Calls(d)' /\ Late(d)' /\ Bracketed(d)'
  <2>1. d # c /\ pc'[d] = pc[d] /\ run'[d] = run[d]
    BY <1>1, <1>3 DEF RunInv, TypeInv, TypeOK, InRun, LoopPhases
  <2>2. Base(d)' = Base(d) /\ (InMessage(d)' <=> InMessage(d))
    BY <1>1, <2>1 DEF Base, InMessage
  <2>3. Bracketed(d)'
    BY <1>1, <1>3, <2>2, RunnerKnows DEF Bracketed, NoHookPanic
  <2>4. Sent(d)' /\ Streams(d)' /\ Flags(d)' /\ Calls(d)' /\ Late(d)'
    BY <1>1, <1>3, <2>1, RunnerKnows
       DEF Sent, Streams, Flags, Calls, Late, Cancelled, InState, Truncated, LastReply
  <2> QED
    BY <2>3, <2>4
<1>4. RunsWell'
  BY <1>2, <1>3 DEF RunsWell
<1>5. RestsWell'
  BY <1>1, <1>2 DEF RunInv, RestsWell, NoHookPanic
<1> QED
  BY <1>4, <1>5

LEMMA RunsKeep ==
  ASSUME RunInv, [Next]_vars
  PROVE  RunsWell' /\ RestsWell'
<1>1. ASSUME NEW c \in Callers, LoopStep(c) PROVE RunsWell' /\ RestsWell'
  <2>1. CASE RunQueued(c)
    BY <2>1, RunClaim DEF RunQueued, CannotRequeue, Continuation
  <2>2. CASE ReturnToCaller(c)
    BY <2>2, RunReturned
  <2>3. CASE \E i \in 1..MaxCalls : StartCall(c, i)
    BY <2>3, RunTools
  <2>4. CASE \E s \in Stops, n \in 0..MaxCalls : Reply(c, s, n)
    BY <2>4, RunRequest
  <2>5. CASE Announce(c) \/ AgentStart(c) \/ RecordNext(c) \/ NextTurn(c)
    BY <2>5, RunAnnounce, RunStart, RunRecord, RunNextTurn
  <2>6. CASE \/ RecordedAll(c) \/ InitialPoll(c) \/ InnerLoop(c) \/ InnerLoopExit(c)
             \/ HookReturn(c) \/ OuterLoop(c) \/ RequestAssistant(c)
    BY <2>6, RunPlain
  <2>7. CASE SkipRequest(c) \/ FailTruncated(c) \/ StartExecution(c) \/ JoinTools(c)
    BY <2>7, RunRequest, RunBatch
  <2>8. CASE EndTurn(c) \/ FinishRun(c) \/ ReleaseRun(c)
    BY <2>8, RunEndTurn, RunFinish, RunRelease
  <2> QED
    BY <1>1, <2>1, <2>2, <2>3, <2>4, <2>5, <2>6, <2>7, <2>8 DEF LoopStep
<1>2. ASSUME NEW c \in Callers, CallStep(c) PROVE RunsWell' /\ RestsWell'
  <2>1. ASSUME NEW m \in Messages, PromptMessages(c, m) PROVE RunsWell' /\ RestsWell'
    BY <2>1, RunClaim DEF PromptMessages
  <2>2. CASE ContinueRun(c)
    BY <2>2, RunClaim DEF ContinueRun, Continuation
  <2>3. CASE Reset(c)
    BY <2>3, RunRewritten DEF Reset, Accepts
  <2>4. CASE CompactCheck(c)
    BY <2>4, RunUntouched DEF CompactCheck, state, history
  <2> QED
    BY <1>2, <2>1, <2>2, <2>3, <2>4 DEF CallStep
<1>3. ASSUME NEW c \in Callers, EditStep(c) PROVE RunsWell' /\ RestsWell'
  <2>1. CASE CompactApply(c)
    BY <2>1, RunRewritten DEF CompactApply, CutRefused, counts
  <2>2. CASE \/ CompactCount(c) \/ CompactRefused(c) \/ CompactAnnounce(c) \/ CompactClear(c)
             \/ ResetAnnounce(c) \/ CompactSnapshot(c) \/ TooShort(c)
    BY <2>2, RunUntouched DEF CompactCount, CompactRefused, CompactAnnounce, CompactClear,
       ResetAnnounce, CompactSnapshot, TooShort, state, history, counts
  <2> QED
    BY <1>3, <2>1, <2>2 DEF EditStep
<1>4. CASE UserStep \/ Quiet \/ UNCHANGED vars
  BY <1>4, RunUntouched DEF UserStep, Steer, FollowUp, TakeQueued, Abort, Quiet, vars, state,
     threads, history, counts
<1> QED
  BY <1>1, <1>2, <1>3, <1>4, RunRequest, RunPanic, RunTools DEF Next

-----------------------------------------------------------------------------
(* What is left to announce, and where an edit's thread is.                *)

LEMMA ThreadsKept ==
  ASSUME RunInv, NEW c \in Callers,
         \A d \in Callers \ {c} :
            pc'[d] = pc[d] /\ unsent'[d] = unsent[d] /\ edit'[d] = edit[d],
         ~InRun(c)' => unsent'[c] = <<>>,
         Editing(c)' => pc'[c] \in {"idle", "hook"}
  PROVE  ThreadsWell'
BY DEF RunInv, ThreadsWell, InRun, Editing

LEMMA ThreadsSame ==
  ASSUME RunInv, UNCHANGED <<pc, unsent, edit>>
  PROVE  ThreadsWell'
BY DEF RunInv, ThreadsWell, InRun, Editing

(* The running thread moves to a phase of the loop; an edit keeps it in    *)
(* its hook.                                                               *)
LEMMA ThreadsMove ==
  ASSUME RunInv, NEW c \in Callers, InRun(c), pc[c] # "hook" \/ edit[c].step = "none",
         NEW q \in LoopPhases, pc' = [pc EXCEPT ![c] = q],
         \A d \in Callers \ {c} : unsent'[d] = unsent[d],
         UNCHANGED edit
  PROVE  ThreadsWell'
<1>1. ~Editing(c)
  BY DEF RunInv, ThreadsWell, Editing, InRun, LoopPhases
<1>2. pc'[c] = q /\ \A d \in Callers \ {c} : pc'[d] = pc[d]
  BY Moves
<1> QED
  BY <1>1, <1>2, ThreadsKept DEF Editing, InRun

LEMMA ThreadsClaim ==
  ASSUME RunInv, NEW c \in Callers, Free(c), NEW batch, NEW skip, Claim(c, batch, skip)
  PROVE  ThreadsWell'
<1>1. pc'[c] = "claimed" /\ \A d \in Callers \ {c} : pc'[d] = pc[d]
  BY DEF Claim, RunInv, TypeInv, TypeOK
<1> QED
  BY <1>1, ThreadsKept DEF Claim, Free, Editing, InRun, LoopPhases

LEMMA ThreadsEdit ==
  ASSUME RunInv, NEW c \in Callers, Editing(c) \/ pc[c] \in {"idle", "hook"},
         \A d \in Callers \ {c} : edit'[d] = edit[d], UNCHANGED <<pc, unsent>>
  PROVE  ThreadsWell'
BY ThreadsKept DEF RunInv, ThreadsWell, Editing, InRun

LEMMA ThreadsKeep ==
  ASSUME RunInv, [Next]_vars
  PROVE  ThreadsWell'
<1>1. /\ edit \in [Callers -> EditState] /\ unsent \in [Callers -> Seq(Entry)]
      /\ pc \in [Callers -> Phases]
  BY DEF RunInv, TypeInv, TypeOK
<1>2. ASSUME NEW c \in Callers, LoopStep(c) PROVE ThreadsWell'
  <2>1. CASE Announce(c)
    <3>1. unsent'[c] = <<>> /\ \A d \in Callers \ {c} : unsent'[d] = unsent[d]
      BY <1>1, <2>1 DEF Announce
    <3> QED
      BY <2>1, <3>1, ThreadsKept DEF Announce, RunInv, ThreadsWell, Editing, InRun
  <2>2. CASE RecordNext(c)
    <3>1. InRun(c) /\ pc[c] # "hook" /\ \A d \in Callers \ {c} : unsent'[d] = unsent[d]
      BY <1>1, <2>2, AtInRun DEF RecordNext, Push, LoopPhases
    <3> QED
      BY <2>2, <3>1, ThreadsKept DEF RecordNext, RunInv, ThreadsWell, Editing, InRun
  <2>3. CASE \E i \in 1..MaxCalls : StartCall(c, i)
    BY <2>3, ThreadsSame DEF StartCall
  <2>4. CASE SkipRequest(c)
    <3>1. \A d \in Callers \ {c} : unsent'[d] = unsent[d]
      BY <1>1, <2>4 DEF SkipRequest, RecordReply, Push
    <3> QED
      BY <2>4, <3>1, ThreadsMove DEF SkipRequest, RecordReply, At, InRun, LoopPhases
  <2>5. ASSUME NEW s \in Stops, NEW n \in 0..MaxCalls, Reply(c, s, n) PROVE ThreadsWell'
    <3>1. \A d \in Callers \ {c} : unsent'[d] = unsent[d]
      BY <1>1, <2>5 DEF Reply, RecordReply, Push
    <3>2. PICK q \in {"turnEnd", "prepare"} : pc' = [pc EXCEPT ![c] = q]
      BY <2>5 DEF Reply
    <3> QED
      BY <2>5, <3>1, <3>2, ThreadsMove DEF Reply, RecordReply, At, InRun, LoopPhases
  <2>6. CASE RunQueued(c)
    <3>1. Free(c)
      BY <2>6 DEF RunQueued, Free, RunInv, ThreadsWell, Editing
    <3> QED
      BY <2>6, <3>1, ThreadsClaim DEF RunQueued, Continuation
  <2>7. CASE ReturnToCaller(c)
    <3>1. pc'[c] = "idle" /\ \A d \in Callers \ {c} : pc'[d] = pc[d]
      BY <1>1, <2>7 DEF ReturnToCaller
    <3> QED
      BY <2>7, <3>1, ThreadsKept DEF ReturnToCaller, RunInv, ThreadsWell, Editing, InRun, LoopPhases
  <2>8. CASE ReleaseRun(c)
    <3>1. pc'[c] = "requeue" /\ \A d \in Callers \ {c} : pc'[d] = pc[d]
      BY <1>1, <2>8 DEF ReleaseRun
    <3> QED
      BY <2>8, <3>1, ThreadsKept DEF ReleaseRun, At, RunInv, ThreadsWell, Editing, InRun, LoopPhases
  <2>9. CASE \/ AgentStart(c) \/ RecordedAll(c) \/ InitialPoll(c) \/ InnerLoop(c) \/ InnerLoopExit(c)
             \/ HookReturn(c) \/ NextTurn(c) \/ RequestAssistant(c) \/ FailTruncated(c)
             \/ StartExecution(c) \/ JoinTools(c) \/ EndTurn(c) \/ OuterLoop(c) \/ FinishRun(c)
    <3>1. /\ pc[c] \in LoopPhases /\ (pc[c] # "hook" \/ edit[c].step = "none")
          /\ UNCHANGED <<unsent, edit>>
      BY <2>9 DEF AgentStart, RecordedAll, InitialPoll, InnerLoop, InnerLoopExit, HookReturn, NextTurn,
         RequestAssistant, FailTruncated, StartExecution, JoinTools, EndTurn, OuterLoop, FinishRun,
         At, LoopPhases
    <3>2. PICK q \in LoopPhases : pc' = [pc EXCEPT ![c] = q]
      <4>1. "poll" \in LoopPhases /\ "request" \in LoopPhases /\ "turnEnd" \in LoopPhases
            /\ "start" \in LoopPhases /\ "inner" \in LoopPhases /\ "hook" \in LoopPhases
            /\ "inject" \in LoopPhases /\ "outer" \in LoopPhases /\ "afterHook" \in LoopPhases
            /\ "waiting" \in LoopPhases /\ "execute" \in LoopPhases /\ "results" \in LoopPhases
            /\ "finish" \in LoopPhases /\ "agentEnd" \in LoopPhases
        BY DEF LoopPhases
      <4>2. CASE RecordedAll(c)
        BY <4>1, <4>2 DEF RecordedAll
      <4>3. CASE InnerLoop(c) \/ EndTurn(c) \/ OuterLoop(c)
        BY <4>1, <4>3 DEF InnerLoop, EndTurn, OuterLoop
      <4> QED
        BY <2>9, <4>1, <4>2, <4>3 DEF AgentStart, InitialPoll, InnerLoopExit, HookReturn, NextTurn,
           RequestAssistant, FailTruncated, StartExecution, JoinTools, FinishRun
    <3> QED
      BY <3>1, <3>2, ThreadsMove DEF InRun
  <2> QED
    BY <1>2, <2>1, <2>2, <2>3, <2>4, <2>5, <2>6, <2>7, <2>8, <2>9 DEF LoopStep
<1>3. ASSUME NEW c \in Callers, CallStep(c) PROVE ThreadsWell'
  <2>1. ASSUME NEW m \in Messages, PromptMessages(c, m) PROVE ThreadsWell'
    BY <2>1, ThreadsClaim DEF PromptMessages
  <2>2. CASE ContinueRun(c)
    BY <2>2, ThreadsClaim DEF ContinueRun, Continuation
  <2>3. CASE Reset(c)
    BY <1>1, <2>3, ThreadsEdit DEF Reset, StepEdit
  <2>4. CASE CompactCheck(c)
    BY <1>1, <2>4, ThreadsEdit DEF CompactCheck, StepEdit, MayCompact, At
  <2> QED
    BY <1>3, <2>1, <2>2, <2>3, <2>4 DEF CallStep
<1>4. ASSUME NEW c \in Callers, StreamStart(c) PROVE ThreadsWell'
  BY <1>4, ThreadsSame DEF StreamStart, threads
<1>5. ASSUME NEW c \in Callers, RuntimePanic(c) PROVE ThreadsWell'
  <2>1. \A d \in Callers \ {c} : unsent'[d] = unsent[d]
    BY <1>1, <1>5 DEF RuntimePanic, Push
  <2> QED
    BY <1>5, <2>1, ThreadsMove DEF RuntimePanic, At, InRun, LoopPhases
<1>6. ASSUME NEW c \in Callers, EditStep(c) PROVE ThreadsWell'
  <2>1. Editing(c)
    BY <1>6 DEF EditStep, CompactCount, CompactRefused, CompactApply, CompactAnnounce, CompactClear,
       ResetAnnounce, CompactSnapshot, TooShort, Editing
  <2>2. UNCHANGED <<pc, unsent>>
    BY <1>6 DEF EditStep, CompactCount, CompactRefused, CompactApply, CompactAnnounce, CompactClear,
       ResetAnnounce, CompactSnapshot, TooShort
  <2>3. \A d \in Callers \ {c} : edit'[d] = edit[d]
    BY <1>1, <1>6 DEF EditStep, CompactCount, CompactRefused, CompactApply, CompactAnnounce,
       CompactClear, ResetAnnounce, CompactSnapshot, TooShort
  <2> QED
    BY <2>1, <2>2, <2>3, ThreadsEdit
<1>7. ASSUME NEW c \in Callers, NEW i \in 1..MaxCalls, ToolStep(c, i) PROVE ThreadsWell'
  BY <1>7, ThreadsSame DEF ToolStep, BeginTool, EndTool
<1>8. CASE UserStep \/ Quiet \/ UNCHANGED vars
  BY <1>8, ThreadsSame DEF UserStep, Steer, FollowUp, TakeQueued, Abort, Quiet, vars, threads
<1> QED
  BY <1>2, <1>3, <1>4, <1>5, <1>6, <1>7, <1>8 DEF Next

-----------------------------------------------------------------------------
(* The listeners' copy: every step is one of TranscriptFeed's, or leaves   *)
(* the transcript and the copy alone.                                      *)

Follows == [Feed!Next]_<<messages, mirror>>

(* While nobody is telling or rewriting, the copy is the transcript.       *)
LEMMA NothingUnsent ==
  ASSUME RunInv, NEW c \in Callers,
         \A d \in Callers : InRun(d) => d = c,
         unsent[c] = <<>>, \A d \in Callers : ~Rewriting(d)
  PROVE  messages = mirror /\ \A d \in Callers : unsent[d] = <<>>
<1>1. \A d \in Callers : unsent[d] = <<>>
  BY DEF RunInv, ThreadsWell
<1> QED
  BY <1>1 DEF RunInv, FeedInv

LEMMA FeedFrame ==
  ASSUME RunInv, UNCHANGED <<messages, mirror, unsent>>,
         \A d \in Callers : edit'[d] = edit[d] \/ (~Rewriting(d) /\ ~Rewriting(d)')
  PROVE  FeedInv' /\ Follows
<1>1. \A d \in Callers : Rewriting(d)' <=> Rewriting(d)
  BY DEF Rewriting
<1>2. \A d \in Callers : edit'[d].step = "compacted" => edit'[d] = edit[d]
  BY DEF Rewriting
<1>3. \A d \in Callers : edit'[d].step = "reset" => edit'[d] = edit[d]
  BY DEF Rewriting
<1> QED
  BY <1>1, <1>2, <1>3 DEF RunInv, FeedInv, Follows

LEMMA FeedPush ==
  ASSUME RunInv, NEW c \in Callers, InRun(c), unsent[c] = <<>>, ~Rewriting(c),
         NEW e \in Entry, Push(c, e), UNCHANGED <<mirror, edit>>
  PROVE  FeedInv' /\ Follows
<1>1. /\ unsent \in [Callers -> Seq(Entry)] /\ messages \in Seq(Entry)
      /\ messages' = Append(messages, e) /\ unsent' = [unsent EXCEPT ![c] = <<e>>]
  BY DEF RunInv, TypeInv, TypeOK, Push
<1>2. \A d \in Callers : ~Rewriting(d)
  BY DEF RunInv, SlotInv
<1>3. \A d \in Callers : InRun(d) => d = c
  BY DEF RunInv, SlotInv
<1>4. messages = mirror /\ \A d \in Callers : unsent[d] = <<>>
  BY <1>2, <1>3, NothingUnsent
<1>5. unsent'[c] = <<e>> /\ unsent'[c] # <<>> /\ \A d \in Callers \ {c} : unsent'[d] = <<>>
  BY <1>1, <1>4
<1>6. Last(messages') = e /\ messages' = messages \o <<e>>
  <2>1. messages' = messages \o <<e>>
    BY <1>1, AppendIsConcat
  <2>2. Last(messages') = e
    BY <1>1 DEF Last
  <2> QED
    BY <2>1, <2>2
<1>7. FeedInv'
  BY <1>2, <1>4, <1>5, <1>6 DEF FeedInv, Rewriting
<1>8. Feed!Next
  BY <1>1, <1>4 DEF Feed!Next, Feed!Change, Feed!Extend
<1> QED
  BY <1>7, <1>8 DEF Follows

LEMMA FeedAnnounce ==
  ASSUME RunInv, NEW c \in Callers, Announce(c)
  PROVE  FeedInv' /\ Follows
<1>1. /\ unsent \in [Callers -> Seq(Entry)] /\ unsent[c] # <<>>
      /\ unsent' = [unsent EXCEPT ![c] = <<>>] /\ mirror' = mirror \o unsent[c]
      /\ UNCHANGED <<messages, edit>>
  BY DEF RunInv, TypeInv, TypeOK, Announce, state
<1>2. mirror' = messages
  BY <1>1 DEF RunInv, FeedInv
<1>3. InRun(c)
  BY <1>1 DEF RunInv, ThreadsWell
<1>4. \A d \in Callers : unsent'[d] = <<>>
  BY <1>1, <1>3, OneRunner DEF RunInv, ThreadsWell
<1>5. FeedInv'
  BY <1>1, <1>2, <1>4 DEF RunInv, FeedInv
<1>6. Feed!Next
  BY <1>1, <1>2 DEF Feed!Next, Feed!Publish
<1> QED
  BY <1>5, <1>6 DEF Follows

(* A reset or a compaction, accepted while nobody runs or in the hook.     *)
LEMMA FeedRewrite ==
  ASSUME RunInv, NEW c \in Callers, Accepts(c),
         \A d \in Callers \ {c} : edit'[d] = edit[d], UNCHANGED <<mirror, unsent>>,
         \/ edit'[c].step = "reset" /\ messages' = <<>>
         \/ /\ edit'[c].step = "compacted" /\ messages' = edit'[c].snap
            /\ messages' # <<>> /\ Head(messages') = Marker
  PROVE  FeedInv' /\ Follows
<1>1. \A d \in Callers : ~Rewriting(d)
  BY DEF Accepts, RunInv, SlotInv
<1>2. \A d \in Callers : InRun(d) => d = c
  <2>1. CASE turnPrep = c
    <3>1. InRun(c)
      BY <2>1 DEF RunInv, SlotInv, InRun, LoopPhases
    <3> QED
      BY <3>1, OneRunner DEF RunInv
  <2> QED
    BY <2>1 DEF Accepts, RunInv, SlotInv
<1>3. unsent[c] = <<>>
  <2>1. CASE InRun(c)
    <3>1. pc[c] = "hook"
      BY <2>1 DEF Accepts, RunInv, SlotInv
    <3> QED
      BY <2>1, <3>1, RunnerKnows DEF Sent
  <2> QED
    BY <2>1 DEF RunInv, ThreadsWell
<1>4. messages = mirror /\ \A d \in Callers : unsent[d] = <<>>
  BY <1>1, <1>2, <1>3, NothingUnsent
<1>5. Rewriting(c)' /\ \A d \in Callers \ {c} : edit'[d].step \notin {"compacted", "reset"}
  BY <1>1 DEF Rewriting
<1>6. FeedInv'
  BY <1>4, <1>5 DEF FeedInv
<1>7. Feed!Next
  BY <1>4 DEF Feed!Next, Feed!Change, Feed!Clear, Feed!Compact
<1> QED
  BY <1>6, <1>7 DEF Follows

(* The event of a reset or a compaction.                                   *)
LEMMA FeedPublish ==
  ASSUME RunInv, NEW c \in Callers, Rewriting(c), ~Rewriting(c)',
         \A d \in Callers \ {c} : edit'[d] = edit[d], UNCHANGED <<messages, unsent>>,
         mirror' = IF edit[c].step = "reset" THEN <<>> ELSE edit[c].snap
  PROVE  FeedInv' /\ Follows
<1>1. mirror' = messages
  BY DEF Rewriting, RunInv, FeedInv
<1>2. \A d \in Callers : ~Rewriting(d)'
  BY DEF RunInv, SlotInv, Rewriting
<1>3. \A d \in Callers : unsent[d] = <<>>
  <2> SUFFICES ASSUME NEW d \in Callers, InRun(d) PROVE unsent[d] = <<>>
    BY DEF RunInv, ThreadsWell
  <2>1. pc[d] = "hook"
    BY DEF RunInv, SlotInv
  <2> QED
    BY <2>1, RunnerKnows DEF Sent
<1>4. FeedInv'
  BY <1>1, <1>2, <1>3 DEF FeedInv, Rewriting
<1>5. Feed!Next
  BY <1>1 DEF Feed!Next, Feed!Publish
<1> QED
  BY <1>4, <1>5 DEF Follows

LEMMA FeedKeep ==
  ASSUME RunInv, [Next]_vars
  PROVE  FeedInv' /\ Follows
<1>1. /\ edit \in [Callers -> EditState] /\ pc \in [Callers -> Phases]
      /\ run \in [Callers -> RunState] /\ \A c \in Callers : edit[c] \in EditState
  BY DEF RunInv, TypeInv, TypeOK
<1>2. ASSUME NEW c \in Callers, LoopStep(c) PROVE FeedInv' /\ Follows
  <2>1. CASE Announce(c)
    BY <2>1, FeedAnnounce
  <2>2. CASE RecordNext(c)
    <3>1. InRun(c) /\ pc[c] # "hook" /\ unsent[c] = <<>>
      BY <2>2, AtInRun DEF RecordNext, LoopPhases
    <3>2. Head(run[c].todo) \in Entry
      BY <2>2, RunIsBounded DEF RecordNext, RunInv
    <3>3. ~Rewriting(c)
      BY <3>1 DEF RunInv, SlotInv
    <3> QED
      BY <2>2, <3>1, <3>2, <3>3, FeedPush DEF RecordNext
  <2>3. ASSUME NEW s \in Stops, NEW n \in 0..MaxCalls, RecordReply(c, s, n),
               NEW q \in {"request", "waiting"}, At(c, q)
        PROVE  FeedInv' /\ Follows
    <3>1. InRun(c) /\ pc[c] # "hook" /\ unsent[c] = <<>>
      BY <2>3, AtInRun DEF LoopPhases
    <3>2. ~Rewriting(c)
      BY <3>1 DEF RunInv, SlotInv
    <3> QED
      BY <2>3, <3>1, <3>2, FeedPush, EntryType DEF RecordReply
  <2>4. CASE SkipRequest(c)
    <3>1. "aborted" \in Stops /\ 0 \in 0..MaxCalls
      BY ConstantsAssumption DEF Stops
    <3> QED
      BY <2>3, <2>4, <3>1 DEF SkipRequest
  <2>5. CASE \E s \in Stops, n \in 0..MaxCalls : Reply(c, s, n)
    BY <2>3, <2>5 DEF Reply
  <2>6. CASE RunQueued(c)
    BY <2>6, FeedFrame DEF RunQueued, Continuation, Claim
  <2>7. CASE \/ AgentStart(c) \/ RecordedAll(c) \/ InitialPoll(c) \/ InnerLoop(c) \/ InnerLoopExit(c)
             \/ HookReturn(c) \/ NextTurn(c) \/ RequestAssistant(c) \/ FailTruncated(c)
             \/ StartExecution(c) \/ JoinTools(c) \/ EndTurn(c) \/ OuterLoop(c) \/ FinishRun(c)
             \/ ReleaseRun(c) \/ ReturnToCaller(c) \/ \E i \in 1..MaxCalls : StartCall(c, i)
    <3>1. UNCHANGED <<messages, mirror, unsent, edit>>
      BY <2>7 DEF AgentStart, RecordedAll, InitialPoll, InnerLoop, InnerLoopExit, HookReturn, NextTurn,
         RequestAssistant, FailTruncated, StartExecution, JoinTools, EndTurn, OuterLoop, FinishRun,
         ReleaseRun, ReturnToCaller, StartCall, state
    <3> QED
      BY <3>1, FeedFrame
  <2> QED
    BY <1>2, <2>1, <2>2, <2>4, <2>5, <2>6, <2>7 DEF LoopStep
<1>3. ASSUME NEW c \in Callers, CallStep(c) PROVE FeedInv' /\ Follows
  <2>1. CASE ContinueRun(c) \/ \E m \in Messages : PromptMessages(c, m)
    <3>1. UNCHANGED <<messages, mirror, unsent, edit>>
      BY <2>1 DEF ContinueRun, Continuation, PromptMessages, Claim
    <3> QED
      BY <3>1, FeedFrame
  <2>2. CASE Reset(c)
    <3>1. edit'[c].step = "reset" /\ \A d \in Callers \ {c} : edit'[d] = edit[d]
      BY <1>1, <2>2 DEF Reset, StepEdit, EditState
    <3> QED
      BY <2>2, <3>1, FeedRewrite DEF Reset, Accepts
  <2>3. CASE CompactCheck(c)
    <3>1. edit'[c].step = "checked" /\ \A d \in Callers \ {c} : edit'[d] = edit[d]
      BY <1>1, <2>3 DEF CompactCheck, StepEdit, EditState
    <3>2. \A d \in Callers : edit'[d] = edit[d] \/ (~Rewriting(d) /\ ~Rewriting(d)')
      BY <2>3, <3>1 DEF CompactCheck, Rewriting
    <3> QED
      BY <2>3, <3>2, FeedFrame DEF CompactCheck, state
  <2> QED
    BY <1>3, <2>1, <2>2, <2>3 DEF CallStep
<1>4. ASSUME NEW c \in Callers, StreamStart(c) PROVE FeedInv' /\ Follows
  BY <1>4, FeedFrame DEF StreamStart, threads
<1>5. ASSUME NEW c \in Callers, RuntimePanic(c) PROVE FeedInv' /\ Follows
  <2>1. InRun(c) /\ unsent[c] = <<>> /\ (pc[c] # "hook" \/ edit[c].step = "none")
    BY <1>5, AtInRun DEF RuntimePanic, LoopPhases
  <2>2. ~Rewriting(c)
    BY <2>1 DEF RunInv, SlotInv, Rewriting
  <2>3. Assistant(IF Cancelled THEN "aborted" ELSE "error", 0) \in Entry
    BY EntryType, ConstantsAssumption DEF Stops
  <2> QED
    BY <1>5, <2>1, <2>2, <2>3, FeedPush DEF RuntimePanic
<1>6. ASSUME NEW c \in Callers, EditStep(c) PROVE FeedInv' /\ Follows
  <2>1. CASE CompactCount(c) \/ CompactRefused(c) \/ CompactClear(c)
    <3>1. \A d \in Callers : edit'[d] = edit[d] \/ (~Rewriting(d) /\ ~Rewriting(d)')
      <4>1. ~Rewriting(c) /\ \A d \in Callers \ {c} : edit'[d] = edit[d]
        BY <1>1, <2>1 DEF CompactCount, CompactRefused, CompactClear, Rewriting
      <4>2. edit'[c].step \in {"counted", "none"}
        <5>1. CASE CompactCount(c)
          <6>1. \A n : [edit[c] EXCEPT !.step = "counted", !.queued = n].step = "counted"
            BY <1>1 DEF EditState
          <6> DEFINE n == Len(steering) + Len(followUps)
                     counted == [edit[c] EXCEPT !.step = "counted", !.queued = n]
          <6>2. edit'[c] = counted \/ edit'[c] = NoEdit
            BY <1>1, <5>1 DEF CompactCount
          <6>3. counted.step = "counted" /\ NoEdit.step = "none"
            BY <6>1 DEF NoEdit
          <6> HIDE DEF counted
          <6> QED
            BY <6>2, <6>3
        <5> QED
          BY <1>1, <2>1, <5>1 DEF CompactRefused, CompactClear, NoEdit
      <4> QED
        BY <4>1, <4>2 DEF Rewriting
    <3> QED
      BY <2>1, <3>1, FeedFrame DEF CompactCount, CompactRefused, CompactClear, state
  <2>2. CASE CompactApply(c)
    <3>1. /\ edit'[c].step = "compacted" /\ edit'[c].snap = messages'
          /\ \A d \in Callers \ {c} : edit'[d] = edit[d]
      BY <1>1, <2>2 DEF CompactApply, EditState
    <3>2. PICK cut \in CutPoints(edit[c].snap) :
            messages' = <<Marker>> \o SubSeq(edit[c].snap, cut, Len(edit[c].snap))
      BY <2>2 DEF CompactApply
    <3>3. messages' # <<>> /\ Head(messages') = Marker
      <4>1. edit[c].snap \in Seq(Entry) /\ cut \in 2..Len(edit[c].snap)
        BY <1>1 DEF EditState, CutPoints
      <4> DEFINE kept == SubSeq(edit[c].snap, cut, Len(edit[c].snap))
      <4>2. kept \in Seq(Entry)
        BY <4>1
      <4> HIDE DEF kept
      <4>3. <<Marker>> \in Seq(Entry) /\ Len(<<Marker>>) = 1 /\ <<Marker>>[1] = Marker
        BY EntryType
      <4>4. Len(<<Marker>> \o kept) >= 1 /\ (<<Marker>> \o kept)[1] = Marker
        BY <4>2, <4>3
      <4> QED
        BY <3>2, <4>4 DEF kept
    <3>4. Accepts(c) /\ UNCHANGED <<mirror, unsent>>
      BY <2>2 DEF CompactApply, CutRefused
    <3> QED
      BY <3>1, <3>3, <3>4, FeedRewrite
  <2>3. CASE CompactAnnounce(c)
    <3>1. Rewriting(c) /\ ~Rewriting(c)' /\ edit[c].step # "reset"
          /\ \A d \in Callers \ {c} : edit'[d] = edit[d]
      BY <1>1, <2>3 DEF CompactAnnounce, Rewriting, EditState
    <3> QED
      BY <2>3, <3>1, FeedPublish DEF CompactAnnounce
  <2>4. CASE ResetAnnounce(c)
    <3>1. Rewriting(c) /\ ~Rewriting(c)' /\ edit[c].step = "reset"
          /\ \A d \in Callers \ {c} : edit'[d] = edit[d]
      BY <1>1, <2>4 DEF ResetAnnounce, Rewriting, NoEdit
    <3> QED
      BY <2>4, <3>1, FeedPublish DEF ResetAnnounce
  <2>5. CASE CompactSnapshot(c) \/ TooShort(c)
    <3>1. edit'[c].step \in {"summarizing", "none"} /\ \A d \in Callers \ {c} : edit'[d] = edit[d]
      BY <1>1, <2>5 DEF CompactSnapshot, TooShort, NoEdit
    <3>2. \A d \in Callers : edit'[d] = edit[d] \/ (~Rewriting(d) /\ ~Rewriting(d)')
      BY <2>5, <3>1 DEF CompactSnapshot, TooShort, Rewriting
    <3> QED
      BY <2>5, <3>2, FeedFrame DEF CompactSnapshot, TooShort, state
  <2> QED
    BY <1>6, <2>1, <2>2, <2>3, <2>4, <2>5 DEF EditStep
<1>7. ASSUME NEW c \in Callers, NEW i \in 1..MaxCalls, ToolStep(c, i) PROVE FeedInv' /\ Follows
  BY <1>7, FeedFrame DEF ToolStep, BeginTool, EndTool
<1>8. CASE UserStep \/ Quiet \/ UNCHANGED vars
  BY <1>8, FeedFrame DEF UserStep, Steer, FollowUp, TakeQueued, Abort, Quiet, vars, state, threads
<1> QED
  BY <1>2, <1>3, <1>4, <1>5, <1>6, <1>7, <1>8 DEF Next

-----------------------------------------------------------------------------
LEMMA RunInit == Init => RunInv
<1> SUFFICES ASSUME Init PROVE RunInv
  OBVIOUS
<1>1. TypeInv /\ SlotInv
  BY TypeInit, SlotInit
<1>2. \A c \in Callers : pc[c] = "idle" /\ ~InRun(c) /\ unsent[c] = <<>> /\ edit[c].step = "none"
  BY DEF Init, InRun, LoopPhases, NoEdit
<1>3. ThreadsWell /\ RunsWell
  BY <1>2 DEF ThreadsWell, RunsWell, Editing
<1>4. RestsWell /\ FeedInv
  BY <1>2 DEF Init, RestsWell, FeedInv
<1> QED
  BY <1>1, <1>3, <1>4 DEF RunInv

LEMMA RunStep == RunInv /\ [Next]_vars => RunInv'
<1> SUFFICES ASSUME RunInv, [Next]_vars PROVE RunInv'
  OBVIOUS
<1>1. TypeInv' /\ SlotInv'
  BY TypeStep, SlotStep DEF RunInv
<1> QED
  BY <1>1, RunsKeep, ThreadsKeep, FeedKeep DEF RunInv

LEMMA RunAlways == Spec => []RunInv
BY RunInit, RunStep, PTL DEF Spec

(* The pending set is exact while calls are prepared and executed, and     *)
(* between runs nothing of a run is left.                                  *)
THEOREM PendingIsExact == Spec => []PendingExact
<1>1. RunInv => PendingExact
  BY DEF RunInv, RunsWell, RestsWell, Calls, PendingExact, InRun, LoopPhases
<1> QED
  BY <1>1, RunAlways, PTL

(* After an abort at most one more reply is recorded.                      *)
THEOREM AbortsStop == Spec => []AbortStopsRun
<1>1. RunInv => AbortStopsRun
  <2> SUFFICES ASSUME RunInv PROVE lateAnswers <= 1
    BY DEF AbortStopsRun
  <2>1. CASE \A c \in Callers : ~InRun(c)
    BY <2>1 DEF RunInv, RestsWell
  <2>2. ASSUME NEW c \in Callers, InRun(c) PROVE lateAnswers <= 1
    BY <2>2, RunnerKnows DEF Late
  <2> QED
    BY <2>1, <2>2
<1> QED
  BY <1>1, RunAlways, PTL

LEMMA Nested ==
  ASSUME NEW s \in Seq(Brackets), Len(s) <= 3,
         Len(s) >= 1 => s[1] = "agent", Len(s) >= 2 => s[2] = "turn",
         Len(s) >= 3 => s[3] = "message"
  PROVE  IsPrefix(s, <<"agent", "turn", "message">>)
<1> DEFINE t == <<"agent", "turn", "message">>
<1>1. t \in Seq(Brackets) /\ Len(t) = 3 /\ t[1] = "agent" /\ t[2] = "turn" /\ t[3] = "message"
  BY DEF Brackets
<1> HIDE DEF t
<1>2. Len(s) \in Nat /\ \A i \in 1..Len(s) : s[i] = t[i]
  BY <1>1
<1>3. SubSeq(s, 1, Len(s)) = SubSeq(t, 1, Len(s))
  <2> DEFINE a == SubSeq(s, 1, Len(s))
             b == SubSeq(t, 1, Len(s))
  <2>1. a \in Seq(Brackets) /\ b \in Seq(Brackets) /\ Len(a) = Len(s) /\ Len(b) = Len(s)
    BY <1>1, <1>2
  <2>2. \A i \in 1..Len(a) : a[i] = b[i]
    BY <1>1, <1>2
  <2> HIDE DEF a, b
  <2>3. a = b
    BY <2>1, <2>2, SeqEqual
  <2> QED
    BY <2>3 DEF a, b
<1> QED
  BY <1>1, <1>3 DEF IsPrefix, t

LEMMA NestedShort ==
  /\ IsPrefix(<<>>, <<"agent", "turn", "message">>)
  /\ IsPrefix(<<"agent">>, <<"agent", "turn", "message">>)
  /\ IsPrefix(<<"agent", "turn">>, <<"agent", "turn", "message">>)
<1>1. /\ <<>> \in Seq(Brackets) /\ Len(<<>>) = 0
      /\ <<"agent">> \in Seq(Brackets) /\ Len(<<"agent">>) = 1 /\ <<"agent">>[1] = "agent"
      /\ <<"agent", "turn">> \in Seq(Brackets) /\ Len(<<"agent", "turn">>) = 2
      /\ <<"agent", "turn">>[1] = "agent" /\ <<"agent", "turn">>[2] = "turn"
  BY DEF Brackets
<1>2. \A s \in Seq(Brackets) :
        /\ Len(s) = 0 => IsPrefix(s, <<"agent", "turn", "message">>)
        /\ Len(s) = 1 /\ s[1] = "agent" => IsPrefix(s, <<"agent", "turn", "message">>)
        /\ Len(s) = 2 /\ s[1] = "agent" /\ s[2] = "turn"
             => IsPrefix(s, <<"agent", "turn", "message">>)
  <2> TAKE s \in Seq(Brackets)
  <2>1. CASE Len(s) = 0
    <3>1. Len(s) <= 3 /\ ~(Len(s) >= 1) /\ ~(Len(s) >= 2) /\ ~(Len(s) >= 3) /\ Len(s) # 1 /\ Len(s) # 2
      BY <2>1
    <3> QED
      BY <3>1, Nested, Zenon
  <2>2. CASE Len(s) = 1 /\ s[1] = "agent"
    <3>1. Len(s) <= 3 /\ ~(Len(s) >= 2) /\ ~(Len(s) >= 3) /\ Len(s) # 0 /\ Len(s) # 2
      BY <2>2
    <3> QED
      BY <2>2, <3>1, Nested, Zenon
  <2>3. CASE Len(s) = 2 /\ s[1] = "agent" /\ s[2] = "turn"
    <3>1. Len(s) <= 3 /\ ~(Len(s) >= 3) /\ Len(s) # 0 /\ Len(s) # 1
      BY <2>3
    <3> QED
      BY <2>3, <3>1, Nested, Zenon
  <2> QED
    BY ONLY <2>1, <2>2, <2>3, Zenon
<1> QED
  BY ONLY <1>1, <1>2, Zenon

(* Every bracket the listeners are shown is closed by its own end, as long *)
(* as the hook between turns does not panic.                               *)
THEOREM EventsAreNested == Spec => []EventsNested
<1>1. RunInv => EventsNested
  <2> SUFFICES ASSUME RunInv, NoHookPanic PROVE IsPrefix(open, <<"agent", "turn", "message">>)
    BY DEF EventsNested, NoHookPanic
  <2>1. CASE \A c \in Callers : ~InRun(c)
    BY <2>1, NestedShort DEF RunInv, RestsWell
  <2>2. ASSUME NEW c \in Callers, InRun(c) PROVE IsPrefix(open, <<"agent", "turn", "message">>)
    <3>1. open = IF InMessage(c) THEN Base(c) \o <<"message">> ELSE Base(c)
      BY <2>2, RunnerKnows DEF Bracketed
    <3>2. InMessage(c) => Base(c) = <<"agent", "turn">>
      BY <2>2, RunnerKnows DEF InMessage, Base, Sent, Streams
    <3>3. Base(c) \in {<<>>, <<"agent">>, <<"agent", "turn">>}
      BY DEF Base
    <3>4. CASE InMessage(c)
      <4>1. open = Append(<<"agent", "turn">>, "message")
        BY <3>1, <3>2, <3>4, Bases
      <4>2. <<"agent", "turn">> \in Seq(Brackets) /\ "message" \in Brackets
        BY DEF Brackets
      <4>3. open \in Seq(Brackets) /\ Len(open) = 3
            /\ open[1] = "agent" /\ open[2] = "turn" /\ open[3] = "message"
        BY <4>1, <4>2
      <4> QED
        BY <4>3, Nested
    <3>5. CASE ~InMessage(c)
      BY <3>1, <3>3, <3>5, NestedShort, Zenon
    <3> QED
      BY <3>4, <3>5
  <2> QED
    BY <2>1, <2>2
<1> QED
  BY <1>1, RunAlways, PTL

(* The recorder's copy follows the transcript as TranscriptFeed says.      *)
THEOREM RecorderKeepsUp == Spec => RecorderFollows
<1>1. Init => Feed!Init
  BY DEF Init, Feed!Init
<1>2. RunInv /\ [Next]_vars => Follows
  BY FeedKeep
<1> QED
  BY <1>1, <1>2, RunAlways, PTL DEF RecorderFollows, Feed!Spec, Follows, Spec

-----------------------------------------------------------------------------
(* The transcript a request is made from.                                  *)

(* A tool result stands behind the reply that asked for it, after the      *)
(* results of the calls before it.                                         *)
Belongs(s, j) ==
  LET k == j - s[j].call IN
    /\ k >= 1 /\ s[j].call >= 1 /\ s[k].role = "assistant" /\ ~IsTerminal(s[k].stop)
    /\ s[j].call <= s[k].calls
    /\ s[k].stop = "length" => s[j].outcome = "error"
    /\ \A i \in 1..s[j].call : s[k + i].role = "toolResult" /\ s[k + i].call = i

Sound(s) ==
  /\ s # <<>> => s[1].role = "user"
  /\ \A j \in DOMAIN s : s[j].role = "toolResult" => Belongs(s, j)

(* A reply that did not fail has all its results, or a panic's reply next. *)
Full(s, k) ==
  \/ IsTerminal(s[k].stop)
  \/ /\ k + s[k].calls <= Len(s)
     /\ \A i \in 1..s[k].calls : s[k + i].role = "toolResult" /\ s[k + i].call = i
  \/ s[k].calls > 0 /\ k < Len(s) /\ s[k + 1].role = "assistant" /\ IsTerminal(s[k + 1].stop)

AllFull(s, except) == \A k \in DOMAIN s \ except : s[k].role = "assistant" => Full(s, k)
Well(s) == Sound(s) /\ AllFull(s, {})

(* The reply at k has calls that are being worked on.                      *)
Working(c) == pc[c] \in {"prepare", "execute", "results"}
OpenAt(k) ==
  /\ k \in DOMAIN messages /\ messages[k].role = "assistant" /\ ~IsTerminal(messages[k].stop)
  /\ AllFull(messages, {k})
  /\ \A i \in 1..(Len(messages) - k) :
       messages[k + i].role = "toolResult" /\ messages[k + i].call = i

CallsOf(c, k) ==
  pc[c] # "results" =>
    /\ k = Len(messages) /\ messages[k].calls > 0 /\ Len(run[c].work) = messages[k].calls
    /\ pc[c] = "execute" /\ messages[k].stop = "length" =>
         \A i \in DOMAIN run[c].work : run[c].work[i] = "error"

ResultsLeft(c, k) ==
  pc[c] = "results" =>
    /\ Len(messages) - k + Len(run[c].todo) = messages[k].calls
    /\ \A i \in DOMAIN run[c].todo :
         /\ run[c].todo[i].role = "toolResult" /\ run[c].todo[i].call = Len(messages) - k + i
         /\ messages[k].stop = "length" => run[c].todo[i].outcome = "error"

BatchOpen(c, k) == OpenAt(k) /\ CallsOf(c, k) /\ ResultsLeft(c, k)

(* What a run is about to record, and that it has something to answer.     *)
Vectors(c) ==
  /\ pc[c] # "results" => run[c].todo \in Seq(UserEntry)
  /\ messages # <<>> \/ (pc[c] \in {"claimed", "start"} /\ run[c].todo # <<>>)

(* A snapshot of a moment at which nobody else ran.                        *)
SnapOK(e) == e.mid \/ Well(e.snap)

TranscriptInv ==
  /\ Sound(messages)
  /\ \A c \in Callers : InRun(c) /\ ~Working(c) => Well(messages)
  /\ \A c \in Callers : Working(c) => \E k \in DOMAIN messages : BatchOpen(c, k)
  /\ \A c \in Callers : InRun(c) => Vectors(c)
  /\ (\A c \in Callers : ~InRun(c)) => Well(messages)
  /\ \A c \in Callers : SnapOK(edit[c])

LEMMA EntryKinds ==
  ASSUME NEW e \in Entry
  PROVE  /\ e.role \in {"user", "assistant", "toolResult"}
         /\ e.role = "assistant" => e.stop \in Stops /\ e.calls \in 0..MaxCalls
         /\ e.role = "toolResult" => e.call \in 1..MaxCalls /\ e.outcome \in Done
         /\ e \in UserEntry => e.role = "user"
         /\ Marker.role = "user"
BY DEF Entry, UserEntry, User, Marker, Assistant, Result

LEMMA AppendAt ==
  ASSUME NEW s \in Seq(Entry), NEW e \in Entry, NEW t, t = Append(s, e)
  PROVE  /\ t \in Seq(Entry) /\ Len(s) \in Nat /\ Len(t) = Len(s) + 1 /\ t # <<>>
         /\ DOMAIN s = 1..Len(s) /\ DOMAIN t = 1..(Len(s) + 1)
         /\ t[Len(s) + 1] = e /\ \A i \in 1..Len(s) : t[i] = s[i]
         /\ s = <<>> <=> Len(s) = 0
OBVIOUS

(* Nothing but a result can break what is said of results, and the first   *)
(* entry has to be the user's.                                             *)
LEMMA SoundAppend ==
  ASSUME NEW s \in Seq(Entry), Sound(s), NEW e \in Entry, s = <<>> => e.role = "user",
         e.role = "toolResult" =>
           \E k \in 1..Len(s) :
             /\ k = Len(s) + 1 - e.call /\ s[k].role = "assistant" /\ ~IsTerminal(s[k].stop)
             /\ e.call <= s[k].calls /\ (s[k].stop = "length" => e.outcome = "error")
             /\ \A i \in 1..(e.call - 1) : s[k + i].role = "toolResult" /\ s[k + i].call = i
  PROVE  Sound(Append(s, e))
<1> DEFINE t == Append(s, e)
<1>1. /\ t \in Seq(Entry) /\ Len(s) \in Nat /\ Len(t) = Len(s) + 1 /\ t # <<>>
      /\ DOMAIN s = 1..Len(s) /\ DOMAIN t = 1..(Len(s) + 1)
      /\ t[Len(s) + 1] = e /\ \A i \in 1..Len(s) : t[i] = s[i]
      /\ s = <<>> <=> Len(s) = 0
  BY AppendAt
<1> HIDE DEF t
<1>2. t[1].role = "user"
  BY <1>1 DEF Sound
<1>3. ASSUME NEW j \in 1..Len(s), s[j].role = "toolResult" PROVE Belongs(t, j)
  <2> DEFINE k == j - s[j].call
  <2>1. Belongs(s, j) /\ s[j].call \in Nat
    BY <1>1, <1>3, EntryKinds DEF Sound
  <2>2. k \in 1..Len(s) /\ \A i \in 1..s[j].call : k + i \in 1..Len(s)
    BY <1>1, <2>1 DEF Belongs
  <2>3. t[j] = s[j] /\ t[k] = s[k] /\ \A i \in 1..s[j].call : t[k + i] = s[k + i]
    BY <1>1, <2>2
  <2>4. /\ k >= 1 /\ s[j].call >= 1 /\ s[k].role = "assistant" /\ ~IsTerminal(s[k].stop)
        /\ s[j].call <= s[k].calls
        /\ s[k].stop = "length" => s[j].outcome = "error"
        /\ \A i \in 1..s[j].call : s[k + i].role = "toolResult" /\ s[k + i].call = i
    BY <2>1, Zenon DEF Belongs
  <2>5. k = j - t[j].call
    BY <2>3
  <2> HIDE DEF k
  <2>6. \A i \in 1..t[j].call : t[k + i].role = "toolResult" /\ t[k + i].call = i
    BY <2>3, <2>4
  <2> QED
    BY <2>3, <2>4, <2>5, <2>6 DEF Belongs
<1>4. e.role = "toolResult" => Belongs(t, Len(s) + 1)
  <2> SUFFICES ASSUME e.role = "toolResult" PROVE Belongs(t, Len(s) + 1)
    OBVIOUS
  <2>0. PICK k \in 1..Len(s) :
          /\ k = Len(s) + 1 - e.call /\ s[k].role = "assistant" /\ ~IsTerminal(s[k].stop)
          /\ e.call <= s[k].calls /\ (s[k].stop = "length" => e.outcome = "error")
          /\ \A i \in 1..(e.call - 1) : s[k + i].role = "toolResult" /\ s[k + i].call = i
    OBVIOUS
  <2>1. e.call \in Nat /\ e.call >= 1 /\ k + e.call = Len(s) + 1
    BY <1>1, <2>0, EntryKinds
  <2>2. \A i \in 1..e.call : t[k + i].role = "toolResult" /\ t[k + i].call = i
    <3> TAKE i \in 1..e.call
    <3>1. CASE i = e.call
      BY <1>1, <2>1, <3>1
    <3>2. CASE i # e.call
      <4>1. i \in 1..(e.call - 1) /\ k + i \in 1..Len(s)
        BY <1>1, <2>1, <3>2
      <4> QED
        BY <1>1, <2>0, <4>1
    <3> QED
      BY <3>1, <3>2
  <2>3. /\ t[Len(s) + 1] = e /\ Len(s) + 1 - e.call = k /\ k >= 1 /\ t[k] = s[k]
        /\ s[k].role = "assistant" /\ ~IsTerminal(s[k].stop) /\ e.call <= s[k].calls
        /\ s[k].stop = "length" => e.outcome = "error"
    BY <1>1, <2>0, <2>1
  <2>4. PICK j : j = Len(s) + 1
    OBVIOUS
  <2>5. /\ t[j] = e /\ j - t[j].call = k /\ k >= 1 /\ t[j].call >= 1 /\ t[k].role = "assistant"
        /\ ~IsTerminal(t[k].stop) /\ t[j].call <= t[k].calls
        /\ t[k].stop = "length" => t[j].outcome = "error"
    BY <2>1, <2>3, <2>4
  <2>6. \A i \in 1..t[j].call : t[k + i].role = "toolResult" /\ t[k + i].call = i
    BY <2>2, <2>5, Zenon
  <2>7. Belongs(t, j)
    BY <2>5, <2>6, Zenon DEF Belongs
  <2> QED
    BY <2>4, <2>7
<1>5. Sound(t)
  BY <1>1, <1>2, <1>3, <1>4 DEF Sound
<1> QED
  BY <1>5 DEF t

(* A reply that has its results keeps them.                                *)
LEMMA FullAppend ==
  ASSUME NEW s \in Seq(Entry), NEW e \in Entry, NEW k \in DOMAIN s, s[k].role = "assistant",
         Full(s, k)
  PROVE  Full(Append(s, e), k)
<1> DEFINE t == Append(s, e)
<1>1. /\ Len(s) \in Nat /\ Len(t) = Len(s) + 1 /\ DOMAIN s = 1..Len(s)
      /\ \A i \in 1..Len(s) : t[i] = s[i]
  BY AppendAt
<1>2. s[k].calls \in Nat
  BY <1>1, EntryKinds
<1> HIDE DEF t
<1>3. Full(t, k)
  <2>1. CASE IsTerminal(s[k].stop)
    BY <1>1, <2>1 DEF Full
  <2>2. CASE /\ k + s[k].calls <= Len(s)
             /\ \A i \in 1..s[k].calls : s[k + i].role = "toolResult" /\ s[k + i].call = i
    <3>1. PICK n \in Nat : n = s[k].calls
      BY <1>2
    <3>2. k + n <= Len(t) /\ \A i \in 1..n : k + i \in 1..Len(s)
      BY <1>1, <2>2, <3>1
    <3>3. \A i \in 1..n : t[k + i] = s[k + i]
      BY <1>1, <3>2
    <3>4. t[k] = s[k] /\ \A i \in 1..n : t[k + i].role = "toolResult" /\ t[k + i].call = i
      BY <1>1, <2>2, <3>1, <3>3
    <3> QED
      BY <3>1, <3>2, <3>4, Zenon DEF Full
  <2>3. CASE s[k].calls > 0 /\ k < Len(s) /\ s[k + 1].role = "assistant" /\ IsTerminal(s[k + 1].stop)
    BY <1>1, <2>3 DEF Full
  <2> QED
    BY <2>1, <2>2, <2>3 DEF Full
<1> QED
  BY <1>3 DEF t

LEMMA AllFullAppend ==
  ASSUME NEW s \in Seq(Entry), NEW e \in Entry, NEW X, AllFull(s, X), X \subseteq DOMAIN s
  PROVE  /\ e.role # "assistant" \/ IsTerminal(e.stop) \/ e.calls = 0 => AllFull(Append(s, e), X)
         /\ AllFull(Append(s, e), X \cup {Len(s) + 1})
<1> DEFINE t == Append(s, e)
<1>1. /\ Len(s) \in Nat /\ Len(t) = Len(s) + 1 /\ DOMAIN s = 1..Len(s) /\ DOMAIN t = 1..(Len(s) + 1)
      /\ t[Len(s) + 1] = e /\ \A i \in 1..Len(s) : t[i] = s[i]
  BY AppendAt
<1>2. \A k \in DOMAIN s \ X : s[k].role = "assistant" => Full(t, k)
  BY FullAppend DEF AllFull
<1> HIDE DEF t
<1>3. e.role = "assistant" /\ (IsTerminal(e.stop) \/ e.calls = 0) => Full(t, Len(s) + 1)
  BY <1>1 DEF Full
<1>4. \A k \in DOMAIN t : k # Len(s) + 1 => k \in DOMAIN s /\ t[k] = s[k]
  BY <1>1
<1>5. e.role # "assistant" \/ IsTerminal(e.stop) \/ e.calls = 0 => AllFull(t, X)
  BY <1>1, <1>2, <1>3, <1>4 DEF AllFull
<1>6. AllFull(t, X \cup {Len(s) + 1})
  BY <1>1, <1>2, <1>4 DEF AllFull
<1> QED
  BY <1>5, <1>6 DEF t

(* A message, or a reply without calls to wait for.                        *)
LEMMA WellAppend ==
  ASSUME NEW s \in Seq(Entry), Well(s), NEW e \in Entry, s = <<>> => e.role = "user",
         e.role # "toolResult", e.role # "assistant" \/ IsTerminal(e.stop) \/ e.calls = 0
  PROVE  Well(Append(s, e))
<1>1. Sound(Append(s, e))
  BY SoundAppend DEF Well
<1>2. AllFull(Append(s, e), {})
  BY AllFullAppend DEF Well
<1> QED
  BY <1>1, <1>2 DEF Well

(* Places in a suffix.                                                     *)
LEMMA ShiftIn ==
  ASSUME NEW k \in Int, NEW n \in Int, NEW d \in Int, NEW len \in Int, k >= 2, k + n <= len
  PROVE  \A i \in 1..n : k + i \in 2..len /\ (k + i) + d = k + d + i
OBVIOUS

(* The entries from a user message on are as whole as all of them.         *)
LEMMA WellShift ==
  ASSUME NEW s \in Seq(Entry), Well(s), NEW t \in Seq(Entry), NEW d \in Nat,
         d + 2 <= Len(s), s[d + 2].role = "user", Len(t) = Len(s) - d, t[1].role = "user",
         \A i \in 2..Len(t) : t[i] = s[i + d]
  PROVE  Well(t)
<1>1. Len(s) \in Nat /\ Len(t) \in Nat /\ DOMAIN t = 1..Len(t) /\ DOMAIN s = 1..Len(s)
  OBVIOUS
<1>2. Len(t) >= 2
  BY <1>1
<1>3. /\ Len(s) \in Nat /\ Len(t) >= 2 /\ Len(t) \in Nat /\ Len(t) = Len(s) - d
      /\ DOMAIN t = 1..Len(t) /\ DOMAIN s = 1..Len(s)
  BY <1>1, <1>2
<1>4. \A i \in 2..Len(t) : i + d \in 1..Len(s) /\ t[i] = s[i + d]
  BY <1>3
<1> DEFINE cut == d + 2
<1>5. d + 2 = cut /\ cut \in 2..Len(s) /\ s[cut].role = "user" /\ s[cut].role # "toolResult"
  BY <1>3
<1> HIDE DEF cut
<1>6. ASSUME NEW j \in DOMAIN t, t[j].role = "toolResult" PROVE Belongs(t, j)
  <2>1. j \in 2..Len(t)
    BY <1>3, <1>6
  <2> DEFINE p == j + d
             q == s[p].call
             k == p - q
  <2>2. t[j] = s[p] /\ p \in DOMAIN s /\ s[p] \in Entry
    BY <1>3, <1>4, <2>1
  <2>3. p = j + d
    OBVIOUS
  <2> HIDE DEF p
  <2>a. q \in Nat /\ Belongs(s, p)
    BY <1>6, <2>2, EntryKinds DEF Well, Sound
  <2>4. /\ k >= 1 /\ q >= 1 /\ s[k].role = "assistant" /\ ~IsTerminal(s[k].stop)
        /\ q <= s[k].calls
        /\ s[k].stop = "length" => s[p].outcome = "error"
        /\ \A i \in 1..q : s[k + i].role = "toolResult" /\ s[k + i].call = i
    BY <2>a, Zenon DEF Belongs
  <2>5. k + q = j + d /\ k \in Int
    BY <1>3, <2>1, <2>3, <2>a
  <2> HIDE DEF k, q
  <2>6. k >= cut
    <3> SUFFICES ASSUME k < cut PROVE FALSE
      BY <1>5, <2>5
    <3>1. cut - k \in 1..q
      BY <1>3, <1>5, <2>1, <2>a, <2>5
    <3>2. s[k + (cut - k)].role = "toolResult"
      BY <2>4, <3>1
    <3>3. k + (cut - k) = cut
      BY <1>5, <2>5
    <3> QED
      BY <1>5, <3>2, <3>3
  <2>7. /\ k - d \in 2..Len(t) /\ t[k - d] = s[k] /\ k - d = j - q
        /\ \A i \in 1..q : t[k - d + i] = s[k + i]
    <3>1. k - d >= 2
      BY <1>5, <2>5, <2>6
    <3>0. q >= 1 /\ q \in Int /\ j \in Int /\ d \in Int
      BY <1>3, <2>1, <2>4, <2>a
    <3>2. k - d <= j - 1 /\ (k - d) + d = k /\ k - d = j - q
      <4>1. k \in Int /\ k + q = j + d
        BY <2>5
      <4> QED
        BY ONLY <3>0, <4>1
    <3>3. k - d \in 2..Len(t)
      BY <1>3, <2>1, <2>5, <3>1, <3>2
    <3>4. ASSUME NEW i \in 1..q
          PROVE  (k - d + i) \in 2..Len(t) /\ (k - d + i) + d = k + i
      <4>1. /\ i \in Int /\ i >= 1 /\ i <= q /\ k \in Int /\ k - d >= 2 /\ Len(t) \in Int
            /\ j <= Len(t) /\ k + q = j + d
        BY <1>3, <2>1, <2>5, <2>a, <3>1
      <4> QED
        BY ONLY <3>0, <4>1
    <3>5. t[k - d] = s[(k - d) + d]
      BY <1>4, <3>3, Zenon
    <3>6. \A i \in 1..q : t[k - d + i] = s[(k - d + i) + d]
      BY <1>4, <3>4, Zenon
    <3>7. \A i \in 1..q : t[k - d + i] = s[k + i]
      BY <3>4, <3>6, Zenon
    <3>8. t[k - d] = s[k]
      BY <3>2, <3>5, Zenon
    <3> QED
      BY <3>2, <3>3, <3>7, <3>8
  <2>8. q = t[j].call
    BY <2>2 DEF q
  <2>9. \A i \in 1..q : t[k - d + i].role = "toolResult" /\ t[k - d + i].call = i
    BY <2>4, <2>7, Zenon
  <2>b. /\ k - d >= 1 /\ t[k - d].role = "assistant" /\ ~IsTerminal(t[k - d].stop)
        /\ q <= t[k - d].calls
        /\ t[k - d].stop = "length" => t[j].outcome = "error"
    BY <2>2, <2>4, <2>7
  <2>c. j - t[j].call = k - d /\ t[j].call >= 1
    BY <2>4, <2>7, <2>8
  <2>d. \A i \in 1..t[j].call : t[k - d + i].role = "toolResult" /\ t[k - d + i].call = i
    BY <2>8, <2>9, Zenon
  <2>e. t[j].call <= t[k - d].calls
    BY <2>8, <2>b, Zenon
  <2> QED
    BY <2>b, <2>c, <2>d, <2>e, Zenon DEF Belongs

<1>7. ASSUME NEW k \in DOMAIN t, t[k].role = "assistant" PROVE Full(t, k)
  <2>1. k \in 2..Len(t) /\ t[k] = s[k + d] /\ k + d \in DOMAIN s
    BY <1>3, <1>4, <1>7
  <2>2. Full(s, k + d) /\ s[k + d].calls \in Nat
    BY <1>7, <2>1, EntryKinds DEF Well, AllFull
  <2>3. CASE IsTerminal(s[k + d].stop)
    BY <2>1, <2>3 DEF Full
  <2>4. CASE /\ k + d + s[k + d].calls <= Len(s)
             /\ \A i \in 1..s[k + d].calls :
                  s[k + d + i].role = "toolResult" /\ s[k + d + i].call = i
    <3>1. k + t[k].calls <= Len(t)
      BY <1>3, <2>1, <2>2, <2>4
    <3>2. \A i \in 1..t[k].calls : k + i \in 2..Len(t) /\ (k + i) + d = k + d + i
      <4>1. k \in Int /\ k >= 2 /\ d \in Int /\ Len(t) \in Int /\ t[k].calls \in Int
        BY <1>3, <2>1, <2>2
      <4>2. PICK n \in Int, len \in Int : n = t[k].calls /\ len = Len(t)
        BY <4>1
      <4>3. \A i \in 1..n : k + i \in 2..len /\ (k + i) + d = k + d + i
        <5>1. k + n <= len
          BY <3>1, <4>2, Zenon
        <5> QED
          BY <4>1, <5>1, ShiftIn
      <4> QED
        BY <4>2, <4>3, Zenon
    <3>3. \A i \in 1..t[k].calls : t[k + i] = s[k + d + i]
      BY <1>4, <3>2
    <3> QED
      BY <2>1, <2>4, <3>1, <3>3 DEF Full
  <2>5. CASE /\ s[k + d].calls > 0 /\ k + d < Len(s) /\ s[k + d + 1].role = "assistant"
             /\ IsTerminal(s[k + d + 1].stop)
    <3>0. k + d < Len(s) /\ Len(s) \in Int /\ Len(t) \in Int /\ Len(t) + d = Len(s)
      BY <1>3, <2>1, <2>5
    <3>a. d \in Int /\ k \in Int /\ k >= 2
      BY <1>3, <2>1
    <3>b. k < Len(t) /\ k + 1 <= Len(t) /\ k + 1 >= 2 /\ k + 1 \in Int
      BY ONLY <3>0, <3>a
    <3>c. (k + 1) + d = k + d + 1
      BY ONLY <3>a
    <3>1. k + 1 \in 2..Len(t) /\ (k + 1) + d = k + d + 1 /\ k < Len(t)
      BY ONLY <3>0, <3>b, <3>c
    <3>d. t[k + 1] = s[(k + 1) + d]
      BY <1>4, <3>1, Zenon
    <3>2. t[k + 1] = s[k + d + 1]
      BY <3>c, <3>d, Zenon
    <3> QED
      BY <2>1, <2>5, <3>1, <3>2 DEF Full
  <2> QED
    BY <2>2, <2>3, <2>4, <2>5, Zenon DEF Full
<1> QED
  BY <1>3, <1>6, <1>7 DEF Well, Sound, AllFull

(* A cut at a user message leaves whole turns behind the marker.           *)
LEMMA WellCut ==
  ASSUME NEW s \in Seq(Entry), Well(s), NEW cut \in CutPoints(s)
  PROVE  Well(<<Marker>> \o SubSeq(s, cut, Len(s)))
<1>1. cut \in 2..Len(s) /\ s[cut].role = "user" /\ Len(s) \in Nat
  BY DEF CutPoints
<1> DEFINE m    == <<Marker>>
           kept == SubSeq(s, cut, Len(s))
           d    == cut - 2
<1>2. m \in Seq(Entry) /\ Len(m) = 1 /\ m[1] = Marker
  BY EntryType
<1>3. /\ kept \in Seq(Entry) /\ Len(kept) = Len(s) - cut + 1
      /\ \A i \in 1..Len(kept) : kept[i] = s[cut + i - 1]
  BY <1>1
<1> HIDE DEF m, kept
<1> DEFINE t == m \o kept
<1>4. t \in Seq(Entry) /\ Len(t) = 1 + Len(kept) /\ t[1] = Marker
      /\ \A i \in 2..Len(t) : t[i] = kept[i - 1]
  <2>1. /\ t \in Seq(Entry) /\ Len(t) = Len(m) + Len(kept)
        /\ \A i \in 1..(Len(m) + Len(kept)) : t[i] = IF i <= Len(m) THEN m[i] ELSE kept[i - Len(m)]
    BY <1>2, <1>3, ConcatProperties
  <2> HIDE DEF t
  <2>2. Len(kept) \in Nat
    BY <1>3
  <2> QED
    BY <1>2, <2>1, <2>2
<1> HIDE DEF t
<1>5. d \in Nat /\ d + 2 = cut /\ Len(t) = Len(s) - d
  BY <1>1, <1>3, <1>4
<1>6. ASSUME NEW i \in 2..Len(t) PROVE t[i] = s[i + d]
  <2>1. i - 1 \in 1..Len(kept) /\ cut + (i - 1) - 1 = i + d
    BY <1>1, <1>3, <1>4
  <2>2. t[i] = kept[i - 1]
    BY <1>4
  <2> QED
    BY <1>3, <2>1, <2>2
<1>7. t[1].role = "user" /\ d + 2 <= Len(s) /\ s[d + 2].role = "user"
  BY <1>1, <1>4, <1>5, EntryKinds, EntryType
<1> HIDE DEF d
<1>8. Well(t)
  BY <1>4, <1>5, <1>6, <1>7, WellShift
<1> QED
  BY <1>8 DEF t, m, kept

LEMMA WellEmpty == Well(<<>>)
<1>1. DOMAIN <<>> = {}
  OBVIOUS
<1> QED
  BY <1>1 DEF Well, Sound, AllFull

(* The results right behind a reply are its own.                           *)
LEMMA OwnResults ==
  ASSUME NEW s \in Seq(Entry), Sound(s), NEW k \in DOMAIN s, s[k].role = "assistant",
         NEW j \in ResultsOf(s, k)
  PROVE  /\ j - k \in 1..s[k].calls /\ ~IsTerminal(s[k].stop)
         /\ s[k].stop = "length" => s[j].outcome = "error"
<1>1. /\ DOMAIN s = 1..Len(s) /\ Len(s) \in Nat /\ k \in 1..Len(s) /\ j \in k+1..Len(s)
      /\ \A i \in k+1..j : s[i].role = "toolResult"
  BY DEF ResultsOf
<1>2. s[j].role = "toolResult" /\ j \in DOMAIN s
  BY <1>1
<1> DEFINE q == s[j].call
           p == j - q
<1>3. q \in Nat /\ Belongs(s, j)
  BY <1>2, EntryKinds DEF Sound
<1>4. /\ p >= 1 /\ q >= 1 /\ s[p].role = "assistant" /\ ~IsTerminal(s[p].stop)
      /\ q <= s[p].calls
      /\ s[p].stop = "length" => s[j].outcome = "error"
      /\ \A i \in 1..q : s[p + i].role = "toolResult" /\ s[p + i].call = i
  BY <1>3, Zenon DEF Belongs
<1>5. p + q = j /\ p \in Int
  BY <1>1, <1>3
<1> HIDE DEF p, q
<1>6. p = k
  <2>1. ~(p > k)
    <3> SUFFICES ASSUME p > k PROVE FALSE
      OBVIOUS
    <3>1. p \in k+1..j
      BY <1>1, <1>3, <1>4, <1>5
    <3> QED
      BY <1>1, <1>4, <3>1
  <2>2. ~(p < k)
    <3> SUFFICES ASSUME p < k PROVE FALSE
      OBVIOUS
    <3>1. k - p \in 1..q /\ p + (k - p) = k
      BY <1>1, <1>3, <1>4, <1>5
    <3> QED
      BY <1>4, <3>1
  <2> QED
    BY <1>1, <1>5, <2>1, <2>2
<1>7. j - k = q /\ s[k].calls \in Nat
  BY <1>1, <1>3, <1>5, <1>6, EntryKinds
<1> QED
  BY <1>3, <1>4, <1>6, <1>7

(* What a whole transcript is for a request.                               *)
LEMMA WellRequest ==
  ASSUME NEW s \in Seq(Entry), Well(s), NEW k \in DOMAIN s, s[k].role = "assistant"
  PROVE  /\ Answered(s, k)
         /\ Cardinality(ResultsOf(s, k)) <= s[k].calls
         /\ s[k].stop = "length" => \A j \in ResultsOf(s, k) : s[j].outcome = "error"
<1>1. /\ DOMAIN s = 1..Len(s) /\ Len(s) \in Nat /\ k \in 1..Len(s) /\ s[k].calls \in Nat
  BY EntryKinds
<1>2. \A j \in ResultsOf(s, k) :
        /\ j - k \in 1..s[k].calls /\ ~IsTerminal(s[k].stop)
        /\ s[k].stop = "length" => s[j].outcome = "error"
  BY OwnResults DEF Well
<1>3. Answered(s, k)
  <2>1. CASE IsTerminal(s[k].stop)
    <3> SUFFICES ASSUME k < Len(s), s[k + 1].role = "toolResult" PROVE FALSE
      BY <2>1 DEF Answered
    <3>1. k + 1 \in ResultsOf(s, k)
      <4>1. k + 1 \in k+1..Len(s)
        BY <1>1
      <4>2. \A i \in k+1..k+1 : i = k + 1
        BY <1>1
      <4> QED
        BY <4>1, <4>2 DEF ResultsOf
    <3> QED
      BY <1>2, <2>1, <3>1
  <2>2. CASE ~IsTerminal(s[k].stop)
    BY <2>2 DEF Answered, Full, Well, AllFull
  <2> QED
    BY <2>1, <2>2
<1>4. Cardinality(ResultsOf(s, k)) <= s[k].calls
  <2> DEFINE span == (k + 1)..(k + s[k].calls)
  <2>1. ResultsOf(s, k) \subseteq span
    BY <1>1, <1>2 DEF ResultsOf
  <2>2. IsFiniteSet(span) /\ Cardinality(span) = s[k].calls
    <3> DEFINE a == k + 1
               b == k + s[k].calls
    <3>1. a \in Int /\ b \in Int /\ b - a + 1 = s[k].calls /\ (a > b => s[k].calls = 0)
      BY <1>1
    <3> HIDE DEF a, b
    <3>2. IsFiniteSet(a..b) /\ Cardinality(a..b) = IF a > b THEN 0 ELSE b - a + 1
      BY <3>1, FS_Interval
    <3> QED
      BY <3>1, <3>2 DEF a, b
  <2>3. Cardinality(ResultsOf(s, k)) <= Cardinality(span)
    BY <2>1, <2>2, FS_Subset
  <2> QED
    BY <2>2, <2>3
<1> QED
  BY <1>2, <1>3, <1>4

-----------------------------------------------------------------------------
(* Every step leaves the transcript whole, or a batch open on its last     *)
(* reply.                                                                  *)

(* The one thread that may be in a run steps.                              *)
LEMMA TranscriptKept ==
  ASSUME TranscriptInv, NEW c \in Callers, \A d \in Callers \ {c} : ~InRun(d),
         \A d \in Callers \ {c} : pc'[d] = pc[d] /\ edit'[d] = edit[d],
         Sound(messages'), SnapOK(edit'[c]),
         Working(c)' => \E k \in DOMAIN messages' : BatchOpen(c, k)',
         ~Working(c)' => Well(messages'), InRun(c)' => Vectors(c)'
  PROVE  TranscriptInv'
<1>1. \A d \in Callers \ {c} : ~InRun(d)' /\ ~Working(d)'
  BY DEF InRun, Working, LoopPhases
<1>2. Working(c)' => InRun(c)'
  BY DEF InRun, Working, LoopPhases
<1>3. \A d \in Callers : InRun(d)' => d = c
  BY <1>1
<1>4. \A d \in Callers : Working(d)' => d = c
  BY <1>1
<1>5. \A d \in Callers : SnapOK(edit'[d])
  BY DEF TranscriptInv
<1> QED
  BY <1>2, <1>3, <1>4, <1>5 DEF TranscriptInv

(* The transcript and the runs stay as they are.                           *)
LEMMA TranscriptSame ==
  ASSUME RunInv, TranscriptInv, messages' = messages,
         \A d \in Callers : InRun(d)' <=> InRun(d),
         \A d \in Callers : InRun(d) => pc'[d] = pc[d] /\ run'[d] = run[d],
         \A d \in Callers : SnapOK(edit[d]) => SnapOK(edit'[d])
  PROVE  TranscriptInv'
<1>1. \A d \in Callers : SnapOK(edit'[d])
  BY DEF TranscriptInv
<1>2. \A d \in Callers : Working(d) => InRun(d)
  BY DEF InRun, Working, LoopPhases
<1>3. \A d \in Callers : Working(d)' => InRun(d)'
  BY DEF InRun, Working, LoopPhases
<1>4. \A d \in Callers : InRun(d) => (Working(d)' <=> Working(d)) /\ (Vectors(d) => Vectors(d)')
  BY DEF Working, Vectors
<1>5. ASSUME NEW d \in Callers, InRun(d), NEW k \in DOMAIN messages, BatchOpen(d, k)
      PROVE  BatchOpen(d, k)'
  <2>1. pc'[d] = pc[d] /\ run'[d] = run[d] /\ messages' = messages
    BY <1>5
  <2>2. OpenAt(k)' <=> OpenAt(k)
    BY <2>1 DEF OpenAt, AllFull, Full
  <2>3. CallsOf(d, k)' <=> CallsOf(d, k)
    BY <2>1 DEF CallsOf
  <2>4. ResultsLeft(d, k)' <=> ResultsLeft(d, k)
    BY <2>1 DEF ResultsLeft
  <2> QED
    BY <1>5, <2>2, <2>3, <2>4 DEF BatchOpen
<1> QED
  BY <1>1, <1>2, <1>3, <1>4, <1>5 DEF TranscriptInv

(* The running thread moves on and the transcript stays as it is.          *)
LEMMA TranscriptMoves ==
  ASSUME RunInv, TranscriptInv, NEW c \in Callers, InRun(c), ~Working(c), NEW q \in LoopPhases,
         q \notin {"prepare", "execute", "results"}, pc' = [pc EXCEPT ![c] = q],
         UNCHANGED <<messages, edit>>, run'[c].todo \in Seq(UserEntry),
         messages # <<>> \/ (q = "start" /\ run'[c].todo # <<>>)
  PROVE  TranscriptInv'
<1>1. pc'[c] = q /\ \A d \in Callers \ {c} : pc'[d] = pc[d]
  BY Moves
<1>2. \A d \in Callers \ {c} : ~InRun(d)
  BY OneRunner DEF RunInv
<1>3. Well(messages) /\ Sound(messages) /\ SnapOK(edit[c])
  BY DEF TranscriptInv
<1>4. ~Working(c)' /\ Vectors(c)'
  BY <1>1 DEF Working, Vectors
<1> QED
  BY <1>1, <1>2, <1>3, <1>4, TranscriptKept

(* What is known of the vectors of a running thread.                       *)
LEMMA VectorsKnow ==
  ASSUME RunInv, TranscriptInv, NEW c \in Callers, InRun(c)
  PROVE  /\ Vectors(c) /\ messages \in Seq(Entry) /\ run[c] \in RunState /\ run[c] \in BoundedRun
         /\ pc[c] # "results" => run[c].todo \in Seq(UserEntry)
         /\ pc[c] \notin {"claimed", "start"} \/ run[c].todo = <<>> => messages # <<>>
         /\ ~Working(c) => Well(messages)
         /\ SnapOK(edit[c]) /\ Sound(messages)
         /\ \A d \in Callers \ {c} : ~InRun(d)
<1>1. messages \in Seq(Entry) /\ run[c] \in RunState /\ run[c] \in BoundedRun
  BY RunnerKnows DEF RunInv, TypeInv, TypeOK
<1>2. \A d \in Callers \ {c} : ~InRun(d)
  BY OneRunner DEF RunInv
<1>3. Vectors(c) /\ Sound(messages) /\ SnapOK(edit[c]) /\ (~Working(c) => Well(messages))
  BY DEF TranscriptInv
<1> QED
  BY <1>1, <1>2, <1>3 DEF Vectors

LEMMA DrainedTodo ==
  ASSUME RunInv, NEW c \in Callers, DrainSteering(c)
  PROVE  run'[c].todo \in Seq(UserEntry)
<1>1. Taken(steering, SteeringMode) \in Seq(UserEntry)
  BY DrainType DEF RunInv, TypeInv, TypeOK
<1>2. run'[c].todo = Taken(steering, SteeringMode)
  BY DEF DrainSteering, RunInv, TypeInv, TypeOK, RunState
<1> QED
  BY <1>1, <1>2

(* Phases that record nothing.                                             *)
LEMMA TranscriptPlain ==
  ASSUME RunInv, TranscriptInv, NEW c \in Callers
  PROVE  /\ AgentStart(c) => TranscriptInv'
         /\ RecordedAll(c) /\ pc[c] # "results" => TranscriptInv'
         /\ InitialPoll(c) => TranscriptInv'
         /\ InnerLoop(c) => TranscriptInv'
         /\ InnerLoopExit(c) => TranscriptInv'
         /\ HookReturn(c) => TranscriptInv'
         /\ NextTurn(c) => TranscriptInv'
         /\ RequestAssistant(c) => TranscriptInv'
         /\ EndTurn(c) => TranscriptInv'
         /\ OuterLoop(c) => TranscriptInv'
         /\ FinishRun(c) => TranscriptInv'
<1>0. {"poll", "request", "turnEnd", "start", "inner", "hook", "inject", "outer", "afterHook",
       "waiting", "finish", "agentEnd", "claimed"} \subseteq LoopPhases
  BY DEF LoopPhases
<1>1. ASSUME AgentStart(c) PROVE TranscriptInv'
  <2>1. InRun(c) /\ ~Working(c) /\ pc[c] = "claimed"
    BY <1>1, AtInRun DEF AgentStart, LoopPhases, Working
  <2> QED
    BY <1>0, <1>1, <2>1, VectorsKnow, TranscriptMoves DEF AgentStart, Vectors, state
<1>2. ASSUME RecordedAll(c), pc[c] # "results" PROVE TranscriptInv'
  <2>1. InRun(c) /\ ~Working(c) /\ pc[c] \in {"start", "inject"} /\ run[c].todo = <<>>
    BY <1>2, AtInRun DEF RecordedAll, LoopPhases, Working
  <2>2. PICK q \in {"poll", "request"} : pc' = [pc EXCEPT ![c] = q]
    BY <1>2, <2>1 DEF RecordedAll, At
  <2> QED
    BY <1>0, <1>2, <2>1, <2>2, VectorsKnow, TranscriptMoves DEF RecordedAll, state
<1>3. ASSUME InitialPoll(c) PROVE TranscriptInv'
  <2>1. InRun(c) /\ ~Working(c) /\ pc[c] = "poll"
    BY <1>3, AtInRun DEF InitialPoll, LoopPhases, Working
  <2>2. run'[c].todo \in Seq(UserEntry)
    BY <1>3, <2>1, VectorsKnow, DrainedTodo DEF InitialPoll
  <2> QED
    BY <1>0, <1>3, <2>1, <2>2, VectorsKnow, TranscriptMoves DEF InitialPoll
<1>4. ASSUME InnerLoop(c) PROVE TranscriptInv'
  <2>1. InRun(c) /\ ~Working(c) /\ pc[c] = "inner"
    BY <1>4, AtInRun DEF InnerLoop, LoopPhases, Working
  <2>2. run'[c].todo = run[c].todo
    BY <1>4, <2>1, VectorsKnow DEF InnerLoop, RunInv, TypeInv, TypeOK, RunState
  <2>3. PICK q \in {"hook", "inject"} : pc' = [pc EXCEPT ![c] = q]
    BY <1>4 DEF InnerLoop
  <2> QED
    BY <1>0, <1>4, <2>1, <2>2, <2>3, VectorsKnow, TranscriptMoves DEF InnerLoop
<1>5. ASSUME InnerLoopExit(c) PROVE TranscriptInv'
  <2>1. InRun(c) /\ ~Working(c) /\ pc[c] = "inner"
    BY <1>5, AtInRun DEF InnerLoopExit, LoopPhases, Working
  <2> QED
    BY <1>0, <1>5, <2>1, VectorsKnow, TranscriptMoves DEF InnerLoopExit, state
<1>6. ASSUME HookReturn(c) PROVE TranscriptInv'
  <2>1. InRun(c) /\ ~Working(c) /\ pc[c] = "hook"
    BY <1>6, AtInRun DEF HookReturn, LoopPhases, Working
  <2> QED
    BY <1>0, <1>6, <2>1, VectorsKnow, TranscriptMoves DEF HookReturn
<1>7. ASSUME NextTurn(c) PROVE TranscriptInv'
  <2>1. InRun(c) /\ ~Working(c) /\ pc[c] = "afterHook"
    BY <1>7, AtInRun DEF NextTurn, LoopPhases, Working
  <2>2. run'[c].todo \in Seq(UserEntry)
    BY <1>7, <2>1, VectorsKnow, DrainedTodo DEF NextTurn
  <2> QED
    BY <1>0, <1>7, <2>1, <2>2, VectorsKnow, TranscriptMoves DEF NextTurn
<1>8. ASSUME RequestAssistant(c) PROVE TranscriptInv'
  <2>1. InRun(c) /\ ~Working(c) /\ pc[c] = "request"
    BY <1>8, AtInRun DEF RequestAssistant, LoopPhases, Working
  <2> QED
    BY <1>0, <1>8, <2>1, VectorsKnow, TranscriptMoves DEF RequestAssistant, state
<1>9. ASSUME EndTurn(c) PROVE TranscriptInv'
  <2>1. InRun(c) /\ ~Working(c) /\ pc[c] = "turnEnd"
    BY <1>9, AtInRun DEF EndTurn, LoopPhases, Working
  <2>2. Taken(steering, SteeringMode) \in Seq(UserEntry)
    BY DrainType DEF RunInv, TypeInv, TypeOK
  <2>3. run'[c].todo = run[c].todo \/ run'[c].todo = Taken(steering, SteeringMode)
    <3> DEFINE batch == Taken(steering, SteeringMode)
    <3>1. run[c] \in RunState /\ run \in [Callers -> RunState]
      BY <2>1, RunnerKnows DEF RunInv, TypeInv, TypeOK
    <3>2. run' = run \/ run' = [run EXCEPT ![c] = [run[c] EXCEPT !.lastTurn = TRUE, !.todo = batch]]
      BY <1>9 DEF EndTurn
    <3> HIDE DEF batch
    <3>3. [run[c] EXCEPT !.lastTurn = TRUE, !.todo = batch].todo = batch
      BY <3>1 DEF RunState
    <3>4. run' = run \/ run'[c] = [run[c] EXCEPT !.lastTurn = TRUE, !.todo = batch]
      BY <3>1, <3>2
    <3>5. run'[c].todo = run[c].todo \/ run'[c].todo = batch
      BY <3>3, <3>4
    <3> QED
      BY <3>5 DEF batch
  <2>4. PICK q \in {"finish", "inner"} : pc' = [pc EXCEPT ![c] = q]
    BY <1>9 DEF EndTurn
  <2> QED
    BY <1>0, <1>9, <2>1, <2>2, <2>3, <2>4, VectorsKnow, TranscriptMoves DEF EndTurn
<1>10. ASSUME OuterLoop(c) PROVE TranscriptInv'
  <2>1. InRun(c) /\ ~Working(c) /\ pc[c] = "outer"
    BY <1>10, AtInRun DEF OuterLoop, LoopPhases, Working
  <2>2. Taken(followUps, FollowUpMode) \in Seq(UserEntry)
    BY DrainType DEF RunInv, TypeInv, TypeOK
  <2>3. run'[c].todo = run[c].todo \/ run'[c].todo = Taken(followUps, FollowUpMode)
    <3> DEFINE x == [run[c] EXCEPT !.hasMore = TRUE, !.todo = Taken(followUps, FollowUpMode)]
    <3>1. run \in [Callers -> RunState] /\ run[c] \in RunState
      BY DEF RunInv, TypeInv, TypeOK
    <3>2. UNCHANGED run \/ run' = [run EXCEPT ![c] = x]
      BY <1>10 DEF OuterLoop
    <3>3. x.todo = Taken(followUps, FollowUpMode)
      BY <3>1 DEF RunState
    <3> HIDE DEF x
    <3> QED
      BY <3>1, <3>2, <3>3
  <2>4. PICK q \in {"finish", "inner"} : pc' = [pc EXCEPT ![c] = q]
    BY <1>10 DEF OuterLoop
  <2> QED
    BY <1>0, <1>10, <2>1, <2>2, <2>3, <2>4, VectorsKnow, TranscriptMoves DEF OuterLoop
<1>11. ASSUME FinishRun(c) PROVE TranscriptInv'
  <2>1. InRun(c) /\ ~Working(c) /\ pc[c] = "finish"
    BY <1>11, AtInRun DEF FinishRun, LoopPhases, Working
  <2> QED
    BY <1>0, <1>11, <2>1, VectorsKnow, TranscriptMoves DEF FinishRun
<1> QED
  BY <1>1, <1>2, <1>3, <1>4, <1>5, <1>6, <1>7, <1>8, <1>9, <1>10, <1>11

(* Recording a message.                                                    *)
LEMMA RecordUser ==
  ASSUME RunInv, TranscriptInv, NEW c \in Callers, RecordNext(c), pc[c] # "results"
  PROVE  TranscriptInv'
<1>1. InRun(c) /\ ~Working(c) /\ pc[c] \in {"start", "inject"} /\ run[c].todo # <<>>
  BY AtInRun DEF RecordNext, LoopPhases, Working
<1> DEFINE e == Head(run[c].todo)
           rest == Tail(run[c].todo)
<1>2. run[c].todo \in Seq(UserEntry)
  BY <1>1, VectorsKnow
<1>3. e \in UserEntry /\ rest \in Seq(UserEntry)
  BY <1>1, <1>2
<1>4. e \in Entry /\ e.role = "user"
  BY <1>3, EntryKinds, EntryType
<1>5. messages' = Append(messages, e) /\ run' = [run EXCEPT ![c].todo = rest] /\ UNCHANGED <<pc, edit>>
  BY DEF RecordNext, Push
<1> HIDE DEF e, rest
<1>6. messages \in Seq(Entry) /\ Well(messages)
  BY <1>1, VectorsKnow
<1>7. Well(messages') /\ messages' # <<>> /\ Sound(messages')
  <2>1. Well(Append(messages, e))
    BY <1>4, <1>6, WellAppend
  <2>2. Append(messages, e) # <<>>
    BY <1>4, <1>6, AppendAt
  <2> QED
    BY <1>5, <2>1, <2>2 DEF Well
<1>8. run'[c].todo = rest
  BY <1>1, <1>5, VectorsKnow DEF RunInv, TypeInv, TypeOK, RunState
<1>9. ~Working(c)' /\ Vectors(c)'
  BY <1>1, <1>3, <1>5, <1>7, <1>8 DEF Working, Vectors
<1> QED
  BY <1>1, <1>5, <1>7, <1>9, VectorsKnow, TranscriptKept

(* What is known of an open batch.                                         *)
LEMMA OpenKnows ==
  ASSUME RunInv, TranscriptInv, NEW c \in Callers, Working(c)
  PROVE  /\ InRun(c) /\ messages \in Seq(Entry) /\ Sound(messages) /\ Vectors(c)
         /\ run[c] \in BoundedRun /\ run[c] \in RunState /\ run[c].todo \in Seq(Entry)
         /\ SnapOK(edit[c]) /\ \A d \in Callers \ {c} : ~InRun(d)
         /\ \E k \in DOMAIN messages :
              /\ BatchOpen(c, k) /\ k \in 1..Len(messages) /\ Len(messages) \in Nat
              /\ messages[k] \in Entry /\ messages[k].calls \in Nat
<1>1. InRun(c)
  BY DEF Working, InRun, LoopPhases
<1>2. PICK k \in DOMAIN messages : BatchOpen(c, k)
  BY DEF TranscriptInv
<1>3. k \in 1..Len(messages) /\ Len(messages) \in Nat /\ messages[k] \in Entry
  BY <1>1, VectorsKnow
<1>4. messages[k].calls \in Nat
  BY <1>2, <1>3, EntryKinds DEF BatchOpen, OpenAt
<1>5. run[c].todo \in Seq(Entry)
  BY RunIsBounded DEF RunInv
<1> QED
  BY <1>1, <1>2, <1>3, <1>4, <1>5, VectorsKnow

(* Recording a result: it is the next one of the open batch.               *)
LEMMA RecordResult ==
  ASSUME RunInv, TranscriptInv, NEW c \in Callers, RecordNext(c), pc[c] = "results"
  PROVE  TranscriptInv'
<1>1. Working(c) /\ InRun(c) /\ run[c].todo # <<>>
  BY AtInRun DEF RecordNext, LoopPhases, Working, InRun
<1>2. PICK k \in DOMAIN messages :
        /\ BatchOpen(c, k) /\ k \in 1..Len(messages) /\ Len(messages) \in Nat
        /\ messages[k] \in Entry /\ messages[k].calls \in Nat
  BY <1>1, OpenKnows
<1> DEFINE e == Head(run[c].todo)
           rest == Tail(run[c].todo)
           todo == run[c].todo
           n == Len(messages)
<1>3. /\ todo \in Seq(Entry) /\ e \in Entry /\ rest \in Seq(Entry) /\ Len(rest) = Len(todo) - 1
      /\ e = todo[1] /\ Len(todo) \in Nat /\ Len(todo) >= 1 /\ DOMAIN todo = 1..Len(todo)
      /\ DOMAIN rest = 1..Len(rest)
      /\ \A i \in DOMAIN rest : i + 1 \in DOMAIN todo /\ rest[i] = todo[i + 1]
  BY <1>1, OpenKnows
<1>4. messages' = Append(messages, e) /\ run' = [run EXCEPT ![c].todo = rest] /\ UNCHANGED <<pc, edit>>
  BY DEF RecordNext, Push
<1>5. /\ OpenAt(k)
      /\ n - k + Len(todo) = messages[k].calls
      /\ \A i \in DOMAIN todo :
           /\ todo[i].role = "toolResult" /\ todo[i].call = n - k + i
           /\ messages[k].stop = "length" => todo[i].outcome = "error"
  BY <1>2 DEF BatchOpen, ResultsLeft
<1>6. run'[c].todo = rest
  BY <1>1, <1>4, OpenKnows DEF RunInv, TypeInv, TypeOK, RunState
<1>7. messages \in Seq(Entry) /\ Sound(messages)
  BY <1>1, OpenKnows
<1> HIDE DEF e, rest, todo
<1>8. /\ e.role = "toolResult" /\ e.call = n - k + 1 /\ k = n + 1 - e.call
      /\ messages[k].stop = "length" => e.outcome = "error"
  <2>1. 1 \in DOMAIN todo
    BY <1>3
  <2>2. /\ e.role = "toolResult" /\ e.call = n - k + 1
        /\ messages[k].stop = "length" => e.outcome = "error"
    BY <1>3, <1>5, <2>1
  <2> QED
    BY <1>2, <2>2
<1>9. Sound(messages')
  <2>0. PICK calls \in Int, l \in Nat, p \in Int :
          calls = messages[k].calls /\ l = Len(todo) /\ p = e.call
    BY <1>2, <1>3, <1>5, <1>8
  <2>1. e.call <= messages[k].calls
    <3>1. n - k + l = calls /\ l >= 1 /\ p = n - k + 1 /\ n \in Int /\ k \in Int
      <4>1. n - k + Len(todo) = messages[k].calls
        BY <1>5, Zenon
      <4>2. n - k + l = calls
        BY <2>0, <4>1, Zenon
      <4>3. l >= 1 /\ p = n - k + 1
        BY <1>3, <1>8, <2>0, Zenon
      <4> QED
        BY <1>2, <4>2, <4>3
    <3>2. p <= calls
      BY ONLY <2>0, <3>1
    <3> QED
      BY <2>0, <3>2
  <2>2. \A i \in 1..(e.call - 1) : messages[k + i].role = "toolResult" /\ messages[k + i].call = i
    <3>1. e.call - 1 = n - k
      BY <1>2, <1>8
    <3>2. \A i \in 1..(n - k) : messages[k + i].role = "toolResult" /\ messages[k + i].call = i
      BY <1>5 DEF OpenAt
    <3> QED
      BY <3>1, <3>2, Zenon
  <2>3. messages # <<>> /\ k >= 1 /\ k <= n
    BY <1>2
  <2>4. Sound(Append(messages, e))
    <3>1. messages[k].role = "assistant" /\ ~IsTerminal(messages[k].stop)
      BY <1>5, Zenon DEF OpenAt
    <3>2. k \in 1..n /\ k = n + 1 - e.call
      BY <1>2, <1>8
    <3>3. \E h \in 1..Len(messages) :
            /\ h = Len(messages) + 1 - e.call /\ messages[h].role = "assistant"
            /\ ~IsTerminal(messages[h].stop) /\ e.call <= messages[h].calls
            /\ messages[h].stop = "length" => e.outcome = "error"
            /\ \A i \in 1..(e.call - 1) :
                 messages[h + i].role = "toolResult" /\ messages[h + i].call = i
      BY <1>8, <2>1, <2>2, <3>1, <3>2, Zenon
    <3> QED
      BY <1>3, <1>7, <2>3, <3>3, SoundAppend, Zenon
  <2> QED
    BY <1>4, <2>4
<1> DEFINE t == Append(messages, e)
<1>10. /\ t \in Seq(Entry) /\ Len(t) = n + 1 /\ DOMAIN t = 1..(n + 1) /\ t # <<>>
       /\ t[n + 1] = e /\ \A i \in 1..n : t[i] = messages[i]
  BY <1>3, <1>7, AppendAt
<1>11. AllFull(t, {k})
  <2>1. {k} \subseteq DOMAIN messages /\ e.role # "assistant"
    BY <1>2, <1>8
  <2> QED
    BY <1>3, <1>5, <1>7, <2>1, AllFullAppend DEF OpenAt
<1>12. messages' = t
  BY <1>4
<1> HIDE DEF t
<1>13. OpenAt(k)'
  <2>1. k \in DOMAIN t /\ t[k].role = "assistant" /\ ~IsTerminal(t[k].stop)
    BY <1>2, <1>5, <1>10 DEF OpenAt
  <2>2. ASSUME NEW i \in 1..(Len(t) - k) PROVE t[k + i].role = "toolResult" /\ t[k + i].call = i
    <3>1. CASE i = n + 1 - k
      <4>1. k + i = n + 1 /\ i = n - k + 1
        BY <1>2, <3>1
      <4> QED
        BY <1>8, <1>10, <4>1
    <3>2. CASE i # n + 1 - k
      <4>1. i \in 1..(n - k) /\ k + i \in 1..n
        BY <1>2, <1>10, <3>2
      <4> QED
        BY <1>5, <1>10, <4>1 DEF OpenAt
    <3> QED
      BY <3>1, <3>2
  <2> QED
    BY <1>11, <1>12, <2>1, <2>2 DEF OpenAt
<1>14. t[k] = messages[k]
  BY <1>2, <1>10
<1>15. ResultsLeft(c, k)'
  <2>1. Len(t) - k + Len(rest) = t[k].calls
    BY <1>2, <1>3, <1>5, <1>10, <1>14
  <2>2. ASSUME NEW i \in DOMAIN rest
        PROVE  /\ rest[i].role = "toolResult" /\ rest[i].call = Len(t) - k + i
               /\ t[k].stop = "length" => rest[i].outcome = "error"
    <3>1. i + 1 \in DOMAIN todo /\ rest[i] = todo[i + 1] /\ i \in Nat
      BY <1>3
    <3>2. /\ todo[i + 1].role = "toolResult" /\ todo[i + 1].call = n - k + (i + 1)
          /\ messages[k].stop = "length" => todo[i + 1].outcome = "error"
      BY <1>5, <3>1
    <3>3. n - k + (i + 1) = Len(t) - k + i
      BY <1>2, <1>10, <3>1
    <3> QED
      BY <1>14, <3>1, <3>2, <3>3
  <2> QED
    BY <1>6, <1>12, <2>1, <2>2 DEF ResultsLeft
<1>16. BatchOpen(c, k)'
  BY <1>4, <1>13, <1>15 DEF BatchOpen, CallsOf
<1>17. Working(c)' /\ Vectors(c)' /\ k \in DOMAIN messages'
  BY <1>2, <1>4, <1>10, <1>12 DEF Working, Vectors
<1> QED
  BY <1>1, <1>4, <1>9, <1>16, <1>17, OpenKnows, TranscriptKept

(* The last result recorded, the batch is closed.                          *)
LEMMA BatchRecorded ==
  ASSUME RunInv, TranscriptInv, NEW c \in Callers, RecordedAll(c), pc[c] = "results"
  PROVE  TranscriptInv'
<1>1. Working(c) /\ InRun(c) /\ run[c].todo = <<>>
  BY AtInRun DEF RecordedAll, LoopPhases, Working, InRun
<1>2. PICK k \in DOMAIN messages :
        /\ BatchOpen(c, k) /\ k \in 1..Len(messages) /\ Len(messages) \in Nat
        /\ messages[k] \in Entry /\ messages[k].calls \in Nat
  BY <1>1, OpenKnows
<1>3. Len(messages) - k = messages[k].calls
  BY <1>1, <1>2 DEF BatchOpen, ResultsLeft
<1>4. Full(messages, k)
  <2>1. k + messages[k].calls <= Len(messages)
    BY <1>2, <1>3
  <2> QED
    BY <1>2, <1>3, <2>1 DEF Full, BatchOpen, OpenAt
<1>5. Well(messages)
  BY <1>1, <1>2, <1>4, OpenKnows DEF Well, AllFull, BatchOpen, OpenAt
<1>6. pc' = [pc EXCEPT ![c] = "turnEnd"] /\ UNCHANGED <<messages, run, edit>>
  BY <1>1 DEF RecordedAll, At, state
<1>7. pc'[c] = "turnEnd" /\ \A d \in Callers \ {c} : pc'[d] = pc[d]
  BY <1>6, Moves DEF LoopPhases
<1>8. <<>> \in Seq(UserEntry) /\ messages # <<>>
  BY <1>1, <1>2, OpenKnows
<1>9. ~Working(c)' /\ Vectors(c)'
  BY <1>1, <1>6, <1>7, <1>8 DEF Working, Vectors
<1> QED
  BY <1>1, <1>5, <1>6, <1>7, <1>9, OpenKnows, TranscriptKept DEF Well

(* A reply ends the turn, or opens a batch.                                *)
LEMMA RecordedReply ==
  ASSUME RunInv, TranscriptInv, NEW c \in Callers, NEW s \in Stops, NEW n \in 0..MaxCalls,
         RecordReply(c, s, n), At(c, "request") \/ At(c, "waiting"),
         pc' = [pc EXCEPT ![c] = IF IsTerminal(s) \/ n = 0 THEN "turnEnd" ELSE "prepare"]
  PROVE  TranscriptInv'
<1>1. InRun(c) /\ ~Working(c) /\ pc[c] \in {"request", "waiting"}
  BY AtInRun DEF LoopPhases, Working
<1> DEFINE e    == Assistant(s, n)
           work == IF IsTerminal(s) THEN <<>> ELSE [i \in 1..n |-> "new"]
           todo == run[c].todo
           t    == Append(messages, e)
<1>2. /\ e \in Entry /\ e.role = "assistant" /\ e.stop = s /\ e.calls = n
  BY EntryType DEF Assistant
<1>3. /\ messages \in Seq(Entry) /\ Well(messages) /\ messages # <<>> /\ todo \in Seq(UserEntry)
      /\ run[c] \in RunState /\ run \in [Callers -> RunState] /\ pc \in [Callers -> Phases]
  BY <1>1, VectorsKnow DEF RunInv, TypeInv, TypeOK
<1>4. /\ messages' = t /\ UNCHANGED edit
      /\ run' = [run EXCEPT ![c] = [run[c] EXCEPT !.hasMore = FALSE,
                                     !.terminal = IsTerminal(s), !.work = work]]
  BY DEF RecordReply, Push
<1>5. ~IsTerminal(s) => Len(work) = n
  BY ConstantsAssumption
<1> HIDE DEF e, work, t
<1>6. run'[c].todo = todo /\ run'[c].work = work
  BY <1>3, <1>4 DEF RunState
<1>7. /\ t \in Seq(Entry) /\ Len(messages) \in Nat /\ Len(t) = Len(messages) + 1 /\ t # <<>>
      /\ DOMAIN t = 1..(Len(messages) + 1) /\ t[Len(messages) + 1] = e
  BY <1>2, <1>3, AppendAt DEF t
<1>8. Sound(t)
  BY <1>2, <1>3, SoundAppend DEF Well, t
<1>9. \A d \in Callers \ {c} : pc'[d] = pc[d]
  BY <1>3
<1>10. CASE IsTerminal(s) \/ n = 0
  <2>1. Well(t)
    BY <1>2, <1>3, <1>10, WellAppend DEF t
  <2>2. pc'[c] = "turnEnd"
    BY <1>3, <1>10
  <2>3. ~Working(c)' /\ Vectors(c)'
    BY <1>3, <1>4, <1>6, <1>7, <2>2 DEF Working, Vectors
  <2> QED
    BY <1>1, <1>4, <1>8, <1>9, <2>1, <2>3, VectorsKnow, TranscriptKept
<1>11. CASE ~(IsTerminal(s) \/ n = 0)
  <2>1. pc'[c] = "prepare" /\ n > 0
    BY <1>3, <1>11
  <2>2. PICK k \in Nat : k = Len(messages) + 1
    BY <1>7
  <2>3. k \in DOMAIN t /\ t[k] = e /\ Len(t) - k = 0 /\ k = Len(t)
    BY <1>7, <2>2
  <2>4. AllFull(t, {k})
    <3>1. AllFull(messages, {}) /\ {} \subseteq DOMAIN messages
      BY <1>3 DEF Well
    <3>2. AllFull(t, {} \cup {Len(messages) + 1})
      BY <1>2, <1>3, <3>1, AllFullAppend DEF t
    <3> QED
      BY <2>2, <3>2
  <2>5. OpenAt(k)'
    BY <1>2, <1>4, <1>11, <2>3, <2>4 DEF OpenAt
  <2>6. CallsOf(c, k)'
    BY <1>2, <1>4, <1>5, <1>6, <1>11, <2>1, <2>3 DEF CallsOf
  <2>7. ResultsLeft(c, k)'
    BY <2>1 DEF ResultsLeft
  <2>8. Working(c)' /\ Vectors(c)' /\ k \in DOMAIN messages'
    BY <1>3, <1>4, <1>6, <1>7, <2>1, <2>3 DEF Working, Vectors
  <2> QED
    BY <1>1, <1>4, <1>8, <1>9, <2>5, <2>6, <2>7, <2>8, VectorsKnow, TranscriptKept DEF BatchOpen
<1> QED
  BY <1>10, <1>11

(* The calls of an open batch move on.                                     *)
LEMMA BatchMoves ==
  ASSUME RunInv, TranscriptInv, NEW c \in Callers, Working(c), UNCHANGED <<messages, edit>>,
         Working(c)', \A d \in Callers \ {c} : pc'[d] = pc[d],
         pc'[c] # "results" => run'[c].todo \in Seq(UserEntry),
         \A k \in DOMAIN messages : BatchOpen(c, k) => CallsOf(c, k)' /\ ResultsLeft(c, k)'
  PROVE  TranscriptInv'
<1>1. PICK k \in DOMAIN messages : BatchOpen(c, k) /\ k \in 1..Len(messages)
  BY OpenKnows
<1>2. OpenAt(k)'
  <2>1. OpenAt(k)' <=> OpenAt(k)
    BY DEF OpenAt, AllFull, Full
  <2> QED
    BY <1>1, <2>1 DEF BatchOpen
<1>3. Vectors(c)'
  <2>1. messages # <<>>
    BY <1>1, OpenKnows
  <2> QED
    BY <2>1 DEF Vectors
<1>4. Sound(messages') /\ SnapOK(edit'[c])
  BY OpenKnows
<1> QED
  BY <1>1, <1>2, <1>3, <1>4, OpenKnows, TranscriptKept DEF BatchOpen

(* A call that changes its state leaves the number of calls as it was.     *)
LEMMA BatchCall ==
  ASSUME RunInv, TranscriptInv, NEW c \in Callers, NEW i \in 1..MaxCalls,
         StartCall(c, i) \/ ToolStep(c, i)
  PROVE  TranscriptInv'
<1>1. Working(c) /\ pc[c] \in {"prepare", "execute"} /\ i \in DOMAIN run[c].work /\ InRun(c)
  BY AtInRun DEF StartCall, Starting, ToolStep, BeginTool, EndTool, InState, LoopPhases, Working
<1>2. UNCHANGED <<messages, edit, pc>> /\ (pc[c] = "execute" => i \in InState(c, {"ready", "running"}))
  BY <1>1 DEF StartCall, ToolStep, BeginTool, EndTool, At, InState
<1>3. PICK x \in Done \cup {"new", "ready", "running"} : run' = [run EXCEPT ![c].work[i] = x]
  BY DEF StartCall, ToolStep, BeginTool, EndTool, Done
<1>4. run[c] \in RunState /\ run \in [Callers -> RunState] /\ run[c].work \in Work
  BY RunIsBounded DEF RunInv, TypeInv, TypeOK
<1> DEFINE work == [run[c].work EXCEPT ![i] = x]
<1>5. run' = [run EXCEPT ![c] = [run[c] EXCEPT !.work = work]]
  BY <1>3
<1>6. DOMAIN work = DOMAIN run[c].work /\ work \in Work
  BY <1>1, <1>4, WorkItem
<1>7. Len(work) = Len(run[c].work)
  BY <1>4, <1>6 DEF Work
<1> HIDE DEF work
<1>8. run'[c].work = work /\ run'[c].todo = run[c].todo
  BY <1>4, <1>5 DEF RunState
<1>9. run'[c].todo \in Seq(UserEntry)
  BY <1>1, <1>8, VectorsKnow
<1>10. ASSUME NEW k \in DOMAIN messages, BatchOpen(c, k) PROVE CallsOf(c, k)' /\ ResultsLeft(c, k)'
  <2>1. ~(pc[c] = "execute" /\ messages[k].stop = "length")
    BY <1>1, <1>2, <1>10 DEF BatchOpen, CallsOf, InState
  <2> QED
    BY <1>1, <1>2, <1>7, <1>8, <1>10, <2>1 DEF BatchOpen, CallsOf, ResultsLeft
<1> QED
  BY <1>1, <1>2, <1>9, <1>10, BatchMoves DEF Working

LEMMA BatchPhases ==
  ASSUME RunInv, TranscriptInv, NEW c \in Callers
  PROVE  /\ FailTruncated(c) => TranscriptInv'
         /\ StartExecution(c) => TranscriptInv'
         /\ JoinTools(c) => TranscriptInv'
<1>0. /\ run \in [Callers -> RunState] /\ pc \in [Callers -> Phases]
      /\ run[c] \in RunState /\ run[c].work \in Work
  BY RunIsBounded DEF RunInv, TypeInv, TypeOK
<1>1. ASSUME FailTruncated(c) PROVE TranscriptInv'
  <2>1. Working(c) /\ pc[c] = "prepare" /\ InRun(c)
    BY <1>1, AtInRun DEF FailTruncated, LoopPhases, Working
  <2>2. pc'[c] = "execute" /\ (\A d \in Callers \ {c} : pc'[d] = pc[d]) /\ UNCHANGED <<messages, edit>>
    BY <1>0, <1>1 DEF FailTruncated, state
  <2> DEFINE work == [j \in DOMAIN run[c].work |-> "error"]
  <2>3. run' = [run EXCEPT ![c] = [run[c] EXCEPT !.work = work]]
    BY <1>1 DEF FailTruncated, TruncatedStatus
  <2>4. Len(work) = Len(run[c].work) /\ \A i \in DOMAIN work : work[i] = "error"
    BY <1>0 DEF Work
  <2> HIDE DEF work
  <2>5. run'[c].work = work /\ run'[c].todo = run[c].todo
    BY <1>0, <2>3 DEF RunState
  <2>6. ASSUME NEW k \in DOMAIN messages, BatchOpen(c, k) PROVE CallsOf(c, k)' /\ ResultsLeft(c, k)'
    BY <2>1, <2>2, <2>4, <2>5, <2>6 DEF BatchOpen, CallsOf, ResultsLeft
  <2> QED
    BY <2>1, <2>2, <2>5, <2>6, VectorsKnow, BatchMoves DEF Working
<1>2. ASSUME StartExecution(c) PROVE TranscriptInv'
  <2>1. Working(c) /\ pc[c] = "prepare" /\ InRun(c) /\ ~Truncated
    BY <1>2, AtInRun DEF StartExecution, LoopPhases, Working
  <2>2. pc'[c] = "execute" /\ (\A d \in Callers \ {c} : pc'[d] = pc[d]) /\ UNCHANGED <<messages, edit>>
    BY <1>0, <1>2 DEF StartExecution, state
  <2>3. PICK serial \in BOOLEAN : run' = [run EXCEPT ![c] = [run[c] EXCEPT !.serial = serial]]
    BY <1>2 DEF StartExecution
  <2>4. run'[c].work = run[c].work /\ run'[c].todo = run[c].todo
    BY <1>0, <2>3 DEF RunState
  <2>5. ASSUME NEW k \in DOMAIN messages, BatchOpen(c, k) PROVE CallsOf(c, k)' /\ ResultsLeft(c, k)'
    <3>1. messages[k].stop # "length"
      BY <2>1, <2>5 DEF BatchOpen, CallsOf, Truncated, LastReply
    <3> QED
      BY <2>1, <2>2, <2>4, <2>5, <3>1 DEF BatchOpen, CallsOf, ResultsLeft
  <2> QED
    BY <2>1, <2>2, <2>4, <2>5, VectorsKnow, BatchMoves DEF Working
<1>3. ASSUME JoinTools(c) PROVE TranscriptInv'
  <2>1. Working(c) /\ pc[c] = "execute" /\ InRun(c) /\ InState(c, Done) = DOMAIN run[c].work
    BY <1>3, AtInRun DEF JoinTools, LoopPhases, Working
  <2>2. pc'[c] = "results" /\ (\A d \in Callers \ {c} : pc'[d] = pc[d]) /\ UNCHANGED <<messages, edit>>
    BY <1>0, <1>3 DEF JoinTools, state
  <2> DEFINE todo == ResultsOfBatch(run[c].work)
             more == InState(c, {"terminate"}) # DOMAIN run[c].work
  <2>3. run' = [run EXCEPT ![c] = [run[c] EXCEPT !.todo = todo, !.hasMore = more,
                                     !.work = <<>>, !.serial = FALSE]]
    BY <1>3 DEF JoinTools
  <2>4. Len(todo) = Len(run[c].work) /\ DOMAIN todo = DOMAIN run[c].work
        /\ \A i \in DOMAIN todo : /\ todo[i].role = "toolResult" /\ todo[i].call = i
                                  /\ todo[i].outcome = run[c].work[i]
    BY <1>0 DEF Work, ResultsOfBatch, Result
  <2> HIDE DEF todo, more
  <2>5. run'[c].todo = todo
    <3>1. [run[c] EXCEPT !.todo = todo, !.hasMore = more, !.work = <<>>, !.serial = FALSE].todo = todo
      BY <1>0 DEF RunState
    <3> QED
      BY <1>0, <2>3, <3>1
  <2>6. ASSUME NEW k \in DOMAIN messages, BatchOpen(c, k) PROVE CallsOf(c, k)' /\ ResultsLeft(c, k)'
    <3>1. /\ k = Len(messages) /\ Len(run[c].work) = messages[k].calls
          /\ messages[k].stop = "length" => \A i \in DOMAIN run[c].work : run[c].work[i] = "error"
      BY <2>1, <2>6 DEF BatchOpen, CallsOf
    <3>2. Len(messages) \in Nat /\ Len(todo) \in Nat /\ \A i \in DOMAIN todo : i \in Nat
      <4>1. messages \in Seq(Entry) /\ DOMAIN run[c].work = 1..Len(run[c].work)
            /\ Len(run[c].work) \in Nat
        BY <1>0 DEF Work, RunInv, TypeInv, TypeOK
      <4> QED
        BY <2>4, <4>1
    <3>3. Len(messages) - k + Len(todo) = messages[k].calls
      BY <2>4, <3>1, <3>2
    <3>4. \A i \in DOMAIN todo :
            /\ todo[i].role = "toolResult" /\ todo[i].call = Len(messages) - k + i
            /\ messages[k].stop = "length" => todo[i].outcome = "error"
      BY <2>4, <3>1, <3>2
    <3> QED
      BY <2>2, <2>5, <3>3, <3>4 DEF CallsOf, ResultsLeft
  <2> QED
    BY <2>1, <2>2, <2>6, BatchMoves DEF Working
<1> QED
  BY <1>1, <1>2, <1>3

(* The reply that reports a panic closes whatever was open.                *)
LEMMA PanicRecorded ==
  ASSUME RunInv, TranscriptInv, NEW c \in Callers, RuntimePanic(c)
  PROVE  TranscriptInv'
<1> DEFINE s == IF Cancelled THEN "aborted" ELSE "error"
           e == Assistant(s, 0)
           t == Append(messages, e)
<1>1. InRun(c) /\ pc[c] \in {"hook", "prepare"}
  BY AtInRun DEF RuntimePanic, LoopPhases
<1>2. e \in Entry /\ e.role = "assistant" /\ IsTerminal(e.stop)
  <2>1. s \in Stops /\ IsTerminal(s) /\ 0 \in 0..MaxCalls
    BY ConstantsAssumption DEF Stops, IsTerminal
  <2> QED
    BY <2>1, EntryType DEF Assistant
<1>3. /\ messages' = t /\ UNCHANGED edit /\ pc' = [pc EXCEPT ![c] = "turnEnd"]
      /\ run' = [run EXCEPT ![c] = RunFrom(<<>>, FALSE, TRUE)]
  BY DEF RuntimePanic, Push
<1> HIDE DEF s, e, t
<1>4. messages \in Seq(Entry) /\ messages # <<>> /\ Sound(messages)
  BY <1>1, VectorsKnow
<1>5. pc'[c] = "turnEnd" /\ (\A d \in Callers \ {c} : pc'[d] = pc[d]) /\ run'[c].todo = <<>>
  BY <1>3 DEF RunInv, TypeInv, TypeOK, RunFrom
<1>6. /\ t \in Seq(Entry) /\ Len(messages) \in Nat /\ Len(t) = Len(messages) + 1 /\ t # <<>>
      /\ DOMAIN t = 1..(Len(messages) + 1) /\ t[Len(messages) + 1] = e
      /\ \A i \in 1..Len(messages) : t[i] = messages[i]
  BY <1>2, <1>4, AppendAt DEF t
<1>7. Sound(t)
  BY <1>2, <1>4, SoundAppend DEF t
<1>8. Well(t)
  <2>1. CASE pc[c] = "hook"
    BY <1>1, <1>2, <1>4, <2>1, VectorsKnow, WellAppend DEF Working, t
  <2>2. CASE pc[c] = "prepare"
    <3>1. PICK k \in DOMAIN messages : BatchOpen(c, k) /\ k \in 1..Len(messages)
      BY <2>2, OpenKnows DEF Working
    <3>2. k = Len(messages) /\ messages[k].calls > 0 /\ AllFull(messages, {k})
      BY <2>2, <3>1 DEF BatchOpen, CallsOf, OpenAt
    <3>3. AllFull(t, {k})
      BY <1>2, <1>4, <3>1, <3>2, AllFullAppend DEF t
    <3>4. k < Len(t) /\ t[k] = messages[k] /\ t[k + 1] = e
      BY <1>6, <3>1, <3>2
    <3>5. Full(t, k)
      BY <1>2, <3>2, <3>4 DEF Full
    <3> QED
      BY <1>7, <3>3, <3>5 DEF Well, AllFull
  <2> QED
    BY <1>1, <2>1, <2>2
<1>9. ~Working(c)' /\ Vectors(c)'
  <2>1. <<>> \in Seq(UserEntry)
    OBVIOUS
  <2> QED
    BY <1>3, <1>5, <1>6, <2>1 DEF Working, Vectors
<1> QED
  BY <1>1, <1>3, <1>5, <1>7, <1>8, <1>9, VectorsKnow, TranscriptKept

(* A run begins where there is something to answer.                        *)
LEMMA TranscriptClaimed ==
  ASSUME RunInv, TranscriptInv, NEW c \in Callers, NEW batch \in Seq(UserEntry), NEW skip \in BOOLEAN,
         ~Busy, Claim(c, batch, skip), messages # <<>> \/ batch # <<>>
  PROVE  TranscriptInv'
<1>1. \A d \in Callers : ~InRun(d)
  BY DEF Busy, RunInv, SlotInv
<1>2. Well(messages) /\ Sound(messages) /\ SnapOK(edit[c])
  BY <1>1 DEF TranscriptInv
<1>3. /\ pc' = [pc EXCEPT ![c] = "claimed"] /\ run' = [run EXCEPT ![c] = RunFrom(batch, skip, FALSE)]
      /\ UNCHANGED <<messages, edit>>
  BY DEF Claim
<1>4. pc'[c] = "claimed" /\ (\A d \in Callers \ {c} : pc'[d] = pc[d]) /\ run'[c].todo = batch
  BY <1>3 DEF RunInv, TypeInv, TypeOK, RunFrom
<1>5. ~Working(c)' /\ Vectors(c)'
  BY <1>3, <1>4 DEF Working, Vectors
<1> QED
  BY <1>1, <1>2, <1>3, <1>4, <1>5, TranscriptKept

LEMMA TranscriptContinued ==
  ASSUME RunInv, TranscriptInv, NEW c \in Callers, ~Busy, Continuation(c)
  PROVE  TranscriptInv'
<1>1. /\ <<>> \in Seq(UserEntry)
      /\ Taken(steering, SteeringMode) \in Seq(UserEntry)
      /\ Taken(followUps, FollowUpMode) \in Seq(UserEntry)
  BY DrainType DEF RunInv, TypeInv, TypeOK
<1>2. /\ messages # <<>>
      /\ \/ Claim(c, <<>>, FALSE) \/ Claim(c, Taken(steering, SteeringMode), TRUE)
         \/ Claim(c, Taken(followUps, FollowUpMode), FALSE)
  BY DEF Continuation
<1> QED
  BY <1>1, <1>2, TranscriptClaimed

(* A transcript edit is made by the thread in the hook, or while nobody is *)
(* in a run.                                                               *)
LEMMA EditAlone ==
  ASSUME RunInv, NEW c \in Callers, Accepts(c)
  PROVE  /\ \A d \in Callers \ {c} : ~InRun(d)
         /\ ~Working(c)
BY DEF Accepts, RunInv, SlotInv, InRun, LoopPhases, Working

LEMMA TranscriptEdited ==
  ASSUME RunInv, TranscriptInv, NEW c \in Callers
  PROVE  /\ CompactSnapshot(c) => TranscriptInv'
         /\ CompactApply(c) /\ ~torn' => TranscriptInv'
         /\ Reset(c) => TranscriptInv'
<1>1. /\ edit \in [Callers -> EditState] /\ edit[c] \in EditState /\ messages \in Seq(Entry)
      /\ Sound(messages) /\ SnapOK(edit[c])
  BY DEF RunInv, TypeInv, TypeOK, TranscriptInv
<1>2. Accepts(c) => (\A d \in Callers : ~InRun(d)) \/ (InRun(c) /\ ~Working(c))
  BY EditAlone
<1>3. Accepts(c) => Well(messages)
  BY <1>2 DEF TranscriptInv
<1>4. ASSUME CompactSnapshot(c) PROVE TranscriptInv'
  <2>1. UNCHANGED <<messages, pc, run>> /\ Editing(c)
    BY <1>4 DEF CompactSnapshot, Editing, state
  <2> DEFINE taken == [step |-> "summarizing", snap |-> messages, queued |-> 0,
                       mid |-> OtherRuns(c)]
  <2>2. edit' = [edit EXCEPT ![c] = taken] /\ taken.snap = messages
        /\ (taken.mid <=> OtherRuns(c))
    BY <1>4 DEF CompactSnapshot
  <2> HIDE DEF taken
  <2>3. edit'[c] = taken /\ \A d \in Callers \ {c} : edit'[d] = edit[d]
    BY <1>1, <2>2
  <2>4. ASSUME ~OtherRuns(c) PROVE Well(messages)
    <3>1. pc[c] \in {"idle", "hook"}
      BY <2>1 DEF RunInv, ThreadsWell
    <3>2. \A d \in Callers \ {c} : ~InRun(d)
      BY <2>4 DEF OtherRuns
    <3>3. ~Working(c)
      BY <3>1 DEF Working
    <3> QED
      BY <3>2, <3>3 DEF TranscriptInv
  <2>5. SnapOK(edit'[c])
    BY <2>2, <2>3, <2>4 DEF SnapOK
  <2>6. \A d \in Callers : InRun(d)' <=> InRun(d)
    BY <2>1 DEF InRun
  <2>7. \A d \in Callers : SnapOK(edit[d]) => SnapOK(edit'[d])
    BY <2>3, <2>5
  <2> QED
    BY <2>1, <2>6, <2>7, TranscriptSame
<1>5. ASSUME CompactApply(c), ~torn' PROVE TranscriptInv'
  <2>1. Accepts(c) /\ UNCHANGED <<pc, run>>
    BY <1>5 DEF CompactApply, CutRefused
  <2>2. PICK cut \in CutPoints(edit[c].snap) :
          messages' = <<Marker>> \o SubSeq(edit[c].snap, cut, Len(edit[c].snap))
    BY <1>5 DEF CompactApply
  <2>3. edit[c].snap \in Seq(Entry)
    BY <1>1 DEF EditState
  <2>4. Well(messages')
    <3>1. Well(edit[c].snap)
      BY <1>1, <1>5 DEF CompactApply, SnapOK
    <3> QED
      BY <2>2, <2>3, <3>1, WellCut
  <2>5. messages' # <<>>
    <3> DEFINE kept == SubSeq(edit[c].snap, cut, Len(edit[c].snap))
    <3>1. cut \in 2..Len(edit[c].snap)
      BY <2>3 DEF CutPoints
    <3>2. kept \in Seq(Entry)
      BY <2>3, <3>1
    <3> HIDE DEF kept
    <3>3. <<Marker>> \o kept # <<>>
      BY <3>2, EntryType
    <3> QED
      BY <2>2, <3>3 DEF kept
  <2>6. edit'[c].snap = messages' /\ \A d \in Callers \ {c} : edit'[d] = edit[d]
    BY <1>1, <1>5 DEF CompactApply, EditState
  <2>7. ~Working(c)' /\ (InRun(c)' <=> InRun(c)) /\ \A d \in Callers \ {c} : ~InRun(d)
    BY <2>1, EditAlone DEF Working, InRun
  <2>8. InRun(c)' => Vectors(c)'
    BY <2>1, <2>5, <2>7 DEF Vectors, TranscriptInv
  <2> QED
    BY <2>1, <2>4, <2>6, <2>7, <2>8, TranscriptKept DEF Well, SnapOK
<1>6. ASSUME Reset(c) PROVE TranscriptInv'
  <2>1. /\ messages' = <<>> /\ UNCHANGED <<pc, run>> /\ Accepts(c) /\ pc[c] = "idle"
        /\ edit' = [edit EXCEPT ![c].step = "reset"]
    BY <1>6 DEF Reset, StepEdit, Accepts
  <2>2. /\ edit'[c].snap = edit[c].snap /\ edit'[c].mid = edit[c].mid
        /\ \A d \in Callers \ {c} : edit'[d] = edit[d]
    BY <1>1, <2>1 DEF EditState
  <2>3. ~Working(c)' /\ ~InRun(c)' /\ \A d \in Callers \ {c} : ~InRun(d)
    BY <2>1, EditAlone DEF Working, InRun, LoopPhases
  <2>4. Well(messages')
    BY <2>1, WellEmpty
  <2> QED
    BY <1>1, <2>1, <2>2, <2>3, <2>4, TranscriptKept DEF Well, SnapOK
<1> QED
  BY <1>4, <1>5, <1>6

LEMMA TranscriptStep == RunInv /\ TranscriptInv /\ [Next]_vars => torn' \/ TranscriptInv'
<1> SUFFICES ASSUME RunInv, TranscriptInv, [Next]_vars, ~torn' PROVE TranscriptInv'
  OBVIOUS
<1>0. /\ edit \in [Callers -> EditState] /\ \A d \in Callers : edit[d] \in EditState
      /\ pc \in [Callers -> Phases]
  BY DEF RunInv, TypeInv, TypeOK
<1>1. ASSUME UNCHANGED <<messages, pc, run, edit>> PROVE TranscriptInv'
  BY <1>1, TranscriptSame DEF InRun
<1>2. ASSUME NEW c \in Callers, CallStep(c) PROVE TranscriptInv'
  <2>1. ASSUME NEW m \in Messages, PromptMessages(c, m) PROVE TranscriptInv'
    <3> DEFINE batch == <<User(m)>>
    <3>1. ~Busy /\ Claim(c, batch, FALSE)
      BY <2>1 DEF PromptMessages
    <3>2. batch \in Seq(UserEntry) /\ batch # <<>>
      <4>1. User(m) \in UserEntry
        BY EntryType
      <4> HIDE DEF User
      <4> QED
        BY <4>1
    <3> HIDE DEF batch
    <3> QED
      BY <3>1, <3>2, TranscriptClaimed
  <2>2. ASSUME ContinueRun(c) PROVE TranscriptInv'
    BY <2>2, TranscriptContinued DEF ContinueRun
  <2>3. ASSUME CompactCheck(c) PROVE TranscriptInv'
    <3>1. UNCHANGED <<messages, pc, run>>
      BY <2>3 DEF CompactCheck, state
    <3>2. /\ edit'[c].snap = edit[c].snap /\ edit'[c].mid = edit[c].mid
          /\ \A d \in Callers \ {c} : edit'[d] = edit[d]
      BY <1>0, <2>3 DEF CompactCheck, StepEdit, EditState
    <3>3. \A d \in Callers : SnapOK(edit[d]) => SnapOK(edit'[d])
      BY <3>2 DEF SnapOK
    <3>4. \A d \in Callers : InRun(d)' <=> InRun(d)
      BY <3>1 DEF InRun
    <3> QED
      BY <3>1, <3>3, <3>4, TranscriptSame
  <2> QED
    BY <1>2, <2>1, <2>2, <2>3, TranscriptEdited DEF CallStep
<1>3. ASSUME NEW c \in Callers, LoopStep(c) PROVE TranscriptInv'
  <2>1. CASE Announce(c)
    BY <1>1, <2>1 DEF Announce, state
  <2>2. CASE RecordNext(c)
    BY <2>2, RecordUser, RecordResult
  <2>3. CASE RecordedAll(c)
    BY <2>3, TranscriptPlain, BatchRecorded
  <2>4. CASE SkipRequest(c)
    <3>1. /\ "aborted" \in Stops /\ IsTerminal("aborted") /\ 0 \in 0..MaxCalls
          /\ RecordReply(c, "aborted", 0) /\ At(c, "request") /\ pc' = [pc EXCEPT ![c] = "turnEnd"]
      BY <2>4, ConstantsAssumption DEF SkipRequest, Stops, IsTerminal
    <3> QED
      BY <3>1, RecordedReply
  <2>5. CASE \E s \in Stops, n \in 0..MaxCalls : Reply(c, s, n)
    BY <2>5, RecordedReply DEF Reply
  <2>6. CASE FailTruncated(c) \/ StartExecution(c) \/ JoinTools(c)
    BY <2>6, BatchPhases
  <2>7. CASE \E i \in 1..MaxCalls : StartCall(c, i)
    BY <2>7, BatchCall
  <2>8. CASE RunQueued(c)
    BY <2>8, TranscriptContinued DEF RunQueued, CannotRequeue
  <2>9. CASE ReleaseRun(c)
    <3>1. InRun(c) /\ ~Working(c) /\ pc' = [pc EXCEPT ![c] = "requeue"] /\ UNCHANGED <<messages, run, edit>>
      BY <2>9, AtInRun DEF ReleaseRun, Working, LoopPhases
    <3>2. ~Working(c)' /\ ~InRun(c)' /\ \A d \in Callers \ {c} : pc'[d] = pc[d]
      BY <1>0, <3>1 DEF Working, InRun, LoopPhases
    <3> QED
      BY <3>1, <3>2, VectorsKnow, TranscriptKept
  <2>10. CASE ReturnToCaller(c)
    <3>1. /\ pc[c] = "requeue" /\ pc' = [pc EXCEPT ![c] = "idle"] /\ run' = [run EXCEPT ![c] = NoRun]
          /\ UNCHANGED <<messages, edit>>
      BY <2>10 DEF ReturnToCaller, state
    <3>2. \A d \in Callers : InRun(d) => d # c
      BY <3>1 DEF InRun, LoopPhases
    <3>3. \A d \in Callers \ {c} : pc'[d] = pc[d] /\ run'[d] = run[d]
      BY <1>0, <3>1 DEF RunInv, TypeInv, TypeOK
    <3>4. \A d \in Callers : InRun(d)' <=> InRun(d)
      BY <1>0, <3>1, <3>3 DEF InRun, LoopPhases
    <3> QED
      BY <3>1, <3>2, <3>3, <3>4, TranscriptSame
  <2> QED
    BY <1>3, <2>1, <2>2, <2>3, <2>4, <2>5, <2>6, <2>7, <2>8, <2>9, <2>10, TranscriptPlain DEF LoopStep
<1>4. ASSUME NEW c \in Callers, StreamStart(c) PROVE TranscriptInv'
  BY <1>1, <1>4 DEF StreamStart, threads
<1>5. ASSUME NEW c \in Callers, NEW i \in 1..MaxCalls, ToolStep(c, i) PROVE TranscriptInv'
  BY <1>5, BatchCall
<1>6. ASSUME NEW c \in Callers, EditStep(c) PROVE TranscriptInv'
  <2>1. CASE ~CompactApply(c) /\ ~CompactSnapshot(c)
    <3>1. UNCHANGED <<messages, pc, run>>
      BY <1>6, <2>1 DEF EditStep, CompactCount, CompactRefused, CompactAnnounce, CompactClear,
         ResetAnnounce, TooShort, state
    <3>2. \A d \in Callers \ {c} : edit'[d] = edit[d]
      BY <1>0, <1>6, <2>1 DEF EditStep, CompactCount, CompactRefused, CompactAnnounce, CompactClear,
         ResetAnnounce, TooShort
    <3>3. SnapOK(edit[c]) => SnapOK(edit'[c])
      <4>1. \A n : /\ [edit[c] EXCEPT !.step = "counted", !.queued = n].snap = edit[c].snap
                   /\ [edit[c] EXCEPT !.step = "counted", !.queued = n].mid = edit[c].mid
                   /\ [edit[c] EXCEPT !.step = "clearing", !.snap = <<>>].snap = <<>>
                   /\ NoEdit.snap = <<>>
        BY <1>0 DEF EditState, NoEdit
      <4> DEFINE n == Len(steering) + Len(followUps)
                 counted == [edit[c] EXCEPT !.step = "counted", !.queued = n]
                 clearing == [edit[c] EXCEPT !.step = "clearing", !.snap = <<>>]
      <4>2. edit'[c] \in {counted, clearing, NoEdit}
        BY <1>0, <1>6, <2>1 DEF EditStep, CompactCount, CompactRefused, CompactAnnounce, CompactClear,
           ResetAnnounce, TooShort
      <4>3. /\ counted.snap = edit[c].snap /\ counted.mid = edit[c].mid
            /\ clearing.snap = <<>> /\ NoEdit.snap = <<>>
        BY <4>1
      <4> HIDE DEF counted, clearing
      <4> QED
        BY <4>2, <4>3, WellEmpty DEF SnapOK
    <3>4. \A d \in Callers : InRun(d)' <=> InRun(d)
      BY <3>1 DEF InRun
    <3> QED
      BY <3>1, <3>2, <3>3, <3>4, TranscriptSame
  <2> QED
    BY <2>1, TranscriptEdited
<1>7. CASE UserStep \/ Quiet \/ UNCHANGED vars
  BY <1>1, <1>7 DEF UserStep, Steer, FollowUp, TakeQueued, Abort, Quiet, vars, state, threads
<1> QED
  BY <1>2, <1>3, <1>4, <1>5, <1>6, <1>7, PanicRecorded DEF Next

LEMMA TranscriptInit == Init => TranscriptInv
<1> SUFFICES ASSUME Init PROVE TranscriptInv
  OBVIOUS
<1>1. messages = <<>> /\ \A c \in Callers : ~InRun(c) /\ edit[c].snap = <<>>
  BY DEF Init, InRun, LoopPhases, NoEdit
<1>2. \A c \in Callers : Working(c) => InRun(c)
  BY DEF InRun, Working, LoopPhases
<1> QED
  BY <1>1, <1>2, WellEmpty DEF TranscriptInv, Well, SnapOK

(* What a compaction tore stays torn for the properties.                   *)
LEMMA TornStays == torn /\ [Next]_vars => torn'
<1> SUFFICES ASSUME torn, [Next]_vars PROVE torn'
  OBVIOUS
<1>1. ASSUME NEW c \in Callers, LoopStep(c) PROVE torn'
  BY <1>1 DEF LoopStep, Announce, AgentStart, RecordNext, RecordedAll, InitialPoll, InnerLoop,
     InnerLoopExit, HookReturn, NextTurn, SkipRequest, RequestAssistant, Reply, RecordReply,
     FailTruncated, StartExecution, StartCall, JoinTools, EndTurn, OuterLoop, FinishRun,
     ReleaseRun, RunQueued, Continuation, Claim, ReturnToCaller, history
<1>2. ASSUME NEW c \in Callers, CallStep(c) \/ EditStep(c) PROVE torn'
  BY <1>2 DEF CallStep, PromptMessages, ContinueRun, Continuation, Claim, Reset, CompactCheck,
     EditStep, CompactSnapshot, TooShort, CompactCount, CompactRefused, CompactApply,
     CompactAnnounce, CompactClear, ResetAnnounce, history
<1>3. ASSUME NEW c \in Callers, StreamStart(c) \/ RuntimePanic(c)
                                 \/ \E i \in 1..MaxCalls : ToolStep(c, i)
      PROVE  torn'
  BY <1>3 DEF StreamStart, RuntimePanic, ToolStep, BeginTool, EndTool, history
<1>4. CASE UserStep \/ Quiet \/ UNCHANGED vars
  BY <1>4 DEF UserStep, Steer, FollowUp, TakeQueued, Abort, Quiet, vars, history
<1> QED
  BY <1>1, <1>2, <1>3, <1>4 DEF Next

(* Every request is made from a transcript a provider accepts: it begins   *)
(* with the user, each reply that asked for tools is followed by exactly   *)
(* its results in call order or by the reply that reports why there are    *)
(* none, and no call of a reply cut at the token limit was executed; until *)
(* a compaction applies what it read in the middle of another thread's run *)
(* (torn).                                                                 *)
THEOREM RequestsAreWhole == Spec => []RequestWellFormed
<1>1. RunInv /\ TranscriptInv => RequestWellFormed
  <2> SUFFICES ASSUME RunInv, TranscriptInv, NEW c \in Callers, pc[c] = "waiting"
               PROVE  /\ \A k \in DOMAIN messages : messages[k].role = "assistant" =>
                           /\ Answered(messages, k)
                           /\ Cardinality(ResultsOf(messages, k)) <= messages[k].calls
                           /\ messages[k].stop = "length" =>
                                \A j \in ResultsOf(messages, k) : messages[j].outcome = "error"
                      /\ messages[1].role = "user"
    BY DEF RequestWellFormed
  <2>1. InRun(c) /\ ~Working(c)
    BY DEF InRun, LoopPhases, Working
  <2>2. messages \in Seq(Entry) /\ Well(messages) /\ messages # <<>>
    BY <2>1, VectorsKnow
  <2> QED
    BY <2>2, WellRequest DEF Well, Sound
<1>2. torn => RequestWellFormed
  BY DEF RequestWellFormed
<1>3. (torn \/ TranscriptInv) /\ RunInv /\ [Next]_vars => (torn \/ TranscriptInv)'
  BY TranscriptStep, TornStays
<1>4. (torn \/ TranscriptInv) /\ []RunInv /\ [][Next]_vars => [](torn \/ TranscriptInv)
  BY <1>3, PTL
<1> QED
  BY <1>1, <1>2, <1>4, TranscriptInit, RunAlways, PTL DEF Spec

-----------------------------------------------------------------------------
(* Where a submitted message is.                                           *)

Once(s) == \A m \in Messages, i, j \in DOMAIN s : s[i] = User(m) /\ s[j] = User(m) => i = j

(* Every message is in one place: not yet submitted, removed, in the       *)
(* transcript, in a queue, or held by the running thread.                  *)
Sorted(held) ==
  LET told == Submitted(messages)
      steer == Submitted(steering)
      next == Submitted(followUps) IN
    /\ Messages = told \cup steer \cup next \cup held \cup fresh \cup gone
    /\ fresh \cap gone = {}
    /\ (fresh \cup gone) \cap (told \cup steer \cup next \cup held) = {}
    /\ told \cap (steer \cup next \cup held) = {}
    /\ steer \cap (next \cup held) = {}
    /\ next \cap held = {}

Carrying == {"claimed", "start", "inner", "hook", "afterHook", "inject", "results"}

PlacesInv ==
  /\ Once(messages) /\ Once(steering) /\ Once(followUps)
  /\ \A c \in Callers : Once(run[c].todo) /\ (pc[c] \notin Carrying => run[c].todo = <<>>)
  /\ \A c \in Callers : /\ Once(edit[c].snap)
                        /\ Submitted(edit[c].snap) \subseteq Submitted(messages) \cup gone
  /\ \A c \in Callers : InRun(c) => Sorted(Submitted(run[c].todo))
  /\ (\A c \in Callers : ~InRun(c)) => Sorted({})

(* The message an entry submits.                                           *)
Owner(e) == {m \in Messages : e = User(m)}

LEMMA OwnerIs ==
  /\ \A m \in Messages : Owner(User(m)) = {m}
  /\ \A s \in Stops, n \in 0..MaxCalls : Owner(Assistant(s, n)) = {}
  /\ \A i \in 1..MaxCalls, o \in Done : Owner(Result(i, o)) = {}
  /\ Owner(Marker) = {}
<1>1. \A m, x : User(x) = User(m) <=> x = m
  BY DEF User
<1>2. \A m, s, n : Assistant(s, n) # User(m)
  <2>1. \A m, s, n : User(m).role = "user" /\ Assistant(s, n).role = "assistant"
    BY DEF User, Assistant
  <2> QED
    BY <2>1
<1>3. \A m, i, o : Result(i, o) # User(m)
  <2>1. \A m, i, o : User(m).role = "user" /\ Result(i, o).role = "toolResult"
    BY DEF User, Result
  <2> QED
    BY <2>1
<1>4. \A m \in Messages : Marker # User(m)
  BY <1>1, SummaryAssumption DEF Marker
<1> QED
  BY <1>1, <1>2, <1>3, <1>4 DEF Owner

LEMMA SubmittedType == ASSUME NEW s PROVE Submitted(s) \subseteq Messages
BY DEF Submitted

LEMMA SubmittedEmpty == Submitted(<<>>) = {} /\ Once(<<>>)
BY DEF Submitted, Once

LEMMA SubmittedAppend ==
  ASSUME NEW s \in Seq(Entry), NEW e \in Entry
  PROVE  /\ Submitted(Append(s, e)) = Submitted(s) \cup Owner(e)
         /\ Once(s) /\ Owner(e) \cap Submitted(s) = {} => Once(Append(s, e))
<1> DEFINE t == Append(s, e)
<1>1. /\ t \in Seq(Entry) /\ Len(s) \in Nat
      /\ DOMAIN s = 1..Len(s) /\ DOMAIN t = 1..(Len(s) + 1)
      /\ t[Len(s) + 1] = e /\ \A i \in 1..Len(s) : t[i] = s[i]
  BY AppendAt
<1> HIDE DEF t
<1>2. DOMAIN t = DOMAIN s \cup {Len(s) + 1} /\ Len(s) + 1 \notin DOMAIN s
  BY <1>1
<1>3. Submitted(t) = Submitted(s) \cup Owner(e)
  BY <1>1, <1>2, Zenon DEF Submitted, Owner
<1>4. ASSUME Once(s), Owner(e) \cap Submitted(s) = {} PROVE Once(t)
  BY <1>1, <1>2, <1>4 DEF Once, Owner, Submitted
<1> QED
  BY <1>3, <1>4 DEF t

(* The front entry of a vector, and what is behind it.                     *)
LEMMA SubmittedHead ==
  ASSUME NEW s \in Seq(Entry), s # <<>>
  PROVE  /\ Submitted(s) = Owner(Head(s)) \cup Submitted(Tail(s))
         /\ Once(s) => Once(Tail(s)) /\ Owner(Head(s)) \cap Submitted(Tail(s)) = {}
<1> DEFINE t == Tail(s)
<1>1. /\ Len(s) \in Nat /\ Len(s) >= 1 /\ DOMAIN s = 1..Len(s) /\ Len(t) = Len(s) - 1
      /\ DOMAIN t = 1..Len(t) /\ Head(s) = s[1] /\ \A i \in 1..Len(t) : t[i] = s[i + 1]
  OBVIOUS
<1> HIDE DEF t
<1>2. /\ 1 \in DOMAIN s
      /\ \A i \in DOMAIN t : i + 1 \in DOMAIN s /\ t[i] = s[i + 1] /\ i + 1 # 1
      /\ \A i \in DOMAIN s : i # 1 => i - 1 \in DOMAIN t /\ s[i] = t[i - 1]
      /\ \A i, j \in DOMAIN t : i + 1 = j + 1 => i = j
  BY <1>1
<1>3. Submitted(s) = Owner(Head(s)) \cup Submitted(t)
  <2>1. Submitted(s) \subseteq Owner(Head(s)) \cup Submitted(t)
    BY <1>1, <1>2 DEF Submitted, Owner
  <2>2. Owner(Head(s)) \subseteq Submitted(s)
    BY <1>1, <1>2 DEF Submitted, Owner
  <2>3. Submitted(t) \subseteq Submitted(s)
    BY <1>2 DEF Submitted
  <2> QED
    BY <2>1, <2>2, <2>3
<1>4. ASSUME Once(s) PROVE Once(t) /\ Owner(Head(s)) \cap Submitted(t) = {}
  <2>1. Once(t)
    BY <1>2, <1>4 DEF Once
  <2>2. Owner(Head(s)) \cap Submitted(t) = {}
    BY <1>1, <1>2, <1>4 DEF Once, Owner, Submitted
  <2> QED
    BY <2>1, <2>2
<1> QED
  BY <1>3, <1>4 DEF t

(* A poll splits a queue.                                                  *)
LEMMA SubmittedDrain ==
  ASSUME NEW q \in Seq(Entry), NEW mode
  PROVE  /\ Submitted(q) = Submitted(Taken(q, mode)) \cup Submitted(Left(q, mode))
         /\ Once(q) => /\ Once(Taken(q, mode)) /\ Once(Left(q, mode))
                       /\ Submitted(Taken(q, mode)) \cap Submitted(Left(q, mode)) = {}
<1>1. CASE mode = "all" \/ q = <<>>
  BY <1>1, SubmittedEmpty DEF Taken, Left
<1>2. CASE ~(mode = "all" \/ q = <<>>)
  <2>1. Taken(q, mode) = <<Head(q)>> /\ Left(q, mode) = Tail(q) /\ Head(q) \in Entry
    BY <1>2 DEF Taken, Left
  <2> DEFINE one == <<Head(q)>>
  <2>2. one \in Seq(Entry) /\ DOMAIN one = {1} /\ one[1] = Head(q)
    BY <2>1
  <2> HIDE DEF one
  <2>3. Submitted(one) = Owner(Head(q)) /\ Once(one)
    BY <2>2 DEF Submitted, Owner, Once
  <2> QED
    BY <1>2, <2>1, <2>3, SubmittedHead DEF one
<1> QED
  BY <1>1, <1>2

(* What a cut keeps stands behind the marker.                              *)
LEMMA CutPlaces ==
  ASSUME NEW s \in Seq(Entry), NEW cut \in CutPoints(s)
  PROVE  LET t == <<Marker>> \o SubSeq(s, cut, Len(s)) IN
           /\ t \in Seq(Entry) /\ t[1] = Marker /\ DOMAIN t \subseteq Int /\ cut - 2 \in Int
           /\ \A i \in DOMAIN t : i # 1 => i + (cut - 2) \in DOMAIN s /\ t[i] = s[i + (cut - 2)]
<1>1. cut \in 2..Len(s) /\ Len(s) \in Nat /\ DOMAIN s = 1..Len(s)
  BY DEF CutPoints
<1> DEFINE m    == <<Marker>>
           kept == SubSeq(s, cut, Len(s))
           t    == m \o kept
<1>2. m \in Seq(Entry) /\ Len(m) = 1 /\ m[1] = Marker
  BY EntryType
<1>3. /\ kept \in Seq(Entry) /\ Len(kept) = Len(s) - cut + 1
      /\ \A i \in 1..Len(kept) : kept[i] = s[cut + i - 1]
  BY <1>1
<1> HIDE DEF m, kept
<1>4. /\ t \in Seq(Entry) /\ Len(t) = 1 + Len(kept) /\ t[1] = Marker
      /\ \A i \in 2..Len(t) : t[i] = kept[i - 1]
  <2>1. /\ m \o kept \in Seq(Entry) /\ Len(m \o kept) = Len(m) + Len(kept)
        /\ \A i \in 1..(Len(m) + Len(kept)) :
             (m \o kept)[i] = IF i <= Len(m) THEN m[i] ELSE kept[i - Len(m)]
    BY <1>2, <1>3, ConcatProperties
  <2> QED
    BY <1>2, <1>3, <2>1
<1> HIDE DEF t
<1>5. /\ DOMAIN t = 1..Len(t)
      /\ \A i \in DOMAIN t : i # 1 => i + (cut - 2) \in DOMAIN s /\ t[i] = s[i + (cut - 2)]
  <2>1. DOMAIN t = 1..Len(t) /\ Len(t) \in Nat
    BY <1>4
  <2>2. ASSUME NEW i \in DOMAIN t, i # 1
        PROVE  i + (cut - 2) \in DOMAIN s /\ t[i] = s[i + (cut - 2)]
    <3>0. i \in 2..Len(t) /\ i - 1 \in 1..Len(kept)
      BY <1>3, <1>4, <2>1, <2>2
    <3>1. i \in 2..Len(t) /\ i - 1 \in 1..Len(kept) /\ t[i] = kept[i - 1]
      BY <1>4, <3>0
    <3>2. kept[i - 1] = s[cut + (i - 1) - 1]
      BY <1>3, <3>1
    <3>3. cut + (i - 1) - 1 = i + (cut - 2) /\ i + (cut - 2) \in DOMAIN s
      <4>1. /\ i \in Int /\ cut \in Int /\ Len(s) \in Int /\ Len(kept) \in Int
            /\ cut >= 2 /\ i >= 2 /\ i - 1 <= Len(kept) /\ Len(kept) = Len(s) - cut + 1
        BY <1>1, <1>3, <3>1
      <4>2. cut + (i - 1) - 1 = i + (cut - 2) /\ i + (cut - 2) \in 1..Len(s)
        BY ONLY <4>1
      <4> QED
        BY <1>1, <4>2
    <3> QED
      BY <3>1, <3>2, <3>3
  <2> QED
    BY <1>1, <2>1, <2>2
<1>6. /\ t \in Seq(Entry) /\ t[1] = Marker /\ DOMAIN t \subseteq Int /\ cut - 2 \in Int
      /\ \A i \in DOMAIN t : i # 1 => i + (cut - 2) \in DOMAIN s /\ t[i] = s[i + (cut - 2)]
  BY <1>1, <1>4, <1>5
<1> QED
  BY <1>6 DEF t, m, kept

(* A cut brings nothing in.                                                *)
LEMMA SubmittedCut ==
  ASSUME NEW s \in Seq(Entry), NEW cut \in CutPoints(s)
  PROVE  LET t == <<Marker>> \o SubSeq(s, cut, Len(s)) IN
           /\ t \in Seq(Entry) /\ Submitted(t) \subseteq Submitted(s) /\ (Once(s) => Once(t))
<1> DEFINE t == <<Marker>> \o SubSeq(s, cut, Len(s))
<1>1. PICK d \in Int :
        /\ t \in Seq(Entry) /\ t[1] = Marker /\ DOMAIN t \subseteq Int
        /\ \A i \in DOMAIN t : i # 1 => i + d \in DOMAIN s /\ t[i] = s[i + d]
  BY CutPlaces
<1> HIDE DEF t
<1>2. \A i, j \in DOMAIN t : i + d = j + d => i = j
  BY <1>1
<1>3. \A x \in Messages : t[1] # User(x)
  BY <1>1, OwnerIs DEF Owner
<1>4. Submitted(t) \subseteq Submitted(s)
  BY <1>1, <1>3 DEF Submitted
<1>5. ASSUME Once(s) PROVE Once(t)
  BY <1>1, <1>2, <1>3, <1>5 DEF Once
<1> QED
  BY <1>1, <1>4, <1>5 DEF t

Held(c) == Submitted(run[c].todo)

(* With at most one runner Sorted can be said of it, running or not.       *)
LEMMA PlacesKnow ==
  ASSUME RunInv, PlacesInv, NEW c \in Callers, \A d \in Callers \ {c} : ~InRun(d)
  PROVE  /\ Sorted(Held(c)) /\ Once(run[c].todo)
         /\ pc[c] \notin Carrying => run[c].todo = <<>> /\ Held(c) = {}
         /\ Once(messages) /\ Once(steering) /\ Once(followUps)
         /\ messages \in Seq(Entry) /\ steering \in Seq(Entry) /\ followUps \in Seq(Entry)
         /\ run[c].todo \in Seq(Entry) /\ run[c] \in RunState
<1>1. pc[c] \notin Carrying => run[c].todo = <<>> /\ Held(c) = {}
  BY SubmittedEmpty DEF PlacesInv, Held
<1>2. Carrying \subseteq LoopPhases
  BY DEF Carrying, LoopPhases
<1>3. Sorted(Held(c))
  <2>1. CASE InRun(c)
    BY <2>1 DEF PlacesInv, Held
  <2>2. CASE ~InRun(c)
    <3>1. \A d \in Callers : ~InRun(d)
      BY <2>2
    <3>2. Sorted({})
      BY <3>1 DEF PlacesInv
    <3> QED
      BY <1>1, <1>2, <2>2, <3>2 DEF InRun
  <2> QED
    BY <2>1, <2>2
<1>4. /\ messages \in Seq(Entry) /\ run[c] \in RunState
      /\ steering \in Seq(UserEntry) /\ followUps \in Seq(UserEntry)
  BY DEF RunInv, TypeInv, TypeOK
<1>5. steering \in Seq(Entry) /\ followUps \in Seq(Entry) /\ run[c].todo \in Seq(Entry)
  BY <1>4, SeqMonotone, EntryType DEF RunState
<1> QED
  BY <1>1, <1>3, <1>4, <1>5 DEF PlacesInv

(* A step of the running thread, or of one that begins or ends a run.      *)
LEMMA PlacesKept ==
  ASSUME RunInv, PlacesInv, NEW c \in Callers, \A d \in Callers \ {c} : ~InRun(d),
         \A d \in Callers \ {c} : pc'[d] = pc[d] /\ run'[d].todo = run[d].todo, UNCHANGED edit,
         Submitted(messages) \cup gone \subseteq Submitted(messages') \cup gone',
         Once(messages'), Once(steering'), Once(followUps'), Once(run'[c].todo),
         pc'[c] \notin Carrying => run'[c].todo = <<>>, Sorted(Held(c))'
  PROVE  PlacesInv'
<1>1. \A d \in Callers \ {c} : ~InRun(d)'
  BY DEF InRun
<1>2. \A d \in Callers : Once(run'[d].todo) /\ (pc'[d] \notin Carrying => run'[d].todo = <<>>)
  BY DEF PlacesInv
<1>3. \A d \in Callers : InRun(d)' => d = c
  BY <1>1
<1>4. (\A d \in Callers : ~InRun(d)') => Sorted({})'
  <2> SUFFICES ASSUME ~InRun(c)' PROVE Sorted({})'
    OBVIOUS
  <2>1. run'[c].todo = <<>>
    BY <1>2 DEF InRun, Carrying, LoopPhases
  <2>2. Held(c)' = {}
    BY <2>1, SubmittedEmpty DEF Held
  <2> QED
    BY <2>2
<1>5. \A d \in Callers : /\ Once(edit'[d].snap)
                         /\ Submitted(edit'[d].snap) \subseteq Submitted(messages') \cup gone'
  BY DEF PlacesInv
<1> QED
  BY <1>2, <1>3, <1>4, <1>5 DEF PlacesInv, Held

(* A step that leaves the runs as they are, from whatever thread.          *)
LEMMA PlacesMoved ==
  ASSUME RunInv, PlacesInv, UNCHANGED pc, \A d \in Callers : run'[d].todo = run[d].todo,
         Once(messages'), Once(steering'), Once(followUps'),
         \A d \in Callers : /\ Once(edit'[d].snap)
                            /\ Submitted(edit'[d].snap) \subseteq Submitted(messages') \cup gone',
         \A held \in SUBSET Messages : Sorted(held) => Sorted(held)'
  PROVE  PlacesInv'
<1>1. \A d \in Callers : Once(run'[d].todo) /\ (pc'[d] \notin Carrying => run'[d].todo = <<>>)
  BY DEF PlacesInv
<1>2. \A d \in Callers : InRun(d)' => Sorted(Held(d))'
  <2> SUFFICES ASSUME NEW d \in Callers, InRun(d)' PROVE Sorted(Held(d))'
    OBVIOUS
  <2>1. Sorted(Held(d))
    BY DEF PlacesInv, InRun, Held
  <2>2. PICK held \in SUBSET Messages : held = Held(d)
    BY SubmittedType DEF Held
  <2>3. Sorted(held)' /\ Held(d)' = held
    BY <2>1, <2>2 DEF Held
  <2> QED
    BY <2>3
<1>3. (\A d \in Callers : ~InRun(d)') => Sorted({})'
  BY DEF PlacesInv, InRun
<1> QED
  BY <1>1, <1>2, <1>3 DEF PlacesInv, Held

(* The running thread changes its place in the loop and nothing else that  *)
(* is counted.                                                             *)
LEMMA PlacesPlain ==
  ASSUME RunInv, PlacesInv, NEW c \in Callers, InRun(c), pc' = [pc EXCEPT ![c] = pc'[c]],
         UNCHANGED <<messages, steering, followUps, edit, fresh, gone>>,
         \A d \in Callers : run'[d].todo = run[d].todo,
         pc'[c] \notin Carrying => run[c].todo = <<>>
  PROVE  PlacesInv'
<1>1. \A d \in Callers \ {c} : ~InRun(d)
  BY OneRunner DEF RunInv
<1>2. \A d \in Callers \ {c} : pc'[d] = pc[d]
  BY DEF RunInv, TypeInv, TypeOK
<1>3. Sorted(Held(c))' <=> Sorted(Held(c))
  BY DEF Sorted, Held
<1> QED
  BY <1>1, <1>2, <1>3, PlacesKnow, PlacesKept

LEMMA PlacesStill ==
  ASSUME RunInv, PlacesInv,
         UNCHANGED <<messages, steering, followUps, fresh, gone, pc, run>>,
         \A d \in Callers : edit'[d].snap \in {edit[d].snap, <<>>, messages}
  PROVE  PlacesInv'
<1>1. \A held \in SUBSET Messages : Sorted(held) => Sorted(held)'
  BY DEF Sorted
<1>2. \A d \in Callers : /\ Once(edit'[d].snap)
                         /\ Submitted(edit'[d].snap) \subseteq Submitted(messages') \cup gone'
  BY SubmittedEmpty DEF PlacesInv
<1> QED
  BY <1>1, <1>2, PlacesMoved DEF PlacesInv

(* Phases that neither submit, record nor drain.                           *)
LEMMA PlacesPhases ==
  ASSUME RunInv, PlacesInv, NEW c \in Callers
  PROVE  /\ AgentStart(c) \/ RecordedAll(c) \/ InnerLoop(c) \/ InnerLoopExit(c) \/ HookReturn(c)
            \/ RequestAssistant(c) \/ FailTruncated(c) \/ StartExecution(c) \/ FinishRun(c)
            \/ ReleaseRun(c) => PlacesInv'
         /\ \A i \in 1..MaxCalls : StartCall(c, i) \/ ToolStep(c, i) => PlacesInv'
         /\ ReturnToCaller(c) => PlacesInv'
         /\ Announce(c) \/ StreamStart(c) => PlacesInv'
<1>0. /\ pc \in [Callers -> Phases] /\ run \in [Callers -> RunState] /\ run[c] \in RunState
      /\ \A d \in Callers : run[d] \in RunState
  BY DEF RunInv, TypeInv, TypeOK
<1>1. ASSUME \/ AgentStart(c) \/ RecordedAll(c) \/ InnerLoop(c) \/ InnerLoopExit(c) \/ HookReturn(c)
             \/ RequestAssistant(c) \/ FailTruncated(c) \/ StartExecution(c) \/ FinishRun(c)
             \/ ReleaseRun(c)
      PROVE  PlacesInv'
  <2>1. UNCHANGED <<messages, steering, followUps, edit, fresh, gone>>
    BY <1>1 DEF AgentStart, RecordedAll, InnerLoop, InnerLoopExit, HookReturn, RequestAssistant,
       FailTruncated, StartExecution, FinishRun, ReleaseRun, state, history
  <2>2. InRun(c) /\ (pc[c] \in Carrying => pc[c] \in {"claimed", "start", "inject", "results", "inner", "hook"})
    BY <1>1 DEF AgentStart, RecordedAll, InnerLoop, InnerLoopExit, HookReturn, RequestAssistant,
       FailTruncated, StartExecution, FinishRun, ReleaseRun, At, InRun, LoopPhases, Carrying
  <2>3. pc' = [pc EXCEPT ![c] = pc'[c]]
    BY <1>0, <1>1 DEF AgentStart, RecordedAll, InnerLoop, InnerLoopExit, HookReturn, RequestAssistant,
       FailTruncated, StartExecution, FinishRun, ReleaseRun
  <2>4. \A d \in Callers : run'[d].todo = run[d].todo
    <3>1. CASE UNCHANGED run
      BY <3>1
    <3>2. CASE InnerLoop(c)
      BY <1>0, <3>2 DEF InnerLoop, RunState
    <3>3. CASE FailTruncated(c)
      BY <1>0, <3>3 DEF FailTruncated, RunState
    <3>4. CASE StartExecution(c)
      BY <1>0, <3>4 DEF StartExecution, RunState
    <3> QED
      BY <1>1, <3>1, <3>2, <3>3, <3>4 DEF AgentStart, RecordedAll, InnerLoopExit, HookReturn,
         RequestAssistant, FinishRun, ReleaseRun
  <2>5. pc'[c] \notin Carrying => run[c].todo = <<>>
    <3>1. pc[c] \notin Carrying => run[c].todo = <<>>
      BY DEF PlacesInv
    <3>2. CASE AgentStart(c) \/ InnerLoop(c) \/ HookReturn(c)
      BY <1>0, <3>2 DEF AgentStart, InnerLoop, HookReturn, Carrying
    <3>3. CASE RecordedAll(c) \/ InnerLoopExit(c)
      BY <3>3 DEF RecordedAll, InnerLoopExit
    <3>4. CASE RequestAssistant(c) \/ FailTruncated(c) \/ StartExecution(c) \/ FinishRun(c) \/ ReleaseRun(c)
      BY <3>1, <3>4 DEF RequestAssistant, FailTruncated, StartExecution, FinishRun, ReleaseRun, At, Carrying
    <3> QED
      BY <1>1, <3>2, <3>3, <3>4
  <2> QED
    BY <2>1, <2>2, <2>3, <2>4, <2>5, PlacesPlain
<1>2. ASSUME NEW i \in 1..MaxCalls, StartCall(c, i) \/ ToolStep(c, i) PROVE PlacesInv'
  <2>1. UNCHANGED <<messages, steering, followUps, edit, fresh, gone, pc>>
    BY <1>2 DEF StartCall, ToolStep, BeginTool, EndTool, history
  <2>2. PICK x : run' = [run EXCEPT ![c] = [run[c] EXCEPT !.work = x]]
    BY <1>2 DEF StartCall, ToolStep, BeginTool, EndTool
  <2>3. \A d \in Callers : run'[d].todo = run[d].todo
    BY <1>0, <2>2 DEF RunState
  <2>4. InRun(c)
    BY <1>2 DEF StartCall, ToolStep, BeginTool, EndTool, At, InRun, LoopPhases
  <2>5. pc' = [pc EXCEPT ![c] = pc'[c]] /\ (pc'[c] \notin Carrying => run[c].todo = <<>>)
    BY <1>0, <2>1 DEF PlacesInv
  <2> QED
    BY <2>1, <2>3, <2>4, <2>5, PlacesPlain
<1>3. ASSUME ReturnToCaller(c) PROVE PlacesInv'
  <2>1. /\ pc[c] = "requeue" /\ pc' = [pc EXCEPT ![c] = "idle"] /\ run' = [run EXCEPT ![c] = NoRun]
        /\ UNCHANGED <<messages, steering, followUps, edit, fresh, gone>>
    BY <1>3 DEF ReturnToCaller, state, history
  <2>2. run[c].todo = <<>> /\ NoRun.todo = <<>> /\ Once(<<>>)
    BY <2>1, SubmittedEmpty DEF PlacesInv, Carrying, NoRun, RunFrom
  <2>3. \A d \in Callers : run'[d].todo = run[d].todo
    BY <1>0, <2>1, <2>2
  <2>4. \A d \in Callers : InRun(d)' <=> InRun(d)
    BY <1>0, <2>1 DEF InRun, LoopPhases
  <2>5. \A d \in Callers : pc'[d] \notin Carrying => run'[d].todo = <<>>
    <3> SUFFICES ASSUME NEW d \in Callers, pc'[d] \notin Carrying PROVE run[d].todo = <<>>
      BY <2>3
    <3> QED
      BY <1>0, <2>1, <2>2 DEF PlacesInv
  <2>6. \A held : Sorted(held)' <=> Sorted(held)
    BY <2>1 DEF Sorted
  <2>8. (\A d \in Callers : ~InRun(d)) => Sorted({})'
    BY <2>6 DEF PlacesInv
  <2>9. \A d \in Callers : InRun(d)' => Sorted(Held(d))'
    <3> SUFFICES ASSUME NEW d \in Callers, InRun(d)' PROVE Sorted(Held(d))'
      OBVIOUS
    <3>1. Held(d)' = Submitted(run[d].todo)
      BY <2>3 DEF Held
    <3>2. PICK held : held = Submitted(run[d].todo)
      OBVIOUS
    <3>3. Sorted(held)
      BY <2>4, <3>2 DEF PlacesInv
    <3> QED
      BY <2>6, <3>1, <3>2, <3>3
  <2> QED
    BY <2>1, <2>3, <2>4, <2>5, <2>8, <2>9 DEF PlacesInv, Held
<1>4. ASSUME Announce(c) \/ StreamStart(c) PROVE PlacesInv'
  BY <1>4, PlacesStill DEF Announce, StreamStart, state, history, threads
<1> QED
  BY <1>1, <1>2, <1>3, <1>4

(* An entry goes from the running thread to the transcript.                *)
LEMMA PlacesRecorded ==
  ASSUME RunInv, PlacesInv, NEW c \in Callers, RecordNext(c)
  PROVE  PlacesInv'
<1>1. InRun(c) /\ pc[c] \in Carrying /\ run[c].todo # <<>>
  BY DEF RecordNext, At, InRun, LoopPhases, Carrying
<1>2. \A d \in Callers \ {c} : ~InRun(d)
  BY <1>1, OneRunner DEF RunInv
<1> DEFINE e == Head(run[c].todo)
           rest == Tail(run[c].todo)
<1>3. /\ messages' = Append(messages, e) /\ run' = [run EXCEPT ![c].todo = rest]
      /\ UNCHANGED <<pc, edit, steering, followUps, fresh, gone>>
  BY DEF RecordNext, Push
<1>4. /\ messages \in Seq(Entry) /\ run[c].todo \in Seq(Entry) /\ e \in Entry
      /\ Once(messages) /\ Once(steering) /\ Once(followUps) /\ Once(run[c].todo) /\ Sorted(Held(c))
  <2>1. messages \in Seq(Entry) /\ run[c].todo \in Seq(Entry)
    BY <1>2, PlacesKnow
  <2>2. e \in Entry
    BY <1>1, <2>1
  <2> QED
    BY <1>2, <2>1, <2>2, PlacesKnow
<1>5. /\ Held(c) = Owner(e) \cup Submitted(rest) /\ Once(rest)
      /\ Owner(e) \cap Submitted(rest) = {}
  BY <1>1, <1>4, SubmittedHead DEF Held
<1> HIDE DEF e, rest
<1>6. run'[c].todo = rest /\ \A d \in Callers \ {c} : run'[d].todo = run[d].todo
  BY <1>3 DEF RunInv, TypeInv, TypeOK, RunState
<1>7. Owner(e) \cap Submitted(messages) = {}
  BY <1>4, <1>5 DEF Sorted
<1>8. Submitted(messages') = Submitted(messages) \cup Owner(e) /\ Once(messages')
  BY <1>3, <1>4, <1>7, SubmittedAppend
<1>9. Sorted(Held(c))'
  <2>1. Held(c)' = Submitted(rest)
    BY <1>6 DEF Held
  <2> QED
    BY <1>3, <1>4, <1>5, <1>8, <2>1 DEF Sorted
<1> QED
  BY <1>1, <1>2, <1>3, <1>4, <1>5, <1>6, <1>8, <1>9, PlacesKept

(* A reply, or the notice of a panic, is nobody's message.                 *)
LEMMA PlacesReplied ==
  ASSUME RunInv, PlacesInv, NEW c \in Callers, InRun(c), NEW e \in Entry, Owner(e) = {}, NEW q,
         messages' = Append(messages, e), pc' = [pc EXCEPT ![c] = q], q \notin Carrying,
         UNCHANGED <<edit, steering, followUps, fresh>>,
         run'[c].todo = <<>>, \A d \in Callers \ {c} : run'[d].todo = run[d].todo,
         gone' = gone \cup Held(c)
  PROVE  PlacesInv'
<1>1. \A d \in Callers \ {c} : ~InRun(d)
  BY OneRunner DEF RunInv
<1>2. pc'[c] = q /\ \A d \in Callers \ {c} : pc'[d] = pc[d]
  BY DEF RunInv, TypeInv, TypeOK
<1>3. messages \in Seq(Entry) /\ Once(messages) /\ Sorted(Held(c))
  BY <1>1, PlacesKnow
<1>4. Submitted(messages') = Submitted(messages) /\ Once(messages')
  BY <1>3, SubmittedAppend
<1>5. Held(c)' = {} /\ Once(<<>>)
  BY SubmittedEmpty DEF Held
<1>6. Sorted(Held(c))'
  BY <1>3, <1>4, <1>5 DEF Sorted
<1>7. Once(steering') /\ Once(followUps')
  BY DEF PlacesInv
<1> QED
  BY <1>1, <1>2, <1>4, <1>5, <1>6, <1>7, PlacesKept

LEMMA PlacesReplies ==
  ASSUME RunInv, PlacesInv, NEW c \in Callers
  PROVE  /\ SkipRequest(c) => PlacesInv'
         /\ \A s \in Stops, n \in 0..MaxCalls : Reply(c, s, n) => PlacesInv'
         /\ RuntimePanic(c) => PlacesInv'
<1>0. run \in [Callers -> RunState] /\ run[c] \in RunState
  BY DEF RunInv, TypeInv, TypeOK
<1>1. ASSUME NEW s \in Stops, NEW n \in 0..MaxCalls, RecordReply(c, s, n),
             At(c, "request") \/ At(c, "waiting"), NEW q \in {"turnEnd", "prepare"},
             pc' = [pc EXCEPT ![c] = q]
      PROVE  PlacesInv'
  <2>1. InRun(c) /\ pc[c] \notin Carrying
    BY <1>1 DEF At, InRun, LoopPhases, Carrying
  <2>2. run[c].todo = <<>> /\ Held(c) = {}
    BY <2>1, SubmittedEmpty DEF PlacesInv, Held
  <2> DEFINE work == IF IsTerminal(s) THEN <<>> ELSE [i \in 1..n |-> "new"]
             term == IsTerminal(s)
  <2>3. /\ messages' = Append(messages, Assistant(s, n))
        /\ UNCHANGED <<edit, steering, followUps, fresh, gone>>
        /\ run' = [run EXCEPT ![c] = [run[c] EXCEPT !.hasMore = FALSE, !.terminal = term, !.work = work]]
    BY <1>1 DEF RecordReply, Push
  <2> HIDE DEF work, term
  <2>4. run'[c].todo = <<>> /\ \A d \in Callers \ {c} : run'[d].todo = run[d].todo
    BY <1>0, <2>2, <2>3 DEF RunState
  <2>5. Assistant(s, n) \in Entry /\ Owner(Assistant(s, n)) = {}
    BY EntryType, OwnerIs
  <2>6. q \notin Carrying
    BY DEF Carrying
  <2> QED
    BY <1>1, <2>1, <2>2, <2>3, <2>4, <2>5, <2>6, PlacesReplied
<1>2. ASSUME SkipRequest(c) PROVE PlacesInv'
  <2>1. "aborted" \in Stops /\ 0 \in 0..MaxCalls
    BY ConstantsAssumption DEF Stops
  <2> QED
    BY <1>1, <1>2, <2>1 DEF SkipRequest
<1>3. ASSUME NEW s \in Stops, NEW n \in 0..MaxCalls, Reply(c, s, n) PROVE PlacesInv'
  <2>1. PICK q \in {"turnEnd", "prepare"} : pc' = [pc EXCEPT ![c] = q]
    BY <1>3 DEF Reply
  <2> QED
    BY <1>1, <1>3, <2>1 DEF Reply
<1>4. ASSUME RuntimePanic(c) PROVE PlacesInv'
  <2> DEFINE s == IF Cancelled THEN "aborted" ELSE "error"
             e == Assistant(s, 0)
  <2>1. InRun(c)
    BY <1>4 DEF RuntimePanic, At, InRun, LoopPhases
  <2>2. e \in Entry /\ Owner(e) = {}
    <3>1. s \in Stops /\ 0 \in 0..MaxCalls
      BY ConstantsAssumption DEF Stops
    <3> QED
      BY <3>1, EntryType, OwnerIs
  <2>3. /\ messages' = Append(messages, e) /\ pc' = [pc EXCEPT ![c] = "turnEnd"]
        /\ UNCHANGED <<edit, steering, followUps, fresh>> /\ gone' = gone \cup Held(c)
        /\ run' = [run EXCEPT ![c] = RunFrom(<<>>, FALSE, TRUE)]
    BY <1>4 DEF RuntimePanic, Push, Held
  <2> HIDE DEF e
  <2>4. run'[c].todo = <<>> /\ \A d \in Callers \ {c} : run'[d].todo = run[d].todo
    BY <1>0, <2>3 DEF RunFrom
  <2>5. "turnEnd" \notin Carrying
    BY DEF Carrying
  <2> QED
    BY <2>1, <2>2, <2>3, <2>4, <2>5, PlacesReplied
<1> QED
  BY <1>2, <1>3, <1>4

(* The batch of results holds nobody's message.                            *)
LEMMA PlacesJoined ==
  ASSUME RunInv, PlacesInv, NEW c \in Callers, JoinTools(c)
  PROVE  PlacesInv'
<1>0. run \in [Callers -> RunState] /\ pc \in [Callers -> Phases] /\ run[c] \in RunState /\ run[c].work \in Work
  BY RunIsBounded DEF RunInv, TypeInv, TypeOK
<1>1. InRun(c) /\ pc[c] = "execute" /\ pc[c] \notin Carrying /\ InState(c, Done) = DOMAIN run[c].work
  BY DEF JoinTools, At, InRun, LoopPhases, Carrying
<1>2. \A d \in Callers \ {c} : ~InRun(d)
  BY <1>1, OneRunner DEF RunInv
<1> DEFINE todo == ResultsOfBatch(run[c].work)
           more == InState(c, {"terminate"}) # DOMAIN run[c].work
<1>3. /\ run' = [run EXCEPT ![c] = [run[c] EXCEPT !.todo = todo, !.hasMore = more,
                                      !.work = <<>>, !.serial = FALSE]]
      /\ pc' = [pc EXCEPT ![c] = "results"]
      /\ UNCHANGED <<messages, steering, followUps, edit, fresh, gone>>
  BY DEF JoinTools, state, history
<1>4. Submitted(todo) = {} /\ Once(todo)
  <2>1. \A i \in DOMAIN todo : todo[i].role = "toolResult"
    BY <1>0 DEF Work, ResultsOfBatch, Result
  <2>2. \A m \in Messages : User(m).role = "user"
    BY DEF User
  <2> HIDE DEF todo
  <2>3. \A m \in Messages, i \in DOMAIN todo : todo[i] # User(m)
    BY <2>1, <2>2
  <2> QED
    BY <2>3 DEF Submitted, Once
<1> HIDE DEF todo, more
<1>5. run'[c].todo = todo /\ \A d \in Callers \ {c} : run'[d].todo = run[d].todo
  <2>1. [run[c] EXCEPT !.todo = todo, !.hasMore = more, !.work = <<>>, !.serial = FALSE].todo = todo
    BY <1>0 DEF RunState
  <2> QED
    BY <1>0, <1>3, <2>1
<1>6. Sorted(Held(c)) /\ Held(c) = {}
  BY <1>1, <1>2, PlacesKnow
<1>7. Sorted(Held(c))'
  <2>1. Held(c)' = {}
    BY <1>4, <1>5 DEF Held
  <2> QED
    BY <1>3, <1>6, <2>1 DEF Sorted
<1>8. /\ pc'[c] = "results" /\ "results" \in Carrying /\ \A d \in Callers \ {c} : pc'[d] = pc[d]
  BY <1>0, <1>3 DEF Carrying
<1> QED
  BY <1>2, <1>3, <1>4, <1>5, <1>7, <1>8, PlacesKept DEF PlacesInv

(* A batch goes from a queue to the thread that polls it, or that begins a *)
(* run with it.                                                            *)
LEMMA PlacesDrained ==
  ASSUME RunInv, PlacesInv, NEW c \in Callers, \A d \in Callers \ {c} : ~InRun(d), NEW mode,
         pc[c] \notin Carrying \/ run[c].todo = <<>>, NEW q \in Carrying,
         pc' = [pc EXCEPT ![c] = q], UNCHANGED <<messages, edit, fresh, gone>>,
         \A d \in Callers \ {c} : run'[d].todo = run[d].todo,
         \/ /\ run'[c].todo = Taken(steering, mode) /\ steering' = Left(steering, mode)
            /\ UNCHANGED followUps
         \/ /\ run'[c].todo = Taken(followUps, mode) /\ followUps' = Left(followUps, mode)
            /\ UNCHANGED steering
  PROVE  PlacesInv'
<1>1. /\ steering \in Seq(Entry) /\ followUps \in Seq(Entry) /\ run[c].todo = <<>>
      /\ Once(messages) /\ Once(steering) /\ Once(followUps) /\ Sorted(Held(c))
  BY PlacesKnow
<1>2. Held(c) = {}
  BY <1>1, SubmittedEmpty DEF Held
<1>3. pc'[c] = q /\ \A d \in Callers \ {c} : pc'[d] = pc[d]
  BY DEF RunInv, TypeInv, TypeOK
<1>4. CASE /\ run'[c].todo = Taken(steering, mode) /\ steering' = Left(steering, mode)
           /\ UNCHANGED followUps
  <2>1. /\ Submitted(steering) = Held(c)' \cup Submitted(steering')
        /\ Held(c)' \cap Submitted(steering') = {}
        /\ Once(run'[c].todo) /\ Once(steering')
    BY <1>1, <1>4, SubmittedDrain DEF Held
  <2>2. Sorted(Held(c))'
    BY <1>1, <1>2, <1>4, <2>1 DEF Sorted
  <2> QED
    BY <1>1, <1>3, <1>4, <2>1, <2>2, PlacesKept
<1>5. CASE /\ run'[c].todo = Taken(followUps, mode) /\ followUps' = Left(followUps, mode)
           /\ UNCHANGED steering
  <2>1. /\ Submitted(followUps) = Held(c)' \cup Submitted(followUps')
        /\ Held(c)' \cap Submitted(followUps') = {}
        /\ Once(run'[c].todo) /\ Once(followUps')
    BY <1>1, <1>5, SubmittedDrain DEF Held
  <2>2. Sorted(Held(c))'
    BY <1>1, <1>2, <1>5, <2>1 DEF Sorted
  <2> QED
    BY <1>1, <1>3, <1>5, <2>1, <2>2, PlacesKept
<1> QED
  BY <1>4, <1>5

(* The four polls of the loop.                                             *)
LEMMA PlacesPolls ==
  ASSUME RunInv, PlacesInv, NEW c \in Callers
  PROVE  /\ InitialPoll(c) => PlacesInv'
         /\ NextTurn(c) => PlacesInv'
         /\ EndTurn(c) => PlacesInv'
         /\ OuterLoop(c) => PlacesInv'
<1>0. /\ run \in [Callers -> RunState] /\ run[c] \in RunState /\ pc \in [Callers -> Phases]
      /\ {"inner", "inject"} \subseteq Carrying
  BY DEF RunInv, TypeInv, TypeOK, Carrying
<1>2. ASSUME NEW x, \/ run' = [run EXCEPT ![c].todo = x]
                    \/ run' = [run EXCEPT ![c] = [run[c] EXCEPT !.lastTurn = TRUE, !.todo = x]]
                    \/ run' = [run EXCEPT ![c] = [run[c] EXCEPT !.hasMore = TRUE, !.todo = x]]
      PROVE  run'[c].todo = x /\ \A d \in Callers \ {c} : run'[d].todo = run[d].todo
  <2>1. /\ [run[c] EXCEPT !.lastTurn = TRUE, !.todo = x].todo = x
        /\ [run[c] EXCEPT !.hasMore = TRUE, !.todo = x].todo = x
        /\ [run[c] EXCEPT !.todo = x].todo = x
    BY <1>0 DEF RunState
  <2>2. CASE run' = [run EXCEPT ![c].todo = x]
    BY <1>0, <2>1, <2>2
  <2>3. CASE run' = [run EXCEPT ![c] = [run[c] EXCEPT !.lastTurn = TRUE, !.todo = x]]
    BY <1>0, <2>1, <2>3
  <2>4. CASE run' = [run EXCEPT ![c] = [run[c] EXCEPT !.hasMore = TRUE, !.todo = x]]
    BY <1>0, <2>1, <2>4
  <2> QED
    BY <1>2, <2>2, <2>3, <2>4
<1>3. ASSUME InitialPoll(c) PROVE PlacesInv'
  <2>1. InRun(c) /\ pc[c] \notin Carrying /\ pc' = [pc EXCEPT ![c] = "inner"]
        /\ UNCHANGED <<messages, edit, fresh, gone, followUps>>
    BY <1>3 DEF InitialPoll, At, InRun, LoopPhases, Carrying, history
  <2>2. \A d \in Callers \ {c} : ~InRun(d)
    BY <2>1, OneRunner DEF RunInv
  <2>3. CASE PollsFirst(c)
    <3>1. run' = [run EXCEPT ![c].todo = Taken(steering, SteeringMode)]
          /\ steering' = Left(steering, SteeringMode)
      BY <1>3, <2>3 DEF InitialPoll, DrainSteering
    <3> QED
      BY <1>0, <1>2, <2>1, <2>2, <3>1, PlacesDrained
  <2>4. CASE ~PollsFirst(c)
    <3>1. UNCHANGED <<run, steering>> /\ pc' = [pc EXCEPT ![c] = pc'[c]] /\ run[c].todo = <<>>
      BY <1>0, <1>3, <2>1, <2>4 DEF InitialPoll, PlacesInv
    <3> QED
      BY <2>1, <3>1, PlacesPlain
  <2> QED
    BY <2>3, <2>4
<1>4. ASSUME NextTurn(c) PROVE PlacesInv'
  <2>1. InRun(c) /\ pc' = [pc EXCEPT ![c] = "inject"]
        /\ UNCHANGED <<messages, edit, fresh, gone, followUps>>
    BY <1>4 DEF NextTurn, At, InRun, LoopPhases
  <2>2. \A d \in Callers \ {c} : ~InRun(d)
    BY <2>1, OneRunner DEF RunInv
  <2>3. CASE run[c].todo = <<>>
    <3>1. run' = [run EXCEPT ![c].todo = Taken(steering, SteeringMode)]
          /\ steering' = Left(steering, SteeringMode)
      BY <1>4, <2>3 DEF NextTurn, DrainSteering
    <3> QED
      BY <1>0, <1>2, <2>1, <2>2, <2>3, <3>1, PlacesDrained
  <2>4. CASE run[c].todo # <<>>
    <3>1. UNCHANGED <<run, steering>> /\ pc' = [pc EXCEPT ![c] = pc'[c]] /\ pc'[c] \in Carrying
      BY <1>0, <1>4, <2>1, <2>4 DEF NextTurn
    <3> QED
      BY <2>1, <3>1, PlacesPlain
  <2> QED
    BY <2>3, <2>4
<1>5. ASSUME EndTurn(c) PROVE PlacesInv'
  <2>1. InRun(c) /\ pc[c] \notin Carrying /\ UNCHANGED <<messages, edit, fresh, gone, followUps>>
    BY <1>5 DEF EndTurn, At, InRun, LoopPhases, Carrying, history
  <2>2. \A d \in Callers \ {c} : ~InRun(d)
    BY <2>1, OneRunner DEF RunInv
  <2>3. CASE ~StopsHere(c)
    <3>1. /\ run' = [run EXCEPT ![c] = [run[c] EXCEPT !.lastTurn = TRUE,
                                                      !.todo = Taken(steering, SteeringMode)]]
          /\ steering' = Left(steering, SteeringMode) /\ pc' = [pc EXCEPT ![c] = "inner"]
      BY <1>5, <2>3 DEF EndTurn
    <3> QED
      BY <1>0, <1>2, <2>1, <2>2, <3>1, PlacesDrained
  <2>4. CASE StopsHere(c)
    <3>1. UNCHANGED <<run, steering>> /\ pc' = [pc EXCEPT ![c] = pc'[c]] /\ run[c].todo = <<>>
      BY <1>0, <1>5, <2>1, <2>4 DEF EndTurn, PlacesInv
    <3> QED
      BY <2>1, <3>1, PlacesPlain
  <2> QED
    BY <2>3, <2>4
<1>6. ASSUME OuterLoop(c) PROVE PlacesInv'
  <2>1. InRun(c) /\ pc[c] \notin Carrying /\ UNCHANGED <<messages, edit, fresh, gone, steering>>
    BY <1>6 DEF OuterLoop, At, InRun, LoopPhases, Carrying, history
  <2>2. \A d \in Callers \ {c} : ~InRun(d)
    BY <2>1, OneRunner DEF RunInv
  <2>3. CASE followUps # <<>>
    <3>1. /\ run' = [run EXCEPT ![c] = [run[c] EXCEPT !.hasMore = TRUE,
                                                      !.todo = Taken(followUps, FollowUpMode)]]
          /\ followUps' = Left(followUps, FollowUpMode) /\ pc' = [pc EXCEPT ![c] = "inner"]
      BY <1>6, <2>3 DEF OuterLoop
    <3> QED
      BY <1>0, <1>2, <2>1, <2>2, <3>1, PlacesDrained
  <2>4. CASE followUps = <<>>
    <3>1. UNCHANGED <<run, followUps>> /\ pc' = [pc EXCEPT ![c] = pc'[c]] /\ run[c].todo = <<>>
      BY <1>0, <1>6, <2>1, <2>4 DEF OuterLoop, PlacesInv
    <3> QED
      BY <2>1, <3>1, PlacesPlain
  <2> QED
    BY <2>3, <2>4
<1> QED
  BY <1>3, <1>4, <1>5, <1>6

LEMMA SomeSorted == PlacesInv => \E held \in SUBSET Messages : Sorted(held)
BY SubmittedType DEF PlacesInv

(* Every way into a run.                                                   *)
LEMMA PlacesClaims ==
  ASSUME RunInv, PlacesInv, NEW c \in Callers
  PROVE  /\ \A m \in Messages : PromptMessages(c, m) => PlacesInv'
         /\ ContinueRun(c) \/ RunQueued(c) => PlacesInv'
<1>0. /\ run \in [Callers -> RunState] /\ pc \in [Callers -> Phases] /\ "claimed" \in Carrying
      /\ \A batch, skip : RunFrom(batch, skip, FALSE).todo = batch
  BY DEF RunInv, TypeInv, TypeOK, Carrying, RunFrom
<1>1. ASSUME NEW batch, NEW skip, Claim(c, batch, skip), ~Busy, pc[c] \in {"idle", "requeue"}
      PROVE  /\ \A d \in Callers : ~InRun(d)
             /\ pc[c] \notin Carrying
             /\ pc' = [pc EXCEPT ![c] = "claimed"] /\ pc'[c] = "claimed"
             /\ \A d \in Callers \ {c} : pc'[d] = pc[d] /\ run'[d].todo = run[d].todo
             /\ run'[c].todo = batch /\ UNCHANGED <<messages, edit, gone>>
  <2>1. \A d \in Callers : ~InRun(d)
    BY <1>1 DEF Busy, RunInv, SlotInv
  <2>2. run' = [run EXCEPT ![c] = RunFrom(batch, skip, FALSE)]
    BY <1>1 DEF Claim
  <2> QED
    BY <1>0, <1>1, <2>1, <2>2 DEF Claim, Carrying
<1>2. ASSUME NEW m \in Messages, PromptMessages(c, m) PROVE PlacesInv'
  <2> DEFINE batch == <<User(m)>>
  <2>1. /\ Claim(c, batch, FALSE) /\ ~Busy /\ pc[c] \in {"idle", "requeue"} /\ m \in fresh
        /\ fresh' = fresh \ {m} /\ UNCHANGED <<steering, followUps>>
    BY <1>2 DEF PromptMessages
  <2>2. Submitted(batch) = {m} /\ Once(batch)
    <3>1. DOMAIN batch = {1} /\ batch[1] = User(m) /\ Owner(User(m)) = {m}
      BY OwnerIs
    <3> HIDE DEF batch
    <3> QED
      BY <3>1 DEF Submitted, Once, Owner
  <2> HIDE DEF batch
  <2>3. Held(c)' = {m} /\ Once(run'[c].todo)
    BY <1>1, <2>1, <2>2 DEF Held
  <2>4. /\ Once(messages) /\ Once(steering) /\ Once(followUps) /\ Sorted(Held(c)) /\ Held(c) = {}
    BY <1>1, <2>1, PlacesKnow
  <2>5. Sorted(Held(c))'
    <3>1. /\ UNCHANGED <<messages, steering, followUps, gone>> /\ m \in fresh /\ fresh' = fresh \ {m}
      BY <1>1, <2>1
    <3> QED
      BY <2>3, <2>4, <3>1 DEF Sorted
  <2>6. /\ \A d \in Callers \ {c} : ~InRun(d)
        /\ \A d \in Callers \ {c} : pc'[d] = pc[d] /\ run'[d].todo = run[d].todo
        /\ UNCHANGED <<edit, messages, gone, steering, followUps>> /\ pc'[c] \in Carrying
    BY <1>0, <1>1, <2>1
  <2> QED
    BY <2>3, <2>4, <2>5, <2>6, PlacesKept
<1>3. ASSUME ContinueRun(c) \/ RunQueued(c) PROVE PlacesInv'
  <2>1. /\ ~Busy /\ pc[c] \in {"idle", "requeue"} /\ UNCHANGED fresh
        /\ \/ Claim(c, <<>>, FALSE) /\ UNCHANGED <<steering, followUps>>
           \/ /\ Claim(c, Taken(steering, SteeringMode), TRUE)
              /\ steering' = Left(steering, SteeringMode) /\ UNCHANGED followUps
           \/ /\ Claim(c, Taken(followUps, FollowUpMode), FALSE)
              /\ followUps' = Left(followUps, FollowUpMode) /\ UNCHANGED steering
    BY <1>3 DEF ContinueRun, RunQueued, CannotRequeue, Continuation
  <2>2. CASE Claim(c, <<>>, FALSE) /\ UNCHANGED <<steering, followUps>>
    <3>1. Held(c)' = {} /\ Once(run'[c].todo)
      BY <1>1, <2>1, <2>2, SubmittedEmpty DEF Held
    <3>2. /\ Once(messages) /\ Once(steering) /\ Once(followUps) /\ Sorted(Held(c)) /\ Held(c) = {}
      BY <1>1, <2>1, <2>2, PlacesKnow
    <3>3. Sorted(Held(c))'
      BY <1>1, <2>1, <2>2, <3>1, <3>2 DEF Sorted
    <3> QED
      BY <1>0, <1>1, <2>1, <2>2, <3>1, <3>2, <3>3, PlacesKept
  <2>3. CASE /\ Claim(c, Taken(steering, SteeringMode), TRUE)
             /\ steering' = Left(steering, SteeringMode) /\ UNCHANGED followUps
    <3>1. /\ \A d \in Callers \ {c} : ~InRun(d) /\ run'[d].todo = run[d].todo
          /\ pc[c] \notin Carrying /\ pc' = [pc EXCEPT ![c] = "claimed"]
          /\ UNCHANGED <<messages, edit, fresh, gone>>
          /\ run'[c].todo = Taken(steering, SteeringMode)
      BY <1>1, <2>1, <2>3
    <3> QED
      BY <1>0, <2>3, <3>1, PlacesDrained
  <2>4. CASE /\ Claim(c, Taken(followUps, FollowUpMode), FALSE)
             /\ followUps' = Left(followUps, FollowUpMode) /\ UNCHANGED steering
    <3>1. /\ \A d \in Callers \ {c} : ~InRun(d) /\ run'[d].todo = run[d].todo
          /\ pc[c] \notin Carrying /\ pc' = [pc EXCEPT ![c] = "claimed"]
          /\ UNCHANGED <<messages, edit, fresh, gone>>
          /\ run'[c].todo = Taken(followUps, FollowUpMode)
      BY <1>1, <2>1, <2>4
    <3> QED
      BY <1>0, <2>4, <3>1, PlacesDrained
  <2> QED
    BY <2>1, <2>2, <2>3, <2>4
<1> QED
  BY <1>2, <1>3

(* Edits take messages out, and a late cut may bring some back.            *)
LEMMA PlacesEdited ==
  ASSUME RunInv, PlacesInv, NEW c \in Callers
  PROVE  /\ CompactCheck(c) => PlacesInv'
         /\ Reset(c) => PlacesInv'
         /\ EditStep(c) => PlacesInv'
<1>0. /\ edit \in [Callers -> EditState] /\ edit[c] \in EditState /\ NoEdit.snap = <<>>
      /\ Once(messages) /\ Once(steering) /\ Once(followUps) /\ Once(<<>>) /\ Submitted(<<>>) = {}
      /\ \A d \in Callers : /\ Once(edit[d].snap)
                            /\ Submitted(edit[d].snap) \subseteq Submitted(messages) \cup gone
  BY SubmittedEmpty DEF RunInv, TypeInv, TypeOK, PlacesInv, NoEdit
<1>1. ASSUME CompactSnapshot(c) PROVE PlacesInv'
  <2> DEFINE now == [step |-> "summarizing", snap |-> messages, queued |-> 0,
                     mid |-> OtherRuns(c)]
  <2>1. edit' = [edit EXCEPT ![c] = now] /\ now.snap = messages
        /\ UNCHANGED <<messages, steering, followUps, fresh, gone, pc, run>>
    BY <1>1 DEF CompactSnapshot, state, history
  <2> HIDE DEF now
  <2>2. \A d \in Callers : edit'[d].snap \in {edit[d].snap, <<>>, messages}
    BY <1>0, <2>1
  <2> QED
    BY <2>1, <2>2, PlacesStill
<1>2. ASSUME Reset(c) PROVE PlacesInv'
  <2>1. /\ messages' = <<>> /\ steering' = <<>> /\ followUps' = <<>> /\ UNCHANGED <<fresh, pc, run>>
        /\ gone' = gone \cup Submitted(messages) \cup Submitted(steering) \cup Submitted(followUps)
        /\ edit' = [edit EXCEPT ![c].step = "reset"]
    BY <1>2 DEF Reset, StepEdit
  <2>2. \A d \in Callers : edit'[d].snap = edit[d].snap
    BY <1>0, <2>1 DEF EditState
  <2>3. \A held \in SUBSET Messages : Sorted(held) => Sorted(held)'
    BY <1>0, <2>1 DEF Sorted
  <2>4. \A d \in Callers : /\ Once(edit'[d].snap)
                           /\ Submitted(edit'[d].snap) \subseteq Submitted(messages') \cup gone'
    BY <1>0, <2>1, <2>2
  <2> QED
    BY <1>0, <2>1, <2>3, <2>4, PlacesMoved
<1>3. ASSUME EditStep(c), ~CompactApply(c), ~CompactClear(c),
             ~CompactSnapshot(c)
      PROVE  PlacesInv'
  <2>1. UNCHANGED <<messages, steering, followUps, fresh, gone, pc, run>>
    BY <1>3 DEF EditStep, CompactCount, CompactRefused, CompactAnnounce, ResetAnnounce,
       TooShort, state, history
  <2>2. \A n : /\ [edit[c] EXCEPT !.step = "counted", !.queued = n].snap = edit[c].snap
               /\ [edit[c] EXCEPT !.step = "clearing", !.snap = <<>>].snap = <<>>
    BY <1>0 DEF EditState
  <2> DEFINE n == Len(steering) + Len(followUps)
             counted == [edit[c] EXCEPT !.step = "counted", !.queued = n]
             clearing == [edit[c] EXCEPT !.step = "clearing", !.snap = <<>>]
  <2>3. \E x \in {counted, clearing, NoEdit} : edit' = [edit EXCEPT ![c] = x]
    BY <1>3 DEF EditStep, CompactCount, CompactRefused, CompactAnnounce, ResetAnnounce,
       TooShort
  <2>4. counted.snap = edit[c].snap /\ clearing.snap = <<>>
    BY <2>2
  <2> HIDE DEF counted, clearing
  <2>5. \A d \in Callers : edit'[d].snap \in {edit[d].snap, <<>>, messages}
    BY <1>0, <2>3, <2>4
  <2> QED
    BY <2>1, <2>5, PlacesStill
<1>4. ASSUME CompactClear(c) PROVE PlacesInv'
  <2>1. /\ steering' = <<>> /\ followUps' = <<>> /\ UNCHANGED <<messages, fresh, pc, run>>
        /\ gone' = gone \cup Submitted(steering) \cup Submitted(followUps)
        /\ edit' = [edit EXCEPT ![c] = NoEdit]
    BY <1>4 DEF CompactClear
  <2>2. \A d \in Callers : edit'[d].snap \in {edit[d].snap, <<>>}
    BY <1>0, <2>1
  <2>3. \A held \in SUBSET Messages : Sorted(held) => Sorted(held)'
    BY <1>0, <2>1 DEF Sorted
  <2>4. \A d \in Callers : /\ Once(edit'[d].snap)
                           /\ Submitted(edit'[d].snap) \subseteq Submitted(messages') \cup gone'
    BY <1>0, <2>1, <2>2
  <2> QED
    BY <1>0, <2>1, <2>3, <2>4, PlacesMoved
<1>5. ASSUME CompactApply(c) PROVE PlacesInv'
  <2>1. /\ UNCHANGED <<steering, followUps, fresh, pc, run>>
        /\ gone' = (gone \cup Submitted(messages)) \ Submitted(messages')
        /\ edit' = [edit EXCEPT ![c] = [edit[c] EXCEPT !.step = "compacted", !.snap = messages']]
    BY <1>5 DEF CompactApply
  <2>2. PICK cut \in CutPoints(edit[c].snap) :
          messages' = <<Marker>> \o SubSeq(edit[c].snap, cut, Len(edit[c].snap))
    BY <1>5 DEF CompactApply
  <2>3. edit[c].snap \in Seq(Entry)
    BY <1>0 DEF EditState
  <2>4. Submitted(messages') \subseteq Submitted(edit[c].snap) /\ Once(messages')
    BY <1>0, <2>2, <2>3, SubmittedCut
  <2>5. edit'[c].snap = messages' /\ \A d \in Callers \ {c} : edit'[d] = edit[d]
    BY <1>0, <2>1 DEF EditState
  <2>6. Submitted(messages') \subseteq Submitted(messages) \cup gone
    BY <1>0, <2>4
  <2>7. \A held \in SUBSET Messages : Sorted(held) => Sorted(held)'
    BY <2>1, <2>6 DEF Sorted
  <2>8. \A d \in Callers : /\ Once(edit'[d].snap)
                           /\ Submitted(edit'[d].snap) \subseteq Submitted(messages') \cup gone'
    BY <1>0, <2>1, <2>4, <2>5, <2>6
  <2> QED
    BY <1>0, <2>1, <2>4, <2>7, <2>8, PlacesMoved
<1>6. ASSUME CompactCheck(c) PROVE PlacesInv'
  <2>1. UNCHANGED <<messages, steering, followUps, fresh, gone, pc, run>>
        /\ edit' = [edit EXCEPT ![c].step = "checked"]
    BY <1>6 DEF CompactCheck, StepEdit, state, history
  <2>2. \A d \in Callers : edit'[d].snap \in {edit[d].snap, <<>>, messages}
    BY <1>0, <2>1 DEF EditState
  <2> QED
    BY <2>1, <2>2, PlacesStill
<1> QED
  BY <1>1, <1>2, <1>3, <1>4, <1>5, <1>6

(* The user queues messages and takes them back.                           *)
LEMMA PlacesUser == RunInv /\ PlacesInv /\ UserStep => PlacesInv'
<1> SUFFICES ASSUME RunInv, PlacesInv, UserStep PROVE PlacesInv'
  OBVIOUS
<1>0. /\ steering \in Seq(Entry) /\ followUps \in Seq(Entry) /\ UNCHANGED <<messages, pc, run, edit>>
      /\ Once(messages) /\ Once(steering) /\ Once(followUps) /\ Once(<<>>) /\ Submitted(<<>>) = {}
      /\ \A d \in Callers : /\ Once(edit[d].snap)
                            /\ Submitted(edit[d].snap) \subseteq Submitted(messages) \cup gone
  <2>1. steering \in Seq(Entry) /\ followUps \in Seq(Entry)
    BY SeqMonotone, EntryType DEF RunInv, TypeInv, TypeOK
  <2>2. UNCHANGED <<messages, pc, run, edit>>
    BY DEF UserStep, Steer, FollowUp, TakeQueued, Abort, threads
  <2> QED
    BY <2>1, <2>2, SubmittedEmpty DEF PlacesInv
<1>1. ASSUME Once(steering'), Once(followUps'), gone \subseteq gone',
             \A held \in SUBSET Messages : Sorted(held) => Sorted(held)'
      PROVE  PlacesInv'
  BY <1>0, <1>1, PlacesMoved
<1>2. ASSUME NEW m \in Messages, Steer(m) \/ FollowUp(m) PROVE PlacesInv'
  <2>1. User(m) \in Entry /\ Owner(User(m)) = {m} /\ m \in fresh /\ fresh' = fresh \ {m} /\ UNCHANGED gone
    BY <1>2, EntryType, OwnerIs DEF Steer, FollowUp
  <2>2. m \notin Submitted(steering) /\ m \notin Submitted(followUps)
    BY <2>1, SomeSorted DEF Sorted
  <2>3. CASE Steer(m)
    <3>1. steering' = Append(steering, User(m)) /\ UNCHANGED followUps
      BY <2>3 DEF Steer
    <3>2. Submitted(steering') = Submitted(steering) \cup {m} /\ Once(steering')
      BY <1>0, <2>1, <2>2, <3>1, SubmittedAppend
    <3>3. \A held \in SUBSET Messages : Sorted(held) => Sorted(held)'
      BY <1>0, <2>1, <3>1, <3>2 DEF Sorted
    <3> QED
      BY <1>0, <1>1, <2>1, <3>1, <3>2, <3>3
  <2>4. CASE FollowUp(m)
    <3>1. followUps' = Append(followUps, User(m)) /\ UNCHANGED steering
      BY <2>4 DEF FollowUp
    <3>2. Submitted(followUps') = Submitted(followUps) \cup {m} /\ Once(followUps')
      BY <1>0, <2>1, <2>2, <3>1, SubmittedAppend
    <3>3. \A held \in SUBSET Messages : Sorted(held) => Sorted(held)'
      BY <1>0, <2>1, <3>1, <3>2 DEF Sorted
    <3> QED
      BY <1>0, <1>1, <2>1, <3>1, <3>2, <3>3
  <2> QED
    BY <1>2, <2>3, <2>4
<1>3. CASE TakeQueued
  <2>1. /\ steering' = <<>> /\ followUps' = <<>> /\ UNCHANGED fresh
        /\ gone' = gone \cup Submitted(steering) \cup Submitted(followUps)
    BY <1>3 DEF TakeQueued
  <2>2. \A held \in SUBSET Messages : Sorted(held) => Sorted(held)'
    BY <1>0, <2>1 DEF Sorted
  <2> QED
    BY <1>0, <1>1, <2>1, <2>2
<1>4. CASE Abort
  <2>1. UNCHANGED <<steering, followUps, fresh, gone>>
    BY <1>4 DEF Abort, history
  <2> QED
    BY <1>0, <2>1, PlacesStill
<1> QED
  BY <1>2, <1>3, <1>4 DEF UserStep

LEMMA PlacesStep == RunInv /\ PlacesInv /\ [Next]_vars => PlacesInv'
<1> SUFFICES ASSUME RunInv, PlacesInv, [Next]_vars PROVE PlacesInv'
  OBVIOUS
<1>1. ASSUME NEW c \in Callers, CallStep(c) PROVE PlacesInv'
  BY <1>1, PlacesClaims, PlacesEdited DEF CallStep
<1>2. ASSUME NEW c \in Callers, LoopStep(c) PROVE PlacesInv'
  BY <1>2, PlacesPhases, PlacesRecorded, PlacesReplies, PlacesJoined, PlacesPolls, PlacesClaims DEF LoopStep
<1>3. ASSUME NEW c \in Callers, StreamStart(c) \/ RuntimePanic(c) \/ EditStep(c) PROVE PlacesInv'
  BY <1>3, PlacesPhases, PlacesReplies, PlacesEdited
<1>4. ASSUME NEW c \in Callers, NEW i \in 1..MaxCalls, ToolStep(c, i) PROVE PlacesInv'
  BY <1>4, PlacesPhases
<1>5. CASE Quiet \/ UNCHANGED vars
  BY <1>5, PlacesStill DEF Quiet, vars, state, threads, history
<1> QED
  BY <1>1, <1>2, <1>3, <1>4, <1>5, PlacesUser DEF Next

LEMMA PlacesInit == Init => PlacesInv
<1> SUFFICES ASSUME Init PROVE PlacesInv
  OBVIOUS
<1>1. \A c \in Callers : run[c].todo = <<>> /\ edit[c].snap = <<>> /\ ~InRun(c)
  BY DEF Init, NoRun, RunFrom, NoEdit, InRun, LoopPhases
<1>2. Sorted({})
  BY SubmittedEmpty DEF Init, Sorted
<1> QED
  BY <1>1, <1>2, SubmittedEmpty DEF Init, PlacesInv

LEMMA PlacesAlways == Spec => []PlacesInv
<1>1. PlacesInv /\ []RunInv /\ [][Next]_vars => []PlacesInv
  BY PlacesStep, PTL
<1> QED
  BY <1>1, PlacesInit, RunAlways, PTL DEF Spec

LEMMA PlacesCount ==
  ASSUME NEW s, Once(s), NEW m \in Messages
  PROVE  Places(s, m) = IF m \in Submitted(s) THEN 1 ELSE 0
<1> DEFINE at == {i \in DOMAIN s : s[i] = User(m)}
<1>1. CASE m \in Submitted(s)
  <2>1. PICK i \in DOMAIN s : s[i] = User(m)
    BY <1>1 DEF Submitted
  <2>2. at = {i}
    BY <2>1 DEF Once
  <2> QED
    BY <1>1, <2>2, FS_Singleton DEF Places
<1>2. CASE m \notin Submitted(s)
  <2>1. at = {}
    BY <1>2 DEF Submitted
  <2> QED
    BY <1>2, <2>1, FS_EmptySet DEF Places
<1> QED
  BY <1>1, <1>2

(* The last term of Copies: a message is held by one thread, at one place. *)
LEMMA HeldCount ==
  ASSUME RunInv, PlacesInv, NEW m \in Messages, NEW S,
         S = UNION {HeldAt(c, m) : c \in Callers}
  PROVE  \/ Cardinality(S) = 0 /\ \A c \in Callers : m \notin Held(c)
         \/ Cardinality(S) = 1 /\ \E c \in Callers : InRun(c) /\ m \in Held(c)
<1>1. \A x : x \in S <=> \E c \in Callers : \E i \in DOMAIN run[c].todo :
                           run[c].todo[i] = User(m) /\ x = <<c, i>>
  BY DEF HeldAt
<1>2. CASE \A c \in Callers : m \notin Held(c)
  <2>1. S = {}
    BY <1>1, <1>2 DEF Held, Submitted
  <2> QED
    BY <1>2, <2>1, FS_EmptySet
<1>3. ASSUME NEW c \in Callers, m \in Held(c)
      PROVE  Cardinality(S) = 1 /\ InRun(c)
  <2>1. PICK i \in DOMAIN run[c].todo : run[c].todo[i] = User(m)
    BY <1>3 DEF Held, Submitted
  <2>2. InRun(c)
    BY <1>3, SubmittedEmpty DEF PlacesInv, Held, InRun, Carrying, LoopPhases
  <2>3. \A d \in Callers \ {c} : run[d].todo = <<>>
    BY <2>2, OneRunner DEF RunInv, PlacesInv, InRun, Carrying, LoopPhases
  <2>4. \A j \in DOMAIN run[c].todo : run[c].todo[j] = User(m) => j = i
    BY <2>1 DEF PlacesInv, Once
  <2>5. \A d \in Callers \ {c} : DOMAIN run[d].todo = {}
    BY <2>3
  <2>6. S = {<<c, i>>}
    BY <1>1, <2>1, <2>4, <2>5
  <2> QED
    BY <2>2, <2>6, FS_Singleton
<1> QED
  BY <1>2, <1>3

(* No message is lost or doubled: each one that was submitted stands once  *)
(* in the transcript, a queue or the hands of the running thread, unless   *)
(* it was removed, whatever is prompted, steered, taken back, reset,       *)
(* compacted or panics meanwhile.                                          *)
THEOREM DeliveredOnce == Spec => []ExactlyOnce
<1>1. RunInv /\ PlacesInv => ExactlyOnce
  <2> SUFFICES ASSUME RunInv, PlacesInv, NEW m \in Messages
               PROVE  Copies(m) = IF m \in fresh \cup gone THEN 0 ELSE 1
    BY DEF ExactlyOnce
  <2> DEFINE S == UNION {HeldAt(c, m) : c \in Callers}
  <2>1. Copies(m) = Places(messages, m) + Places(steering, m) + Places(followUps, m) + Cardinality(S)
    BY DEF Copies
  <2>2. /\ Places(messages, m) = IF m \in Submitted(messages) THEN 1 ELSE 0
        /\ Places(steering, m) = IF m \in Submitted(steering) THEN 1 ELSE 0
        /\ Places(followUps, m) = IF m \in Submitted(followUps) THEN 1 ELSE 0
    BY PlacesCount DEF PlacesInv
  <2>3. \/ Cardinality(S) = 0 /\ \A c \in Callers : m \notin Held(c)
        \/ Cardinality(S) = 1 /\ \E c \in Callers : InRun(c) /\ m \in Held(c)
    BY HeldCount
  <2> HIDE DEF S
  <2>4. CASE Cardinality(S) = 1 /\ \E c \in Callers : InRun(c) /\ m \in Held(c)
    <3>1. PICK c \in Callers : m \in Held(c) /\ Sorted(Held(c))
      BY <2>4 DEF PlacesInv, Held
    <3>2. /\ m \notin Submitted(messages) /\ m \notin Submitted(steering)
          /\ m \notin Submitted(followUps) /\ m \notin fresh \cup gone
      BY <3>1 DEF Sorted
    <3> QED
      BY <2>1, <2>2, <2>4, <3>2
  <2>5. CASE Cardinality(S) = 0 /\ \A c \in Callers : m \notin Held(c)
    <3>1. PICK held \in SUBSET Messages : Sorted(held) /\ m \notin held
      BY <2>5, SubmittedType DEF PlacesInv, Held
    <3> DEFINE told  == m \in Submitted(messages)
               steer == m \in Submitted(steering)
               next  == m \in Submitted(followUps)
               out   == m \in fresh \cup gone
    <3>2. /\ told \/ steer \/ next \/ out
          /\ out => ~told /\ ~steer /\ ~next
          /\ told => ~steer /\ ~next
          /\ steer => ~next
      BY <3>1 DEF Sorted
    <3> QED
      BY <2>1, <2>2, <2>5, <3>2
  <2> QED
    BY <2>3, <2>4, <2>5
<1> QED
  BY <1>1, RunAlways, PlacesAlways, PTL

-----------------------------------------------------------------------------
(* The order of steering messages.  Of two messages that were both steered *)
(* Prec holds the pair in the order they were sent; of other pairs it      *)
(* holds both.                                                             *)
Prec == {p \in Messages \X Messages :
           \A a, b \in DOMAIN steered : steered[a] = p[1] /\ steered[b] = p[2] => a < b}

Unsteered(A) == \A x \in A : \A a \in DOMAIN steered : steered[a] # x

Across(R, A, B) == \A x \in A, y \in B : <<x, y>> \in R
InOrder(R, s) ==
  \A i, j \in DOMAIN s, x, y \in Messages :
    i < j /\ s[i] = User(x) /\ s[j] = User(y) => <<x, y>> \in R

(* What the transcript, a snapshot of it and a thread hold precedes what   *)
(* is still queued, and what was recorded precedes what is held.           *)
OrderInv ==
  /\ Unsteered(fresh) /\ Unsteered(Submitted(followUps))
  /\ InOrder(Prec, messages) /\ InOrder(Prec, steering)
  /\ Across(Prec, Submitted(messages), Submitted(steering))
  /\ \A c \in Callers :
       /\ InOrder(Prec, run[c].todo) /\ InOrder(Prec, edit[c].snap)
       /\ Across(Prec, Submitted(messages), Held(c))
       /\ Across(Prec, Held(c), Submitted(steering))
       /\ Across(Prec, Submitted(edit[c].snap), Submitted(steering))
       /\ \A d \in Callers : Across(Prec, Submitted(edit[d].snap), Held(c))

(* In one-at-a-time mode: what a thread may still record of the steering   *)
(* queue in the turn it is in, phase by phase.                             *)
AtMostOne(c) == Len(run[c].todo) <= 1 \/ Unsteered(Held(c))
Room(c)      == \/ Len(run[c].todo) <= 1 /\ turnSteered = 0
                \/ Unsteered(Held(c)) /\ turnSteered <= 1

Paced(c) ==
  /\ pc[c] = "claimed" => AtMostOne(c) /\ (run[c].skip \/ Unsteered(Held(c)))
  /\ pc[c] = "start" => Room(c) /\ (run[c].skip \/ (Unsteered(Held(c)) /\ turnSteered = 0))
  /\ pc[c] = "poll" => run[c].skip \/ turnSteered = 0
  /\ pc[c] = "inner" => IF run[c].lastTurn THEN AtMostOne(c) ELSE Room(c)
  /\ pc[c] \in {"hook", "afterHook"} => AtMostOne(c)
  /\ pc[c] = "inject" => Room(c)
  /\ pc[c] = "results" => Unsteered(Held(c))

PaceInv == SteeringMode = "one" => turnSteered <= 1 /\ (\A c \in Callers : Paced(c))
LEMMA PlainAcross ==
  ASSUME NEW A \in SUBSET Messages, NEW B \in SUBSET Messages, Unsteered(A)
  PROVE  Across(Prec, A, B) /\ Across(Prec, B, A)
BY DEF Unsteered, Across, Prec

LEMMA PlainInOrder == ASSUME NEW s, Unsteered(Submitted(s)) PROVE InOrder(Prec, s)
<1> SUFFICES ASSUME NEW i \in DOMAIN s, NEW j \in DOMAIN s, NEW x \in Messages, NEW y \in Messages,
                    s[i] = User(x)
             PROVE  <<x, y>> \in Prec
  BY DEF InOrder
<1>1. x \in Submitted(s)
  BY DEF Submitted
<1> QED
  BY <1>1 DEF Unsteered, Prec

LEMMA InOrderAppend ==
  ASSUME NEW R, NEW s \in Seq(Entry), NEW e \in Entry, InOrder(R, s),
         Across(R, Submitted(s), Owner(e))
  PROVE  InOrder(R, Append(s, e))
<1> DEFINE t == Append(s, e)
<1>1. /\ Len(s) \in Nat /\ DOMAIN s = 1..Len(s) /\ DOMAIN t = 1..(Len(s) + 1)
      /\ t[Len(s) + 1] = e /\ \A i \in 1..Len(s) : t[i] = s[i]
  BY AppendAt
<1> HIDE DEF t
<1>2. ASSUME NEW i \in DOMAIN t, NEW j \in DOMAIN t, NEW x \in Messages, NEW y \in Messages,
             i < j, t[i] = User(x), t[j] = User(y)
      PROVE  <<x, y>> \in R
  <2>1. i \in DOMAIN s /\ s[i] = User(x)
    BY <1>1, <1>2
  <2>2. CASE j = Len(s) + 1
    <3>1. x \in Submitted(s) /\ y \in Owner(e)
      BY <1>1, <1>2, <2>1, <2>2 DEF Submitted, Owner
    <3> QED
      BY <3>1 DEF Across
  <2>3. CASE j # Len(s) + 1
    <3>1. j \in DOMAIN s /\ s[j] = User(y)
      BY <1>1, <1>2, <2>3
    <3> QED
      BY <1>2, <2>1, <3>1 DEF InOrder
  <2> QED
    BY <2>2, <2>3
<1>3. InOrder(R, t)
  BY <1>2 DEF InOrder
<1> QED
  BY <1>3 DEF t

LEMMA InOrderHead ==
  ASSUME NEW R, NEW s \in Seq(Entry), s # <<>>, InOrder(R, s)
  PROVE  InOrder(R, Tail(s)) /\ Across(R, Owner(Head(s)), Submitted(Tail(s)))
<1> DEFINE t == Tail(s)
<1>1. /\ Len(s) \in Nat /\ Len(s) >= 1 /\ DOMAIN s = 1..Len(s) /\ Len(t) = Len(s) - 1
      /\ DOMAIN t = 1..Len(t) /\ Head(s) = s[1] /\ \A i \in 1..Len(t) : t[i] = s[i + 1]
  OBVIOUS
<1> HIDE DEF t
<1>2. /\ 1 \in DOMAIN s
      /\ \A i \in DOMAIN t : i + 1 \in DOMAIN s /\ t[i] = s[i + 1] /\ 1 < i + 1
      /\ \A i, j \in DOMAIN t : i < j => i + 1 < j + 1
  BY <1>1
<1>3. InOrder(R, t)
  BY <1>2 DEF InOrder
<1>4. Across(R, Owner(Head(s)), Submitted(t))
  <2> SUFFICES ASSUME NEW x \in Messages, Head(s) = User(x), NEW y \in Messages,
                      NEW i \in DOMAIN t, t[i] = User(y)
               PROVE  <<x, y>> \in R
    BY DEF Across, Owner, Submitted
  <2>1. s[1] = User(x) /\ s[i + 1] = User(y) /\ 1 < i + 1 /\ i + 1 \in DOMAIN s
    BY <1>1, <1>2
  <2> QED
    BY <1>2, <2>1 DEF InOrder
<1> QED
  BY <1>3, <1>4 DEF t

LEMMA InOrderDrain ==
  ASSUME NEW R, NEW q \in Seq(Entry), NEW mode, InOrder(R, q)
  PROVE  /\ InOrder(R, Taken(q, mode)) /\ InOrder(R, Left(q, mode))
         /\ Across(R, Submitted(Taken(q, mode)), Submitted(Left(q, mode)))
<1>1. InOrder(R, <<>>) /\ \A A : Across(R, A, {})
  BY DEF InOrder, Across
<1>2. CASE mode = "all" \/ q = <<>>
  BY <1>1, <1>2, SubmittedEmpty DEF Taken, Left
<1>3. CASE ~(mode = "all" \/ q = <<>>)
  <2>1. Taken(q, mode) = <<Head(q)>> /\ Left(q, mode) = Tail(q) /\ Head(q) \in Entry
    BY <1>3 DEF Taken, Left
  <2> DEFINE one == <<Head(q)>>
  <2>2. DOMAIN one = {1} /\ one[1] = Head(q)
    BY <2>1
  <2> HIDE DEF one
  <2>3. Submitted(one) = Owner(Head(q)) /\ InOrder(R, one)
    BY <2>2 DEF Submitted, Owner, InOrder
  <2> QED
    BY <1>3, <2>1, <2>3, InOrderHead DEF one
<1> QED
  BY <1>2, <1>3

(* A suffix behind the marker, in the terms of SubmittedCut's proof.       *)
LEMMA InOrderCut ==
  ASSUME NEW R, NEW s \in Seq(Entry), NEW cut \in CutPoints(s), InOrder(R, s)
  PROVE  InOrder(R, <<Marker>> \o SubSeq(s, cut, Len(s)))
<1> DEFINE t == <<Marker>> \o SubSeq(s, cut, Len(s))
<1>1. PICK d \in Int :
        /\ t[1] = Marker /\ DOMAIN t \subseteq Int
        /\ \A i \in DOMAIN t : i # 1 => i + d \in DOMAIN s /\ t[i] = s[i + d]
  BY CutPlaces
<1> HIDE DEF t
<1>2. \A x \in Messages : t[1] # User(x)
  BY <1>1, OwnerIs DEF Owner
<1>3. \A i, j \in DOMAIN t : i < j => i + d < j + d
  BY <1>1
<1>4. ASSUME NEW i \in DOMAIN t, NEW j \in DOMAIN t, NEW x \in Messages, NEW y \in Messages,
             i < j, t[i] = User(x), t[j] = User(y)
      PROVE  <<x, y>> \in R
  <2>1. i + d \in DOMAIN s /\ s[i + d] = User(x) /\ j + d \in DOMAIN s /\ s[j + d] = User(y)
    BY <1>1, <1>2, <1>4
  <2> QED
    BY <1>3, <1>4, <2>1 DEF InOrder
<1>5. InOrder(R, t)
  BY <1>4 DEF InOrder
<1> QED
  BY <1>5 DEF t

LEMMA InOrderConcat ==
  ASSUME NEW R, NEW s \in Seq(Entry), NEW t \in Seq(Entry), InOrder(R, s), InOrder(R, t),
         Across(R, Submitted(s), Submitted(t))
  PROVE  InOrder(R, s \o t) /\ Submitted(s \o t) \subseteq Submitted(s) \cup Submitted(t)
<1> DEFINE u == s \o t
<1>1. /\ Len(s) \in Nat /\ DOMAIN s = 1..Len(s) /\ DOMAIN t = 1..Len(t) /\ DOMAIN u \subseteq Int
      /\ \A i \in DOMAIN u : IF i <= Len(s) THEN i \in DOMAIN s /\ u[i] = s[i]
                             ELSE i - Len(s) \in DOMAIN t /\ u[i] = t[i - Len(s)]
  <2>1. /\ u \in Seq(Entry) /\ Len(u) = Len(s) + Len(t) /\ Len(s) \in Nat /\ Len(t) \in Nat
        /\ \A i \in 1..(Len(s) + Len(t)) : u[i] = IF i <= Len(s) THEN s[i] ELSE t[i - Len(s)]
    BY ConcatProperties
  <2>2. DOMAIN s = 1..Len(s) /\ DOMAIN t = 1..Len(t) /\ DOMAIN u = 1..(Len(s) + Len(t))
    BY <2>1
  <2> HIDE DEF u
  <2>3. \A i \in 1..(Len(s) + Len(t)) : IF i <= Len(s) THEN i \in 1..Len(s) ELSE i - Len(s) \in 1..Len(t)
    BY <2>1
  <2> QED
    BY <2>1, <2>2, <2>3
<1> HIDE DEF u
<1>2. ASSUME NEW i \in DOMAIN u, NEW j \in DOMAIN u, NEW x \in Messages, NEW y \in Messages,
             i < j, u[i] = User(x), u[j] = User(y)
      PROVE  <<x, y>> \in R
  <2>1. CASE j <= Len(s)
    <3>1. i \in DOMAIN s /\ j \in DOMAIN s /\ s[i] = User(x) /\ s[j] = User(y)
      BY <1>1, <1>2, <2>1
    <3> QED
      BY <1>2, <3>1 DEF InOrder
  <2>2. CASE i <= Len(s) /\ ~(j <= Len(s))
    <3>1. x \in Submitted(s) /\ y \in Submitted(t)
      BY <1>1, <1>2, <2>2 DEF Submitted
    <3> QED
      BY <3>1 DEF Across
  <2>3. CASE ~(i <= Len(s)) /\ ~(j <= Len(s))
    <3>1. /\ i - Len(s) \in DOMAIN t /\ j - Len(s) \in DOMAIN t /\ i - Len(s) < j - Len(s)
          /\ t[i - Len(s)] = User(x) /\ t[j - Len(s)] = User(y)
      BY <1>1, <1>2, <2>3
    <3> QED
      BY <3>1 DEF InOrder
  <2> QED
    BY <1>1, <1>2, <2>1, <2>2, <2>3
<1>3. InOrder(R, u)
  BY <1>2 DEF InOrder
<1>4. Submitted(u) \subseteq Submitted(s) \cup Submitted(t)
  BY <1>1 DEF Submitted
<1> QED
  BY <1>3, <1>4 DEF u

(* A step of thread c that leaves the transcript and its snapshots alone:  *)
(* what it then holds it held, took from the steering queue, or was never  *)
(* steered.                                                                *)
LEMMA OrderKept ==
  ASSUME OrderInv, NEW c \in Callers, UNCHANGED <<messages, edit, steered>>,
         \A d \in Callers \ {c} : run'[d].todo = run[d].todo,
         fresh' \subseteq fresh, Submitted(followUps') \subseteq Submitted(followUps),
         Submitted(steering') \subseteq Submitted(steering), InOrder(Prec, steering'),
         InOrder(Prec, run'[c].todo), Across(Prec, Held(c)', Submitted(steering')),
         NEW A \in SUBSET Messages, Unsteered(A),
         Held(c)' \subseteq Held(c) \cup Submitted(steering) \cup A
  PROVE  OrderInv'
<1>1. Prec' = Prec
  BY DEF Prec
<1>2. Unsteered(fresh)' /\ Unsteered(Submitted(followUps))'
  BY DEF OrderInv, Unsteered
<1>3. ASSUME NEW B \in SUBSET Messages, Across(Prec, B, Held(c)), Across(Prec, B, Submitted(steering))
      PROVE  Across(Prec, B, Held(c)')
  <2>1. Across(Prec, B, A)
    BY PlainAcross
  <2> QED
    BY <1>3, <2>1 DEF Across
<1>4. ASSUME NEW d \in Callers
      PROVE  /\ InOrder(Prec, run'[d].todo) /\ InOrder(Prec, edit'[d].snap)
             /\ Across(Prec, Submitted(messages'), Held(d)')
             /\ Across(Prec, Held(d)', Submitted(steering'))
             /\ Across(Prec, Submitted(edit'[d].snap), Submitted(steering'))
             /\ \A b \in Callers : Across(Prec, Submitted(edit'[b].snap), Held(d)')
  <2>1. /\ Submitted(messages) \in SUBSET Messages
        /\ \A b \in Callers : Submitted(edit[b].snap) \in SUBSET Messages
    BY SubmittedType
  <2>2. InOrder(Prec, edit[d].snap) /\ Across(Prec, Submitted(edit[d].snap), Submitted(steering'))
    BY DEF OrderInv, Across
  <2>3. CASE d = c
    <3>1. Across(Prec, Submitted(messages), Held(c)')
      BY <1>3, <2>1 DEF OrderInv
    <3>2. \A b \in Callers : Across(Prec, Submitted(edit[b].snap), Held(c)')
      BY <1>3, <2>1 DEF OrderInv
    <3> QED
      BY <2>2, <2>3, <3>1, <3>2
  <2>4. CASE d # c
    <3>1. run'[d].todo = run[d].todo /\ Held(d)' = Held(d)
      BY <2>4 DEF Held
    <3>2. Across(Prec, Held(d), Submitted(steering'))
      BY DEF OrderInv, Across
    <3> QED
      BY <2>2, <3>1, <3>2 DEF OrderInv
  <2> QED
    BY <2>3, <2>4
<1>5. InOrder(Prec, messages') /\ Across(Prec, Submitted(messages'), Submitted(steering'))
  BY DEF OrderInv, Across
<1> QED
  BY <1>1, <1>2, <1>4, <1>5 DEF OrderInv

(* An entry joins the transcript.                                          *)
LEMMA OrderTold ==
  ASSUME RunInv, PlacesInv, OrderInv, NEW c \in Callers, InRun(c), NEW e \in Entry,
         messages' = Append(messages, e), UNCHANGED <<edit, steered, steering, followUps, fresh>>,
         \A d \in Callers \ {c} : run'[d].todo = run[d].todo,
         Across(Prec, Submitted(messages), Owner(e)), Across(Prec, Owner(e), Submitted(steering)),
         InOrder(Prec, run'[c].todo), Held(c)' \subseteq Held(c), Across(Prec, Owner(e), Held(c)')
  PROVE  OrderInv'
<1>1. Prec' = Prec /\ Unsteered(fresh)' /\ Unsteered(Submitted(followUps))'
  BY DEF Prec, OrderInv, Unsteered
<1>2. messages \in Seq(Entry)
  BY DEF RunInv, TypeInv, TypeOK
<1>3. Submitted(messages') = Submitted(messages) \cup Owner(e) /\ InOrder(Prec, messages')
  BY <1>2, SubmittedAppend, InOrderAppend DEF OrderInv
<1>4. Across(Prec, Submitted(messages'), Submitted(steering))
  BY <1>3 DEF OrderInv, Across
<1>5. ASSUME NEW d \in Callers
      PROVE  /\ InOrder(Prec, run'[d].todo)
             /\ Across(Prec, Submitted(messages'), Held(d)')
             /\ Across(Prec, Held(d)', Submitted(steering))
             /\ \A b \in Callers : Across(Prec, Submitted(edit[b].snap), Held(d)')
  <2>1. CASE d = c
    BY <1>3, <2>1 DEF OrderInv, Across
  <2>2. CASE d # c
    <3>1. ~InRun(d)
      BY <2>2, OneRunner DEF RunInv
    <3>2. run[d].todo = <<>>
      BY <3>1 DEF PlacesInv, InRun, Carrying, LoopPhases
    <3>3. Held(d)' = {} /\ InOrder(Prec, <<>>) /\ run'[d].todo = <<>>
      BY <2>2, <3>2, SubmittedEmpty DEF Held, InOrder
    <3> QED
      BY <3>3 DEF Across
  <2> QED
    BY <2>1, <2>2
<1>6. \A d \in Callers : /\ InOrder(Prec, edit[d].snap)
                         /\ Across(Prec, Submitted(edit[d].snap), Submitted(steering))
  BY DEF OrderInv
<1>7. InOrder(Prec, steering)
  BY DEF OrderInv
<1> QED
  BY <1>1, <1>3, <1>4, <1>5, <1>6, <1>7 DEF OrderInv

(* A step that leaves what the threads hold.                               *)
LEMMA OrderMoved ==
  ASSUME OrderInv, UNCHANGED steered, \A d \in Callers : run'[d].todo = run[d].todo,
         fresh' \subseteq fresh, Submitted(followUps') \subseteq Submitted(followUps) \cup fresh,
         Submitted(steering') \subseteq Submitted(steering), InOrder(Prec, steering'),
         InOrder(Prec, messages'), Across(Prec, Submitted(messages'), Submitted(steering)),
         \A d \in Callers : /\ Across(Prec, Submitted(messages'), Held(d))
                            /\ edit'[d].snap \in {edit[d].snap, <<>>, messages, messages'}
  PROVE  OrderInv'
<1>1. Prec' = Prec /\ Unsteered(fresh)' /\ Unsteered(Submitted(followUps))'
  BY DEF Prec, OrderInv, Unsteered
<1>2. InOrder(Prec, <<>>) /\ \A B : Across(Prec, {}, B)
  BY DEF InOrder, Across
<1>3. \A d \in Callers : Held(d)' = Held(d)
  BY DEF Held
<1>4. ASSUME NEW d \in Callers
      PROVE  /\ InOrder(Prec, edit'[d].snap)
             /\ Across(Prec, Submitted(edit'[d].snap), Submitted(steering))
             /\ \A b \in Callers : Across(Prec, Submitted(edit'[d].snap), Held(b))
  <2>1. CASE edit'[d].snap = edit[d].snap
    BY <2>1 DEF OrderInv
  <2>2. CASE edit'[d].snap = <<>>
    BY <1>2, <2>2, SubmittedEmpty
  <2>3. CASE edit'[d].snap = messages
    BY <2>3 DEF OrderInv
  <2>4. CASE edit'[d].snap = messages'
    BY <2>4
  <2> QED
    BY <2>1, <2>2, <2>3, <2>4
<1>5. \A d \in Callers : /\ InOrder(Prec, run'[d].todo)
                         /\ Across(Prec, Held(d), Submitted(steering'))
                         /\ Across(Prec, Submitted(edit'[d].snap), Submitted(steering'))
  BY <1>4 DEF OrderInv, Across
<1>6. Across(Prec, Submitted(messages'), Submitted(steering'))
  BY DEF Across
<1> QED
  BY <1>1, <1>3, <1>4, <1>5, <1>6 DEF OrderInv

LEMMA OrderStill ==
  ASSUME OrderInv, UNCHANGED <<messages, steering, followUps, fresh, steered>>,
         \A d \in Callers : /\ run'[d].todo = run[d].todo
                            /\ edit'[d].snap \in {edit[d].snap, <<>>, messages}
  PROVE  OrderInv'
<1>1. /\ InOrder(Prec, steering) /\ InOrder(Prec, messages)
      /\ Across(Prec, Submitted(messages), Submitted(steering))
      /\ \A d \in Callers : Across(Prec, Submitted(messages), Held(d))
  BY DEF OrderInv
<1> QED
  BY <1>1, OrderMoved

LEMMA OrderPhases ==
  ASSUME RunInv, PlacesInv, OrderInv, NEW c \in Callers
  PROVE  /\ AgentStart(c) \/ RecordedAll(c) \/ InnerLoop(c) \/ InnerLoopExit(c) \/ HookReturn(c)
            \/ RequestAssistant(c) \/ FailTruncated(c) \/ StartExecution(c) \/ FinishRun(c)
            \/ ReleaseRun(c) => OrderInv'
         /\ \A i \in 1..MaxCalls : StartCall(c, i) \/ ToolStep(c, i) => OrderInv'
         /\ ReturnToCaller(c) => OrderInv'
         /\ Announce(c) \/ StreamStart(c) => OrderInv'
<1>0. /\ run \in [Callers -> RunState] /\ run[c] \in RunState
      /\ \A d \in Callers : run[d] \in RunState
  BY DEF RunInv, TypeInv, TypeOK
<1>1. ASSUME UNCHANGED <<messages, steering, followUps, fresh, steered, edit>>,
             \A d \in Callers : run'[d].todo = run[d].todo
      PROVE  OrderInv'
  BY <1>1, OrderStill
<1>2. ASSUME \/ AgentStart(c) \/ RecordedAll(c) \/ InnerLoop(c) \/ InnerLoopExit(c) \/ HookReturn(c)
             \/ RequestAssistant(c) \/ FailTruncated(c) \/ StartExecution(c) \/ FinishRun(c)
             \/ ReleaseRun(c)
      PROVE  OrderInv'
  <2>1. UNCHANGED <<messages, steering, followUps, fresh, steered, edit>>
    BY <1>2 DEF AgentStart, RecordedAll, InnerLoop, InnerLoopExit, HookReturn, RequestAssistant,
       FailTruncated, StartExecution, FinishRun, ReleaseRun, state, history
  <2>2. \A d \in Callers : run'[d].todo = run[d].todo
    <3>1. CASE UNCHANGED run
      BY <3>1
    <3>2. CASE InnerLoop(c)
      BY <1>0, <3>2 DEF InnerLoop, RunState
    <3>3. CASE FailTruncated(c)
      BY <1>0, <3>3 DEF FailTruncated, RunState
    <3>4. CASE StartExecution(c)
      BY <1>0, <3>4 DEF StartExecution, RunState
    <3> QED
      BY <1>2, <3>1, <3>2, <3>3, <3>4 DEF AgentStart, RecordedAll, InnerLoopExit, HookReturn,
         RequestAssistant, FinishRun, ReleaseRun
  <2> QED
    BY <1>1, <2>1, <2>2
<1>3. ASSUME NEW i \in 1..MaxCalls, StartCall(c, i) \/ ToolStep(c, i) PROVE OrderInv'
  <2>1. UNCHANGED <<messages, steering, followUps, fresh, steered, edit>>
    BY <1>3 DEF StartCall, ToolStep, BeginTool, EndTool, history
  <2>2. PICK x : run' = [run EXCEPT ![c] = [run[c] EXCEPT !.work = x]]
    BY <1>3 DEF StartCall, ToolStep, BeginTool, EndTool
  <2>3. \A d \in Callers : run'[d].todo = run[d].todo
    BY <1>0, <2>2 DEF RunState
  <2> QED
    BY <1>1, <2>1, <2>3
<1>4. ASSUME ReturnToCaller(c) PROVE OrderInv'
  <2>1. /\ pc[c] = "requeue" /\ run' = [run EXCEPT ![c] = NoRun]
        /\ UNCHANGED <<messages, steering, followUps, fresh, steered, edit>>
    BY <1>4 DEF ReturnToCaller, state, history
  <2>2. run[c].todo = <<>> /\ NoRun.todo = <<>>
    BY <2>1 DEF PlacesInv, Carrying, NoRun, RunFrom
  <2>3. \A d \in Callers : run'[d].todo = run[d].todo
    BY <1>0, <2>1, <2>2
  <2> QED
    BY <1>1, <2>1, <2>3
<1>5. ASSUME Announce(c) \/ StreamStart(c) PROVE OrderInv'
  <2>1. UNCHANGED <<messages, steering, followUps, fresh, steered, edit, run>>
    BY <1>5 DEF Announce, StreamStart, state, history, threads
  <2> QED
    BY <1>1, <2>1
<1> QED
  BY <1>2, <1>3, <1>4, <1>5

LEMMA OrderRecorded ==
  ASSUME RunInv, PlacesInv, OrderInv, NEW c \in Callers, RecordNext(c)
  PROVE  OrderInv'
<1>1. InRun(c) /\ run[c].todo # <<>>
  BY DEF RecordNext, At, InRun, LoopPhases
<1>2. \A d \in Callers \ {c} : ~InRun(d)
  BY <1>1, OneRunner DEF RunInv
<1> DEFINE e == Head(run[c].todo)
           rest == Tail(run[c].todo)
<1>3. /\ messages' = Append(messages, e) /\ run' = [run EXCEPT ![c].todo = rest]
      /\ UNCHANGED <<edit, steering, followUps, fresh, steered>>
  BY DEF RecordNext, Push
<1>4. run[c].todo \in Seq(Entry) /\ e \in Entry
  <2>1. run[c].todo \in Seq(Entry)
    BY <1>2, PlacesKnow
  <2> QED
    BY <1>1, <2>1
<1>5. /\ Held(c) = Owner(e) \cup Submitted(rest) /\ InOrder(Prec, rest)
      /\ Across(Prec, Owner(e), Submitted(rest))
  BY <1>1, <1>4, SubmittedHead, InOrderHead DEF Held, OrderInv
<1> HIDE DEF e, rest
<1>6. run'[c].todo = rest /\ \A d \in Callers \ {c} : run'[d].todo = run[d].todo
  BY <1>3 DEF RunInv, TypeInv, TypeOK, RunState
<1>7. Held(c)' = Submitted(rest)
  BY <1>6 DEF Held
<1>8. Across(Prec, Submitted(messages), Owner(e)) /\ Across(Prec, Owner(e), Submitted(steering))
  BY <1>5 DEF OrderInv, Across
<1> QED
  BY <1>1, <1>3, <1>4, <1>5, <1>6, <1>7, <1>8, OrderTold

LEMMA OrderReplies ==
  ASSUME RunInv, PlacesInv, OrderInv, NEW c \in Callers
  PROVE  /\ SkipRequest(c) => OrderInv'
         /\ \A s \in Stops, n \in 0..MaxCalls : Reply(c, s, n) => OrderInv'
         /\ RuntimePanic(c) => OrderInv'
<1>0. run \in [Callers -> RunState] /\ run[c] \in RunState
  BY DEF RunInv, TypeInv, TypeOK
<1>1. ASSUME NEW s \in Stops, NEW n \in 0..MaxCalls, messages' = Append(messages, Assistant(s, n)),
             InRun(c), UNCHANGED <<edit, steered, steering, followUps, fresh>>,
             run'[c].todo \in {run[c].todo, <<>>},
             \A d \in Callers \ {c} : run'[d].todo = run[d].todo
      PROVE  OrderInv'
  <2> DEFINE e == Assistant(s, n)
  <2>1. e \in Entry /\ Owner(e) = {}
    BY EntryType, OwnerIs
  <2> HIDE DEF e
  <2>2. \A B : Across(Prec, {}, B) /\ Across(Prec, B, {})
    BY DEF Across
  <2>3. InOrder(Prec, run'[c].todo) /\ Held(c)' \subseteq Held(c)
    <3>1. InOrder(Prec, <<>>)
      BY DEF InOrder
    <3> QED
      BY <1>1, <3>1, SubmittedEmpty DEF OrderInv, Held
  <2>4. messages' = Append(messages, e)
    BY <1>1 DEF e
  <2> QED
    BY <1>1, <2>1, <2>2, <2>3, <2>4, OrderTold
<1>2. ASSUME NEW s \in Stops, NEW n \in 0..MaxCalls, RecordReply(c, s, n), InRun(c) PROVE OrderInv'
  <2> DEFINE work == IF IsTerminal(s) THEN <<>> ELSE [i \in 1..n |-> "new"]
             term == IsTerminal(s)
  <2>1. /\ messages' = Append(messages, Assistant(s, n))
        /\ UNCHANGED <<edit, steered, steering, followUps, fresh>>
        /\ run' = [run EXCEPT ![c] = [run[c] EXCEPT !.hasMore = FALSE, !.terminal = term, !.work = work]]
    BY <1>2 DEF RecordReply, Push
  <2> HIDE DEF work, term
  <2>2. \A d \in Callers : run'[d].todo = run[d].todo
    BY <1>0, <2>1 DEF RunState
  <2> QED
    BY <1>1, <1>2, <2>1, <2>2
<1>3. ASSUME SkipRequest(c) PROVE OrderInv'
  <2>1. "aborted" \in Stops /\ 0 \in 0..MaxCalls /\ InRun(c)
    BY <1>3, ConstantsAssumption DEF Stops, SkipRequest, At, InRun, LoopPhases
  <2> QED
    BY <1>2, <1>3, <2>1 DEF SkipRequest
<1>4. ASSUME NEW s \in Stops, NEW n \in 0..MaxCalls, Reply(c, s, n) PROVE OrderInv'
  <2>1. InRun(c)
    BY <1>4 DEF Reply, At, InRun, LoopPhases
  <2> QED
    BY <1>2, <1>4, <2>1 DEF Reply
<1>5. ASSUME RuntimePanic(c) PROVE OrderInv'
  <2>1. PICK s \in Stops : messages' = Append(messages, Assistant(s, 0))
    BY <1>5 DEF RuntimePanic, Push, Stops
  <2>2. /\ InRun(c) /\ UNCHANGED <<edit, steered, steering, followUps, fresh>>
        /\ run' = [run EXCEPT ![c] = RunFrom(<<>>, FALSE, TRUE)]
    BY <1>5 DEF RuntimePanic, Push, At, InRun, LoopPhases
  <2>3. run'[c].todo = <<>> /\ \A d \in Callers \ {c} : run'[d].todo = run[d].todo
    BY <1>0, <2>2 DEF RunFrom
  <2>4. 0 \in 0..MaxCalls
    BY ConstantsAssumption
  <2> QED
    BY <1>1, <2>1, <2>2, <2>3, <2>4
<1> QED
  BY <1>3, <1>4, <1>5

(* What the four polls do.                                                 *)
Fetches(c) == run'[c].todo = Taken(steering, SteeringMode) /\ steering' = Left(steering, SteeringMode)

LEMMA PollsDo ==
  ASSUME RunInv, NEW c \in Callers,
         InitialPoll(c) \/ NextTurn(c) \/ EndTurn(c) \/ OuterLoop(c)
  PROVE  /\ UNCHANGED <<messages, edit, fresh, steered>>
         /\ \A d \in Callers \ {c} : run'[d] = run[d] /\ pc'[d] = pc[d]
         /\ InitialPoll(c) =>
              /\ UNCHANGED <<followUps, turnSteered>> /\ pc[c] = "poll" /\ pc'[c] = "inner"
              /\ run'[c].lastTurn = run[c].lastTurn
              /\ IF run[c].skip THEN UNCHANGED <<run, steering>> ELSE Fetches(c)
         /\ NextTurn(c) =>
              /\ UNCHANGED followUps /\ turnSteered' = 0 /\ pc[c] = "afterHook" /\ pc'[c] = "inject"
              /\ IF run[c].todo = <<>> THEN Fetches(c) ELSE UNCHANGED <<run, steering>>
         /\ EndTurn(c) =>
              /\ UNCHANGED <<followUps, turnSteered>> /\ pc[c] = "turnEnd"
              /\ \/ pc'[c] = "finish" /\ UNCHANGED <<run, steering>>
                 \/ pc'[c] = "inner" /\ run'[c].lastTurn = TRUE /\ Fetches(c)
         /\ OuterLoop(c) =>
              /\ UNCHANGED <<steering, turnSteered>> /\ pc[c] = "outer"
              /\ \/ pc'[c] = "finish" /\ UNCHANGED <<run, followUps>>
                 \/ /\ pc'[c] = "inner" /\ run'[c].lastTurn = run[c].lastTurn
                    /\ run'[c].todo = Taken(followUps, FollowUpMode)
                    /\ followUps' = Left(followUps, FollowUpMode)
<1>0. run \in [Callers -> RunState] /\ run[c] \in RunState /\ pc \in [Callers -> Phases]
  BY DEF RunInv, TypeInv, TypeOK
<1>1. UNCHANGED <<messages, edit, fresh, steered>>
  BY DEF InitialPoll, NextTurn, EndTurn, OuterLoop, history
<1>2. /\ \A d \in Callers \ {c} : pc'[d] = pc[d]
      /\ \A q : pc' = [pc EXCEPT ![c] = q] => pc'[c] = q
  BY <1>0 DEF InitialPoll, NextTurn, EndTurn, OuterLoop
<1> DEFINE Polled(x) == [run[c] EXCEPT !.todo = x]
           Last1(x)  == [run[c] EXCEPT !.lastTurn = TRUE, !.todo = x]
           More(x)   == [run[c] EXCEPT !.hasMore = TRUE, !.todo = x]
<1>3. \A x : /\ Polled(x).todo = x /\ Polled(x).lastTurn = run[c].lastTurn
             /\ Last1(x).todo = x /\ Last1(x).lastTurn = TRUE
             /\ More(x).todo = x /\ More(x).lastTurn = run[c].lastTurn
  BY <1>0 DEF RunState
<1>4. \E y : UNCHANGED run \/ run' = [run EXCEPT ![c] = y]
  BY DEF InitialPoll, NextTurn, EndTurn, OuterLoop, DrainSteering
<1>5. /\ \A d \in Callers \ {c} : run'[d] = run[d]
      /\ \A y : run' = [run EXCEPT ![c] = y] => run'[c] = y
  BY <1>0, <1>4
<1> DEFINE steer == Taken(steering, SteeringMode)
           next  == Taken(followUps, FollowUpMode)
<1>6. ASSUME InitialPoll(c)
      PROVE  /\ UNCHANGED <<followUps, turnSteered>> /\ pc[c] = "poll" /\ pc'[c] = "inner"
             /\ run'[c].lastTurn = run[c].lastTurn
             /\ IF run[c].skip THEN UNCHANGED <<run, steering>> ELSE Fetches(c)
  <2>1. /\ UNCHANGED <<followUps, turnSteered>> /\ pc[c] = "poll" /\ pc' = [pc EXCEPT ![c] = "inner"]
        /\ IF run[c].skip THEN UNCHANGED <<run, steering>>
           ELSE run' = [run EXCEPT ![c] = Polled(steer)] /\ steering' = Left(steering, SteeringMode)
    BY <1>6 DEF InitialPoll, At, PollsFirst, DrainSteering, history
  <2> HIDE DEF Polled, steer
  <2>2. run' = [run EXCEPT ![c] = Polled(steer)] => run'[c] = Polled(steer)
    BY <1>5
  <2>3. Polled(steer).todo = steer /\ Polled(steer).lastTurn = run[c].lastTurn
    BY <1>3
  <2> QED
    BY <1>2, <2>1, <2>2, <2>3 DEF Fetches, steer
<1>7. ASSUME NextTurn(c)
      PROVE  /\ UNCHANGED followUps /\ turnSteered' = 0 /\ pc[c] = "afterHook" /\ pc'[c] = "inject"
             /\ IF run[c].todo = <<>> THEN Fetches(c) ELSE UNCHANGED <<run, steering>>
  <2>1. /\ UNCHANGED followUps /\ turnSteered' = 0 /\ pc[c] = "afterHook"
        /\ pc' = [pc EXCEPT ![c] = "inject"]
        /\ IF run[c].todo # <<>> THEN UNCHANGED <<run, steering>>
           ELSE run' = [run EXCEPT ![c] = Polled(steer)] /\ steering' = Left(steering, SteeringMode)
    BY <1>7 DEF NextTurn, At, DrainSteering
  <2> HIDE DEF Polled, steer
  <2>2. run' = [run EXCEPT ![c] = Polled(steer)] => run'[c].todo = steer
    BY <1>3, <1>5
  <2> QED
    BY <1>2, <2>1, <2>2 DEF Fetches, steer
<1>8. ASSUME EndTurn(c)
      PROVE  /\ UNCHANGED <<followUps, turnSteered>> /\ pc[c] = "turnEnd"
             /\ \/ pc'[c] = "finish" /\ UNCHANGED <<run, steering>>
                \/ pc'[c] = "inner" /\ run'[c].lastTurn = TRUE /\ Fetches(c)
  <2>1. /\ UNCHANGED <<followUps, turnSteered>> /\ pc[c] = "turnEnd"
        /\ \/ pc' = [pc EXCEPT ![c] = "finish"] /\ UNCHANGED <<run, steering>>
           \/ /\ pc' = [pc EXCEPT ![c] = "inner"] /\ run' = [run EXCEPT ![c] = Last1(steer)]
              /\ steering' = Left(steering, SteeringMode)
    BY <1>8 DEF EndTurn, At, history
  <2> HIDE DEF Last1, steer
  <2>2. run' = [run EXCEPT ![c] = Last1(steer)] => run'[c].todo = steer /\ run'[c].lastTurn = TRUE
    BY <1>3, <1>5
  <2> QED
    BY <1>2, <2>1, <2>2 DEF Fetches, steer
<1>9. ASSUME OuterLoop(c)
      PROVE  /\ UNCHANGED <<steering, turnSteered>> /\ pc[c] = "outer"
             /\ \/ pc'[c] = "finish" /\ UNCHANGED <<run, followUps>>
                \/ /\ pc'[c] = "inner" /\ run'[c].lastTurn = run[c].lastTurn
                   /\ run'[c].todo = Taken(followUps, FollowUpMode)
                   /\ followUps' = Left(followUps, FollowUpMode)
  <2>1. /\ UNCHANGED <<steering, turnSteered>> /\ pc[c] = "outer"
        /\ \/ pc' = [pc EXCEPT ![c] = "finish"] /\ UNCHANGED <<run, followUps>>
           \/ /\ pc' = [pc EXCEPT ![c] = "inner"] /\ run' = [run EXCEPT ![c] = More(next)]
              /\ followUps' = Left(followUps, FollowUpMode)
    BY <1>9 DEF OuterLoop, At, history
  <2> HIDE DEF More, next
  <2>2. /\ run' = [run EXCEPT ![c] = More(next)] =>
             run'[c].todo = next /\ run'[c].lastTurn = run[c].lastTurn
    BY <1>3, <1>5
  <2> QED
    BY <1>2, <2>1, <2>2 DEF next
<1> QED
  BY <1>1, <1>2, <1>5, <1>6, <1>7, <1>8, <1>9

LEMMA OrderDrained ==
  ASSUME RunInv, OrderInv, NEW c \in Callers, UNCHANGED <<messages, edit, steered>>,
         fresh' \subseteq fresh, \A d \in Callers \ {c} : run'[d].todo = run[d].todo,
         \/ Fetches(c) /\ UNCHANGED followUps
         \/ /\ run'[c].todo = Taken(followUps, FollowUpMode)
            /\ followUps' = Left(followUps, FollowUpMode) /\ UNCHANGED steering
  PROVE  OrderInv'
<1>1. /\ steering \in Seq(Entry) /\ followUps \in Seq(Entry)
      /\ InOrder(Prec, steering) /\ InOrder(Prec, followUps)
      /\ Unsteered(Submitted(followUps)) /\ Submitted(followUps) \in SUBSET Messages
      /\ Submitted(steering) \in SUBSET Messages
  <2>1. steering \in Seq(Entry) /\ followUps \in Seq(Entry)
    BY SeqMonotone, EntryType DEF RunInv, TypeInv, TypeOK
  <2> QED
    BY <2>1, PlainInOrder, SubmittedType DEF OrderInv
<1>2. CASE Fetches(c) /\ UNCHANGED followUps
  <2>1. /\ Submitted(steering) = Held(c)' \cup Submitted(steering')
        /\ InOrder(Prec, run'[c].todo) /\ InOrder(Prec, steering')
        /\ Across(Prec, Held(c)', Submitted(steering'))
    BY <1>1, <1>2, SubmittedDrain, InOrderDrain DEF Fetches, Held
  <2>2. Unsteered({})
    BY DEF Unsteered
  <2> QED
    BY <1>2, <2>1, <2>2, OrderKept
<1>3. CASE /\ run'[c].todo = Taken(followUps, FollowUpMode)
           /\ followUps' = Left(followUps, FollowUpMode) /\ UNCHANGED steering
  <2>1. /\ Submitted(followUps) = Held(c)' \cup Submitted(followUps')
        /\ InOrder(Prec, run'[c].todo)
    BY <1>1, <1>3, SubmittedDrain, InOrderDrain DEF Held
  <2>2. PICK A \in SUBSET Messages : A = Submitted(followUps)
    BY <1>1
  <2>3. Unsteered(A) /\ Held(c)' \subseteq A
    BY <1>1, <2>1, <2>2
  <2>4. Across(Prec, A, Submitted(steering))
    BY <1>1, <2>3, PlainAcross
  <2>5. Across(Prec, Held(c)', Submitted(steering'))
    BY <1>3, <2>3, <2>4 DEF Across
  <2> QED
    BY <1>1, <1>3, <2>1, <2>3, <2>5, OrderKept
<1> QED
  BY <1>2, <1>3

LEMMA OrderPolls ==
  ASSUME RunInv, PlacesInv, OrderInv, NEW c \in Callers,
         InitialPoll(c) \/ NextTurn(c) \/ EndTurn(c) \/ OuterLoop(c)
  PROVE  OrderInv'
<1>1. /\ UNCHANGED <<messages, edit, fresh, steered>>
      /\ \A d \in Callers \ {c} : run'[d].todo = run[d].todo
      /\ \/ Fetches(c) /\ UNCHANGED followUps
         \/ UNCHANGED <<run, steering, followUps>>
         \/ /\ run'[c].todo = Taken(followUps, FollowUpMode)
            /\ followUps' = Left(followUps, FollowUpMode) /\ UNCHANGED steering
  BY PollsDo
<1>2. CASE UNCHANGED <<run, steering, followUps>>
  BY <1>1, <1>2, OrderStill
<1> QED
  BY <1>1, <1>2, OrderDrained

LEMMA OrderJoined ==
  ASSUME RunInv, PlacesInv, OrderInv, NEW c \in Callers, JoinTools(c)
  PROVE  OrderInv' /\ Held(c)' = {} /\ \A d \in Callers \ {c} : run'[d] = run[d]
<1>0. run \in [Callers -> RunState] /\ run[c] \in RunState /\ run[c].work \in Work
  BY RunIsBounded DEF RunInv, TypeInv, TypeOK
<1> DEFINE todo == ResultsOfBatch(run[c].work)
           more == InState(c, {"terminate"}) # DOMAIN run[c].work
           now  == [run[c] EXCEPT !.todo = todo, !.hasMore = more, !.work = <<>>, !.serial = FALSE]
<1>1. run' = [run EXCEPT ![c] = now] /\ UNCHANGED <<messages, steering, followUps, edit, fresh, steered>>
  BY DEF JoinTools, state, history
<1>2. Submitted(todo) = {}
  <2>1. \A i \in DOMAIN todo : todo[i].role = "toolResult"
    BY <1>0 DEF Work, ResultsOfBatch, Result
  <2>2. \A m \in Messages : User(m).role = "user"
    BY DEF User
  <2> HIDE DEF todo
  <2> QED
    BY <2>1, <2>2 DEF Submitted
<1> HIDE DEF todo, more
<1>3. now.todo = todo
  BY <1>0 DEF RunState
<1> HIDE DEF now
<1>4. run'[c].todo = todo /\ \A d \in Callers \ {c} : run'[d] = run[d]
  BY <1>0, <1>1, <1>3
<1>5. Held(c)' = {}
  BY <1>2, <1>4 DEF Held
<1>6. Unsteered({}) /\ InOrder(Prec, run'[c].todo)
  <2>1. Unsteered({}) /\ Unsteered(Submitted(todo))
    BY <1>2 DEF Unsteered
  <2> QED
    BY <1>4, <2>1, PlainInOrder
<1>7. InOrder(Prec, steering) /\ Across(Prec, Held(c)', Submitted(steering))
  BY <1>5 DEF OrderInv, Across
<1>8. OrderInv'
  BY <1>1, <1>4, <1>5, <1>6, <1>7, OrderKept
<1> QED
  BY <1>4, <1>5, <1>8

(* What the ways into a run do.                                            *)
LEMMA ClaimsDo ==
  ASSUME RunInv, NEW c \in Callers,
         ContinueRun(c) \/ RunQueued(c) \/ \E m \in Messages : PromptMessages(c, m)
  PROVE  /\ \A d \in Callers : ~InRun(d)
         /\ \A d \in Callers \ {c} : run'[d] = run[d] /\ pc'[d] = pc[d]
         /\ UNCHANGED <<messages, edit, steered, turnSteered>> /\ pc'[c] = "claimed"
         /\ \/ /\ run'[c].todo = <<>> /\ ~run'[c].skip /\ UNCHANGED <<steering, followUps, fresh>>
            \/ /\ Fetches(c) /\ run'[c].skip /\ UNCHANGED <<followUps, fresh>>
            \/ /\ run'[c].todo = Taken(followUps, FollowUpMode) /\ ~run'[c].skip
               /\ followUps' = Left(followUps, FollowUpMode) /\ UNCHANGED <<steering, fresh>>
            \/ /\ \E m \in fresh : run'[c].todo = <<User(m)>> /\ fresh' = fresh \ {m}
               /\ ~run'[c].skip /\ UNCHANGED <<steering, followUps>>
<1>0. /\ run \in [Callers -> RunState] /\ pc \in [Callers -> Phases]
      /\ \A batch, skip : /\ RunFrom(batch, skip, FALSE).todo = batch
                          /\ RunFrom(batch, skip, FALSE).skip = skip
  BY DEF RunInv, TypeInv, TypeOK, RunFrom
<1>1. ASSUME NEW batch, NEW skip, Claim(c, batch, skip)
      PROVE  /\ pc'[c] = "claimed" /\ \A d \in Callers \ {c} : pc'[d] = pc[d] /\ run'[d] = run[d]
             /\ run'[c].todo = batch /\ run'[c].skip = skip
             /\ UNCHANGED <<messages, edit, steered, turnSteered>>
  <2>1. run' = [run EXCEPT ![c] = RunFrom(batch, skip, FALSE)]
    BY <1>1 DEF Claim
  <2> DEFINE now == RunFrom(batch, skip, FALSE)
  <2>2. now.todo = batch /\ now.skip = skip
    BY <1>0
  <2> HIDE DEF now
  <2>3. run'[c] = now /\ \A d \in Callers \ {c} : run'[d] = run[d]
    BY <1>0, <2>1 DEF now
  <2>4. pc' = [pc EXCEPT ![c] = "claimed"] /\ UNCHANGED <<messages, edit, steered, turnSteered>>
    BY <1>1 DEF Claim
  <2>5. pc'[c] = "claimed" /\ \A d \in Callers \ {c} : pc'[d] = pc[d]
    BY <1>0, <2>4
  <2> QED
    BY <2>2, <2>3, <2>4, <2>5
<1>2. ~Busy
  BY DEF PromptMessages, ContinueRun, RunQueued, CannotRequeue
<1>3. \A d \in Callers : ~InRun(d)
  BY <1>2 DEF Busy, RunInv, SlotInv
<1>4. CASE \E m \in Messages : PromptMessages(c, m)
  <2>1. PICK m \in fresh : Claim(c, <<User(m)>>, FALSE) /\ fresh' = fresh \ {m}
                            /\ UNCHANGED <<steering, followUps>>
    BY <1>4 DEF PromptMessages
  <2> QED
    BY <1>1, <1>3, <2>1
<1>5. CASE ContinueRun(c) \/ RunQueued(c)
  <2>1. /\ UNCHANGED fresh
        /\ \/ Claim(c, <<>>, FALSE) /\ UNCHANGED <<steering, followUps>>
           \/ /\ Claim(c, Taken(steering, SteeringMode), TRUE)
              /\ steering' = Left(steering, SteeringMode) /\ UNCHANGED followUps
           \/ /\ Claim(c, Taken(followUps, FollowUpMode), FALSE)
              /\ followUps' = Left(followUps, FollowUpMode) /\ UNCHANGED steering
    BY <1>5 DEF ContinueRun, RunQueued, Continuation
  <2>2. CASE Claim(c, <<>>, FALSE) /\ UNCHANGED <<steering, followUps>>
    BY <1>1, <1>3, <2>1, <2>2
  <2>3. CASE /\ Claim(c, Taken(steering, SteeringMode), TRUE)
             /\ steering' = Left(steering, SteeringMode) /\ UNCHANGED followUps
    BY <1>1, <1>3, <2>1, <2>3 DEF Fetches
  <2>4. CASE /\ Claim(c, Taken(followUps, FollowUpMode), FALSE)
             /\ followUps' = Left(followUps, FollowUpMode) /\ UNCHANGED steering
    BY <1>1, <1>3, <2>1, <2>4
  <2> QED
    BY <2>1, <2>2, <2>3, <2>4
<1> QED
  BY <1>4, <1>5

(* A single message, or none, is in order.                                 *)
LEMMA SingleInOrder ==
  /\ Submitted(<<>>) = {} /\ InOrder(Prec, <<>>)
  /\ \A m \in Messages : Submitted(<<User(m)>>) = {m} /\ InOrder(Prec, <<User(m)>>)
<1>1. Submitted(<<>>) = {} /\ InOrder(Prec, <<>>)
  BY SubmittedEmpty DEF InOrder
<1>2. ASSUME NEW m \in Messages PROVE Submitted(<<User(m)>>) = {m} /\ InOrder(Prec, <<User(m)>>)
  <2> DEFINE s == <<User(m)>>
  <2>1. DOMAIN s = {1} /\ s[1] = User(m) /\ Owner(User(m)) = {m}
    BY OwnerIs
  <2> HIDE DEF s
  <2>2. Submitted(s) = {m} /\ InOrder(Prec, s)
    BY <2>1 DEF Submitted, Owner, InOrder
  <2> QED
    BY <2>2 DEF s
<1> QED
  BY <1>1, <1>2

LEMMA OrderClaims ==
  ASSUME RunInv, PlacesInv, OrderInv, NEW c \in Callers,
         ContinueRun(c) \/ RunQueued(c) \/ \E m \in Messages : PromptMessages(c, m)
  PROVE  OrderInv'
<1>1. /\ UNCHANGED <<messages, edit, steered>> /\ \A d \in Callers \ {c} : run'[d].todo = run[d].todo
      /\ InOrder(Prec, steering) /\ Unsteered(fresh) /\ Unsteered({}) /\ fresh \subseteq Messages
      /\ Submitted(steering) \in SUBSET Messages
  BY ClaimsDo, SubmittedType DEF OrderInv, Unsteered, RunInv, TypeInv, TypeOK
<1>2. CASE run'[c].todo = <<>> /\ UNCHANGED <<steering, followUps, fresh>>
  <2>1. Held(c)' = {} /\ InOrder(Prec, run'[c].todo) /\ Across(Prec, Held(c)', Submitted(steering'))
    BY <1>2, SingleInOrder DEF Held, Across
  <2> QED
    BY <1>1, <1>2, <2>1, OrderKept
<1>3. CASE \/ Fetches(c) /\ UNCHANGED <<followUps, fresh>>
           \/ /\ run'[c].todo = Taken(followUps, FollowUpMode)
              /\ followUps' = Left(followUps, FollowUpMode) /\ UNCHANGED <<steering, fresh>>
  BY <1>1, <1>3, OrderDrained
<1>4. CASE /\ \E m \in fresh : run'[c].todo = <<User(m)>> /\ fresh' = fresh \ {m}
           /\ UNCHANGED <<steering, followUps>>
  <2>1. PICK m \in fresh : run'[c].todo = <<User(m)>> /\ fresh' = fresh \ {m}
    BY <1>4
  <2>2. Held(c)' = {m} /\ InOrder(Prec, run'[c].todo) /\ m \in Messages
    BY <1>1, <2>1, SingleInOrder DEF Held
  <2>3. Unsteered({m})
    BY <1>1 DEF Unsteered
  <2>4. Across(Prec, {m}, Submitted(steering))
    BY <1>1, <2>2, <2>3, PlainAcross
  <2>5. Across(Prec, Held(c)', Submitted(steering')) /\ Held(c)' \subseteq {m}
    BY <1>4, <2>2, <2>4
  <2> QED
    BY <1>1, <1>4, <2>1, <2>2, <2>3, <2>5, OrderKept
<1> QED
  BY <1>2, <1>3, <1>4, ClaimsDo

(* Edits of the transcript keep parts of it, or of a snapshot of it.       *)
LEMMA OrderEdited ==
  ASSUME RunInv, OrderInv, NEW c \in Callers
  PROVE  /\ CompactCheck(c) => OrderInv'
         /\ Reset(c) => OrderInv'
         /\ EditStep(c) => OrderInv'
<1>0. /\ edit \in [Callers -> EditState] /\ edit[c] \in EditState /\ NoEdit.snap = <<>>
      /\ InOrder(Prec, messages) /\ InOrder(Prec, steering) /\ InOrder(Prec, <<>>)
      /\ Submitted(<<>>) = {} /\ \A B : Across(Prec, {}, B)
      /\ Across(Prec, Submitted(messages), Submitted(steering))
      /\ \A d \in Callers : Across(Prec, Submitted(messages), Held(d))
  BY SingleInOrder DEF RunInv, TypeInv, TypeOK, OrderInv, NoEdit, Across
<1>1. ASSUME CompactSnapshot(c) PROVE OrderInv'
  <2> DEFINE now == [step |-> "summarizing", snap |-> messages, queued |-> 0,
                     mid |-> OtherRuns(c)]
  <2>1. edit' = [edit EXCEPT ![c] = now] /\ now.snap = messages
        /\ UNCHANGED <<messages, steering, followUps, fresh, steered, run>>
    BY <1>1 DEF CompactSnapshot, state, history
  <2> HIDE DEF now
  <2>2. \A d \in Callers : edit'[d].snap \in {edit[d].snap, <<>>, messages}
    BY <1>0, <2>1
  <2> QED
    BY <2>1, <2>2, OrderStill
<1>2. ASSUME Reset(c) PROVE OrderInv'
  <2>1. /\ messages' = <<>> /\ steering' = <<>> /\ followUps' = <<>> /\ UNCHANGED <<fresh, steered, run>>
        /\ edit' = [edit EXCEPT ![c].step = "reset"]
    BY <1>2 DEF Reset, StepEdit
  <2>2. \A d \in Callers : edit'[d].snap = edit[d].snap
    BY <1>0, <2>1 DEF EditState
  <2> QED
    BY <1>0, <2>1, <2>2, OrderMoved
<1>3. ASSUME EditStep(c), ~CompactApply(c), ~CompactClear(c),
             ~CompactSnapshot(c)
      PROVE  OrderInv'
  <2>1. UNCHANGED <<messages, steering, followUps, fresh, steered, run>>
    BY <1>3 DEF EditStep, CompactCount, CompactRefused, CompactAnnounce, ResetAnnounce,
       TooShort, state, history
  <2>2. \A n : /\ [edit[c] EXCEPT !.step = "counted", !.queued = n].snap = edit[c].snap
               /\ [edit[c] EXCEPT !.step = "clearing", !.snap = <<>>].snap = <<>>
    BY <1>0 DEF EditState
  <2> DEFINE n == Len(steering) + Len(followUps)
             counted == [edit[c] EXCEPT !.step = "counted", !.queued = n]
             clearing == [edit[c] EXCEPT !.step = "clearing", !.snap = <<>>]
  <2>3. \E x \in {counted, clearing, NoEdit} : edit' = [edit EXCEPT ![c] = x]
    BY <1>3 DEF EditStep, CompactCount, CompactRefused, CompactAnnounce, ResetAnnounce,
       TooShort
  <2>4. counted.snap = edit[c].snap /\ clearing.snap = <<>>
    BY <2>2
  <2> HIDE DEF counted, clearing
  <2>5. \A d \in Callers : edit'[d].snap \in {edit[d].snap, <<>>, messages}
    BY <1>0, <2>3, <2>4
  <2> QED
    BY <2>1, <2>5, OrderStill
<1>4. ASSUME CompactClear(c) PROVE OrderInv'
  <2>1. /\ steering' = <<>> /\ followUps' = <<>> /\ UNCHANGED <<messages, fresh, steered, run>>
        /\ edit' = [edit EXCEPT ![c] = NoEdit]
    BY <1>4 DEF CompactClear
  <2>2. \A d \in Callers : edit'[d].snap \in {edit[d].snap, <<>>}
    BY <1>0, <2>1
  <2> QED
    BY <1>0, <2>1, <2>2, OrderMoved
<1>5. ASSUME CompactApply(c) PROVE OrderInv'
  <2>1. /\ UNCHANGED <<steering, followUps, fresh, steered, run>>
        /\ edit' = [edit EXCEPT ![c] = [edit[c] EXCEPT !.step = "compacted", !.snap = messages']]
    BY <1>5 DEF CompactApply
  <2>2. PICK cut \in CutPoints(edit[c].snap) :
          messages' = <<Marker>> \o SubSeq(edit[c].snap, cut, Len(edit[c].snap))
    BY <1>5 DEF CompactApply
  <2>3. edit[c].snap \in Seq(Entry) /\ InOrder(Prec, edit[c].snap)
    BY <1>0 DEF EditState, OrderInv
  <2>4. Submitted(messages') \subseteq Submitted(edit[c].snap) /\ InOrder(Prec, messages')
    BY <2>2, <2>3, SubmittedCut, InOrderCut
  <2>5. edit'[c].snap = messages' /\ \A d \in Callers \ {c} : edit'[d] = edit[d]
    BY <1>0, <2>1 DEF EditState
  <2>6. /\ Across(Prec, Submitted(messages'), Submitted(steering))
        /\ \A d \in Callers : Across(Prec, Submitted(messages'), Held(d))
    <3>1. /\ Across(Prec, Submitted(edit[c].snap), Submitted(steering))
          /\ \A d \in Callers : Across(Prec, Submitted(edit[c].snap), Held(d))
      BY DEF OrderInv
    <3> QED
      BY <2>4, <3>1 DEF Across
  <2> QED
    BY <1>0, <2>1, <2>4, <2>5, <2>6, OrderMoved
<1>6. ASSUME CompactCheck(c) PROVE OrderInv'
  <2>1. UNCHANGED <<messages, steering, followUps, fresh, steered, run>>
        /\ edit' = [edit EXCEPT ![c].step = "checked"]
    BY <1>6 DEF CompactCheck, StepEdit, state, history
  <2>2. \A d \in Callers : edit'[d].snap \in {edit[d].snap, <<>>, messages}
    BY <1>0, <2>1 DEF EditState
  <2> QED
    BY <2>1, <2>2, OrderStill
<1> QED
  BY <1>1, <1>2, <1>3, <1>4, <1>5, <1>6

(* A message that has just been steered comes after every other one.       *)
LEMMA SteeredLast ==
  ASSUME RunInv, OrderInv, NEW m \in fresh, Steer(m)
  PROVE  /\ \A x \in Messages \ {m}, y \in Messages :
              y = m \/ <<x, y>> \in Prec => <<x, y>> \in Prec'
         /\ \A A \in SUBSET Messages : Unsteered(A) /\ m \notin A => Unsteered(A)'
<1>1. steered \in Seq(Messages) /\ m \in Messages /\ steered' = Append(steered, m)
      /\ \A a \in DOMAIN steered : steered[a] # m
  BY DEF Steer, OrderInv, Unsteered, RunInv, TypeInv, TypeOK
<1>2. PICK t \in Seq(Messages) : t = Append(steered, m)
  BY <1>1
<1>3. PICK n \in Nat : n = Len(steered) + 1
  BY <1>1
<1>4. /\ DOMAIN t = DOMAIN steered \cup {n} /\ t[n] = m /\ \A a \in DOMAIN steered : t[a] = steered[a]
      /\ \A a \in DOMAIN steered : a < n
  BY <1>1, <1>2, <1>3
<1>5. ASSUME NEW x \in Messages \ {m}, NEW y \in Messages, y = m \/ <<x, y>> \in Prec,
             NEW a \in DOMAIN t, NEW b \in DOMAIN t, t[a] = x, t[b] = y
      PROVE  a < b
  <2>1. a \in DOMAIN steered /\ steered[a] = x
    BY <1>4, <1>5
  <2>2. CASE y = m
    BY <1>1, <1>4, <1>5, <2>1, <2>2
  <2>3. CASE y # m
    <3>1. b \in DOMAIN steered /\ steered[b] = y /\ <<x, y>> \in Prec
      BY <1>4, <1>5, <2>3
    <3> QED
      BY <2>1, <3>1 DEF Prec
  <2> QED
    BY <2>2, <2>3
<1>6. \A x \in Messages \ {m}, y \in Messages :
        y = m \/ <<x, y>> \in Prec => <<x, y>> \in Prec'
  BY <1>1, <1>2, <1>5 DEF Prec
<1>7. \A A \in SUBSET Messages : Unsteered(A) /\ m \notin A => Unsteered(A)'
  BY <1>1, <1>2, <1>4 DEF Unsteered
<1> QED
  BY <1>6, <1>7

(* What the threads hold is theirs alone.                                  *)
LEMMA FreshIsNowhere ==
  ASSUME PlacesInv, NEW m \in fresh
  PROVE  /\ m \notin Submitted(messages) /\ m \notin Submitted(steering) /\ m \notin Submitted(followUps)
         /\ \A d \in Callers : m \notin Held(d) /\ m \notin Submitted(edit[d].snap)
<1>1. m \notin Submitted(messages) /\ m \notin Submitted(steering) /\ m \notin Submitted(followUps)
      /\ m \notin gone
  BY SomeSorted DEF Sorted
<1>2. ASSUME NEW d \in Callers PROVE m \notin Held(d)
  <2>1. CASE InRun(d)
    BY <2>1 DEF PlacesInv, Sorted, Held
  <2>2. CASE ~InRun(d)
    BY <2>2, SubmittedEmpty DEF PlacesInv, Held, InRun, LoopPhases, Carrying
  <2> QED
    BY <2>1, <2>2
<1>3. \A d \in Callers : m \notin Submitted(edit[d].snap)
  BY <1>1 DEF PlacesInv
<1> QED
  BY <1>1, <1>2, <1>3

LEMMA OrderSteered ==
  ASSUME RunInv, PlacesInv, OrderInv, NEW m \in fresh, Steer(m)
  PROVE  OrderInv'
<1>0. /\ steering \in Seq(Entry) /\ m \in Messages /\ User(m) \in Entry /\ Owner(User(m)) = {m}
      /\ fresh' = fresh \ {m} /\ steering' = Append(steering, User(m)) /\ fresh \subseteq Messages
      /\ UNCHANGED <<messages, followUps, run, edit>>
  BY SeqMonotone, EntryType, OwnerIs DEF Steer, threads, RunInv, TypeInv, TypeOK
<1> PICK R \in SUBSET (Messages \X Messages) : R = Prec'
  BY DEF Prec
<1>1. \A x \in Messages \ {m}, y \in Messages : y = m \/ <<x, y>> \in Prec => <<x, y>> \in R
  BY SteeredLast
<1>2. ASSUME NEW A \in SUBSET Messages, NEW B \in SUBSET Messages, m \notin A, Across(Prec, A, B)
      PROVE  Across(R, A, B) /\ Across(R, A, B \cup {m})
  BY <1>0, <1>1, <1>2 DEF Across
<1>3. ASSUME NEW s, m \notin Submitted(s), InOrder(Prec, s) PROVE InOrder(R, s)
  <2> SUFFICES ASSUME NEW i \in DOMAIN s, NEW j \in DOMAIN s, NEW x \in Messages, NEW y \in Messages,
                      i < j, s[i] = User(x), s[j] = User(y)
               PROVE  <<x, y>> \in R
    BY DEF InOrder
  <2>1. x # m /\ <<x, y>> \in Prec
    BY <1>3 DEF InOrder, Submitted
  <2> QED
    BY <1>1, <2>1
<1>4. Submitted(steering') = Submitted(steering) \cup {m} /\ Submitted(steering) \subseteq Messages
  BY <1>0, SubmittedAppend, SubmittedType
<1>5. InOrder(R, steering')
  <2>1. InOrder(R, steering)
    BY <1>3, FreshIsNowhere DEF OrderInv
  <2>2. Across(R, Submitted(steering), {m})
    BY <1>0, <1>1, <1>4, FreshIsNowhere DEF Across
  <2> QED
    BY <1>0, <2>1, <2>2, InOrderAppend
<1>6. Unsteered(fresh)' /\ Unsteered(Submitted(followUps))'
  <2>1. Unsteered(fresh \ {m}) /\ fresh \ {m} \in SUBSET Messages /\ m \notin fresh \ {m}
    BY <1>0 DEF OrderInv, Unsteered
  <2>2. PICK A \in SUBSET Messages : A = fresh \ {m}
    BY <2>1
  <2>3. Unsteered(A)'
    BY <2>1, <2>2, SteeredLast
  <2>4. PICK B \in SUBSET Messages : B = Submitted(followUps)
    BY SubmittedType
  <2>5. Unsteered(B)'
    BY <2>4, SteeredLast, FreshIsNowhere DEF OrderInv
  <2>6. Submitted(followUps)' = B
    BY <1>0, <2>4
  <2>7. fresh' = A
    BY <1>0, <2>2
  <2> QED
    BY <2>3, <2>5, <2>6, <2>7 DEF Unsteered
<1>7. InOrder(R, messages') /\ Across(R, Submitted(messages'), Submitted(steering'))
  BY <1>0, <1>2, <1>3, <1>4, FreshIsNowhere, SubmittedType DEF OrderInv
<1>8. ASSUME NEW c \in Callers
      PROVE  /\ InOrder(R, run'[c].todo) /\ InOrder(R, edit'[c].snap)
             /\ Across(R, Submitted(messages'), Held(c)')
             /\ Across(R, Held(c)', Submitted(steering'))
             /\ Across(R, Submitted(edit'[c].snap), Submitted(steering'))
             /\ \A d \in Callers : Across(R, Submitted(edit'[d].snap), Held(c)')
  <2>1. /\ m \notin Held(c) /\ Held(c) \subseteq Messages /\ Held(c)' = Held(c)
        /\ m \notin Submitted(run[c].todo) /\ m \notin Submitted(messages)
        /\ Submitted(messages) \subseteq Messages
        /\ \A d \in Callers : m \notin Submitted(edit[d].snap) /\ Submitted(edit[d].snap) \subseteq Messages
    BY <1>0, FreshIsNowhere, SubmittedType DEF Held
  <2>2. InOrder(R, run'[c].todo) /\ InOrder(R, edit'[c].snap)
    BY <1>0, <1>3, <2>1 DEF OrderInv
  <2>3. /\ Across(R, Submitted(messages'), Held(c)')
        /\ Across(R, Held(c)', Submitted(steering'))
        /\ Across(R, Submitted(edit'[c].snap), Submitted(steering'))
    BY <1>0, <1>2, <1>4, <2>1 DEF OrderInv
  <2>4. \A d \in Callers : Across(R, Submitted(edit'[d].snap), Held(c)')
    BY <1>0, <1>2, <2>1 DEF OrderInv
  <2> QED
    BY <2>2, <2>3, <2>4
<1> QED
  BY <1>5, <1>6, <1>7, <1>8 DEF OrderInv

LEMMA OrderUser == RunInv /\ PlacesInv /\ OrderInv /\ UserStep => OrderInv'
<1> SUFFICES ASSUME RunInv, PlacesInv, OrderInv, UserStep PROVE OrderInv'
  OBVIOUS
<1>0. /\ followUps \in Seq(Entry) /\ UNCHANGED <<messages, run, edit>>
      /\ InOrder(Prec, messages) /\ InOrder(Prec, steering) /\ InOrder(Prec, <<>>)
      /\ Submitted(<<>>) = {} /\ Across(Prec, Submitted(messages), Submitted(steering))
      /\ \A d \in Callers : Across(Prec, Submitted(messages), Held(d))
  <2>1. followUps \in Seq(Entry)
    BY SeqMonotone, EntryType DEF RunInv, TypeInv, TypeOK
  <2>2. UNCHANGED <<messages, run, edit>>
    BY DEF UserStep, Steer, FollowUp, TakeQueued, Abort, threads
  <2> QED
    BY <2>1, <2>2, SingleInOrder DEF OrderInv
<1>1. CASE \E m \in Messages : Steer(m)
  BY <1>1, OrderSteered DEF Steer
<1>2. CASE \E m \in Messages : FollowUp(m)
  <2>1. PICK m \in Messages : FollowUp(m)
    BY <1>2
  <2>2. User(m) \in Entry /\ Owner(User(m)) = {m} /\ m \in fresh /\ fresh' = fresh \ {m}
        /\ followUps' = Append(followUps, User(m)) /\ UNCHANGED <<steering, steered>>
    BY <2>1, EntryType, OwnerIs DEF FollowUp
  <2>3. Submitted(followUps') = Submitted(followUps) \cup {m}
    BY <1>0, <2>2, SubmittedAppend
  <2> QED
    BY <1>0, <2>2, <2>3, OrderMoved
<1>3. CASE TakeQueued
  <2>1. steering' = <<>> /\ followUps' = <<>> /\ UNCHANGED <<fresh, steered>>
    BY <1>3 DEF TakeQueued
  <2> QED
    BY <1>0, <2>1, OrderMoved
<1>4. CASE Abort
  <2>1. UNCHANGED <<steering, followUps, fresh, steered>>
    BY <1>4 DEF Abort, history
  <2> QED
    BY <1>0, <2>1, OrderStill
<1> QED
  BY <1>1, <1>2, <1>3, <1>4 DEF UserStep

LEMMA OrderStep == RunInv /\ PlacesInv /\ OrderInv /\ [Next]_vars => OrderInv'
<1> SUFFICES ASSUME RunInv, PlacesInv, OrderInv, [Next]_vars PROVE OrderInv'
  OBVIOUS
<1>1. ASSUME NEW c \in Callers, CallStep(c) PROVE OrderInv'
  BY <1>1, OrderClaims, OrderEdited DEF CallStep
<1>2. ASSUME NEW c \in Callers, LoopStep(c) PROVE OrderInv'
  BY <1>2, OrderPhases, OrderRecorded, OrderReplies, OrderJoined, OrderPolls, OrderClaims DEF LoopStep
<1>3. ASSUME NEW c \in Callers, StreamStart(c) \/ RuntimePanic(c) \/ EditStep(c) PROVE OrderInv'
  BY <1>3, OrderPhases, OrderReplies, OrderEdited
<1>4. ASSUME NEW c \in Callers, NEW i \in 1..MaxCalls, ToolStep(c, i) PROVE OrderInv'
  BY <1>4, OrderPhases
<1>5. CASE Quiet \/ UNCHANGED vars
  BY <1>5, OrderStill DEF Quiet, vars, state, threads, history
<1> QED
  BY <1>1, <1>2, <1>3, <1>4, <1>5, OrderUser DEF Next

LEMMA OrderInit == Init => OrderInv
<1> SUFFICES ASSUME Init PROVE OrderInv
  OBVIOUS
<1>1. \A c \in Callers : run[c].todo = <<>> /\ edit[c].snap = <<>> /\ Held(c) = {}
  BY SubmittedEmpty DEF Init, NoRun, RunFrom, NoEdit, Held
<1>2. messages = <<>> /\ steering = <<>> /\ followUps = <<>> /\ DOMAIN steered = {}
  BY DEF Init
<1> QED
  BY <1>1, <1>2, SingleInOrder DEF OrderInv, Across, Unsteered

LEMMA OrderAlways == Spec => []OrderInv
<1>1. OrderInv /\ []RunInv /\ []PlacesInv /\ [][Next]_vars => []OrderInv
  BY OrderStep, PTL
<1> QED
  BY <1>1, OrderInit, RunAlways, PlacesAlways, PTL DEF Spec

-----------------------------------------------------------------------------
(* One steering message a turn.                                            *)

(* Only the running thread, or the one that begins or ends a run, matters. *)
LEMMA PaceKept ==
  ASSUME PaceInv, NEW c \in Callers, \A d \in Callers \ {c} : ~InRun(d) /\ pc'[d] = pc[d],
         SteeringMode = "one" => turnSteered' <= 1 /\ Paced(c)'
  PROVE  PaceInv'
<1>1. \A d \in Callers \ {c} : pc'[d] \notin LoopPhases
  BY DEF InRun
<1>2. \A d \in Callers \ {c} : Paced(d)'
  BY <1>1 DEF Paced, LoopPhases
<1> QED
  BY <1>2 DEF PaceInv

(* A step that leaves the runs and the count as they are.                  *)
LEMMA PaceStill ==
  ASSUME PaceInv, UNCHANGED <<pc, run, turnSteered>>,
         \A c \in Callers : Unsteered(Held(c)) => Unsteered(Held(c))'
  PROVE  PaceInv'
<1> SUFFICES ASSUME SteeringMode = "one", NEW c \in Callers PROVE turnSteered' <= 1 /\ Paced(c)'
  BY DEF PaceInv
<1>1. turnSteered <= 1 /\ Paced(c) /\ (Unsteered(Held(c)) => Unsteered(Held(c))')
  BY DEF PaceInv
<1>2. (AtMostOne(c) => AtMostOne(c)') /\ (Room(c) => Room(c)')
  BY <1>1 DEF AtMostOne, Room
<1> QED
  BY <1>1, <1>2 DEF Paced

LEMMA PaceFree ==
  ASSUME NEW c \in Callers,
         pc'[c] \notin {"claimed", "start", "poll", "inner", "hook", "afterHook", "inject", "results"}
  PROVE  Paced(c)'
BY DEF Paced

LEMMA TakesOne ==
  ASSUME NEW q PROVE Len(Taken(q, "one")) <= 1
<1>1. CASE q = <<>>
  BY <1>1 DEF Taken
<1>2. CASE q # <<>>
  <2> DEFINE one == <<Head(q)>>
  <2>1. Taken(q, "one") = one
    BY <1>2 DEF Taken
  <2>2. Len(one) = 1
    OBVIOUS
  <2>3. \A s : s = one => Len(s) = 1
    BY <2>2
  <2> HIDE DEF one
  <2>4. Len(Taken(q, "one")) = 1
    BY <2>1, <2>3, Zenon
  <2>5. \A n : n = 1 => n <= 1
    OBVIOUS
  <2> QED
    BY <2>4, <2>5, Zenon
<1> QED
  BY <1>1, <1>2

(* The batch of a run and what is said of it, one step later.              *)
LEMMA PaceSame ==
  ASSUME NEW c \in Callers, run'[c].todo = run[c].todo, UNCHANGED steered
  PROVE  /\ Held(c)' = Held(c) /\ (Unsteered(Held(c)) => Unsteered(Held(c))')
         /\ (AtMostOne(c) => AtMostOne(c)')
         /\ UNCHANGED turnSteered => (Room(c) => Room(c)')
<1>1. Held(c)' = Held(c)
  BY DEF Held
<1>2. Unsteered(Held(c)) => Unsteered(Held(c))'
  BY <1>1 DEF Unsteered
<1> QED
  BY <1>1, <1>2 DEF AtMostOne, Room

LEMMA PacePhases ==
  ASSUME RunInv, PlacesInv, PaceInv, NEW c \in Callers
  PROVE  /\ AgentStart(c) \/ RecordedAll(c) \/ InnerLoop(c) \/ InnerLoopExit(c) \/ HookReturn(c)
            \/ RequestAssistant(c) \/ FailTruncated(c) \/ StartExecution(c) \/ FinishRun(c)
            \/ ReleaseRun(c) \/ SkipRequest(c) => PaceInv'
         /\ \A s \in Stops, n \in 0..MaxCalls : Reply(c, s, n) => PaceInv'
         /\ \A i \in 1..MaxCalls : StartCall(c, i) \/ ToolStep(c, i) => PaceInv'
         /\ RuntimePanic(c) => PaceInv'
         /\ ReturnToCaller(c) => PaceInv'
         /\ Announce(c) \/ StreamStart(c) => PaceInv'
<1>0. /\ run \in [Callers -> RunState] /\ run[c] \in RunState /\ pc \in [Callers -> Phases]
      /\ turnSteered \in Nat
  BY DEF RunInv, TypeInv, TypeOK
<1>1. ASSUME InRun(c), \A d \in Callers \ {c} : pc'[d] = pc[d],
             SteeringMode = "one" => turnSteered' <= 1 /\ Paced(c)'
      PROVE  PaceInv'
  BY <1>1, OneRunner, PaceKept DEF RunInv
<1>2. SteeringMode = "one" => turnSteered <= 1 /\ Paced(c)
  BY DEF PaceInv
<1>3. CASE AgentStart(c)
  <2>1. InRun(c) /\ pc[c] = "claimed" /\ pc' = [pc EXCEPT ![c] = "start"] /\ turnSteered' = 0
        /\ UNCHANGED <<run, steered>>
    BY <1>3 DEF AgentStart, At, InRun, LoopPhases
  <2>2. pc'[c] = "start" /\ \A d \in Callers \ {c} : pc'[d] = pc[d]
    BY <1>0, <2>1
  <2>3. (Unsteered(Held(c)) => Unsteered(Held(c))') /\ (AtMostOne(c) => AtMostOne(c)')
    BY <2>1, PaceSame
  <2>4. ASSUME SteeringMode = "one" PROVE Paced(c)'
    <3>1. AtMostOne(c)' /\ (run'[c].skip \/ Unsteered(Held(c))')
      BY <1>2, <2>1, <2>3, <2>4 DEF Paced
    <3>2. Room(c)'
      BY <2>1, <3>1 DEF Room, AtMostOne
    <3> QED
      BY <2>1, <2>2, <3>1, <3>2 DEF Paced
  <2> QED
    BY <1>1, <2>1, <2>2, <2>4
<1>4. CASE RecordedAll(c)
  <2>1. /\ InRun(c) /\ UNCHANGED <<run, turnSteered, steered>> /\ \A d \in Callers \ {c} : pc'[d] = pc[d]
        /\ \/ pc[c] = "start" /\ pc'[c] = "poll"
           \/ pc'[c] \in {"request", "turnEnd"}
    BY <1>0, <1>4 DEF RecordedAll, At, InRun, LoopPhases, state, history
  <2>2. ASSUME SteeringMode = "one", pc[c] = "start", pc'[c] = "poll" PROVE Paced(c)'
    BY <1>2, <2>1, <2>2 DEF Paced
  <2> QED
    BY <1>1, <1>2, <2>1, <2>2, PaceFree
<1>5. CASE InnerLoop(c)
  <2>1. /\ InRun(c) /\ pc[c] = "inner" /\ UNCHANGED <<turnSteered, steered>>
        /\ run' = [run EXCEPT ![c].lastTurn = FALSE]
        /\ pc' = [pc EXCEPT ![c] = IF run[c].lastTurn THEN "hook" ELSE "inject"]
    BY <1>5 DEF InnerLoop, At, InRun, LoopPhases, history
  <2>2. run'[c].todo = run[c].todo
    BY <1>0, <2>1 DEF RunState
  <2>3. /\ pc'[c] = (IF run[c].lastTurn THEN "hook" ELSE "inject")
        /\ \A d \in Callers \ {c} : pc'[d] = pc[d]
    BY <1>0, <2>1
  <2>4. (AtMostOne(c) => AtMostOne(c)') /\ (Room(c) => Room(c)')
    BY <2>1, <2>2, PaceSame
  <2>5. ASSUME SteeringMode = "one" PROVE Paced(c)'
    BY <1>2, <2>1, <2>3, <2>4, <2>5 DEF Paced
  <2> QED
    BY <1>1, <1>2, <2>1, <2>3, <2>5
<1>6. CASE HookReturn(c)
  <2>1. /\ InRun(c) /\ pc[c] = "hook" /\ UNCHANGED <<run, turnSteered, steered>>
        /\ pc' = [pc EXCEPT ![c] = "afterHook"]
    BY <1>6 DEF HookReturn, At, InRun, LoopPhases, history
  <2>2. pc'[c] = "afterHook" /\ \A d \in Callers \ {c} : pc'[d] = pc[d]
    BY <1>0, <2>1
  <2>3. AtMostOne(c) => AtMostOne(c)'
    BY <2>1, PaceSame
  <2>4. ASSUME SteeringMode = "one" PROVE Paced(c)'
    BY <1>2, <2>1, <2>2, <2>3, <2>4 DEF Paced
  <2> QED
    BY <1>1, <1>2, <2>1, <2>2, <2>4
<1>7. ASSUME InRun(c), UNCHANGED turnSteered, NEW q \in {"outer", "waiting", "execute", "agentEnd",
               "requeue", "turnEnd", "prepare", "finish", "idle"}, pc' = [pc EXCEPT ![c] = q]
      PROVE  PaceInv'
  <2>1. pc'[c] = q /\ \A d \in Callers \ {c} : pc'[d] = pc[d]
    BY <1>0, <1>7
  <2>2. Paced(c)'
    BY <2>1, PaceFree
  <2> QED
    BY <1>1, <1>2, <1>7, <2>1, <2>2
<1>8. CASE \/ InnerLoopExit(c) \/ RequestAssistant(c) \/ FailTruncated(c) \/ StartExecution(c)
           \/ FinishRun(c) \/ ReleaseRun(c) \/ SkipRequest(c)
  <2>1. /\ InRun(c) /\ UNCHANGED turnSteered
        /\ \E q \in {"outer", "waiting", "execute", "agentEnd", "requeue", "turnEnd"} :
             pc' = [pc EXCEPT ![c] = q]
    BY <1>8 DEF InnerLoopExit, RequestAssistant, FailTruncated, StartExecution, FinishRun, ReleaseRun,
       SkipRequest, RecordReply, At, InRun, LoopPhases, history
  <2> QED
    BY <1>7, <2>1
<1>9. ASSUME NEW s \in Stops, NEW n \in 0..MaxCalls, Reply(c, s, n) PROVE PaceInv'
  <2>1. /\ InRun(c) /\ UNCHANGED turnSteered
        /\ pc' = [pc EXCEPT ![c] = IF IsTerminal(s) \/ n = 0 THEN "turnEnd" ELSE "prepare"]
    BY <1>9 DEF Reply, RecordReply, At, InRun, LoopPhases
  <2> QED
    BY <1>7, <2>1
<1>10. CASE RuntimePanic(c)
  <2>1. InRun(c) /\ UNCHANGED turnSteered /\ pc' = [pc EXCEPT ![c] = "turnEnd"]
    BY <1>10 DEF RuntimePanic, At, InRun, LoopPhases
  <2> QED
    BY <1>7, <2>1
<1>11. ASSUME NEW i \in 1..MaxCalls, StartCall(c, i) \/ ToolStep(c, i) PROVE PaceInv'
  <2>1. InRun(c) /\ UNCHANGED <<turnSteered, pc>> /\ pc[c] \in {"prepare", "execute"}
    BY <1>11 DEF StartCall, ToolStep, BeginTool, EndTool, At, InRun, LoopPhases, history
  <2>2. Paced(c)'
    BY <2>1, PaceFree
  <2> QED
    BY <1>1, <1>2, <2>1, <2>2
<1>12. CASE ReturnToCaller(c)
  <2>1. /\ pc[c] = "requeue" /\ pc' = [pc EXCEPT ![c] = "idle"] /\ run' = [run EXCEPT ![c] = NoRun]
        /\ UNCHANGED <<turnSteered, steered>>
    BY <1>12 DEF ReturnToCaller, history
  <2>2. /\ pc'[c] = "idle"
        /\ \A d \in Callers \ {c} : pc'[d] = pc[d] /\ run'[d] = run[d]
    BY <1>0, <2>1
  <2>3. ASSUME SteeringMode = "one", NEW d \in Callers \ {c} PROVE Paced(d)'
    <3>1. Paced(d) /\ (Unsteered(Held(d)) => Unsteered(Held(d))')
          /\ (AtMostOne(d) => AtMostOne(d)') /\ (Room(d) => Room(d)')
      BY <2>1, <2>2, <2>3, PaceSame DEF PaceInv
    <3> QED
      BY <2>1, <2>2, <3>1 DEF Paced
  <2>4. Paced(c)'
    BY <2>2, PaceFree
  <2> QED
    BY <1>2, <2>1, <2>3, <2>4 DEF PaceInv
<1>13. CASE Announce(c) \/ StreamStart(c)
  <2>1. UNCHANGED <<pc, run, turnSteered, steered>>
    BY <1>13 DEF Announce, StreamStart, history, threads
  <2>2. \A d \in Callers : Unsteered(Held(d)) => Unsteered(Held(d))'
    BY <2>1, PaceSame
  <2> QED
    BY <2>1, <2>2, PaceStill
<1> QED
  BY <1>3, <1>4, <1>5, <1>6, <1>8, <1>9, <1>10, <1>11, <1>12, <1>13

LEMMA PaceRecorded ==
  ASSUME RunInv, PlacesInv, PaceInv, NEW c \in Callers, RecordNext(c)
  PROVE  PaceInv'
<1>1. /\ InRun(c) /\ pc[c] \in {"start", "inject", "results"} /\ run[c].todo # <<>>
      /\ UNCHANGED <<pc, steered>>
  BY DEF RecordNext, At, InRun, LoopPhases
<1>2. \A d \in Callers \ {c} : ~InRun(d)
  BY <1>1, OneRunner DEF RunInv
<1>3. /\ run[c].todo \in Seq(Entry) /\ run \in [Callers -> RunState] /\ run[c] \in RunState
      /\ steered \in Seq(Messages) /\ turnSteered \in Nat
  BY <1>2, PlacesKnow DEF RunInv, TypeInv, TypeOK
<1> PICK todo \in Seq(Entry) : todo = run[c].todo
  BY <1>3
<1>4. /\ Head(todo) \in Entry /\ Tail(todo) \in Seq(Entry)
      /\ Submitted(todo) = Owner(Head(todo)) \cup Submitted(Tail(todo))
  BY <1>1, SubmittedHead
<1>5. run' = [run EXCEPT ![c].todo = Tail(todo)]
  BY DEF RecordNext
<1>6. run'[c].todo = Tail(todo) /\ run'[c].skip = run[c].skip
  BY <1>3, <1>5 DEF RunState
<1>7. turnSteered' = IF \E i \in DOMAIN steered : Head(todo) = User(steered[i])
                     THEN turnSteered + 1 ELSE turnSteered
  BY DEF RecordNext
<1>8. ASSUME Unsteered(Held(c)) PROVE Unsteered(Held(c))' /\ turnSteered' = turnSteered
  <2>1. Held(c)' \subseteq Held(c)
    BY <1>4, <1>6 DEF Held
  <2>2. ASSUME NEW i \in DOMAIN steered PROVE Head(todo) # User(steered[i])
    <3>1. steered[i] \in Messages /\ steered[i] \notin Owner(Head(todo))
      BY <1>3, <1>4, <1>8 DEF Held, Unsteered
    <3> QED
      BY <3>1 DEF Owner
  <2> QED
    BY <1>1, <1>7, <1>8, <2>1, <2>2 DEF Unsteered
<1>9. ASSUME Len(run[c].todo) <= 1 PROVE Unsteered(Held(c))'
  <2>1. Tail(todo) = <<>>
    BY <1>1, <1>9
  <2>2. Held(c)' = {}
    BY <1>6, <2>1, SubmittedEmpty DEF Held
  <2> QED
    BY <2>2 DEF Unsteered
<1>10. turnSteered = 0 => turnSteered' <= 1
  BY <1>7
<1>11. ASSUME SteeringMode = "one" PROVE turnSteered' <= 1 /\ Paced(c)'
  <2>1. turnSteered <= 1 /\ Paced(c)
    BY <1>11 DEF PaceInv
  <2>2. CASE pc[c] = "results"
    <3>1. Unsteered(Held(c))
      BY <2>1, <2>2 DEF Paced
    <3> QED
      BY <1>1, <1>8, <2>1, <2>2, <3>1 DEF Paced
  <2>3. ASSUME Room(c) PROVE Room(c)' /\ turnSteered' <= 1
    <3>1. CASE Len(run[c].todo) <= 1 /\ turnSteered = 0
      BY <1>9, <1>10, <3>1 DEF Room
    <3>2. CASE Unsteered(Held(c)) /\ turnSteered <= 1
      <4>1. Unsteered(Held(c))' /\ turnSteered' <= 1
        BY <1>8, <3>2
      <4> QED
        BY <4>1 DEF Room
    <3> QED
      BY <2>3, <3>1, <3>2 DEF Room
  <2>4. CASE pc[c] = "inject"
    BY <1>1, <2>1, <2>3, <2>4 DEF Paced
  <2>5. CASE pc[c] = "start"
    <3>1. Room(c) /\ (run[c].skip \/ (Unsteered(Held(c)) /\ turnSteered = 0))
      BY <2>1, <2>5 DEF Paced
    <3>2. run'[c].skip \/ (Unsteered(Held(c))' /\ turnSteered' = 0)
      BY <1>6, <1>8, <3>1
    <3> QED
      BY <1>1, <2>3, <2>5, <3>1, <3>2 DEF Paced
  <2> QED
    BY <1>1, <2>2, <2>4, <2>5
<1> QED
  BY <1>1, <1>2, <1>11, PaceKept

(* A batch that was just taken from the steering queue.                    *)
LEMMA FetchedOne ==
  ASSUME RunInv, NEW c \in Callers, SteeringMode = "one", Fetches(c)
  PROVE  AtMostOne(c)' /\ (turnSteered' = 0 => Room(c)')
<1>1. Len(run'[c].todo) <= 1
  BY TakesOne DEF Fetches
<1> QED
  BY <1>1 DEF AtMostOne, Room

LEMMA QueuedUnsteered ==
  ASSUME RunInv, OrderInv, NEW c \in Callers, run'[c].todo = Taken(followUps, FollowUpMode),
         UNCHANGED steered
  PROVE  Unsteered(Held(c))'
<1>1. Held(c)' \subseteq Submitted(followUps)
  <2>1. followUps \in Seq(Entry)
    BY SeqMonotone, EntryType DEF RunInv, TypeInv, TypeOK
  <2> QED
    BY <2>1, SubmittedDrain DEF Held
<1> QED
  BY <1>1 DEF OrderInv, Unsteered

LEMMA PacePolls ==
  ASSUME RunInv, PlacesInv, OrderInv, PaceInv, NEW c \in Callers,
         InitialPoll(c) \/ NextTurn(c) \/ EndTurn(c) \/ OuterLoop(c)
  PROVE  PaceInv'
<1>0. /\ InRun(c) /\ pc[c] \in {"poll", "afterHook", "turnEnd", "outer"}
      /\ \A d \in Callers \ {c} : ~InRun(d) /\ pc'[d] = pc[d]
      /\ UNCHANGED steered
  <2>1. InRun(c)
    BY DEF InitialPoll, NextTurn, EndTurn, OuterLoop, At, InRun, LoopPhases
  <2> QED
    BY <2>1, OneRunner, PollsDo DEF RunInv
<1>1. Flags(c)
  BY <1>0, RunnerKnows
<1>2. SteeringMode = "one" => turnSteered <= 1 /\ Paced(c)
  BY DEF PaceInv
<1>3. ASSUME SteeringMode = "one" => turnSteered' <= 1 /\ Paced(c)' PROVE PaceInv'
  BY <1>0, <1>3, PaceKept
<1>4. CASE InitialPoll(c)
  <2>1. /\ UNCHANGED turnSteered /\ pc[c] = "poll" /\ pc'[c] = "inner"
        /\ run'[c].lastTurn = run[c].lastTurn
        /\ IF run[c].skip THEN UNCHANGED <<run, steering>> ELSE Fetches(c)
    BY <1>4, PollsDo
  <2>2. run'[c].lastTurn = FALSE
    <3>1. ~run[c].lastTurn /\ run[c] \in RunState
      BY <1>1, <2>1 DEF Flags, RunInv, TypeInv, TypeOK
    <3> QED
      BY <2>1, <3>1 DEF RunState
  <2>3. ASSUME SteeringMode = "one" PROVE Room(c)'
    <3>1. CASE run[c].skip
      <4>1. run'[c].todo = <<>>
        BY <2>1, <3>1 DEF PlacesInv, Carrying
      <4>2. Held(c)' = {}
        BY <4>1, SubmittedEmpty DEF Held
      <4> QED
        BY <1>2, <2>1, <2>3, <4>2 DEF Room, Unsteered
    <3>2. CASE ~run[c].skip
      <4>1. turnSteered' = 0
        BY <1>2, <2>1, <2>3, <3>2 DEF Paced
      <4> QED
        BY <2>1, <2>3, <3>2, <4>1, FetchedOne
    <3> QED
      BY <3>1, <3>2
  <2>4. SteeringMode = "one" => Paced(c)'
    BY <2>1, <2>2, <2>3 DEF Paced
  <2> QED
    BY <1>2, <1>3, <2>1, <2>4
<1>5. CASE NextTurn(c)
  <2>1. /\ turnSteered' = 0 /\ pc[c] = "afterHook" /\ pc'[c] = "inject"
        /\ IF run[c].todo = <<>> THEN Fetches(c) ELSE UNCHANGED <<run, steering>>
    BY <1>5, PollsDo
  <2>2. ASSUME SteeringMode = "one" PROVE Room(c)'
    <3>1. CASE run[c].todo = <<>>
      BY <2>1, <2>2, <3>1, FetchedOne
    <3>2. CASE run[c].todo # <<>>
      <4>1. AtMostOne(c)
        BY <1>2, <2>1, <2>2 DEF Paced
      <4>2. AtMostOne(c)'
        BY <1>0, <2>1, <3>2, <4>1, PaceSame
      <4> QED
        BY <2>1, <4>2 DEF AtMostOne, Room
    <3> QED
      BY <3>1, <3>2
  <2>3. SteeringMode = "one" => Paced(c)'
    BY <2>1, <2>2 DEF Paced
  <2> QED
    BY <1>3, <2>1, <2>3
<1>6. CASE EndTurn(c)
  <2>1. /\ UNCHANGED turnSteered
        /\ \/ pc'[c] = "finish"
           \/ pc'[c] = "inner" /\ run'[c].lastTurn = TRUE /\ Fetches(c)
    BY <1>6, PollsDo
  <2>2. CASE pc'[c] = "finish"
    BY <1>2, <1>3, <2>1, <2>2, PaceFree
  <2>3. CASE pc'[c] = "inner" /\ run'[c].lastTurn = TRUE /\ Fetches(c)
    <3>1. SteeringMode = "one" => Paced(c)'
      BY <2>3, FetchedOne DEF Paced
    <3> QED
      BY <1>2, <1>3, <2>1, <3>1
  <2> QED
    BY <2>1, <2>2, <2>3
<1>7. CASE OuterLoop(c)
  <2>1. /\ UNCHANGED turnSteered /\ pc[c] = "outer"
        /\ \/ pc'[c] = "finish"
           \/ /\ pc'[c] = "inner" /\ run'[c].lastTurn = run[c].lastTurn
              /\ run'[c].todo = Taken(followUps, FollowUpMode)
    BY <1>7, PollsDo
  <2>2. CASE pc'[c] = "finish"
    BY <1>2, <1>3, <2>1, <2>2, PaceFree
  <2>3. CASE /\ pc'[c] = "inner" /\ run'[c].lastTurn = run[c].lastTurn
             /\ run'[c].todo = Taken(followUps, FollowUpMode)
    <3>1. AtMostOne(c)'
      BY <1>0, <2>3, QueuedUnsteered DEF AtMostOne
    <3>2. run'[c].lastTurn
      BY <1>1, <2>1, <2>3 DEF Flags
    <3>3. Paced(c)'
      BY <2>3, <3>1, <3>2 DEF Paced
    <3> QED
      BY <1>2, <1>3, <2>1, <3>3
  <2> QED
    BY <2>1, <2>2, <2>3
<1> QED
  BY <1>4, <1>5, <1>6, <1>7

LEMMA PaceJoined ==
  ASSUME RunInv, PlacesInv, OrderInv, PaceInv, NEW c \in Callers, JoinTools(c)
  PROVE  PaceInv'
<1>1. /\ InRun(c) /\ pc' = [pc EXCEPT ![c] = "results"] /\ UNCHANGED turnSteered
      /\ pc \in [Callers -> Phases]
  BY DEF JoinTools, At, InRun, LoopPhases, history, RunInv, TypeInv, TypeOK
<1>2. pc'[c] = "results" /\ \A d \in Callers \ {c} : ~InRun(d) /\ pc'[d] = pc[d]
  BY <1>1, OneRunner DEF RunInv
<1>3. Unsteered(Held(c))'
  BY OrderJoined DEF Unsteered
<1>4. Paced(c)'
  BY <1>2, <1>3 DEF Paced
<1> QED
  BY <1>1, <1>2, <1>4, PaceKept DEF PaceInv

LEMMA PaceClaims ==
  ASSUME RunInv, PlacesInv, OrderInv, PaceInv, NEW c \in Callers,
         ContinueRun(c) \/ RunQueued(c) \/ \E m \in Messages : PromptMessages(c, m)
  PROVE  PaceInv'
<1>1. /\ \A d \in Callers : ~InRun(d) /\ (d # c => pc'[d] = pc[d])
      /\ UNCHANGED <<steered, turnSteered>> /\ pc'[c] = "claimed"
  BY ClaimsDo
<1>2. ASSUME Unsteered(Held(c))' PROVE AtMostOne(c)' /\ (run'[c].skip \/ Unsteered(Held(c))')
  BY <1>2 DEF AtMostOne
<1>3. ASSUME SteeringMode = "one" PROVE AtMostOne(c)' /\ (run'[c].skip \/ Unsteered(Held(c))')
  <2>1. CASE run'[c].todo = <<>>
    <3>1. Held(c)' = {}
      BY <2>1, SubmittedEmpty DEF Held
    <3> QED
      BY <1>2, <3>1 DEF Unsteered
  <2>2. CASE Fetches(c) /\ run'[c].skip
    BY <1>3, <2>2, FetchedOne
  <2>3. CASE run'[c].todo = Taken(followUps, FollowUpMode)
    BY <1>1, <1>2, <2>3, QueuedUnsteered
  <2>4. CASE \E m \in fresh : run'[c].todo = <<User(m)>>
    <3>1. PICK m \in fresh : run'[c].todo = <<User(m)>>
      BY <2>4
    <3>2. Held(c)' = {m}
      BY <3>1, SingleInOrder DEF Held, RunInv, TypeInv, TypeOK
    <3> QED
      BY <1>1, <1>2, <3>2 DEF OrderInv, Unsteered
  <2> QED
    BY <2>1, <2>2, <2>3, <2>4, ClaimsDo
<1>4. SteeringMode = "one" => Paced(c)'
  BY <1>1, <1>3 DEF Paced
<1> QED
  BY <1>1, <1>4, PaceKept DEF PaceInv

LEMMA PaceElsewhere ==
  ASSUME RunInv, PlacesInv, OrderInv, PaceInv,
         \/ UserStep \/ Quiet \/ UNCHANGED vars
         \/ \E c \in Callers : CompactCheck(c) \/ Reset(c) \/ EditStep(c)
  PROVE  PaceInv'
<1>1. UNCHANGED <<pc, run, turnSteered>>
  BY DEF UserStep, Steer, FollowUp, TakeQueued, Abort, Quiet, CompactCheck, Reset, EditStep,
     CompactCount, CompactRefused, CompactApply, CompactAnnounce, CompactClear, ResetAnnounce,
     CompactSnapshot, TooShort,
     vars, threads, history
<1>2. CASE \E m \in Messages : Steer(m)
  <2>1. PICK m \in fresh : Steer(m)
    BY <1>2 DEF Steer
  <2>2. ASSUME NEW c \in Callers, Unsteered(Held(c)) PROVE Unsteered(Held(c))'
    <3>1. PICK A \in SUBSET Messages : A = Held(c)
      BY SubmittedType DEF Held
    <3>2. Unsteered(A)'
      BY <2>1, <2>2, <3>1, SteeredLast, FreshIsNowhere
    <3>3. Held(c)' = A
      BY <1>1, <3>1 DEF Held
    <3> QED
      BY <3>2, <3>3 DEF Unsteered
  <2> QED
    BY <1>1, <2>2, PaceStill
<1>3. CASE ~ \E m \in Messages : Steer(m)
  <2>1. UNCHANGED steered
    BY <1>3 DEF UserStep, FollowUp, TakeQueued, Abort, Quiet, CompactCheck, Reset, EditStep,
       CompactCount, CompactRefused, CompactApply, CompactAnnounce, CompactClear, ResetAnnounce,
     CompactSnapshot, TooShort,
       vars, threads, history
  <2>2. \A c \in Callers : Unsteered(Held(c)) => Unsteered(Held(c))'
    BY <1>1, <2>1, PaceSame
  <2> QED
    BY <1>1, <2>2, PaceStill
<1> QED
  BY <1>2, <1>3

LEMMA PaceStep == RunInv /\ PlacesInv /\ OrderInv /\ PaceInv /\ [Next]_vars => PaceInv'
<1> SUFFICES ASSUME RunInv, PlacesInv, OrderInv, PaceInv, [Next]_vars PROVE PaceInv'
  OBVIOUS
<1>1. ASSUME NEW c \in Callers, CallStep(c) PROVE PaceInv'
  BY <1>1, PaceClaims, PaceElsewhere DEF CallStep
<1>2. ASSUME NEW c \in Callers, LoopStep(c) PROVE PaceInv'
  BY <1>2, PacePhases, PaceRecorded, PaceJoined, PacePolls, PaceClaims DEF LoopStep
<1>3. ASSUME NEW c \in Callers, StreamStart(c) \/ RuntimePanic(c) \/ EditStep(c) PROVE PaceInv'
  BY <1>3, PacePhases, PaceElsewhere
<1>4. ASSUME NEW c \in Callers, NEW i \in 1..MaxCalls, ToolStep(c, i) PROVE PaceInv'
  BY <1>4, PacePhases
<1>5. CASE Quiet \/ UserStep \/ UNCHANGED vars
  BY <1>5, PaceElsewhere
<1> QED
  BY <1>1, <1>2, <1>3, <1>4, <1>5 DEF Next

LEMMA PaceInit == Init => PaceInv
<1> SUFFICES ASSUME Init PROVE PaceInv
  OBVIOUS
<1>1. turnSteered = 0 /\ \A c \in Callers : pc[c] = "idle"
  BY DEF Init
<1>2. \A c \in Callers : Paced(c)
  BY <1>1 DEF Paced
<1> QED
  BY <1>1, <1>2 DEF PaceInv

(* What was steered reaches the transcript in the order it was sent, over  *)
(* whichever of the polls and restarts it gets there; and in one-at-a-time *)
(* mode a turn takes in one steering message at most, although three polls *)
(* can precede its request (agent.rs drain, run_loop, continuation).       *)
THEOREM SteeringKeepsOrder == Spec => []SteeringInOrder
<1>1. RunInv /\ PlacesInv /\ OrderInv /\ PaceInv => SteeringInOrder
  <2> SUFFICES ASSUME RunInv, PlacesInv, OrderInv, PaceInv PROVE SteeringInOrder
    OBVIOUS
  <2>1. ASSUME NEW c \in Callers, InRun(c),
               NEW i \in DOMAIN Pipeline(c), NEW j \in DOMAIN Pipeline(c),
               NEW a \in DOMAIN steered, NEW b \in DOMAIN steered, i < j,
               Pipeline(c)[i] = User(steered[a]), Pipeline(c)[j] = User(steered[b])
        PROVE  a < b
    <3>1. /\ messages \in Seq(Entry) /\ run[c].todo \in Seq(Entry) /\ steering \in Seq(Entry)
          /\ steered \in Seq(Messages)
      BY <2>1, OneRunner, PlacesKnow DEF RunInv, TypeInv, TypeOK
    <3>0. messages \o run[c].todo \in Seq(Entry)
      BY <3>1, ConcatProperties
    <3> PICK s \in Seq(Entry) : s = messages \o run[c].todo
      BY <3>0
    <3>2. InOrder(Prec, s) /\ Across(Prec, Submitted(s), Submitted(steering))
      <4>1. InOrder(Prec, s) /\ Submitted(s) \subseteq Submitted(messages) \cup Held(c)
        BY <3>1, InOrderConcat DEF OrderInv, Held
      <4> QED
        BY <4>1 DEF OrderInv, Across
    <3>3. InOrder(Prec, Pipeline(c))
      BY <3>1, <3>2, InOrderConcat DEF OrderInv, Pipeline
    <3>4. steered[a] \in Messages /\ steered[b] \in Messages
      BY <3>1
    <3>5. <<steered[a], steered[b]>> \in Prec
      BY <2>1, <3>3, <3>4 DEF InOrder
    <3> QED
      BY <3>5 DEF Prec
  <2> QED
    BY <2>1 DEF SteeringInOrder, PaceInv
<1>2. PaceInv /\ []RunInv /\ []PlacesInv /\ []OrderInv /\ [][Next]_vars => []PaceInv
  BY PaceStep, PTL
<1> QED
  BY <1>1, <1>2, PaceInit, RunAlways, PlacesAlways, OrderAlways, PTL DEF Spec
=============================================================================
