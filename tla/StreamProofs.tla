----------------------------- MODULE StreamProofs -----------------------------
(***************************************************************************)
(* The stream keeps its types and its bound, nothing follows a final       *)
(* event, and no wakeup is lost, for any number of threads and any         *)
(* capacity.                                                               *)
(*                                                                         *)
(* A reply that respond returns was heard whole, whatever the capacity of  *)
(* the stream, the length of the reply and the budgets.                    *)
(*                                                                         *)
(* The invariant follows the events: the worker's count of what it offered *)
(* is what entered the stream, or one more while the last offer is still   *)
(* out; what entered is what was taken and then what is queued; what was   *)
(* taken is what the listener heard, or one more in the responder's hands. *)
(***************************************************************************)
EXTENDS ProviderStream, EventStreamProperties, SequenceTheorems, FiniteSetTheorems, TLAPS

\* What a step inside a call may do to the phases.
LEMMA ReturnType ==
    ASSUME TypeOK, NEW p \in Procs, NEW what \in Answer, NEW woken, Return(p, what, woken)
    PROVE  /\ phase' \in [Procs -> {"idle", "trying", "waiting", "expired"}]
           /\ answer' \in [Procs -> Answer]
BY DEF TypeOK, Return

LEMMA CallType ==
    ASSUME TypeOK, NEW p \in Procs, Call(p)
    PROVE  /\ phase' \in [Procs -> {"idle", "trying", "waiting", "expired"}]
           /\ answer' \in [Procs -> Answer]
BY DEF TypeOK, Call, Answer

LEMMA PushTypes ==
    ASSUME TypeOK, NEW p \in Pushers,
           StartPush(p) \/ OfferAgain(p) \/ PushStep(p)
    PROVE  TypeOK'
<1> p \in Procs
  BY DEF Procs
<1>1. CASE StartPush(p)
  <2>1. offer' \in [Pushers -> Event]
    BY <1>1 DEF StartPush, TypeOK, Event
  <2> QED
    BY <1>1, <2>1, CallType DEF StartPush, TypeOK, state, history
<1>2. CASE OfferAgain(p)
  BY <1>2, CallType DEF OfferAgain, TypeOK, state, history
<1>3. CASE Accept(p)
  <2>1. "pushed" \in Answer
    BY DEF Answer
  <2>2. offer[p] \in Event
    BY DEF TypeOK
  <2>3. queue' \in Seq(Event) /\ accepted' \in Seq(Event) /\ Len(queue') = Len(queue) + 1
    BY <1>3, <2>2 DEF Accept, TypeOK
  <2>4. Len(queue') <= Capacity
    BY <1>3, <2>3, CapacityAssumption DEF Accept, Accepts, HasRoom, TypeOK
  <2> QED
    BY <1>3, <2>1, <2>2, <2>3, <2>4, ReturnType DEF Accept, TypeOK
<1>4. CASE RefusePush(p)
  BY <1>4, ReturnType DEF RefusePush, TypeOK, Answer, state, history
<1>5. CASE WaitForRoom(p)
  BY <1>5 DEF WaitForRoom, TypeOK, state, history
<1>6. CASE PushTimesOut(p)
  BY <1>6, ReturnType DEF PushTimesOut, TypeOK, Answer, state, history
<1> QED
  BY <1>1, <1>2, <1>3, <1>4, <1>5, <1>6 DEF PushStep

LEMMA TakeTypes ==
    ASSUME TypeOK, NEW c \in Takers, StartTake(c) \/ TakeStep(c)
    PROVE  TypeOK'
<1> c \in Procs
  BY DEF Procs
<1>1. CASE StartTake(c)
  BY <1>1, CallType DEF StartTake, TypeOK, state, history
<1>2. CASE Take(c)
  <2>1. "event" \in Answer
    BY DEF Answer
  <2>2. queue' \in Seq(Event) /\ taken' \in Seq(Event) /\ Len(queue') <= Capacity
    BY <1>2, CapacityAssumption DEF Take, TypeOK
  <2> QED
    BY <1>2, <2>1, <2>2, ReturnType DEF Take, TypeOK
<1>3. CASE TakeEnd(c)
  BY <1>3, ReturnType DEF TakeEnd, TypeOK, Answer, state, history
<1>4. CASE WaitForEvent(c)
  BY <1>4 DEF WaitForEvent, TypeOK, state, history
<1>5. CASE TakeTimesOut(c)
  BY <1>5, ReturnType DEF TakeTimesOut, TypeOK, Answer, state, history
<1> QED
  BY <1>1, <1>2, <1>3, <1>4, <1>5 DEF TakeStep

LEMMA WatchTypes ==
    ASSUME TypeOK, NEW w \in Watchers, StartTake(w) \/ WatchStep(w)
    PROVE  TypeOK'
<1> w \in Procs
  BY DEF Procs
<1>1. CASE StartTake(w)
  BY <1>1, CallType DEF StartTake, TypeOK, state, history
<1>2. CASE Resolve(w)
  BY <1>2, ReturnType DEF Resolve, TypeOK, Answer, state, history
<1>3. CASE WaitForResult(w)
  BY <1>3 DEF WaitForResult, TypeOK, state, history
<1>4. CASE ResultTimesOut(w)
  BY <1>4, ReturnType DEF ResultTimesOut, TypeOK, Answer, state, history
<1> QED
  BY <1>1, <1>2, <1>3, <1>4 DEF WatchStep

LEMMA InitTypes == Init => TypeOK
<1> SUFFICES ASSUME Init PROVE TypeOK
  OBVIOUS
<1>1. <<>> \in Seq(Event) /\ Len(<<>>) = 0
  OBVIOUS
<1>2. offer \in [Pushers -> Event]
  BY DEF Init, Event
<1>3. queue \in Seq(Event) /\ Len(queue) <= Capacity
  BY <1>1, CapacityAssumption DEF Init
<1>4. accepted \in Seq(Event) /\ taken \in Seq(Event)
  BY <1>1 DEF Init
<1>5. /\ phase \in [Procs -> {"idle", "trying", "waiting", "expired"}]
      /\ answer \in [Procs -> Answer]
  BY DEF Init, Answer
<1> QED
  BY <1>2, <1>3, <1>4, <1>5 DEF Init, TypeOK

\* The stream and every call on it keep their types, and the queue never
\* holds more than its capacity.
THEOREM TypeCorrect == Spec => []TypeOK
<1>1. Init => TypeOK
  BY InitTypes
<1>2. TypeOK /\ [Next]_vars => TypeOK'
  <2> SUFFICES ASSUME TypeOK, [Next]_vars PROVE TypeOK'
    OBVIOUS
  <2>1. CASE \E p \in Pushers : StartPush(p) \/ OfferAgain(p) \/ PushStep(p)
    BY <2>1, PushTypes
  <2>2. CASE \E c \in Takers : StartTake(c) \/ TakeStep(c)
    BY <2>2, TakeTypes
  <2>3. CASE \E w \in Watchers : StartTake(w) \/ WatchStep(w)
    BY <2>3, WatchTypes
  <2>4. CASE \E p \in Procs : TimerFires(p) \/ WakesEarly(p)
    BY <2>4 DEF TimerFires, WakesEarly, TypeOK, state, history
  <2>5. CASE End
    BY <2>5 DEF End, TypeOK, history
  <2>6. CASE UNCHANGED vars
    BY <2>6 DEF vars, TypeOK
  <2> QED
    BY <2>1, <2>2, <2>3, <2>4, <2>5, <2>6 DEF Next
<1> QED
  BY <1>1, <1>2, PTL DEF Spec

(***************************************************************************)
(* Nothing follows a final event                                           *)
(***************************************************************************)
\* Only an accepted push touches what FinalMessageLast speaks of, and it is
\* accepted on an open stream, which holds no final event yet.
LEMMA FinalStep ==
    ASSUME TypeOK, FinalMessageLast, [Next]_vars
    PROVE  FinalMessageLast'
<1>1. CASE \E p \in Pushers : Accept(p)
  <2> PICK p \in Pushers : Accept(p)
    BY <1>1
  <2>1. result = NoEvent
    BY DEF Accept, Accepts, Closed
  <2>2. \A i \in DOMAIN accepted : ~accepted[i].final
    BY <2>1, NoEventAssumption DEF FinalMessageLast, TypeOK
  <2>3. offer[p] \in Event
    BY DEF TypeOK
  <2>4. /\ accepted' = Append(accepted, offer[p])
        /\ result' = IF offer[p].final THEN offer[p] ELSE result
    BY DEF Accept
  <2>5. \A i \in DOMAIN accepted' :
            /\ i \in DOMAIN accepted => accepted'[i] = accepted[i]
            /\ i \notin DOMAIN accepted => i = Len(accepted') /\ accepted'[i] = offer[p]
    BY <2>3, <2>4 DEF TypeOK
  <2> QED
    BY <2>2, <2>4, <2>5 DEF FinalMessageLast
<1>2. CASE UNCHANGED <<accepted, result>>
  BY <1>2 DEF FinalMessageLast
<1> QED
  BY <1>1, <1>2 DEF Next, vars, StartPush, OfferAgain, PushStep, RefusePush, WaitForRoom,
     PushTimesOut, StartTake, TakeStep, Take, TakeEnd, WaitForEvent, TakeTimesOut,
     WatchStep, Resolve, WaitForResult, ResultTimesOut, TimerFires, WakesEarly, End,
     state, history

\* A final event is the last one that enters the stream and the one result()
\* reports, whoever pushes.
THEOREM NothingAfterFinal == Spec => []FinalMessageLast
<1>1. Init => FinalMessageLast
  BY DEF Init, FinalMessageLast
<1>2. TypeOK /\ FinalMessageLast /\ [Next]_vars => FinalMessageLast'
  BY FinalStep
<1> QED
  BY <1>1, <1>2, TypeCorrect, PTL DEF Spec

(***************************************************************************)
(* No wakeup is lost                                                       *)
(***************************************************************************)
\* The third conjunct of NoLostWakeup: what an inductive step has to count.
PushersWoken ==
    Asleep(Pushers) # {} /\ ~Closed => Capacity - Len(queue) <= Cardinality(Awake(Pushers))

LEMMA AwakeFinite ==
    /\ IsFiniteSet(Awake(Pushers)) /\ Cardinality(Awake(Pushers)) \in Nat
    /\ IsFiniteSet(Awake(Pushers))' /\ Cardinality(Awake(Pushers))' \in Nat
<1>1. IsFiniteSet(Awake(Pushers)) /\ IsFiniteSet(Awake(Pushers)')
  BY RolesAssumption, FS_Subset DEF Awake
<1> QED
  BY <1>1, FS_CardinalityType

\* A step that leaves the queue alone and puts no pusher that was on its way
\* to sleep or to rest keeps the count.
LEMMA QuietStep ==
    ASSUME TypeOK, PushersWoken, queue' = queue, Closed => Closed',
           Asleep(Pushers)' \subseteq Asleep(Pushers),
           Awake(Pushers) \subseteq Awake(Pushers)'
    PROVE  PushersWoken'
<1>1. Cardinality(Awake(Pushers)) <= Cardinality(Awake(Pushers)')
  BY AwakeFinite, FS_Subset
<1> QED
  BY <1>1, AwakeFinite, CapacityAssumption DEF PushersWoken, TypeOK

\* With no free place there is nothing to count.
LEMMA FullStep ==
    ASSUME TypeOK, queue' = queue, ~HasRoom
    PROVE  PushersWoken'
BY AwakeFinite, CapacityAssumption DEF PushersWoken, TypeOK, HasRoom

\* A pusher that gets its event in uses up one free place.
LEMMA AcceptStep ==
    ASSUME TypeOK, PushersWoken, NEW p \in Pushers, Accept(p)
    PROVE  PushersWoken'
<1>1. PICK woken \in WakeConsumers : Return(p, "pushed", woken)
  BY DEF Accept
<1>2. woken \intersect Pushers = {}
  BY RolesAssumption DEF WakeConsumers, NotifyAll, Consumers, Asleep
<1>3. Asleep(Pushers)' = Asleep(Pushers)
  BY <1>1, <1>2 DEF Return, Asleep, Accept, Running, Procs
<1>4. Awake(Pushers)' = Awake(Pushers) \ {p} /\ p \in Awake(Pushers)
  BY <1>1, <1>2 DEF Return, Awake, Accept, Running, Procs
<1>5. Cardinality(Awake(Pushers)') = Cardinality(Awake(Pushers)) - 1
  BY <1>4, AwakeFinite, FS_RemoveElement
<1>6. offer[p] \in Event /\ Len(queue') = Len(queue) + 1 /\ ~Closed
  BY DEF Accept, Accepts, TypeOK
<1> QED
  BY <1>3, <1>5, <1>6, AwakeFinite, CapacityAssumption DEF PushersWoken, TypeOK

\* A taker that frees a place notifies one pusher, if one sleeps.
LEMMA TakeFreesOne ==
    ASSUME TypeOK, PushersWoken, NEW c \in Takers, Take(c)
    PROVE  PushersWoken'
<1>1. PICK woken \in NotifyOne(Pushers) : Return(c, "event", woken)
  BY DEF Take, WakePusher
<1>2. c \notin Pushers
  BY RolesAssumption
<1>3. CASE Asleep(Pushers) = {}
  <2>1. Asleep(Pushers)' = {}
    BY <1>1, <1>2, <1>3 DEF Return, Asleep, Procs
  <2> QED
    BY <2>1 DEF PushersWoken
<1>4. CASE Asleep(Pushers) # {}
  <2>1. PICK q \in Asleep(Pushers) : woken = {q}
    BY <1>1, <1>4 DEF NotifyOne
  <2>2. Awake(Pushers)' = Awake(Pushers) \union {q} /\ q \notin Awake(Pushers)
    BY <1>1, <1>2, <2>1 DEF Return, Asleep, Awake, Procs
  <2>3. Cardinality(Awake(Pushers)') = Cardinality(Awake(Pushers)) + 1
    BY <2>2, AwakeFinite, FS_AddElement
  <2>4. Len(queue') = Len(queue) - 1 /\ (Closed' <=> Closed)
    BY DEF Take, TypeOK, Closed
  <2> QED
    BY <1>4, <2>3, <2>4, AwakeFinite, CapacityAssumption DEF PushersWoken, TypeOK
<1> QED
  BY <1>3, <1>4

\* What the threads that do not push, the timers and end() leave to pushers.
LEMMA OthersStep ==
    ASSUME TypeOK, PushersWoken,
           \/ \E c \in Takers : StartTake(c) \/ TakeEnd(c) \/ WaitForEvent(c) \/ TakeTimesOut(c)
           \/ \E w \in Watchers : StartTake(w) \/ WatchStep(w)
           \/ \E p \in Procs : TimerFires(p) \/ WakesEarly(p)
           \/ End
    PROVE  PushersWoken'
<1>1. CASE \E c \in Takers : StartTake(c) \/ TakeEnd(c) \/ WaitForEvent(c) \/ TakeTimesOut(c)
  <2> PICK c \in Takers : StartTake(c) \/ TakeEnd(c) \/ WaitForEvent(c) \/ TakeTimesOut(c)
    BY <1>1
  <2>1. \A p \in Pushers : phase'[p] = phase[p]
    BY RolesAssumption DEF TypeOK, StartTake, Call, TakeEnd, WaitForEvent, TakeTimesOut, Return, Procs
  <2>2. UNCHANGED state
    BY DEF StartTake, TakeEnd, WaitForEvent, TakeTimesOut
  <2> QED
    BY <2>1, <2>2, QuietStep DEF Asleep, Awake, state, Closed
<1>2. CASE \E w \in Watchers : StartTake(w) \/ WatchStep(w)
  <2> PICK w \in Watchers : StartTake(w) \/ WatchStep(w)
    BY <1>2
  <2>1. \A p \in Pushers : phase'[p] = phase[p]
    BY RolesAssumption DEF TypeOK, StartTake, Call, WatchStep, Resolve, WaitForResult, ResultTimesOut,
       Return, Procs
  <2>2. UNCHANGED state
    BY DEF StartTake, WatchStep, Resolve, WaitForResult, ResultTimesOut
  <2> QED
    BY <2>1, <2>2, QuietStep DEF Asleep, Awake, state, Closed
<1>3. CASE \E p \in Procs : TimerFires(p) \/ WakesEarly(p)
  <2>1. UNCHANGED state
    BY <1>3 DEF TimerFires, WakesEarly
  <2>2. \A q \in Pushers :
            /\ phase'[q] = "waiting" => phase[q] = "waiting"
            /\ phase[q] \in {"trying", "expired"} => phase'[q] \in {"trying", "expired"}
    BY <1>3 DEF TimerFires, WakesEarly, TypeOK, Procs
  <2> QED
    BY <2>1, <2>2, QuietStep DEF Asleep, Awake, state, Closed
<1>4. CASE End
  BY <1>4 DEF End, PushersWoken, Closed
<1> QED
  BY <1>1, <1>2, <1>3, <1>4

LEMMA PushersStep ==
    ASSUME TypeOK, PushersWoken, [Next]_vars
    PROVE  PushersWoken'
<1>1. ASSUME NEW p \in Pushers, StartPush(p) \/ OfferAgain(p) PROVE PushersWoken'
  <2>1. queue' = queue /\ (Closed => Closed')
    BY <1>1 DEF StartPush, OfferAgain, state, Closed
  <2>2. phase' = [phase EXCEPT ![p] = "trying"] /\ phase[p] = "idle"
    BY <1>1 DEF StartPush, OfferAgain, Call
  <2> QED
    BY <2>1, <2>2, QuietStep DEF Asleep, Awake, TypeOK, Procs
<1>2. ASSUME NEW p \in Pushers, RefusePush(p) PROVE PushersWoken'
  BY <1>2 DEF RefusePush, PushersWoken, Closed, state
<1>3. ASSUME NEW p \in Pushers, WaitForRoom(p) \/ PushTimesOut(p) PROVE PushersWoken'
  BY <1>3, FullStep DEF WaitForRoom, PushTimesOut, state
<1>4. ASSUME UNCHANGED vars PROVE PushersWoken'
  BY <1>4 DEF vars, PushersWoken, Asleep, Awake, Closed
<1> QED
  BY <1>1, <1>2, <1>3, <1>4, AcceptStep, TakeFreesOne, OthersStep DEF Next, PushStep, TakeStep

\* Takers and watchers are all notified of the one thing they wait for.
LEMMA ConsumersStep ==
    ASSUME TypeOK, [Next]_vars,
           Asleep(Takers) # {} => queue = <<>> /\ ~Closed,
           Asleep(Watchers) # {} => ~Closed
    PROVE  /\ Asleep(Takers)' # {} => queue' = <<>> /\ ~Closed'
           /\ Asleep(Watchers)' # {} => ~Closed'
<1> DEFINE Goal == /\ Asleep(Takers)' # {} => queue' = <<>> /\ ~Closed'
                   /\ Asleep(Watchers)' # {} => ~Closed'
<1>1. ASSUME NEW p \in Pushers, Accept(p) PROVE Goal
  <2>1. \A q \in Consumers : phase'[q] # "waiting"
    BY <1>1, RolesAssumption DEF Accept, WakeConsumers, NotifyAll, Return, Asleep, Consumers, Procs
  <2> QED
    BY <2>1 DEF Asleep, Consumers
<1>2. ASSUME NEW c \in Takers, Take(c) PROVE Goal
  <2>1. \A q \in Procs : phase'[q] = "waiting" => phase[q] = "waiting"
    BY <1>2 DEF Take, Return
  <2>2. queue # <<>> /\ (Closed <=> Closed')
    BY <1>2 DEF Take, Closed
  <2> QED
    BY <2>1, <2>2 DEF Asleep, Procs
<1>3. ASSUME End PROVE Goal
  BY <1>3 DEF End, Asleep, Procs
<1>4. ASSUME UNCHANGED state,
             \A q \in Procs : phase'[q] = "waiting" =>
                 \/ phase[q] = "waiting"
                 \/ q \in Pushers
                 \/ q \in Takers /\ queue = <<>> /\ ~Closed
                 \/ q \in Watchers /\ ~Closed
      PROVE  Goal
  <2>1. (Closed <=> Closed') /\ queue' = queue
    BY <1>4 DEF state, Closed
  <2> QED
    BY <1>4, <2>1, RolesAssumption DEF Asleep, Procs
<1>5. ASSUME NEW p \in Pushers,
             StartPush(p) \/ OfferAgain(p) \/ RefusePush(p) \/ WaitForRoom(p) \/ PushTimesOut(p)
      PROVE  Goal
  BY <1>4, <1>5 DEF StartPush, OfferAgain, Call, RefusePush, WaitForRoom, PushTimesOut, Return, TypeOK, Procs
<1>6. ASSUME NEW c \in Takers, StartTake(c) \/ TakeEnd(c) \/ WaitForEvent(c) \/ TakeTimesOut(c)
      PROVE  Goal
  BY <1>4, <1>6 DEF StartTake, Call, TakeEnd, WaitForEvent, TakeTimesOut, Return, TypeOK, Procs
<1>7. ASSUME NEW w \in Watchers, StartTake(w) \/ WatchStep(w) PROVE Goal
  BY <1>4, <1>7 DEF StartTake, Call, WatchStep, Resolve, WaitForResult, ResultTimesOut, Return, TypeOK, Procs
<1>8. ASSUME NEW p \in Procs, TimerFires(p) \/ WakesEarly(p) PROVE Goal
  BY <1>4, <1>8 DEF TimerFires, WakesEarly, TypeOK
<1>9. ASSUME UNCHANGED vars PROVE Goal
  BY <1>4, <1>9 DEF vars, state
<1> QED
  BY <1>1, <1>2, <1>3, <1>5, <1>6, <1>7, <1>8, <1>9 DEF Next, PushStep, TakeStep

\* No thread sleeps through what it waits for, however many threads share the
\* two condition variables and however small the queue is.
THEOREM NoWakeupIsLost == Spec => []NoLostWakeup
<1>1. Init => NoLostWakeup
  BY DEF Init, NoLostWakeup, Asleep, Procs
<1>2. TypeOK /\ NoLostWakeup /\ [Next]_vars => NoLostWakeup'
  BY PushersStep, ConsumersStep DEF NoLostWakeup, PushersWoken
<1> QED
  BY <1>1, <1>2, TypeCorrect, PTL DEF Spec
-----------------------------------------------------------------------------
(* A request over the stream.                                              *)

\* The worker's last offer has not entered the stream (yet).
Out == wpc # "reading" /\ (~Idle(Worker) \/ answer[Worker] = "timedOut")
Final == wpc \notin {"reading", "publishing"}

PTypes ==
    /\ TypeOK
    /\ cancelled \in BOOLEAN
    /\ wpc \in {"reading", "publishing", "finishing", "failing", "lost", "gone"}
    /\ rpc \in {"polling", "listening", "returned"}
    /\ slices \in [Procs -> 0..NoDeadline]
    /\ heard \in Seq(Event)
    /\ outcome \in {"none", "final", "closed", "aborted"}

\* Where the worker is in its call, and what the last one returned.
WorkerCalls ==
    /\ wpc \in {"reading", "lost", "gone"} => Idle(Worker)
    /\ wpc = "reading" => answer[Worker] \in {"none", "pushed"}
    /\ wpc # "reading" /\ Idle(Worker) => answer[Worker] \in {"pushed", "timedOut"}

\* What the worker has offered, and what became of it.
WorkerCounts ==
    /\ offer[Worker].n = IF Out THEN Len(accepted) + 1 ELSE Len(accepted)
    /\ offer[Worker].final <=> Final
    /\ result # NoEvent <=> Final /\ ~Out
    /\ ended <=> wpc \in {"lost", "gone"}
    /\ ended /\ result = NoEvent => Orphaned \/ BudgetSpent(Worker)

\* What entered the stream is numbered, and only its last event may be final.
Numbered ==
    /\ \A i \in DOMAIN accepted :
          accepted[i].n = i /\ (accepted[i].final => result # NoEvent /\ i = Len(accepted))
    /\ result # NoEvent => accepted # <<>> /\ accepted[Len(accepted)].final
    /\ accepted = taken \o queue

\* The responder holds an event that the listener has not heard.
InHand == rpc = "polling" /\ Idle(Responder) /\ answer[Responder] = "event"

ResponderCalls ==
    /\ rpc # "polling" => Idle(Responder)
    /\ answer[Responder] = "end" => ended /\ BudgetSpent(Worker)

Hears ==
    /\ InHand => taken = Append(heard, taken[Len(taken)]) /\ taken # <<>>
    /\ ~InHand => taken = heard
    /\ rpc = "polling" => \A i \in DOMAIN heard : ~heard[i].final
    /\ rpc = "listening" => heard # <<>>

Outcomes ==
    /\ rpc = "returned" <=> outcome # "none"
    /\ outcome = "final" => heard # <<>> /\ heard[Len(heard)].final
    /\ outcome = "closed" => ended /\ BudgetSpent(Worker)

RequestInv ==
    PTypes /\ WorkerCalls /\ WorkerCounts /\ Numbered /\ ResponderCalls /\ Hears /\ Outcomes

LEMMA Parties ==
    /\ Worker \in Procs /\ Responder \in Procs /\ Worker # Responder
    /\ Worker \in Pushers /\ Responder \in Takers
BY PartiesAssumption, RolesAssumption DEF Procs

\* What enters the queue comes after what was taken and what is queued.
LEMMA AppendBehind ==
    ASSUME NEW S, NEW t \in Seq(S), NEW q \in Seq(S), NEW e \in S
    PROVE  t \o Append(q, e) = Append(t \o q, e)
<1>1. t \o Append(q, e) \in Seq(S) /\ Append(t \o q, e) \in Seq(S)
  OBVIOUS
<1>2. Len(t \o Append(q, e)) = Len(Append(t \o q, e))
  OBVIOUS
<1>3. \A i \in 1..Len(t \o Append(q, e)) : (t \o Append(q, e))[i] = Append(t \o q, e)[i]
  OBVIOUS
<1> QED
  BY <1>1, <1>2, <1>3, SeqEqual

\* What is taken from the queue is the next of what entered it.
LEMMA TakeInOrder ==
    ASSUME NEW S, NEW t \in Seq(S), NEW q \in Seq(S), q # <<>>
    PROVE  Append(t, Head(q)) \o Tail(q) = t \o q
<1>1. Append(t, Head(q)) \o Tail(q) \in Seq(S) /\ t \o q \in Seq(S)
  OBVIOUS
<1>2. Len(Append(t, Head(q)) \o Tail(q)) = Len(t \o q)
  OBVIOUS
<1>3. \A i \in 1..Len(t \o q) : (Append(t, Head(q)) \o Tail(q))[i] = (t \o q)[i]
  OBVIOUS
<1> QED
  BY <1>1, <1>2, <1>3, SeqEqual

LEMMA Deadlines == NoDeadline \in Nat /\ 0..MaxSlices \subseteq 0..NoDeadline
BY SlicesAssumption DEF NoDeadline

(***************************************************************************)
(* Who leaves whom alone                                                   *)
(***************************************************************************)
\* A step that leaves the worker and what it put into the stream alone.
LEMMA WorkerApart ==
    ASSUME WorkerCalls, WorkerCounts,
           UNCHANGED <<offer, accepted, result, ended, wpc>>,
           answer'[Worker] = answer[Worker], slices'[Worker] = slices[Worker],
           Idle(Worker)' = Idle(Worker), Orphaned => Orphaned'
    PROVE  WorkerCalls' /\ WorkerCounts'
<1>1. Out' = Out /\ Final' = Final /\ BudgetSpent(Worker)' = BudgetSpent(Worker)
  BY DEF Out, Final, BudgetSpent
<1> QED
  BY <1>1 DEF WorkerCalls, WorkerCounts

\* A step that leaves the responder and what it took from the stream alone.
LEMMA ResponderApart ==
    ASSUME ResponderCalls, Hears, Outcomes,
           UNCHANGED <<taken, rpc, heard, outcome>>,
           answer'[Responder] = answer[Responder],
           Idle(Responder)' = Idle(Responder),
           ended /\ BudgetSpent(Worker) => ended' /\ BudgetSpent(Worker)'
    PROVE  ResponderCalls' /\ Hears' /\ Outcomes'
<1>1. InHand' = InHand
  BY DEF InHand
<1> QED
  BY <1>1 DEF ResponderCalls, Hears, Outcomes

LEMMA StreamApart ==
    ASSUME Numbered, UNCHANGED <<queue, result, accepted, taken>>
    PROVE  Numbered'
BY DEF Numbered

\* A step of the clock, of the user, or into a wait.
LEMMA Still ==
    ASSUME RequestInv, TypeOK', cancelled' \in BOOLEAN,
           UNCHANGED <<state, offer, answer, history, wpc, rpc, slices, heard, outcome>>,
           Idle(Worker)' = Idle(Worker), Idle(Responder)' = Idle(Responder)
    PROVE  RequestInv'
<1>1. WorkerCalls' /\ WorkerCounts'
  BY WorkerApart DEF RequestInv, state, history, Orphaned
<1>2. ResponderCalls' /\ Hears' /\ Outcomes'
  BY ResponderApart DEF RequestInv, state, history, BudgetSpent
<1>3. Numbered'
  BY StreamApart DEF RequestInv, state, history
<1>4. PTypes'
  BY DEF RequestInv, PTypes
<1> QED
  BY <1>1, <1>2, <1>3, <1>4 DEF RequestInv

\* What a process does in its call leaves the other one in its own.
LEMMA ReturnAlone ==
    ASSUME TypeOK, NEW p \in Procs, NEW q \in Procs, p # q, NEW what, NEW S,
           NEW woken, woken \subseteq Asleep(S), Return(p, what, woken)
    PROVE  /\ Idle(p)' /\ answer'[p] = what
           /\ Idle(q)' = Idle(q) /\ answer'[q] = answer[q]
<1>1. phase'[p] = "idle" /\ phase'[q] = IF q \in woken THEN "trying" ELSE phase[q]
  BY DEF Return
<1>2. q \in woken => phase[q] = "waiting"
  BY DEF Asleep
<1>3. answer'[p] = what /\ answer'[q] = answer[q]
  BY DEF Return, TypeOK
<1> QED
  BY <1>1, <1>2, <1>3 DEF Idle

LEMMA CallAlone ==
    ASSUME TypeOK, NEW p \in Procs, NEW q \in Procs, p # q, Call(p)
    PROVE  /\ ~Idle(p)' /\ answer'[p] = "none"
           /\ Idle(q)' = Idle(q) /\ answer'[q] = answer[q]
BY DEF TypeOK, Call, Idle

(***************************************************************************)
(* The worker's calls                                                      *)
(***************************************************************************)
\* An offer that enters the stream is the next in number.
LEMMA AcceptCounts ==
    ASSUME RequestInv, Accept(Worker), UNCHANGED pvars
    PROVE  RequestInv'
<1> USE Parties
<1>1. /\ ~Closed /\ ~Idle(Worker) /\ result = NoEvent /\ ~ended
      /\ accepted' = Append(accepted, offer[Worker]) /\ queue' = Append(queue, offer[Worker])
      /\ result' = IF offer[Worker].final THEN offer[Worker] ELSE result
      /\ UNCHANGED <<ended, offer, taken>>
  BY DEF Accept, Accepts, Closed, Running, Idle
<1>2. PICK woken \in WakeConsumers : Return(Worker, "pushed", woken)
  BY DEF Accept
<1>3. /\ Idle(Worker)' /\ answer'[Worker] = "pushed"
      /\ Idle(Responder)' = Idle(Responder) /\ answer'[Responder] = answer[Responder]
  BY <1>2, ReturnAlone DEF RequestInv, PTypes, WakeConsumers, NotifyAll
<1>4. wpc # "reading"
  BY <1>1 DEF RequestInv, WorkerCalls
<1>5. Out /\ ~Out' /\ Final' = Final
  BY <1>1, <1>3, <1>4 DEF Out, Final, pvars
<1>6. offer[Worker] \in Event /\ accepted \in Seq(Event) /\ queue \in Seq(Event) /\ taken \in Seq(Event)
  BY DEF RequestInv, PTypes, TypeOK
<1>7. Len(accepted') = Len(accepted) + 1 /\ Len(accepted) \in Nat
  BY <1>1, <1>6
<1>8. offer[Worker].n = Len(accepted)' /\ (offer[Worker].final <=> Final)
  BY <1>5, <1>7 DEF RequestInv, WorkerCounts
<1>9. offer[Worker] # NoEvent
  BY <1>6, NoEventAssumption
<1>10. result' # NoEvent <=> Final
  BY <1>1, <1>8, <1>9
<1>11. WorkerCalls'
  BY <1>1, <1>3, <1>4 DEF WorkerCalls, RequestInv, pvars
<1>12. WorkerCounts'
  BY <1>1, <1>5, <1>8, <1>10 DEF WorkerCounts, RequestInv, pvars
<1>13. Numbered'
  <2>1. \A i \in DOMAIN accepted : ~accepted[i].final /\ accepted[i].n = i
    BY <1>1 DEF RequestInv, Numbered
  <2>2. \A i \in DOMAIN accepted' :
            \/ i \in DOMAIN accepted /\ accepted'[i] = accepted[i]
            \/ i = Len(accepted') /\ accepted'[i] = offer[Worker]
    BY <1>1, <1>6
  <2>3. \A i \in DOMAIN accepted' :
            accepted'[i].n = i /\ (accepted'[i].final => result' # NoEvent /\ i = Len(accepted'))
    BY <2>1, <2>2, <1>8, <1>10
  <2>4. accepted' # <<>> /\ accepted'[Len(accepted')] = offer[Worker]
    <3>1. ASSUME NEW S, NEW q \in Seq(S), NEW e \in S
          PROVE  Append(q, e) # <<>> /\ Append(q, e)[Len(Append(q, e))] = e
      BY SMT
    <3>2. accepted' = Append(accepted, offer[Worker])
      BY <1>1
    <3> QED BY <1>6, <3>1, <3>2
  <2>5. accepted' = taken' \o queue'
    <3>1. taken \o Append(queue, offer[Worker]) = Append(taken \o queue, offer[Worker])
      BY <1>6, AppendBehind
    <3> QED
      BY <1>1, <3>1 DEF RequestInv, Numbered
  <2> QED
    BY <2>3, <2>4, <2>5, <1>8, <1>10 DEF Numbered
<1>14. ResponderCalls' /\ Hears' /\ Outcomes'
  BY <1>1, <1>3, ResponderApart DEF RequestInv, pvars, BudgetSpent
<1>15. PTypes'
  <2>1. TypeOK'
    BY PushTypes DEF PushStep, RequestInv, PTypes
  <2> QED
    BY <2>1 DEF RequestInv, PTypes, pvars
<1> QED
  BY <1>11, <1>12, <1>13, <1>14, <1>15 DEF RequestInv

\* An offer that times out is still out.
LEMMA OfferTimesOut ==
    ASSUME RequestInv, PushTimesOut(Worker), UNCHANGED pvars
    PROVE  RequestInv'
<1> USE Parties
<1>1. ~Idle(Worker) /\ UNCHANGED <<state, offer, history>> /\ Return(Worker, "timedOut", {})
  BY DEF PushTimesOut, Running, Idle
<1>2. /\ Idle(Worker)' /\ answer'[Worker] = "timedOut"
      /\ Idle(Responder)' = Idle(Responder) /\ answer'[Responder] = answer[Responder]
  BY <1>1 DEF Return, Idle, RequestInv, PTypes, TypeOK
<1>3. wpc # "reading"
  BY <1>1 DEF RequestInv, WorkerCalls
<1>4. Out /\ Out' /\ Final' = Final
  BY <1>1, <1>2, <1>3 DEF Out, Final, pvars
<1>5. WorkerCalls' /\ WorkerCounts'
  BY <1>1, <1>2, <1>3, <1>4
     DEF WorkerCalls, WorkerCounts, RequestInv, pvars, state, history, Orphaned, BudgetSpent
<1>6. ResponderCalls' /\ Hears' /\ Outcomes'
  BY <1>1, <1>2, ResponderApart DEF RequestInv, pvars, state, history, BudgetSpent
<1>7. Numbered'
  BY <1>1, StreamApart DEF RequestInv, state, history
<1>8. PTypes'
  <2>1. TypeOK'
    BY PushTypes DEF PushStep, RequestInv, PTypes
  <2> QED
    BY <2>1 DEF RequestInv, PTypes, pvars
<1> QED
  BY <1>5, <1>6, <1>7, <1>8 DEF RequestInv

LEMMA WorkerCallStep ==
    ASSUME RequestInv, WorkerCall
    PROVE  RequestInv'
<1> USE Parties
<1>1. TypeOK'
  BY PushTypes DEF WorkerCall, RequestInv, PTypes
<1>2. CASE RefusePush(Worker)
  BY <1>2 DEF RefusePush, Running, Closed, RequestInv, WorkerCalls, WorkerCounts, Out, Idle
<1>3. CASE WaitForRoom(Worker)
  <2>1. /\ phase[Worker] = "trying" /\ phase' = [phase EXCEPT ![Worker] = "waiting"]
        /\ UNCHANGED <<state, offer, answer, history>>
    BY <1>3 DEF WaitForRoom
  <2>2. Idle(Worker)' = Idle(Worker) /\ Idle(Responder)' = Idle(Responder)
    BY <2>1 DEF Idle, RequestInv, PTypes, TypeOK
  <2> QED
    BY <1>1, <2>1, <2>2, Still DEF WorkerCall, pvars, RequestInv, PTypes
<1> QED
  BY <1>2, <1>3, AcceptCounts, OfferTimesOut DEF WorkerCall, PushStep

(***************************************************************************)
(* The worker's steps                                                      *)
(***************************************************************************)
\* The worker offers its k-th event, the one after what has entered.
LEMMA EmitCounts ==
    ASSUME RequestInv, NEW k, NEW final \in BOOLEAN, Emit(k, final),
           ~ended, result = NoEvent, k = Len(accepted) + 1,
           UNCHANGED <<cancelled, rpc, heard, outcome>>,
           slices' \in [Procs -> 0..NoDeadline],
           IF final THEN wpc' \in {"finishing", "failing"} ELSE wpc' = "publishing"
    PROVE  RequestInv'
<1> USE Parties
<1>1. UNCHANGED <<queue, ended, result, accepted, taken>> /\ Call(Worker)
      /\ offer' = [offer EXCEPT ![Worker] = [by |-> Worker, n |-> k, final |-> final]]
  BY DEF Emit, state, history
<1>2. /\ ~Idle(Worker)' /\ answer'[Worker] = "none"
      /\ Idle(Responder)' = Idle(Responder) /\ answer'[Responder] = answer[Responder]
  BY <1>1, CallAlone DEF RequestInv, PTypes
<1>3. k \in Nat /\ offer \in [Pushers -> Event]
  BY DEF RequestInv, PTypes, TypeOK
<1>4. offer'[Worker].n = k /\ offer'[Worker].final = final /\ offer' \in [Pushers -> Event]
  BY <1>1, <1>3 DEF Event
<1>5. Out' /\ (Final' <=> final)
  BY <1>2 DEF Out, Final
<1>6. WorkerCalls' /\ WorkerCounts'
  BY <1>1, <1>2, <1>4, <1>5 DEF WorkerCalls, WorkerCounts
<1>7. ResponderCalls' /\ Hears' /\ Outcomes'
  BY <1>1, <1>2, ResponderApart DEF RequestInv, ResponderCalls, Outcomes
<1>8. Numbered'
  BY <1>1, StreamApart DEF RequestInv
<1>9. PTypes'
  <2>1. phase' \in [Procs -> {"idle", "trying", "waiting", "expired"}] /\ answer' \in [Procs -> Answer]
    BY <1>1, CallType DEF RequestInv, PTypes
  <2>2. TypeOK'
    BY <1>1, <1>4, <2>1 DEF RequestInv, PTypes, TypeOK
  <2> QED
    BY <2>2 DEF RequestInv, PTypes
<1> QED
  BY <1>6, <1>7, <1>8, <1>9 DEF RequestInv

LEMMA DeadlineType ==
    ASSUME NEW p \in Procs, slices \in [Procs -> 0..NoDeadline], SetDeadline(p)
    PROVE  slices' \in [Procs -> 0..NoDeadline]
BY Deadlines DEF SetDeadline

\* A new offer follows what has entered; one that found no room is replaced.
LEMMA WorkerEmits ==
    ASSUME RequestInv, Publish \/ Finish \/ ReadFails \/ NoticeAbort \/ PublishFails
    PROVE  RequestInv'
<1> USE Parties
<1>1. wpc = "reading" =>
          ~ended /\ result = NoEvent /\ offer[Worker].n + 1 = Len(accepted) + 1
  BY DEF RequestInv, WorkerCounts, Out, Final
<1>2. slices \in [Procs -> 0..NoDeadline]
  BY DEF RequestInv, PTypes
<1>3. CASE Publish
  BY <1>1, <1>2, <1>3, EmitCounts DEF Publish
<1>4. CASE Finish
  BY <1>1, <1>2, <1>4, EmitCounts, DeadlineType DEF Finish
<1>5. CASE ReadFails \/ NoticeAbort
  BY <1>1, <1>2, <1>5, EmitCounts, DeadlineType DEF NoticeAbort, ReadFails, Fail
<1>6. CASE PublishFails
  <2>1. ~ended /\ result = NoEvent /\ offer[Worker].n = Len(accepted) + 1
    BY <1>6 DEF PublishFails, RequestInv, WorkerCounts, Out, Final
  <2> QED
    BY <1>2, <1>6, <2>1, EmitCounts, DeadlineType DEF PublishFails, Fail
<1> QED
  BY <1>3, <1>4, <1>5, <1>6

\* Offering the same event again changes nothing it has come to.
LEMMA OffersAgain ==
    ASSUME RequestInv, PublishAgain \/ DeliverAgain
    PROVE  RequestInv'
<1> USE Parties
<1>1. /\ OfferAgain(Worker) /\ answer[Worker] = "timedOut" /\ wpc \in {"publishing", "finishing", "failing"}
      /\ UNCHANGED <<cancelled, wpc, rpc, heard, outcome>>
  BY DEF PublishAgain, DeliverAgain, Delivering, pvars
<1>2. Call(Worker) /\ UNCHANGED <<queue, ended, result, offer, accepted, taken>> /\ Idle(Worker)
  BY <1>1 DEF OfferAgain, state, history, Idle
<1>3. /\ ~Idle(Worker)' /\ answer'[Worker] = "none"
      /\ Idle(Responder)' = Idle(Responder) /\ answer'[Responder] = answer[Responder]
  BY <1>2, CallAlone DEF RequestInv, PTypes
<1>4. slices' \in [Procs -> 0..NoDeadline]
  <2>1. CASE PublishAgain
    BY <2>1 DEF PublishAgain, pvars, RequestInv, PTypes
  <2>2. CASE DeliverAgain
    <3>1. slices[Worker] \in 0..NoDeadline /\ slices[Worker] # 0
          /\ slices' = [slices EXCEPT ![Worker] = slices[Worker] - 1]
      BY <2>2 DEF DeliverAgain, BudgetSpent, RequestInv, PTypes
    <3>2. slices[Worker] - 1 \in 0..NoDeadline
      BY <3>1, Deadlines
    <3> QED
      BY <3>1, <3>2 DEF RequestInv, PTypes
  <2> QED
    BY <2>1, <2>2
<1>5. ~ended /\ Out /\ Out' /\ Final' = Final
  BY <1>1, <1>2, <1>3 DEF Out, Final, RequestInv, WorkerCounts
<1>6. WorkerCalls' /\ WorkerCounts'
  BY <1>1, <1>2, <1>3, <1>5 DEF WorkerCalls, WorkerCounts, RequestInv
<1>7. ResponderCalls' /\ Hears' /\ Outcomes'
  BY <1>1, <1>2, <1>3, <1>5, ResponderApart DEF RequestInv
<1>8. Numbered'
  BY <1>2, StreamApart DEF RequestInv
<1>9. PTypes'
  <2>1. TypeOK'
    BY <1>1, PushTypes DEF RequestInv, PTypes
  <2> QED
    BY <1>1, <1>4, <2>1 DEF RequestInv, PTypes
<1> QED
  BY <1>6, <1>7, <1>8, <1>9 DEF RequestInv

\* Steps of the worker that are no calls: it looks at the answer, or gives up
\* on a reply that finish could not deliver.
LEMMA WorkerGoesOn ==
    ASSUME RequestInv, Published \/ FailLate
    PROVE  RequestInv'
<1>1. /\ UNCHANGED <<queue, ended, result, phase, offer, answer, accepted, taken>>
      /\ UNCHANGED <<cancelled, rpc, slices, heard, outcome>>
      /\ Idle(Worker)
      /\ \/ wpc = "publishing" /\ wpc' = "reading" /\ answer[Worker] = "pushed"
         \/ wpc = "lost" /\ wpc' = "gone"
  BY DEF Published, FailLate, OfferTaken, vars, RequestInv, WorkerCalls
<1>2. Idle(Worker)' = Idle(Worker) /\ Idle(Responder)' = Idle(Responder)
  BY <1>1 DEF Idle
<1>3. Out' = Out /\ Final' = Final
  BY <1>1, <1>2 DEF Out, Final
<1>4. WorkerCalls' /\ WorkerCounts'
  BY <1>1, <1>2, <1>3 DEF WorkerCalls, WorkerCounts, RequestInv, BudgetSpent, Orphaned
<1>5. ResponderCalls' /\ Hears' /\ Outcomes'
  BY <1>1, <1>2, ResponderApart DEF RequestInv, BudgetSpent
<1>6. Numbered'
  BY <1>1, StreamApart DEF RequestInv
<1>7. PTypes'
  BY <1>1 DEF RequestInv, PTypes, TypeOK
<1> QED
  BY <1>4, <1>5, <1>6, <1>7 DEF RequestInv

\* The worker ends the stream: with its final event in it, or out of budget,
\* or when nobody is left to read it.
LEMMA EndsStream ==
    ASSUME RequestInv, EndStream
    PROVE  RequestInv'
<1> USE Parties
<1>1. /\ Delivering /\ Idle(Worker) /\ ended' = TRUE /\ wpc' \in {"lost", "gone"} /\ ~ended
      /\ phase' = [q \in Procs |-> IF q \in Asleep(Procs) THEN "trying" ELSE phase[q]]
      /\ UNCHANGED <<queue, result, offer, answer, accepted, taken>>
      /\ UNCHANGED <<cancelled, rpc, slices, heard, outcome>>
      /\ answer[Worker] = "pushed" \/ Orphaned \/ BudgetSpent(Worker)
  BY DEF EndStream, Undelivered, End, history
<1>2. Idle(Worker)' = Idle(Worker) /\ Idle(Responder)' = Idle(Responder)
  BY <1>1 DEF Idle, Asleep
<1>3. Out' = Out /\ Final /\ Final'
  BY <1>1, <1>2 DEF Out, Final, Delivering
<1>4. result = NoEvent => Orphaned \/ BudgetSpent(Worker)
  BY <1>1, <1>3 DEF RequestInv, WorkerCounts, Out
<1>5. WorkerCalls' /\ WorkerCounts'
  BY <1>1, <1>2, <1>3, <1>4
     DEF WorkerCalls, WorkerCounts, RequestInv, BudgetSpent, Orphaned, Delivering
<1>6. ResponderCalls' /\ Hears' /\ Outcomes'
  BY <1>1, <1>2, ResponderApart DEF RequestInv, BudgetSpent
<1>7. Numbered'
  BY <1>1, StreamApart DEF RequestInv
<1>8. PTypes'
  <2>1. phase' \in [Procs -> {"idle", "trying", "waiting", "expired"}]
    BY <1>1 DEF RequestInv, PTypes, TypeOK
  <2> QED
    BY <1>1, <2>1 DEF RequestInv, PTypes, TypeOK
<1> QED
  BY <1>5, <1>6, <1>7, <1>8 DEF RequestInv

LEMMA WorkerKeeps ==
    ASSUME RequestInv, WorkerStep \/ Publish \/ Finish \/ ReadFails \/ WorkerCall
    PROVE  RequestInv'
BY WorkerEmits, OffersAgain, WorkerGoesOn, EndsStream, WorkerCallStep DEF WorkerStep

(***************************************************************************)
(* The responder                                                           *)
(***************************************************************************)
\* The responder gets the next event into its hands.
LEMMA Takes ==
    ASSUME RequestInv, Take(Responder), UNCHANGED pvars
    PROVE  RequestInv'
<1> USE Parties
<1>1. /\ queue # <<>> /\ queue' = Tail(queue) /\ taken' = Append(taken, Head(queue))
      /\ ~Idle(Responder) /\ UNCHANGED <<ended, result, offer, accepted>>
  BY DEF Take, Running, Idle
<1>2. PICK woken \in WakePusher : Return(Responder, "event", woken)
  BY DEF Take
<1>3. woken \subseteq Asleep(Pushers)
  BY DEF WakePusher, NotifyOne
<1>4. /\ Idle(Responder)' /\ answer'[Responder] = "event"
      /\ Idle(Worker)' = Idle(Worker) /\ answer'[Worker] = answer[Worker]
  BY <1>2, <1>3, ReturnAlone DEF RequestInv, PTypes
<1>5. WorkerCalls' /\ WorkerCounts'
  BY <1>1, <1>4, WorkerApart DEF RequestInv, pvars, Orphaned
<1>6. queue \in Seq(Event) /\ taken \in Seq(Event) /\ Head(queue) \in Event
  BY <1>1 DEF RequestInv, PTypes, TypeOK
<1>7. taken' \o queue' = taken \o queue
  BY <1>1, <1>6, TakeInOrder
<1>8. Numbered'
  BY <1>1, <1>7 DEF RequestInv, Numbered
<1>9. rpc = "polling" /\ ~InHand /\ InHand'
  BY <1>1, <1>4 DEF RequestInv, ResponderCalls, InHand, pvars
<1>10. taken' # <<>> /\ taken'[Len(taken')] = Head(queue) /\ taken = heard
  BY <1>1, <1>6, <1>9 DEF RequestInv, Hears
<1>11. ResponderCalls' /\ Hears' /\ Outcomes'
  BY <1>1, <1>4, <1>9, <1>10 DEF RequestInv, ResponderCalls, Hears, Outcomes, pvars, BudgetSpent
<1>12. PTypes'
  <2>1. TypeOK'
    BY TakeTypes DEF TakeStep, RequestInv, PTypes
  <2> QED
    BY <2>1 DEF RequestInv, PTypes, pvars
<1> QED
  BY <1>5, <1>8, <1>11, <1>12 DEF RequestInv

\* Nothing that was heard while the responder polls is final.
LEMMA NothingFinalYet ==
    ASSUME RequestInv, rpc = "polling", ~Idle(Responder), queue = <<>>
    PROVE  result = NoEvent
<1>1. taken = heard /\ \A i \in DOMAIN taken : ~taken[i].final
  BY DEF RequestInv, Hears, InHand
<1>2. taken \in Seq(Event)
  BY DEF RequestInv, PTypes, TypeOK
<1>3. accepted = taken
  BY <1>2 DEF RequestInv, Numbered
<1>4. accepted # <<>> => Len(accepted) \in DOMAIN accepted
  BY <1>2, <1>3
<1> QED
  BY <1>1, <1>3, <1>4 DEF RequestInv, Numbered

\* A poll that finds nothing ends, or is told that the stream has ended.
LEMMA PollsInVain ==
    ASSUME RequestInv, TakeEnd(Responder) \/ TakeTimesOut(Responder), UNCHANGED pvars
    PROVE  RequestInv'
<1> USE Parties
<1>1. PICK what \in {"end", "timedOut"} :
          /\ Return(Responder, what, {})
          /\ what = "end" => queue = <<>> /\ Closed
  BY DEF TakeEnd, TakeTimesOut, Drained
<1>2. ~Idle(Responder) /\ UNCHANGED <<state, offer, history>>
  BY DEF TakeEnd, TakeTimesOut, Running, Idle
<1>3. /\ Idle(Responder)' /\ answer'[Responder] = what
      /\ Idle(Worker)' = Idle(Worker) /\ answer'[Worker] = answer[Worker]
  <2>1. {} \subseteq Asleep({})
    OBVIOUS
  <2> QED
    BY <1>1, <2>1, ReturnAlone DEF RequestInv, PTypes
<1>4. WorkerCalls' /\ WorkerCounts'
  BY <1>2, <1>3, WorkerApart DEF RequestInv, pvars, Orphaned, state, history
<1>5. rpc = "polling"
  BY <1>2 DEF RequestInv, ResponderCalls
<1>6. what = "end" => ended /\ BudgetSpent(Worker)
  BY <1>1, <1>2, <1>5, NothingFinalYet DEF Closed, RequestInv, WorkerCounts, Orphaned
<1>7. ~InHand /\ ~InHand'
  BY <1>2, <1>3 DEF InHand
<1>8. ResponderCalls' /\ Hears' /\ Outcomes'
  BY <1>2, <1>3, <1>5, <1>6, <1>7
     DEF RequestInv, ResponderCalls, Hears, Outcomes, pvars, state, history, BudgetSpent
<1>9. Numbered'
  BY <1>2, StreamApart DEF RequestInv, state, history
<1>10. PTypes'
  <2>1. TypeOK'
    BY TakeTypes DEF TakeStep, RequestInv, PTypes
  <2> QED
    BY <2>1 DEF RequestInv, PTypes, pvars
<1> QED
  BY <1>4, <1>8, <1>9, <1>10 DEF RequestInv

\* A new poll.
LEMMA PollStarts ==
    ASSUME RequestInv, StartTake(Responder), ~InHand,
           UNCHANGED <<cancelled, wpc, heard, outcome>>,
           slices' \in [Procs -> 0..NoDeadline], slices'[Worker] = slices[Worker],
           rpc \in {"polling", "listening"}, rpc' = "polling",
           \A i \in DOMAIN heard : ~heard[i].final
    PROVE  RequestInv'
<1> USE Parties
<1>1. Call(Responder) /\ UNCHANGED <<queue, ended, result, offer, accepted, taken>>
  BY DEF StartTake, state, history
<1>2. /\ ~Idle(Responder)' /\ answer'[Responder] = "none"
      /\ Idle(Worker)' = Idle(Worker) /\ answer'[Worker] = answer[Worker]
  BY <1>1, CallAlone DEF RequestInv, PTypes
<1>3. WorkerCalls' /\ WorkerCounts'
  BY <1>1, <1>2, WorkerApart DEF RequestInv, Orphaned
<1>4. ~InHand'
  BY <1>2 DEF InHand
<1>5. ResponderCalls' /\ Hears' /\ Outcomes'
  BY <1>1, <1>2, <1>4 DEF RequestInv, ResponderCalls, Hears, Outcomes, BudgetSpent
<1>6. Numbered'
  BY <1>1, StreamApart DEF RequestInv
<1>7. PTypes'
  <2>1. TypeOK'
    BY TakeTypes DEF RequestInv, PTypes
  <2> QED
    BY <2>1 DEF RequestInv, PTypes
<1> QED
  BY <1>3, <1>5, <1>6, <1>7 DEF RequestInv

LEMMA Polls ==
    ASSUME RequestInv, Poll \/ PollOn \/ SetAbortDeadline \/ AwaitAborted
    PROVE  RequestInv'
<1> USE Parties
<1>1. /\ StartTake(Responder) /\ rpc = "polling" /\ rpc' = "polling" /\ ~InHand
      /\ UNCHANGED <<cancelled, wpc, heard, outcome>>
  BY DEF Poll, PollOn, SetAbortDeadline, AwaitAborted, PollTimedOut, PollAgain, pvars, InHand
<1>2. \A i \in DOMAIN heard : ~heard[i].final
  BY <1>1 DEF RequestInv, Hears
<1>3. slices \in [Procs -> 0..NoDeadline]
  BY DEF RequestInv, PTypes
<1>4. slices' \in [Procs -> 0..NoDeadline] /\ slices'[Worker] = slices[Worker]
  <2>1. CASE UNCHANGED slices
    BY <1>3, <2>1
  <2>2. CASE \E n \in 0..MaxSlices : slices' = [slices EXCEPT ![Responder] = n]
    BY <1>3, <2>2, Deadlines
  <2>3. CASE AwaitAborted
    <3>1. slices[Responder] \in 0..NoDeadline /\ slices[Responder] # 0
          /\ slices' = [slices EXCEPT ![Responder] = slices[Responder] - 1]
      BY <1>3, <2>3 DEF AwaitAborted, BudgetSpent
    <3>2. slices[Responder] - 1 \in 0..NoDeadline
      BY <3>1, Deadlines
    <3> QED
      BY <1>3, <3>1, <3>2
  <2> QED
    BY <2>1, <2>2, <2>3 DEF Poll, PollOn, SetAbortDeadline, pvars
<1> QED
  BY <1>1, <1>2, <1>4, PollStarts

\* The listener is given what the responder holds.
LEMMA Listens ==
    ASSUME RequestInv, Listen
    PROVE  RequestInv'
<1>1. /\ InHand /\ heard' = Append(heard, taken[Len(taken)]) /\ rpc' = "listening"
      /\ UNCHANGED <<queue, ended, result, phase, offer, answer, accepted, taken>>
      /\ UNCHANGED <<cancelled, wpc, slices, outcome>>
  BY DEF Listen, InHand, vars
<1>2. Idle(Worker)' = Idle(Worker) /\ Idle(Responder)' = Idle(Responder)
  BY <1>1 DEF Idle
<1>3. WorkerCalls' /\ WorkerCounts'
  BY <1>1, <1>2, WorkerApart DEF RequestInv, Orphaned, InHand
<1>4. taken = heard' /\ taken # <<>> /\ taken \in Seq(Event)
  BY <1>1 DEF RequestInv, Hears, PTypes, TypeOK
<1>5. ResponderCalls' /\ Hears' /\ Outcomes'
  BY <1>1, <1>2, <1>4
     DEF RequestInv, ResponderCalls, Hears, Outcomes, BudgetSpent, InHand
<1>6. Numbered'
  BY <1>1, StreamApart DEF RequestInv
<1>7. PTypes'
  BY <1>1, <1>4 DEF RequestInv, PTypes, TypeOK
<1> QED
  BY <1>3, <1>5, <1>6, <1>7 DEF RequestInv

\* respond returns.
LEMMA Returns ==
    ASSUME RequestInv, rpc # "returned", ~InHand, Idle(Responder),
           NEW what \in {"final", "closed", "aborted"}, ReturnWith(what),
           what = "final" => heard # <<>> /\ heard[Len(heard)].final,
           what = "closed" => ended /\ BudgetSpent(Worker)
    PROVE  RequestInv'
<1>1. /\ rpc' = "returned" /\ outcome' = what
      /\ UNCHANGED <<queue, ended, result, phase, offer, answer, accepted, taken>>
      /\ UNCHANGED <<cancelled, wpc, slices, heard>>
  BY DEF ReturnWith, vars
<1>2. Idle(Worker)' = Idle(Worker) /\ Idle(Responder)'
  BY <1>1 DEF Idle
<1>3. WorkerCalls' /\ WorkerCounts'
  BY <1>1, <1>2, WorkerApart DEF RequestInv, Orphaned
<1>4. ResponderCalls' /\ Hears' /\ Outcomes'
  BY <1>1, <1>2 DEF RequestInv, ResponderCalls, Hears, Outcomes, BudgetSpent, InHand
<1>5. Numbered'
  BY <1>1, StreamApart DEF RequestInv
<1>6. PTypes'
  BY <1>1 DEF RequestInv, PTypes, TypeOK
<1> QED
  BY <1>3, <1>4, <1>5, <1>6 DEF RequestInv

\* An event before the final one sends the responder back to its poll.
LEMMA ListenerDone ==
    ASSUME RequestInv, ListenerReturns
    PROVE  RequestInv'
<1> USE Parties
<1>1. rpc = "listening" /\ Idle(Responder) /\ ~InHand /\ heard # <<>> /\ taken = heard
  BY DEF ListenerReturns, RequestInv, ResponderCalls, Hears, InHand
<1>2. CASE heard[Len(heard)].final
  BY <1>1, <1>2, Returns DEF ListenerReturns
<1>3. CASE ~heard[Len(heard)].final
  <2>1. accepted = heard \o queue /\ heard \in Seq(Event) /\ queue \in Seq(Event)
    BY <1>1 DEF RequestInv, Numbered, PTypes, TypeOK
  <2>2. \A i \in DOMAIN heard :
            i \in DOMAIN accepted /\ accepted[i] = heard[i] /\ i <= Len(heard)
            /\ (i = Len(accepted) => i = Len(heard))
    BY <2>1
  <2>3. \A i \in DOMAIN heard : ~heard[i].final
    BY <1>3, <2>2 DEF RequestInv, Numbered
  <2>4. StartTake(Responder) /\ rpc' = "polling" /\ UNCHANGED <<cancelled, wpc, heard, outcome, slices>>
    BY <1>3 DEF ListenerReturns, PollAgain
  <2> QED
    BY <1>1, <2>3, <2>4, PollStarts DEF RequestInv, PTypes
<1> QED
  BY <1>2, <1>3

LEMMA ResponderCallStep ==
    ASSUME RequestInv, ResponderCall
    PROVE  RequestInv'
<1> USE Parties
<1>1. TypeOK'
  BY TakeTypes DEF ResponderCall, RequestInv, PTypes
<1>2. CASE WaitForEvent(Responder)
  <2>1. /\ phase[Responder] = "trying" /\ phase' = [phase EXCEPT ![Responder] = "waiting"]
        /\ UNCHANGED <<state, offer, answer, history>>
    BY <1>2 DEF WaitForEvent
  <2>2. Idle(Worker)' = Idle(Worker) /\ Idle(Responder)' = Idle(Responder)
    BY <2>1 DEF Idle, RequestInv, PTypes, TypeOK
  <2> QED
    BY <1>1, <2>1, <2>2, Still DEF ResponderCall, pvars, RequestInv, PTypes
<1> QED
  BY <1>2, Takes, PollsInVain DEF ResponderCall, TakeStep

LEMMA ResponderKeeps ==
    ASSUME RequestInv, ResponderStep \/ ListenerReturns \/ ResponderCall
    PROVE  RequestInv'
<1> USE Parties
<1>1. CASE StreamClosed
  <2>1. /\ rpc = "polling" /\ Idle(Responder) /\ answer[Responder] = "end" /\ ReturnWith("closed")
    BY <1>1 DEF StreamClosed
  <2>2. ended /\ BudgetSpent(Worker) /\ ~InHand
    BY <2>1 DEF RequestInv, ResponderCalls, InHand
  <2> QED
    BY <2>1, <2>2, Returns
<1>2. CASE GiveUpOnWorker
  <2>1. rpc = "polling" /\ Idle(Responder) /\ ~InHand /\ ReturnWith("aborted")
    BY <1>2 DEF GiveUpOnWorker, PollTimedOut, InHand
  <2> QED
    BY <2>1, Returns
<1> QED
  BY <1>1, <1>2, Polls, Listens, ListenerDone, ResponderCallStep DEF ResponderStep

(***************************************************************************)
(* The theorem                                                             *)
(***************************************************************************)
LEMMA RequestStarts == PInit => RequestInv
<1> SUFFICES ASSUME PInit PROVE RequestInv
  OBVIOUS
<1> USE Parties
<1>1. <<>> \in Seq(Event) /\ Len(<<>>) = 0 /\ DOMAIN <<>> = {} /\ <<>> = <<>> \o <<>>
  OBVIOUS
<1>2. offer \in [Pushers -> Event] /\ offer[Worker].n = 0 /\ offer[Worker].final = FALSE
  BY DEF PInit, Init, Event
<1>3. TypeOK
  BY InitTypes DEF PInit
<1>4. NoDeadline \in 0..NoDeadline
  BY Deadlines
<1>5. PTypes
  BY <1>1, <1>3, <1>4 DEF PInit, PTypes
<1>6. /\ queue = <<>> /\ accepted = <<>> /\ taken = <<>> /\ heard = <<>>
      /\ result = NoEvent /\ ended = FALSE /\ wpc = "reading" /\ rpc = "polling" /\ outcome = "none"
      /\ Idle(Worker) /\ Idle(Responder) /\ answer[Worker] = "none" /\ answer[Responder] = "none"
  BY DEF PInit, Init, Idle
<1>7. WorkerCalls /\ WorkerCounts
  BY <1>1, <1>2, <1>6 DEF WorkerCalls, WorkerCounts, Out, Final
<1>8. Numbered
  BY <1>1, <1>6 DEF Numbered
<1>9. ResponderCalls /\ Hears /\ Outcomes
  BY <1>1, <1>6 DEF ResponderCalls, Hears, Outcomes, InHand
<1> QED
  BY <1>5, <1>7, <1>8, <1>9 DEF RequestInv

LEMMA RequestStep ==
    ASSUME RequestInv, [PNext]_allvars
    PROVE  RequestInv'
<1> USE Parties
<1>1. CASE Slice(Worker) \/ Slice(Responder)
  <2> PICK p \in {Worker, Responder} : TimerFires(p) /\ UNCHANGED pvars
    BY <1>1 DEF Slice
  <2>1. /\ phase[p] = "waiting" /\ phase' = [phase EXCEPT ![p] = "expired"]
        /\ UNCHANGED <<queue, ended, result, offer, answer, accepted, taken>>
    BY DEF TimerFires, state, history
  <2>2. Idle(Worker)' = Idle(Worker) /\ Idle(Responder)' = Idle(Responder)
    BY <2>1 DEF Idle, RequestInv, PTypes, TypeOK
  <2>3. TypeOK'
    BY <2>1 DEF RequestInv, PTypes, TypeOK
  <2> QED
    BY <2>1, <2>2, <2>3, Still DEF pvars, RequestInv, PTypes, state, history
<1>2. CASE Cancel \/ UNCHANGED allvars
  <2>1. /\ UNCHANGED vars /\ UNCHANGED <<wpc, rpc, slices, heard, outcome>>
        /\ cancelled' \in BOOLEAN
    BY <1>2 DEF Cancel, allvars, pvars, RequestInv, PTypes
  <2>2. Idle(Worker)' = Idle(Worker) /\ Idle(Responder)' = Idle(Responder)
    BY <2>1 DEF Idle, vars
  <2>3. TypeOK'
    BY <2>1 DEF RequestInv, PTypes, TypeOK, vars
  <2> QED
    BY <2>1, <2>2, <2>3, Still DEF vars, state, history
<1> QED
  BY <1>1, <1>2, WorkerKeeps, ResponderKeeps DEF PNext

\* Why the invariant is enough: a reply that ended is in the listener's hands
\* to its last event, and nothing is queued behind that one.
LEMMA WholeIsHeard == RequestInv => HeardWhole
<1> SUFFICES ASSUME RequestInv PROVE HeardWhole
  OBVIOUS
<1>1. CASE outcome = "final"
  <2>1. /\ heard # <<>> /\ heard[Len(heard)].final /\ taken = heard
    BY <1>1 DEF RequestInv, Outcomes, Hears, InHand
  <2>2. /\ accepted = heard \o queue /\ heard \in Seq(Event) /\ queue \in Seq(Event)
        /\ accepted \in Seq(Event)
    BY <2>1 DEF RequestInv, Numbered, PTypes, TypeOK
  <2>3. /\ Len(heard) \in DOMAIN accepted /\ accepted[Len(heard)] = heard[Len(heard)]
        /\ Len(accepted) = Len(heard) + Len(queue)
        /\ \A i \in DOMAIN heard : i \in DOMAIN accepted /\ accepted[i] = heard[i]
    BY <2>1, <2>2
  <2>4. Len(heard) = Len(accepted) /\ result # NoEvent
    BY <2>1, <2>3 DEF RequestInv, Numbered
  <2>5. Len(heard) = offer[Worker].n
    BY <2>4 DEF RequestInv, WorkerCounts
  <2>6. \A i \in DOMAIN heard : heard[i].n = i /\ (heard[i].final => i = Len(heard))
    BY <2>3, <2>4 DEF RequestInv, Numbered
  <2> QED
    BY <1>1, <2>1, <2>5, <2>6 DEF HeardWhole
<1>2. CASE outcome # "final"
  BY <1>2 DEF HeardWhole, RequestInv, Outcomes
<1> QED
  BY <1>1, <1>2

\* A reply that respond_with_credentials returns was heard whole, once and in
\* order, by the caller's listener, and StreamClosed is reported only after the
\* worker spent its whole delivery budget.
THEOREM RepliesHeardWhole == PSpec => []HeardWhole
<1>1. PInit => RequestInv
  BY RequestStarts
<1>2. RequestInv /\ [PNext]_allvars => RequestInv'
  BY RequestStep
<1>3. RequestInv => HeardWhole
  BY WholeIsHeard
<1> QED
  BY <1>1, <1>2, <1>3, PTL DEF PSpec
=============================================================================
