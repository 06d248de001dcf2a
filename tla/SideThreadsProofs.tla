--------------------------- MODULE SideThreadsProofs ---------------------------
(***************************************************************************)
(* Every side question is in one place, and one asked alone is shown its   *)
(* own answer, for any number of workers, side threads, questions, prompts *)
(* and runs.                                                               *)
(*                                                                         *)
(* A thread's request is one worker's (SlotInv), and what the worker does  *)
(* shows in the thread's activity.  A question never leaves its thread: it *)
(* waits there, is served or was recorded, and what was recorded is older  *)
(* than what is served, which is older than what waits (OrderInv).  A      *)
(* question is cancelled exactly when its request is stopping, or was      *)
(* given up (CancelInv).  While a question that was asked alone is waited  *)
(* for, nobody but its worker moves (AloneInv), so the result that ends    *)
(* the wait is its own.                                                    *)
(***************************************************************************)
EXTENDS SideThreadsProperties, TLAPS

Activities == {"none", "running", "stopping", "completing"}
Points == {"free", "spawned", "responding", "responded", "aborted", "recording", "recorded",
           "dropping", "persisting", "saving", "reporting"}

Copies == {<<>>} \cup [Threads -> Seq(Nat)]
WorkerState == [at : Points, thread : 0..MaxThreads, question : Nat, copy : Copies]
UiState == [at : {"free", "saving", "asking"}, thread : 0..MaxThreads, question : Nat, copy : Copies]
ViewState == [busy : BOOLEAN, thread : 0..MaxThreads, start : Nat, question : Nat, alone : BOOLEAN]

TypeInv ==
  /\ made \in 0..MaxThreads /\ asked \in Nat
  /\ turns \in [Threads -> Seq(Nat)] /\ queue \in [Threads -> Seq(Nat)]
  /\ activity \in [Threads -> Activities]
  /\ worker \in [Workers -> WorkerState]
  /\ \A w \in Workers : worker[w].at # "free" => worker[w].thread \in Threads
  /\ ui \in UiState /\ (ui.at # "free" => ui.thread \in Threads)
  /\ view \in ViewState

(* A worker that has the request of its thread, and one whose question is  *)
(* neither waiting nor recorded.                                           *)
Holds(w) == worker[w].at \in {"responding", "responded", "aborted", "recording", "dropping", "recorded"}
Serves(w) == worker[w].at \in {"responding", "responded", "aborted", "recording", "dropping"}

Matches(w) ==
  activity[worker[w].thread] \in
    CASE worker[w].at \in {"responding", "responded", "aborted"} -> {"running", "stopping"}
      [] OTHER -> {"completing"}

SlotInv ==
  /\ \A v, w \in Workers : Holds(v) /\ Holds(w) /\ worker[v].thread = worker[w].thread => v = w
  /\ \A w \in Workers : Holds(w) => Matches(w)

ServedIn(q, t) == \E w \in Workers : Serves(w) /\ worker[w].thread = t /\ worker[w].question = q
InThread(q, t) == Contains(queue[t], q) \/ Contains(turns[t], q) \/ ServedIn(q, t)

Increasing(s) == \A i, j \in DOMAIN s : i < j => s[i] < s[j]

OrderInv ==
  /\ \A t \in Threads :
       /\ Increasing(queue[t]) /\ Increasing(turns[t])
       /\ \A p, q \in Nat : Contains(turns[t], p) /\ Contains(queue[t], q) => p < q
  /\ \A w \in Workers : Serves(w) =>
       /\ \A p \in Nat : Contains(turns[worker[w].thread], p) => p < worker[w].question
       /\ \A q \in Nat : Contains(queue[worker[w].thread], q) => worker[w].question < q

HomeInv ==
  /\ \A t \in Threads : \A q \in Nat : InThread(q, t) => q \in 1..asked
  /\ \A t, u \in Threads : \A q \in Nat : InThread(q, t) /\ InThread(q, u) => t = u
  /\ \A q \in 1..asked : q \in cancelled \/ \E t \in Threads : InThread(q, t)

Gone(w) == worker[w].at \in {"aborted", "dropping"} \/ activity[worker[w].thread] = "stopping"

CancelInv ==
  /\ \A q \in cancelled : q \in 1..asked
  /\ \A t \in Threads : \A q \in cancelled : ~Contains(queue[t], q) /\ ~Contains(turns[t], q)
  /\ \A w \in Workers : Serves(w) => (worker[w].question \in cancelled <=> Gone(w))

SideInv == TypeInv /\ SlotInv /\ OrderInv /\ HomeInv /\ CancelInv

-----------------------------------------------------------------------------
(* Growing and shrinking a list of questions.                              *)
LEMMA AppendKnows ==
  ASSUME NEW s \in Seq(Nat), NEW x \in Nat
  PROVE  /\ Append(s, x) \in Seq(Nat)
         /\ \A q : Contains(Append(s, x), q) <=> Contains(s, q) \/ q = x
         /\ Increasing(s) /\ (\A p \in Nat : Contains(s, p) => p < x) => Increasing(Append(s, x))
<1> DEFINE t == Append(s, x)
<1>1. /\ t \in Seq(Nat) /\ Len(s) \in Nat /\ Len(t) = Len(s) + 1 /\ t[Len(s) + 1] = x
      /\ DOMAIN s = 1..Len(s) /\ DOMAIN t = 1..Len(t) /\ \A i \in 1..Len(s) : t[i] = s[i]
      /\ \A i \in 1..Len(s) : s[i] \in Nat
  OBVIOUS
<1> HIDE DEF t
<1>2. \A i \in 1..Len(t) : i \in 1..Len(s) \/ i = Len(s) + 1
  BY <1>1
<1>3. \A q : Contains(t, q) <=> Contains(s, q) \/ q = x
  <2>1. 1..Len(s) \subseteq 1..Len(t) /\ Len(s) + 1 \in 1..Len(t)
    BY <1>1
  <2> QED
    BY <1>1, <1>2, <2>1 DEF Contains
<1>4. ASSUME Increasing(s), \A p \in Nat : Contains(s, p) => p < x,
             NEW i \in DOMAIN t, NEW j \in DOMAIN t, i < j
      PROVE  t[i] < t[j]
  <2>1. i \in DOMAIN s
    BY <1>1, <1>4
  <2>2. CASE j = Len(s) + 1
    BY <1>1, <1>4, <2>1, <2>2 DEF Contains
  <2>3. CASE j \in DOMAIN s
    BY <1>1, <1>4, <2>1, <2>3 DEF Increasing
  <2> QED
    BY <1>1, <1>2, <1>4, <2>2, <2>3
<1>5. Increasing(s) /\ (\A p \in Nat : Contains(s, p) => p < x) => Increasing(t)
  BY <1>4 DEF Increasing
<1> QED
  BY <1>1, <1>3, <1>5 DEF t

LEMMA TailKnows ==
  ASSUME NEW s \in Seq(Nat), s # <<>>
  PROVE  /\ Head(s) \in Nat /\ Tail(s) \in Seq(Nat)
         /\ \A q : Contains(s, q) <=> q = Head(s) \/ Contains(Tail(s), q)
         /\ Increasing(s) => /\ Increasing(Tail(s))
                             /\ \A q \in Nat : Contains(Tail(s), q) => Head(s) < q
<1> DEFINE t == Tail(s)
<1>1. /\ t \in Seq(Nat) /\ Len(s) \in Nat /\ Len(s) >= 1 /\ Len(t) = Len(s) - 1
      /\ DOMAIN s = 1..Len(s) /\ DOMAIN t = 1..Len(t) /\ Head(s) = s[1] /\ s[1] \in Nat
      /\ \A i \in 1..Len(t) : t[i] = s[i + 1]
  OBVIOUS
<1> HIDE DEF t
<1>2. /\ 1 \in 1..Len(s) /\ \A i \in 1..Len(t) : i + 1 \in 1..Len(s) /\ 1 < i + 1
      /\ \A i \in 1..Len(s) : i = 1 \/ (i - 1 \in 1..Len(t) /\ (i - 1) + 1 = i)
      /\ \A i, j \in 1..Len(t) : i < j => i + 1 < j + 1
  BY <1>1
<1>3. ASSUME NEW q PROVE Contains(s, q) <=> q = Head(s) \/ Contains(t, q)
  <2>1. ASSUME Contains(t, q) PROVE Contains(s, q)
    BY <1>1, <1>2, <2>1 DEF Contains
  <2>2. q = Head(s) => Contains(s, q)
    BY <1>1, <1>2 DEF Contains
  <2>3. ASSUME Contains(s, q) PROVE q = Head(s) \/ Contains(t, q)
    <3>1. PICK i \in 1..Len(s) : s[i] = q
      BY <2>3 DEF Contains
    <3>2. CASE i = 1
      BY <1>1, <3>1, <3>2
    <3>3. CASE i - 1 \in 1..Len(t) /\ (i - 1) + 1 = i
      <4>1. t[i - 1] = s[(i - 1) + 1]
        BY <1>1, <3>3
      <4> QED
        BY <3>1, <3>3, <4>1 DEF Contains
    <3> QED
      BY <1>2, <3>2, <3>3
  <2> QED
    BY <2>1, <2>2, <2>3
<1>4. ASSUME Increasing(s), NEW i \in DOMAIN t, NEW j \in DOMAIN t, i < j PROVE t[i] < t[j]
  <2>1. s[i + 1] < s[j + 1]
    BY <1>1, <1>2, <1>4 DEF Increasing
  <2> QED
    BY <1>1, <1>4, <2>1
<1>5. ASSUME Increasing(s), NEW q \in Nat, Contains(t, q) PROVE Head(s) < q
  <2>1. PICK i \in 1..Len(t) : t[i] = q
    BY <1>5 DEF Contains
  <2>2. s[1] < s[i + 1]
    BY <1>1, <1>2, <1>5 DEF Increasing
  <2> QED
    BY <1>1, <2>1, <2>2
<1> QED
  BY <1>1, <1>3, <1>4, <1>5 DEF t, Increasing

-----------------------------------------------------------------------------
(* Types.                                                                  *)
LEMMA WorkerTypes ==
  ASSUME TypeInv, NEW w \in Workers, WorkerStep(w)
  PROVE  TypeInv'
<1>0. /\ worker \in [Workers -> WorkerState] /\ worker[w] \in WorkerState
      /\ worker[w].at # "free" => worker[w].thread \in Threads
      /\ activity \in [Threads -> Activities] /\ turns \in Copies
      /\ turns \in [Threads -> Seq(Nat)] /\ queue \in [Threads -> Seq(Nat)]
      /\ Free \in WorkerState
  BY SideAssumption DEF TypeInv, Copies, Free, WorkerState, Points
<1>1. UNCHANGED <<made, asked, ui, view>>
  BY DEF WorkerStep, StartNext, StartRefused, Respond, EnterCompletion, RecordTurn, FinishActivity,
     Snapshot, Save, Finish, threads
<1>2. ASSUME NEW x \in WorkerState, worker' = [worker EXCEPT ![w] = x],
             x.at = "free" \/ x.thread \in Threads
      PROVE  /\ worker' \in [Workers -> WorkerState]
             /\ \A v \in Workers : worker'[v].at # "free" => worker'[v].thread \in Threads
  BY <1>0, <1>2 DEF TypeInv
<1>3. ASSUME NEW l \in Points, worker[w].at # "free",
             \/ worker' = [worker EXCEPT ![w] = [worker[w] EXCEPT !.at = l]]
             \/ worker' = [worker EXCEPT ![w] = [worker[w] EXCEPT !.at = l, !.copy = turns]]
             \/ worker' = [worker EXCEPT ![w] = [worker[w] EXCEPT !.at = l, !.copy = <<>>]]
             \/ \E q \in Nat : worker' = [worker EXCEPT ![w] = [worker[w] EXCEPT !.at = l, !.question = q]]
      PROVE  /\ worker' \in [Workers -> WorkerState]
             /\ \A v \in Workers : worker'[v].at # "free" => worker'[v].thread \in Threads
  <2>1. \A c \in Copies, q \in Nat :
          /\ [worker[w] EXCEPT !.at = l] \in WorkerState
          /\ [worker[w] EXCEPT !.at = l].thread = worker[w].thread
          /\ [worker[w] EXCEPT !.at = l, !.copy = c] \in WorkerState
          /\ [worker[w] EXCEPT !.at = l, !.copy = c].thread = worker[w].thread
          /\ [worker[w] EXCEPT !.at = l, !.question = q] \in WorkerState
          /\ [worker[w] EXCEPT !.at = l, !.question = q].thread = worker[w].thread
    BY <1>0 DEF WorkerState
  <2>2. <<>> \in Copies /\ 0 \in Nat
    BY DEF Copies
  <2>3. \E x \in WorkerState : worker' = [worker EXCEPT ![w] = x] /\ x.thread = worker[w].thread
    BY <1>0, <1>3, <2>1, <2>2
  <2> QED
    BY <1>0, <1>2, <1>3, <2>3
<1>4. CASE StartNext(w)
  <2> DEFINE t == worker[w].thread
  <2>1. /\ At(w, "spawned") /\ queue[t] # <<>> /\ UNCHANGED turns
        /\ queue' = [queue EXCEPT ![t] = Tail(queue[t])]
        /\ activity' = [activity EXCEPT ![t] = "running"]
        /\ worker' = [worker EXCEPT ![w] = [worker[w] EXCEPT !.at = "responding", !.question = Head(queue[t])]]
    BY <1>4 DEF StartNext, CanStart
  <2>2. t \in Threads
    BY <1>0, <2>1 DEF At
  <2>3. Head(queue[t]) \in Nat /\ Tail(queue[t]) \in Seq(Nat)
    BY <1>0, <2>1, <2>2, TailKnows
  <2>4. worker[w].at # "free" /\ "responding" \in Points
    BY <2>1 DEF At, Points
  <2>5. /\ worker' \in [Workers -> WorkerState]
        /\ \A v \in Workers : worker'[v].at # "free" => worker'[v].thread \in Threads
    BY <1>3, <2>1, <2>3, <2>4
  <2>6. queue' \in [Threads -> Seq(Nat)] /\ activity' \in [Threads -> Activities]
    BY <1>0, <2>1, <2>3 DEF Activities
  <2> QED
    BY <1>1, <2>1, <2>5, <2>6 DEF TypeInv
<1>5. CASE StartRefused(w) \/ Finish(w)
  <2>1. worker' = [worker EXCEPT ![w] = Free] /\ UNCHANGED <<turns, queue, activity>>
    BY <1>5 DEF StartRefused, Finish, threads
  <2> QED
    BY <1>0, <1>1, <1>2, <2>1 DEF TypeInv, Free
<1>6. CASE Respond(w) \/ Snapshot(w) \/ Save(w)
  <2>1. /\ worker[w].at # "free" /\ UNCHANGED <<turns, queue, activity>>
        /\ \E l \in Points :
             \/ worker' = [worker EXCEPT ![w] = [worker[w] EXCEPT !.at = l]]
             \/ worker' = [worker EXCEPT ![w] = [worker[w] EXCEPT !.at = l, !.copy = turns]]
             \/ worker' = [worker EXCEPT ![w] = [worker[w] EXCEPT !.at = l, !.copy = <<>>]]
    BY <1>6 DEF Respond, Snapshot, Save, GoTo, At, Points, threads
  <2>2. /\ worker' \in [Workers -> WorkerState]
        /\ \A v \in Workers : worker'[v].at # "free" => worker'[v].thread \in Threads
    BY <1>3, <2>1
  <2> QED
    BY <1>1, <2>1, <2>2 DEF TypeInv
<1>7. CASE EnterCompletion(w) \/ RecordTurn(w) \/ FinishActivity(w)
  <2> DEFINE t == worker[w].thread
  <2>1. /\ worker[w].at # "free" /\ UNCHANGED queue
        /\ \E l \in Points : worker' = [worker EXCEPT ![w] = [worker[w] EXCEPT !.at = l]]
        /\ \/ UNCHANGED activity
           \/ \E a \in Activities : activity' = [activity EXCEPT ![t] = a]
        /\ \/ UNCHANGED turns
           \/ turns' = [turns EXCEPT ![t] = Append(turns[t], worker[w].question)]
    BY <1>7 DEF EnterCompletion, RecordTurn, FinishActivity, GoTo, At, Points, Activities, AfterFinish
  <2>2. t \in Threads /\ worker[w].question \in Nat
    BY <1>0, <2>1 DEF WorkerState
  <2>5. Append(turns[t], worker[w].question) \in Seq(Nat)
    BY <1>0, <2>2, AppendKnows
  <2>6. turns' \in [Threads -> Seq(Nat)]
    BY <1>0, <2>1, <2>2, <2>5
  <2>3. turns' \in [Threads -> Seq(Nat)] /\ activity' \in [Threads -> Activities]
    BY <1>0, <2>1, <2>2, <2>6
  <2>4. /\ worker' \in [Workers -> WorkerState]
        /\ \A v \in Workers : worker'[v].at # "free" => worker'[v].thread \in Threads
    BY <1>3, <2>1
  <2> QED
    BY <1>1, <2>1, <2>3, <2>4 DEF TypeInv
<1> QED
  BY <1>4, <1>5, <1>6, <1>7 DEF WorkerStep

LEMMA InterfaceTypes ==
  ASSUME TypeInv, PromptStep \/ InterfaceStep
  PROVE  TypeInv'
<1>0. /\ ui \in UiState /\ view \in ViewState /\ Free \in UiState /\ NotWaiting \in ViewState
      /\ turns \in Copies /\ <<>> \in Copies /\ MaxThreads \in Nat /\ MaxWorkers \in Nat
      /\ worker \in [Workers -> WorkerState] /\ made \in 0..MaxThreads /\ asked \in Nat
      /\ Free.at = "free" /\ queue \in [Threads -> Seq(Nat)] /\ activity \in [Threads -> Activities]
  BY SideAssumption DEF TypeInv, Copies, Free, NotWaiting, UiState, ViewState
<1>1. CASE PromptStep
  BY <1>1 DEF PromptStep, RunStarts, RunEnds, Backoff, PromptDone, TypeInv, threads
<1>2. CASE Prompt \/ SeeEvent
  <2>1. /\ UNCHANGED <<threads, worker, ui, asked>>
        /\ \E b \in BOOLEAN : view' = [view EXCEPT !.busy = b]
    BY <1>2 DEF Prompt, SeeEvent
  <2>2. view' \in ViewState
    BY <1>0, <2>1 DEF ViewState
  <2> QED
    BY <2>1, <2>2 DEF TypeInv, threads
<1>3. CASE SeeResult
  <2>1. UNCHANGED <<threads, worker, ui, asked>> /\ view' = NotWaiting
    BY <1>3 DEF SeeResult
  <2> QED
    BY <1>0, <2>1 DEF TypeInv, threads
<1>4. CASE NewThread
  <2>1. /\ UNCHANGED <<turns, queue, activity, worker, view, asked>>
        /\ made < MaxThreads /\ made' = made + 1
        /\ ui' = [Free EXCEPT !.at = "saving", !.thread = made + 1, !.copy = turns]
    BY <1>4 DEF NewThread
  <2>2. made' \in 0..MaxThreads /\ made + 1 \in Threads /\ made + 1 \in 0..MaxThreads
    BY <1>0, <2>1 DEF Threads
  <2>3. ui' \in UiState /\ ui'.thread = made + 1
    BY <1>0, <2>1, <2>2 DEF UiState
  <2> QED
    BY <2>1, <2>2, <2>3 DEF TypeInv
<1>5. CASE SaveNew
  <2>1. /\ UNCHANGED <<threads, worker, view, asked>> /\ ui.at = "saving"
        /\ ui' = [ui EXCEPT !.at = "asking", !.copy = <<>>]
    BY <1>5 DEF SaveNew
  <2>2. ui' \in UiState /\ ui'.thread = ui.thread
    BY <1>0, <2>1 DEF UiState
  <2> QED
    BY <2>1, <2>2 DEF TypeInv, threads
<1>6. ASSUME NEW t \in 1..made, Resume(t) PROVE TypeInv'
  <2>1. UNCHANGED <<threads, worker, view, asked>> /\ ui' = [Free EXCEPT !.at = "asking", !.thread = t]
    BY <1>6 DEF Resume
  <2>2. t \in Threads /\ t \in 0..MaxThreads
    BY <1>0 DEF Threads
  <2>3. ui' \in UiState /\ ui'.thread = t
    BY <1>0, <2>1, <2>2 DEF UiState
  <2> QED
    BY <2>1, <2>2, <2>3 DEF TypeInv, threads
<1>7. CASE Refused
  <2>1. UNCHANGED <<threads, worker, view, asked>> /\ ui' = Free
    BY <1>7 DEF Refused
  <2> QED
    BY <1>0, <2>1 DEF TypeInv, threads
<1>8. ASSUME Enqueue, ui.at = "asking"
      PROVE  /\ UNCHANGED <<made, turns, activity>> /\ asked' \in Nat /\ queue' \in [Threads -> Seq(Nat)]
             /\ ui' \in UiState /\ ui'.at = "free" /\ ui.thread \in Threads
  <2>1. /\ UNCHANGED <<made, turns, activity>> /\ asked' = asked + 1 /\ ui' = Free
        /\ queue' = [queue EXCEPT ![ui.thread] = Append(queue[ui.thread], asked + 1)]
    BY <1>8 DEF Enqueue
  <2>2. ui.thread \in Threads /\ asked + 1 \in Nat
    BY <1>0, <1>8 DEF TypeInv
  <2>3. queue' \in [Threads -> Seq(Nat)]
    BY <1>0, <2>1, <2>2, AppendKnows
  <2> QED
    BY <1>0, <2>1, <2>2, <2>3
<1>9. CASE AskLater
  <2>1. Enqueue /\ ui.at = "asking" /\ UNCHANGED <<worker, view>>
    BY <1>9 DEF AskLater
  <2> QED
    BY <1>8, <2>1 DEF TypeInv
<1>10. ASSUME NEW w \in Workers, Ask(w) PROVE TypeInv'
  <2>1. /\ Enqueue /\ ui.at = "asking"
        /\ worker' = [worker EXCEPT ![w] = [worker[w] EXCEPT !.at = "spawned", !.thread = ui.thread]]
        /\ view' = [busy |-> TRUE, thread |-> ui.thread, start |-> Len(turns[ui.thread]),
                    question |-> asked + 1, alone |-> Alone]
    BY <1>10 DEF Ask
  <2>2. ui.thread \in Threads /\ ui.thread \in 0..MaxThreads
    BY <1>0, <1>8, <2>1 DEF Threads
  <2>3. [worker[w] EXCEPT !.at = "spawned", !.thread = ui.thread] \in WorkerState
        /\ [worker[w] EXCEPT !.at = "spawned", !.thread = ui.thread].thread = ui.thread
    BY <1>0, <2>2 DEF WorkerState, Points
  <2>4. /\ worker' \in [Workers -> WorkerState]
        /\ \A v \in Workers : worker'[v].at # "free" => worker'[v].thread \in Threads
    BY <1>0, <2>1, <2>2, <2>3 DEF TypeInv
  <2>5. view' \in ViewState
    <3>1. Len(turns[ui.thread]) \in Nat /\ asked + 1 \in Nat /\ Alone \in BOOLEAN
      BY <1>0, <2>2 DEF TypeInv, Alone
    <3> QED
      BY <2>1, <2>2, <3>1 DEF ViewState
  <2> QED
    BY <1>8, <2>1, <2>4, <2>5 DEF TypeInv
<1>11. CASE Escape
  <2>1. /\ UNCHANGED <<made, turns, queue, worker, ui, view, asked>>
        /\ activity' = [activity EXCEPT ![view.thread] = "stopping"]
    BY <1>11 DEF Escape
  <2> QED
    BY <1>0, <2>1 DEF TypeInv, Activities
<1> QED
  BY <1>1, <1>2, <1>3, <1>4, <1>5, <1>6, <1>7, <1>9, <1>10, <1>11 DEF InterfaceStep

-----------------------------------------------------------------------------
(* A step that leaves the lists and what is served alone.                  *)
LEMMA Stays ==
  ASSUME OrderInv, HomeInv, UNCHANGED <<turns, queue, asked>>, cancelled \subseteq cancelled',
         \A v \in Workers : Serves(v)' <=> Serves(v),
         \A v \in Workers : Serves(v) => /\ worker'[v].thread = worker[v].thread
                                         /\ worker'[v].question = worker[v].question
  PROVE  OrderInv' /\ HomeInv'
<1>1. \A q, t : InThread(q, t)' <=> InThread(q, t)
  BY DEF InThread, ServedIn
<1>2. OrderInv'
  BY DEF OrderInv
<1>3. HomeInv'
  BY <1>1 DEF HomeInv
<1> QED
  BY <1>2, <1>3

ListsInv == SlotInv /\ OrderInv /\ HomeInv /\ CancelInv

(* A step of those who have no thread's request.                           *)
LEMMA IdleStep ==
  ASSUME SideInv, UNCHANGED <<turns, queue, activity, asked, cancelled>>,
         \A v \in Workers : worker'[v] = worker[v] \/ (~Holds(v) /\ ~Holds(v)')
  PROVE  ListsInv'
<1>1. \A v \in Workers : Holds(v)' => Holds(v) /\ worker'[v] = worker[v]
  BY DEF Holds
<1>2. \A v \in Workers : (Serves(v) => Holds(v)) /\ (Serves(v)' => Holds(v)')
  BY DEF Serves, Holds
<1>3. \A v \in Workers : Serves(v) \/ Serves(v)' => worker'[v] = worker[v]
  BY <1>2
<1>4. \A v \in Workers : Serves(v)' <=> Serves(v)
  BY <1>3 DEF Serves
<1>5. OrderInv' /\ HomeInv'
  BY <1>3, <1>4, Stays DEF SideInv
<1>6. SlotInv'
  <2>1. \A v, w \in Workers : Holds(v)' /\ Holds(w)' /\ worker'[v].thread = worker'[w].thread => v = w
    BY <1>1 DEF SideInv, SlotInv
  <2>2. \A v \in Workers : Holds(v)' => Matches(v)'
    BY <1>1 DEF SideInv, SlotInv, Matches
  <2> QED
    BY <2>1, <2>2 DEF SlotInv
<1>7. CancelInv'
  BY <1>3, <1>4 DEF SideInv, CancelInv, Gone
<1> QED
  BY <1>5, <1>6, <1>7 DEF ListsInv

(* A question that is served is in no list, and served once.               *)
LEMMA ServedAlone ==
  ASSUME SideInv, NEW w \in Workers, Serves(w)
  PROVE  /\ worker[w].question \in 1..asked
         /\ \A u \in Threads : /\ ~Contains(queue[u], worker[w].question)
                              /\ ~Contains(turns[u], worker[w].question)
         /\ \A v \in Workers : Serves(v) /\ v # w => worker[v].question # worker[w].question
<1>1. /\ worker[w].thread \in Threads /\ worker[w].question \in Nat
      /\ \A v \in Workers : Serves(v) => worker[v].thread \in Threads /\ Holds(v)
  BY DEF SideInv, TypeInv, WorkerState, Serves, Holds
<1>2. InThread(worker[w].question, worker[w].thread)
  BY DEF InThread, ServedIn
<1>3. worker[w].question \in 1..asked
  BY <1>1, <1>2 DEF SideInv, HomeInv
<1>4. ASSUME NEW u \in Threads
      PROVE  ~Contains(queue[u], worker[w].question) /\ ~Contains(turns[u], worker[w].question)
  <2>1. CASE u = worker[w].thread
    <3>1. /\ \A p \in Nat : Contains(turns[u], p) => p < worker[w].question
          /\ \A p \in Nat : Contains(queue[u], p) => worker[w].question < p
      BY <2>1 DEF SideInv, OrderInv
    <3>2. ~(worker[w].question < worker[w].question)
      BY <1>1
    <3> QED
      BY <1>1, <3>1, <3>2
  <2>2. CASE u # worker[w].thread
    BY <1>1, <1>2, <2>2 DEF SideInv, HomeInv, InThread
  <2> QED
    BY <2>1, <2>2
<1>5. ASSUME NEW v \in Workers, Serves(v), v # w
      PROVE  worker[v].question # worker[w].question
  <2>1. worker[v].thread # worker[w].thread
    BY <1>1, <1>5 DEF SideInv, SlotInv
  <2>2. InThread(worker[v].question, worker[v].thread)
    BY <1>5 DEF InThread, ServedIn
  <2> QED
    BY <1>1, <1>2, <1>5, <2>1, <2>2 DEF SideInv, HomeInv
<1> QED
  BY <1>3, <1>4, <1>5

(* A worker goes on with its question, or finds it cancelled.              *)
LEMMA MovesOn ==
  ASSUME SideInv, NEW w \in Workers, Serves(w), Serves(w)', NEW x \in WorkerState,
         worker' = [worker EXCEPT ![w] = x],
         x.thread = worker[w].thread, x.question = worker[w].question,
         UNCHANGED <<turns, queue, asked>>, Gone(w) => Gone(w)',
         cancelled' = IF Gone(w)' THEN cancelled \cup {worker[w].question} ELSE cancelled,
         \A t \in Threads : t # worker[w].thread => activity'[t] = activity[t],
         Matches(w)'
  PROVE  ListsInv'
<1>1. \A v \in Workers : v # w => worker'[v] = worker[v]
  BY DEF SideInv, TypeInv
<1>2. worker'[w] = x
  BY DEF SideInv, TypeInv
<1>3. \A v \in Workers : /\ worker'[v].thread = worker[v].thread
                         /\ worker'[v].question = worker[v].question
  BY <1>1, <1>2
<1>4. \A v \in Workers : (Serves(v)' <=> Serves(v)) /\ (Holds(v)' <=> Holds(v)) /\ (Serves(v) => Holds(v))
  BY <1>1 DEF Serves, Holds
<1>5. OrderInv' /\ HomeInv'
  <2>1. cancelled \subseteq cancelled'
    OBVIOUS
  <2> QED
    BY <1>3, <1>4, <2>1, Stays DEF SideInv
<1>6. ASSUME NEW v \in Workers, v # w, Holds(v)
      PROVE  activity'[worker[v].thread] = activity[worker[v].thread]
  <2>1. worker[v].thread \in Threads
    BY <1>6 DEF SideInv, TypeInv, Holds
  <2>2. worker[v].thread # worker[w].thread
    BY <1>4, <1>6 DEF SideInv, SlotInv
  <2> QED
    BY <2>1, <2>2
<1>7. SlotInv'
  <2>1. \A u, v \in Workers : Holds(u)' /\ Holds(v)' /\ worker'[u].thread = worker'[v].thread => u = v
    BY <1>3, <1>4 DEF SideInv, SlotInv
  <2>2. ASSUME NEW v \in Workers, v # w, Holds(v) PROVE Matches(v)'
    <3>1. Matches(v)
      BY <2>2 DEF SideInv, SlotInv
    <3> QED
      BY <1>1, <1>6, <2>2, <3>1 DEF Matches
  <2> QED
    BY <1>4, <2>1, <2>2 DEF SlotInv
<1>8. CancelInv'
  <2>1. \A v \in Workers : v # w /\ Serves(v) => (Gone(v)' <=> Gone(v))
    BY <1>1, <1>4, <1>6 DEF Gone
  <2>2. \A q \in cancelled' : q \in cancelled \/ q = worker[w].question
    OBVIOUS
  <2>3. /\ \A q \in cancelled' : q \in 1..asked
        /\ \A u \in Threads : \A q \in cancelled' : ~Contains(queue[u], q) /\ ~Contains(turns[u], q)
    BY <2>2, ServedAlone DEF SideInv, CancelInv
  <2>4. worker[w].question \in cancelled' <=> Gone(w)'
    BY DEF SideInv, CancelInv
  <2>5. \A v \in Workers : v # w /\ Serves(v) =>
          (worker[v].question \in cancelled' <=> worker[v].question \in cancelled)
    BY <2>2, ServedAlone
  <2>6. \A v \in Workers : Serves(v) => (worker[v].question \in cancelled' <=> Gone(v)')
    BY <2>1, <2>4, <2>5 DEF SideInv, CancelInv
  <2> QED
    BY <1>3, <1>4, <2>3, <2>6 DEF CancelInv
<1> QED
  BY <1>5, <1>7, <1>8 DEF ListsInv

(* The oldest waiting question gets the thread's request.                  *)
LEMMA Starts ==
  ASSUME SideInv, NEW w \in Workers, StartNext(w)
  PROVE  ListsInv'
<1> DEFINE t == worker[w].thread
           h == Head(queue[t])
<1>1. /\ At(w, "spawned") /\ activity[t] = "none" /\ queue[t] # <<>>
      /\ UNCHANGED <<turns, asked, cancelled>>
      /\ queue' = [queue EXCEPT ![t] = Tail(queue[t])]
      /\ activity' = [activity EXCEPT ![t] = "running"]
      /\ worker' = [worker EXCEPT ![w] = [worker[w] EXCEPT !.at = "responding", !.question = h]]
  BY DEF StartNext, CanStart, history
<1>2. /\ t \in Threads /\ worker[w] \in WorkerState /\ worker \in [Workers -> WorkerState]
      /\ queue \in [Threads -> Seq(Nat)] /\ activity \in [Threads -> Activities]
      /\ turns \in [Threads -> Seq(Nat)]
  BY <1>1 DEF SideInv, TypeInv, At
<1>3. /\ h \in Nat
      /\ \A q : Contains(queue[t], q) <=> q = h \/ Contains(Tail(queue[t]), q)
      /\ Increasing(queue[t]) => /\ Increasing(Tail(queue[t]))
                                 /\ \A q \in Nat : Contains(Tail(queue[t]), q) => h < q
  <2>1. queue[t] \in Seq(Nat)
    BY <1>2
  <2> QED
    BY <1>1, <2>1, TailKnows
<1>4. /\ worker'[w].at = "responding" /\ worker'[w].question = h /\ worker'[w].thread = t
      /\ ~Serves(w) /\ ~Holds(w) /\ Serves(w)' /\ Holds(w)' /\ ~Gone(w)'
      /\ activity'[t] = "running"
  <2>1. worker'[w] = [worker[w] EXCEPT !.at = "responding", !.question = h]
    BY <1>1, <1>2
  <2>2. worker'[w].at = "responding" /\ worker'[w].question = h /\ worker'[w].thread = t
    BY <1>2, <2>1 DEF WorkerState
  <2>3. activity'[t] = "running"
    BY <1>1, <1>2
  <2> QED
    BY <1>1, <2>2, <2>3 DEF At, Serves, Holds, Gone
<1>5. \A v \in Workers : v # w => worker'[v] = worker[v]
  BY <1>1, <1>2
<1>6. \A u \in Threads : u # t => queue'[u] = queue[u] /\ activity'[u] = activity[u]
  BY <1>1, <1>2
<1>7. queue'[t] = Tail(queue[t])
  BY <1>1, <1>2
<1> HIDE DEF t, h
<1>8. \A v \in Workers : (Serves(v) => Holds(v)) /\ (Serves(v)' => Holds(v)')
  BY DEF Serves, Holds
<1>9. ASSUME NEW v \in Workers, Holds(v)
      PROVE  /\ v # w /\ worker[v].thread \in Threads /\ worker[v].thread # t /\ Matches(v)
  <2>1. Matches(v) /\ worker[v].thread \in Threads
    BY <1>9 DEF SideInv, SlotInv, TypeInv, Holds
  <2> QED
    BY <1>1, <1>4, <1>9, <2>1 DEF Matches
<1>10. \A v \in Workers : v # w => (Holds(v)' <=> Holds(v)) /\ (Serves(v)' <=> Serves(v))
  BY <1>5 DEF Holds, Serves
<1>11. \A u \in Threads : \A q : InThread(q, u)' <=> InThread(q, u)
  <2>0. \A v \in Workers : Serves(v) => v # w /\ Serves(v)' /\ worker'[v] = worker[v]
    BY <1>4, <1>5, <1>10
  <2>3. \A v \in Workers : Serves(v)' => v = w \/ (Serves(v) /\ worker'[v] = worker[v])
    BY <1>5, <1>10
  <2>4. \A q, u : ServedIn(q, u)' <=> ServedIn(q, u) \/ (u = t /\ q = h)
    BY <1>4, <2>0, <2>3 DEF ServedIn
  <2>1. \A u \in Threads : u = t => \A q : InThread(q, u)' <=> InThread(q, u)
    BY <1>1, <1>3, <1>7, <2>4 DEF InThread
  <2>2. \A u \in Threads : u # t => \A q : InThread(q, u)' <=> InThread(q, u)
    BY <1>1, <1>6, <2>4 DEF InThread
  <2> QED
    BY <2>1, <2>2
<1>12. SlotInv'
  <2>1. \A u, v \in Workers : Holds(u)' /\ Holds(v)' /\ worker'[u].thread = worker'[v].thread => u = v
    BY <1>4, <1>5, <1>9, <1>10 DEF SideInv, SlotInv
  <2>2. Matches(w)'
    BY <1>4 DEF Matches
  <2>3. \A v \in Workers : v # w /\ Holds(v)' => Matches(v)'
    BY <1>5, <1>6, <1>9, <1>10 DEF Matches
  <2> QED
    BY <2>1, <2>2, <2>3 DEF SlotInv
<1>13. OrderInv'
  <2>1. \A u \in Threads : \A q : Contains(queue'[u], q) => Contains(queue[u], q)
    BY <1>3, <1>6, <1>7
  <2>2. \A u \in Threads : /\ Increasing(queue'[u]) /\ Increasing(turns'[u])
                           /\ \A p, q \in Nat : Contains(turns'[u], p) /\ Contains(queue'[u], q) => p < q
    BY <1>1, <1>2, <1>3, <1>6, <1>7, <2>1 DEF SideInv, OrderInv
  <2>3. /\ \A p \in Nat : Contains(turns'[t], p) => p < h
        /\ \A q \in Nat : Contains(queue'[t], q) => h < q
    BY <1>1, <1>2, <1>3, <1>7 DEF SideInv, OrderInv
  <2>4. \A v \in Workers : v # w /\ Serves(v)' =>
          /\ \A p \in Nat : Contains(turns'[worker'[v].thread], p) => p < worker'[v].question
          /\ \A q \in Nat : Contains(queue'[worker'[v].thread], q) => worker'[v].question < q
    BY <1>1, <1>5, <1>6, <1>8, <1>9, <1>10 DEF SideInv, OrderInv
  <2> QED
    BY <1>4, <2>2, <2>3, <2>4 DEF OrderInv
<1>14. HomeInv'
  BY <1>1, <1>11 DEF SideInv, HomeInv
<1>15. CancelInv'
  <2>1. \A u \in Threads : \A q \in cancelled' : ~Contains(queue'[u], q) /\ ~Contains(turns'[u], q)
    BY <1>1, <1>3, <1>6, <1>7 DEF SideInv, CancelInv
  <2>2. h \notin cancelled
    BY <1>2, <1>3 DEF SideInv, CancelInv
  <2>3. \A v \in Workers : v # w /\ Serves(v)' => (worker'[v].question \in cancelled' <=> Gone(v)')
    BY <1>1, <1>5, <1>6, <1>8, <1>9, <1>10 DEF SideInv, CancelInv, Gone
  <2> QED
    BY <1>1, <1>4, <2>1, <2>2, <2>3 DEF SideInv, CancelInv
<1> QED
  BY <1>12, <1>13, <1>14, <1>15 DEF ListsInv

(* The question is written behind those the thread has told.               *)
LEMMA Records ==
  ASSUME SideInv, NEW w \in Workers, RecordTurn(w)
  PROVE  ListsInv'
<1> DEFINE t == worker[w].thread
           h == worker[w].question
<1>1. /\ At(w, "recording") /\ UNCHANGED <<queue, activity, asked, cancelled>>
      /\ turns' = [turns EXCEPT ![t] = Append(turns[t], h)]
      /\ worker' = [worker EXCEPT ![w] = [worker[w] EXCEPT !.at = "recorded"]]
  BY DEF RecordTurn, GoTo, history
<1>2. /\ t \in Threads /\ worker[w] \in WorkerState /\ worker \in [Workers -> WorkerState]
      /\ queue \in [Threads -> Seq(Nat)] /\ turns \in [Threads -> Seq(Nat)] /\ h \in Nat
  BY <1>1 DEF SideInv, TypeInv, At, WorkerState
<1>3. /\ \A q : Contains(Append(turns[t], h), q) <=> Contains(turns[t], q) \/ q = h
      /\ Increasing(turns[t]) /\ (\A p \in Nat : Contains(turns[t], p) => p < h)
           => Increasing(Append(turns[t], h))
  <2>1. turns[t] \in Seq(Nat)
    BY <1>2
  <2> QED
    BY <1>2, <2>1, AppendKnows
<1>4. /\ worker'[w].at = "recorded" /\ worker'[w].thread = t
      /\ Serves(w) /\ Holds(w) /\ ~Serves(w)' /\ Holds(w)'
  <2>1. worker'[w] = [worker[w] EXCEPT !.at = "recorded"]
    BY <1>1, <1>2
  <2>2. worker'[w].at = "recorded" /\ worker'[w].thread = t
    BY <1>2, <2>1 DEF WorkerState
  <2> QED
    BY <1>1, <2>2 DEF At, Serves, Holds
<1>5. \A v \in Workers : v # w => worker'[v] = worker[v]
  BY <1>1, <1>2
<1>6. (\A u \in Threads : u # t => turns'[u] = turns[u]) /\ turns'[t] = Append(turns[t], h)
  BY <1>1, <1>2
<1>7. activity[t] = "completing" /\ h \notin cancelled
  <2>1. activity[t] = "completing"
    BY <1>1, <1>4 DEF SideInv, SlotInv, Matches, At
  <2> QED
    BY <1>1, <1>4, <2>1 DEF SideInv, CancelInv, Gone, At
<1>8. /\ \A p \in Nat : Contains(turns[t], p) => p < h
      /\ \A q \in Nat : Contains(queue[t], q) => h < q
  BY <1>4 DEF SideInv, OrderInv
<1> HIDE DEF t, h
<1>9. ASSUME NEW v \in Workers, v # w, Holds(v)
      PROVE  worker[v].thread \in Threads /\ worker[v].thread # t
  <2>1. worker[v].thread \in Threads
    BY <1>9 DEF SideInv, TypeInv, Holds
  <2>2. worker[v].thread # worker[w].thread
    BY <1>4, <1>9 DEF SideInv, SlotInv
  <2> QED
    BY <2>1, <2>2 DEF t
<1>10. /\ \A v \in Workers : v # w => (Holds(v)' <=> Holds(v)) /\ (Serves(v)' <=> Serves(v))
       /\ \A v \in Workers : Serves(v) => Holds(v)
  BY <1>5 DEF Holds, Serves
<1>11. \A u \in Threads : \A q : InThread(q, u)' <=> InThread(q, u)
  <2>1. \A q, u : ServedIn(q, u) <=> ServedIn(q, u)' \/ (u = t /\ q = h)
    <3>1. \A v \in Workers : Serves(v)' => v # w /\ Serves(v) /\ worker'[v] = worker[v]
      BY <1>4, <1>5, <1>10
    <3>2. \A v \in Workers : Serves(v) => v = w \/ (Serves(v)' /\ worker'[v] = worker[v])
      BY <1>5, <1>10
    <3>3. worker[w].thread = t /\ worker[w].question = h
      BY DEF t, h
    <3> QED
      BY <1>4, <3>1, <3>2, <3>3 DEF ServedIn
  <2>2. \A u \in Threads : u = t => \A q : InThread(q, u)' <=> InThread(q, u)
    BY <1>1, <1>3, <1>6, <2>1 DEF InThread
  <2>3. \A u \in Threads : u # t => \A q : InThread(q, u)' <=> InThread(q, u)
    BY <1>1, <1>6, <2>1 DEF InThread
  <2> QED
    BY <2>2, <2>3
<1>12. SlotInv'
  <2>1. \A u, v \in Workers : Holds(u)' /\ Holds(v)' /\ worker'[u].thread = worker'[v].thread => u = v
    BY <1>4, <1>5, <1>9, <1>10 DEF SideInv, SlotInv
  <2>2. Matches(w)'
    BY <1>1, <1>4, <1>7 DEF Matches
  <2>3. \A v \in Workers : v # w /\ Holds(v)' => Matches(v)'
    BY <1>1, <1>5, <1>10 DEF SideInv, SlotInv, Matches
  <2> QED
    BY <2>1, <2>2, <2>3 DEF SlotInv
<1>13. OrderInv'
  <2>1. \A u \in Threads : u # t =>
          /\ Increasing(queue'[u]) /\ Increasing(turns'[u])
          /\ \A p, q \in Nat : Contains(turns'[u], p) /\ Contains(queue'[u], q) => p < q
    BY <1>1, <1>6 DEF SideInv, OrderInv
  <2>2. /\ Increasing(queue'[t]) /\ Increasing(turns'[t])
        /\ \A p, q \in Nat : Contains(turns'[t], p) /\ Contains(queue'[t], q) => p < q
    BY <1>1, <1>2, <1>3, <1>6, <1>8 DEF SideInv, OrderInv
  <2>3. \A v \in Workers : v # w /\ Serves(v)' =>
          /\ \A p \in Nat : Contains(turns'[worker'[v].thread], p) => p < worker'[v].question
          /\ \A q \in Nat : Contains(queue'[worker'[v].thread], q) => worker'[v].question < q
    BY <1>1, <1>5, <1>6, <1>9, <1>10 DEF SideInv, OrderInv
  <2> QED
    BY <1>4, <2>1, <2>2, <2>3 DEF OrderInv
<1>14. HomeInv'
  BY <1>1, <1>11 DEF SideInv, HomeInv
<1>15. CancelInv'
  <2>1. \A u \in Threads : \A q \in cancelled' : ~Contains(queue'[u], q) /\ ~Contains(turns'[u], q)
    BY <1>1, <1>3, <1>6, <1>7 DEF SideInv, CancelInv
  <2>2. \A v \in Workers : Serves(v)' => (worker'[v].question \in cancelled' <=> Gone(v)')
    BY <1>1, <1>4, <1>5, <1>10 DEF SideInv, CancelInv, Gone
  <2> QED
    BY <1>1, <2>1, <2>2 DEF SideInv, CancelInv
<1> QED
  BY <1>12, <1>13, <1>14, <1>15 DEF ListsInv

(* The request ends; a question dropped here was cancelled.                *)
LEMMA Finishes ==
  ASSUME SideInv, NEW w \in Workers, FinishActivity(w)
  PROVE  ListsInv'
<1> DEFINE t == worker[w].thread
<1>0. UNCHANGED <<turns, queue, asked, cancelled>>
  BY DEF FinishActivity, history
<1>1. /\ At(w, "recorded") \/ At(w, "dropping")
      /\ activity' = [activity EXCEPT ![t] = "none"]
      /\ worker' = [worker EXCEPT ![w] = [worker[w] EXCEPT !.at = AfterFinish(w)]]
  BY DEF FinishActivity, GoTo, history
<1>2. /\ t \in Threads /\ worker[w] \in WorkerState /\ worker \in [Workers -> WorkerState]
      /\ activity \in [Threads -> Activities]
  BY <1>1 DEF SideInv, TypeInv, At
<1>3. Holds(w) /\ ~Serves(w)' /\ ~Holds(w)'
  <2>1. worker'[w] = [worker[w] EXCEPT !.at = AfterFinish(w)]
    BY <1>1, <1>2
  <2>2. worker'[w].at = AfterFinish(w)
    BY <1>2, <2>1 DEF WorkerState
  <2>3. AfterFinish(w) \in {"persisting", "reporting"}
    BY DEF AfterFinish
  <2> QED
    BY <1>1, <2>2, <2>3 DEF At, Serves, Holds
<1>4. \A v \in Workers : v # w => worker'[v] = worker[v]
  BY <1>1, <1>2
<1>5. \A u \in Threads : u # t => activity'[u] = activity[u]
  BY <1>1, <1>2
<1> HIDE DEF t
<1>6. /\ \A v \in Workers : v # w => (Holds(v)' <=> Holds(v)) /\ (Serves(v)' <=> Serves(v))
      /\ \A v \in Workers : Serves(v) => Holds(v)
  BY <1>4 DEF Holds, Serves
<1>7. ASSUME NEW v \in Workers, v # w, Holds(v)
      PROVE  activity'[worker[v].thread] = activity[worker[v].thread]
  <2>1. worker[v].thread \in Threads
    BY <1>7 DEF SideInv, TypeInv, Holds
  <2>2. worker[v].thread # worker[w].thread
    BY <1>3, <1>7 DEF SideInv, SlotInv
  <2> QED
    BY <1>5, <2>1, <2>2 DEF t
<1>8. SlotInv'
  <2>1. \A u, v \in Workers : Holds(u)' /\ Holds(v)' /\ worker'[u].thread = worker'[v].thread => u = v
    BY <1>3, <1>4, <1>6 DEF SideInv, SlotInv
  <2>2. \A v \in Workers : Holds(v)' => Matches(v)'
    BY <1>3, <1>4, <1>6, <1>7 DEF SideInv, SlotInv, Matches
  <2> QED
    BY <2>1, <2>2 DEF SlotInv
<1>9. OrderInv'
  BY <1>0, <1>3, <1>4, <1>6 DEF SideInv, OrderInv
<1>10. HomeInv'
  <2>1. \A v \in Workers : Serves(v)' => Serves(v) /\ worker'[v] = worker[v]
    BY <1>3, <1>4, <1>6
  <2>2. \A q, u : ServedIn(q, u)' => ServedIn(q, u)
    BY <2>1 DEF ServedIn
  <2>3. \A v \in Workers : Serves(v) /\ worker[v].question \notin cancelled =>
          Serves(v)' /\ worker'[v] = worker[v]
    <3>1. Serves(w) => worker[w].question \in cancelled
      <4>1. Serves(w) => Gone(w)
        BY <1>1 DEF Serves, At, Gone
      <4> QED
        BY <4>1 DEF SideInv, CancelInv
    <3> QED
      BY <1>4, <1>6, <3>1
  <2>4. \A q, u : q \notin cancelled /\ ServedIn(q, u) => ServedIn(q, u)'
    BY <2>3 DEF ServedIn
  <2>5. \A q, u : InThread(q, u)' => InThread(q, u)
    BY <1>0, <2>2 DEF InThread
  <2>6. \A q, u : q \notin cancelled /\ InThread(q, u) => InThread(q, u)'
    BY <1>0, <2>4 DEF InThread
  <2> QED
    BY <1>0, <2>5, <2>6 DEF SideInv, HomeInv
<1>11. CancelInv'
  <2>1. \A v \in Workers : Serves(v)' => (worker'[v].question \in cancelled' <=> Gone(v)')
    BY <1>0, <1>3, <1>4, <1>6, <1>7 DEF SideInv, CancelInv, Gone
  <2> QED
    BY <1>0, <2>1 DEF SideInv, CancelInv
<1> QED
  BY <1>8, <1>9, <1>10, <1>11 DEF ListsInv

(* A confirmed cancellation: the question is served, so it is in no list.  *)
LEMMA Escapes ==
  ASSUME SideInv, Escape
  PROVE  ListsInv'
<1> DEFINE Hit(v) == worker[v].thread = view.thread /\ worker[v].at \in {"responding", "responded", "aborted"}
<1>1. /\ activity[view.thread] = "running" /\ view.thread # 0
      /\ UNCHANGED <<turns, queue, worker, view, asked>>
      /\ activity' = [activity EXCEPT ![view.thread] = "stopping"]
      /\ \A q : q \in cancelled' <=> q \in cancelled \/ \E v \in Workers : Hit(v) /\ q = worker[v].question
  BY DEF Escape
<1>2. /\ view.thread \in Threads /\ activity \in [Threads -> Activities]
      /\ \A v \in Workers : worker[v] \in WorkerState /\ worker[v].question \in Nat
  <2>1. view.thread \in 0..MaxThreads /\ MaxThreads \in Nat
    BY SideAssumption DEF SideInv, TypeInv, ViewState
  <2>2. view.thread \in Threads
    BY <1>1, <2>1 DEF Threads
  <2> QED
    BY <2>2 DEF SideInv, TypeInv, WorkerState
<1>3. /\ activity'[view.thread] = "stopping"
      /\ \A u \in Threads : u # view.thread => activity'[u] = activity[u]
  BY <1>1, <1>2
<1>4. \A v \in Workers : /\ Holds(v)' <=> Holds(v)
                         /\ Serves(v)' <=> Serves(v)
                         /\ Serves(v) => Holds(v)
                         /\ Hit(v) => Serves(v)
  BY <1>1 DEF Holds, Serves
<1>5. \A v \in Workers : Holds(v) /\ worker[v].thread = view.thread => Hit(v)
  BY <1>1 DEF SideInv, SlotInv, Matches, Holds
<1>6. \A v \in Workers : Hit(v) => InThread(worker[v].question, view.thread)
  BY <1>4 DEF InThread, ServedIn
<1>7. ASSUME NEW v \in Workers, Hit(v), NEW u \in Threads
      PROVE  ~Contains(queue[u], worker[v].question) /\ ~Contains(turns[u], worker[v].question)
  BY <1>4, <1>7, ServedAlone
<1>8. SlotInv'
  <2>1. ASSUME NEW v \in Workers, Holds(v) PROVE Matches(v)'
    <3>1. worker[v].thread \in Threads /\ Matches(v)
      BY <2>1 DEF SideInv, SlotInv, TypeInv, Holds
    <3> QED
      BY <1>1, <1>3, <1>5, <2>1, <3>1 DEF Matches
  <2> QED
    BY <1>1, <1>4, <2>1 DEF SideInv, SlotInv
<1>9. OrderInv' /\ HomeInv'
  <2>1. cancelled \subseteq cancelled'
    BY <1>1
  <2> QED
    BY <1>1, <1>4, <2>1, Stays DEF SideInv
<1>10. CancelInv'
  <2>1. \A q \in cancelled' : q \in 1..asked
    BY <1>1, <1>2, <1>6 DEF SideInv, CancelInv, HomeInv
  <2>2. \A u \in Threads : \A q \in cancelled' : ~Contains(queue[u], q) /\ ~Contains(turns[u], q)
    BY <1>1, <1>7 DEF SideInv, CancelInv
  <2>3. ASSUME NEW v \in Workers, Serves(v)
        PROVE  worker[v].question \in cancelled' <=> Gone(v)'
    <3>1. worker[v].thread \in Threads
      BY <2>3 DEF SideInv, TypeInv, Serves
    <3>2. CASE worker[v].thread = view.thread
      BY <1>1, <1>3, <1>4, <1>5, <2>3, <3>2 DEF Gone
    <3>3. CASE worker[v].thread # view.thread
      <4>1. InThread(worker[v].question, worker[v].thread)
        BY <2>3 DEF InThread, ServedIn
      <4>2. \A u \in Workers : Hit(u) => worker[u].question # worker[v].question
        BY <1>2, <1>6, <3>1, <3>3, <4>1 DEF SideInv, HomeInv
      <4>3. worker[v].question \in cancelled' <=> worker[v].question \in cancelled
        BY <1>1, <4>2
      <4> QED
        BY <1>1, <1>3, <2>3, <3>1, <3>3, <4>3 DEF SideInv, CancelInv, Gone
    <3> QED
      BY <3>2, <3>3
  <2> QED
    BY <1>1, <1>4, <2>1, <2>2, <2>3 DEF CancelInv
<1> QED
  BY <1>8, <1>9, <1>10 DEF ListsInv

(* A new question waits in its thread, behind everything in it.            *)
LEMMA Enqueues ==
  ASSUME SideInv, ui.at = "asking", Enqueue,
         \A v \in Workers : worker'[v] = worker[v] \/ (~Holds(v) /\ ~Holds(v)')
  PROVE  ListsInv'
<1>1. PICK t \in Threads, n \in Nat : t = ui.thread /\ n = asked + 1
  BY DEF SideInv, TypeInv
<1>2. /\ UNCHANGED <<turns, activity, cancelled>> /\ asked' = n
      /\ queue' = [queue EXCEPT ![t] = Append(queue[t], n)]
  BY <1>1 DEF Enqueue, history
<1>3. /\ queue \in [Threads -> Seq(Nat)] /\ turns \in [Threads -> Seq(Nat)] /\ queue[t] \in Seq(Nat)
      /\ \A v \in Workers : worker[v] \in WorkerState /\ worker[v].question \in Nat
  BY <1>1 DEF SideInv, TypeInv, WorkerState
<1>4. /\ \A q : Contains(Append(queue[t], n), q) <=> Contains(queue[t], q) \/ q = n
      /\ Increasing(queue[t]) /\ (\A p \in Nat : Contains(queue[t], p) => p < n)
           => Increasing(Append(queue[t], n))
  BY <1>1, <1>3, AppendKnows
<1>5. queue'[t] = Append(queue[t], n) /\ \A u \in Threads : u # t => queue'[u] = queue[u]
  BY <1>1, <1>2, <1>3
<1>6. /\ \A q : q \in 1..n <=> q \in 1..asked \/ q = n
      /\ \A q \in 1..asked : q < n
      /\ n \notin 1..asked
  <2>1. asked \in Nat
    BY DEF SideInv, TypeInv
  <2> QED
    BY <1>1, <2>1
<1>7. \A v \in Workers : Holds(v)' => Holds(v) /\ worker'[v] = worker[v]
  BY DEF Holds
<1>8. /\ \A v \in Workers : (Serves(v) => Holds(v)) /\ (Serves(v)' <=> Serves(v))
      /\ \A v \in Workers : Serves(v) => worker'[v] = worker[v] /\ worker[v].thread \in Threads
  <2>1. \A v \in Workers : (Serves(v) => Holds(v)) /\ (Serves(v)' => Holds(v)')
    BY DEF Serves, Holds
  <2>2. \A v \in Workers : Serves(v) \/ Serves(v)' => worker'[v] = worker[v]
    BY <2>1
  <2>3. \A v \in Workers : Serves(v)' <=> Serves(v)
    BY <2>2 DEF Serves
  <2> QED
    BY <2>1, <2>2, <2>3 DEF SideInv, TypeInv, Serves
<1>9. /\ \A q, u : ServedIn(q, u)' <=> ServedIn(q, u)
      /\ \A u \in Threads : \A q : InThread(q, u)' <=> InThread(q, u) \/ (u = t /\ q = n)
  <2>1. \A q, u : ServedIn(q, u)' <=> ServedIn(q, u)
    BY <1>8 DEF ServedIn
  <2> QED
    BY <1>2, <1>4, <1>5, <2>1 DEF InThread
<1>10. \A u \in Threads : \A q \in Nat : InThread(q, u) => q \in 1..asked /\ q < n
  BY <1>6 DEF SideInv, HomeInv
<1>11. SlotInv'
  BY <1>2, <1>7 DEF SideInv, SlotInv, Matches
<1>12. OrderInv'
  <2>1. /\ Increasing(queue'[t]) /\ Increasing(turns'[t])
        /\ \A p, q \in Nat : Contains(turns'[t], p) /\ Contains(queue'[t], q) => p < q
    <3>1. /\ \A p \in Nat : Contains(queue[t], p) => p < n
          /\ \A p \in Nat : Contains(turns[t], p) => p < n
      BY <1>10 DEF InThread
    <3> QED
      BY <1>2, <1>4, <1>5, <3>1 DEF SideInv, OrderInv
  <2>2. \A u \in Threads : u # t =>
          /\ Increasing(queue'[u]) /\ Increasing(turns'[u])
          /\ \A p, q \in Nat : Contains(turns'[u], p) /\ Contains(queue'[u], q) => p < q
    BY <1>2, <1>5 DEF SideInv, OrderInv
  <2>3. ASSUME NEW v \in Workers, Serves(v)
        PROVE  /\ \A p \in Nat : Contains(turns'[worker[v].thread], p) => p < worker[v].question
               /\ \A q \in Nat : Contains(queue'[worker[v].thread], q) => worker[v].question < q
    <3>1. worker[v].question < n
      BY <1>3, <1>8, <1>10, <2>3 DEF InThread, ServedIn
    <3> QED
      BY <1>2, <1>4, <1>5, <1>8, <2>3, <3>1 DEF SideInv, OrderInv
  <2> QED
    BY <1>8, <2>1, <2>2, <2>3 DEF OrderInv
<1>13. HomeInv'
  <2>1. \A u \in Threads : \A q \in Nat : InThread(q, u)' => q \in 1..n
    BY <1>6, <1>9, <1>10
  <2>2. \A u, x \in Threads : \A q \in Nat : InThread(q, u)' /\ InThread(q, x)' => u = x
    BY <1>6, <1>9, <1>10 DEF SideInv, HomeInv
  <2>3. \A q \in 1..n : q \in cancelled \/ \E u \in Threads : InThread(q, u)'
    BY <1>1, <1>6, <1>9 DEF SideInv, HomeInv
  <2> QED
    BY <1>2, <2>1, <2>2, <2>3 DEF HomeInv
<1>14. CancelInv'
  <2>1. n \notin cancelled
    BY <1>6 DEF SideInv, CancelInv
  <2>2. \A u \in Threads : \A q \in cancelled : ~Contains(queue'[u], q) /\ ~Contains(turns[u], q)
    BY <1>4, <1>5, <2>1 DEF SideInv, CancelInv
  <2>3. \A q \in cancelled : q \in 1..n
    BY <1>6 DEF SideInv, CancelInv
  <2>4. \A v \in Workers : Serves(v)' => (worker'[v].question \in cancelled' <=> Gone(v)')
    BY <1>2, <1>8 DEF SideInv, CancelInv, Gone
  <2> QED
    BY <1>2, <2>2, <2>3, <2>4 DEF CancelInv
<1> QED
  BY <1>11, <1>12, <1>13, <1>14 DEF ListsInv

-----------------------------------------------------------------------------
(* Every step.                                                             *)
LEMMA WorkerKeeps ==
  ASSUME SideInv, NEW w \in Workers, WorkerStep(w)
  PROVE  ListsInv'
<1>0. worker \in [Workers -> WorkerState] /\ worker[w] \in WorkerState
  BY DEF SideInv, TypeInv
<1>1. ASSUME NEW x, worker' = [worker EXCEPT ![w] = x], ~Holds(w),
             x.at \in {"free", "saving", "reporting"},
             UNCHANGED <<turns, queue, activity, asked, cancelled>>
      PROVE  ListsInv'
  <2>1. worker'[w] = x /\ \A v \in Workers : v # w => worker'[v] = worker[v]
    BY <1>0, <1>1
  <2>2. ~Holds(w)'
    BY <1>1, <2>1 DEF Holds
  <2> QED
    BY <1>1, <2>1, <2>2, IdleStep
<1>2. CASE StartRefused(w) \/ Finish(w)
  <2>1. /\ worker' = [worker EXCEPT ![w] = Free] /\ ~Holds(w) /\ Free.at = "free"
        /\ UNCHANGED <<turns, queue, activity, asked, cancelled>>
    BY <1>2 DEF StartRefused, Finish, At, Holds, Free, threads, history
  <2> QED
    BY <1>1, <2>1
<1>3. CASE Snapshot(w)
  <2>1. /\ worker' = [worker EXCEPT ![w] = [worker[w] EXCEPT !.at = "saving", !.copy = turns]]
        /\ ~Holds(w) /\ UNCHANGED <<turns, queue, activity, asked, cancelled>>
    BY <1>3 DEF Snapshot, At, Holds, threads
  <2>2. [worker[w] EXCEPT !.at = "saving", !.copy = turns].at = "saving"
    BY <1>0 DEF WorkerState
  <2> QED
    BY <1>1, <2>1, <2>2
<1>4. CASE Save(w)
  <2>1. /\ worker' = [worker EXCEPT ![w] = [worker[w] EXCEPT !.at = "reporting", !.copy = <<>>]]
        /\ ~Holds(w) /\ UNCHANGED <<turns, queue, activity, asked, cancelled>>
    BY <1>4 DEF Save, At, Holds, threads, history
  <2>2. [worker[w] EXCEPT !.at = "reporting", !.copy = <<>>].at = "reporting"
    BY <1>0 DEF WorkerState
  <2> QED
    BY <1>1, <2>1, <2>2
<1>5. ASSUME NEW l \in {"responded", "aborted", "recording", "dropping"},
             worker' = [worker EXCEPT ![w] = [worker[w] EXCEPT !.at = l]]
      PROVE  \E x \in WorkerState :
               /\ worker' = [worker EXCEPT ![w] = x] /\ worker'[w] = x /\ x.at = l
               /\ x.thread = worker[w].thread /\ x.question = worker[w].question
  <2>1. l \in Points
    BY DEF Points
  <2>2. /\ [worker[w] EXCEPT !.at = l] \in WorkerState
        /\ [worker[w] EXCEPT !.at = l].at = l
        /\ [worker[w] EXCEPT !.at = l].thread = worker[w].thread
        /\ [worker[w] EXCEPT !.at = l].question = worker[w].question
    BY <1>0, <2>1 DEF WorkerState
  <2> QED
    BY <1>0, <1>5, <2>2
<1>6. CASE Respond(w)
  <2>1. PICK l \in {"responded", "aborted"} :
          /\ worker' = [worker EXCEPT ![w] = [worker[w] EXCEPT !.at = l]]
          /\ cancelled' = IF l = "aborted" THEN cancelled \cup {worker[w].question} ELSE cancelled
    BY <1>6 DEF Respond, GoTo
  <2>2. /\ worker[w].at = "responding" /\ UNCHANGED <<turns, queue, activity, asked>>
    BY <1>6 DEF Respond, At, threads
  <2>3. PICK x \in WorkerState :
          /\ worker' = [worker EXCEPT ![w] = x] /\ worker'[w] = x /\ x.at = l
          /\ x.thread = worker[w].thread /\ x.question = worker[w].question
    BY <1>5, <2>1
  <2>4. Serves(w) /\ Serves(w)' /\ Holds(w)
    BY <2>2, <2>3 DEF Serves, Holds
  <2>5. activity[worker[w].thread] \in {"running", "stopping"}
    BY <2>2, <2>4 DEF SideInv, SlotInv, Matches
  <2>6. Matches(w)'
    BY <2>1, <2>2, <2>3, <2>5 DEF Matches
  <2>7. (Gone(w)' <=> Gone(w) \/ l = "aborted") /\ (Gone(w) => worker[w].question \in cancelled)
    BY <2>1, <2>2, <2>3, <2>4 DEF Gone, SideInv, CancelInv
  <2>8. cancelled' = IF Gone(w)' THEN cancelled \cup {worker[w].question} ELSE cancelled
    BY <2>1, <2>7
  <2> QED
    BY <2>2, <2>3, <2>4, <2>6, <2>7, <2>8, MovesOn
<1>7. CASE EnterCompletion(w)
  <2>1. PICK l \in {"recording", "dropping"} :
          /\ worker' = [worker EXCEPT ![w] = [worker[w] EXCEPT !.at = l]]
          /\ l = "recording" <=> Completes(w)
    BY <1>7 DEF EnterCompletion, GoTo
  <2>2. /\ worker[w].at \in {"responded", "aborted"} /\ UNCHANGED <<turns, queue, asked, cancelled>>
        /\ activity' = [activity EXCEPT ![worker[w].thread] = "completing"]
    BY <1>7 DEF EnterCompletion, At, history
  <2>3. PICK x \in WorkerState :
          /\ worker' = [worker EXCEPT ![w] = x] /\ worker'[w] = x /\ x.at = l
          /\ x.thread = worker[w].thread /\ x.question = worker[w].question
    BY <1>5, <2>1
  <2>4. Serves(w) /\ Serves(w)' /\ Holds(w)
    BY <2>2, <2>3 DEF Serves, Holds
  <2>5. /\ activity'[worker[w].thread] = "completing"
        /\ \A t \in Threads : t # worker[w].thread => activity'[t] = activity[t]
    BY <2>2 DEF SideInv, TypeInv
  <2>6. Matches(w)'
    BY <2>3, <2>5 DEF Matches
  <2>7. Gone(w)' <=> l = "dropping"
    BY <2>3, <2>5 DEF Gone
  <2>8. Gone(w) <=> ~Completes(w)
    BY <2>2 DEF Gone, Completes, At
  <2>9. (Gone(w)' <=> Gone(w)) /\ (Gone(w) => worker[w].question \in cancelled)
    BY <2>1, <2>4, <2>7, <2>8 DEF SideInv, CancelInv
  <2>10. cancelled' = IF Gone(w)' THEN cancelled \cup {worker[w].question} ELSE cancelled
    BY <2>2, <2>9
  <2> QED
    BY <2>2, <2>3, <2>4, <2>5, <2>6, <2>9, <2>10, MovesOn
<1> QED
  BY <1>2, <1>3, <1>4, <1>6, <1>7, Starts, Records, Finishes DEF WorkerStep

LEMMA InterfaceKeeps ==
  ASSUME SideInv, PromptStep \/ InterfaceStep
  PROVE  ListsInv'
<1>1. CASE PromptStep
  <2>1. UNCHANGED <<turns, queue, activity, asked, cancelled, worker>>
    BY <1>1 DEF PromptStep, RunStarts, RunEnds, Backoff, PromptDone, threads, history
  <2> QED
    BY <2>1, IdleStep
<1>2. CASE Prompt \/ NewThread \/ SaveNew \/ Refused \/ SeeEvent \/ SeeResult \/ \E t \in 1..made : Resume(t)
  <2>1. UNCHANGED <<turns, queue, activity, asked, cancelled, worker>>
    BY <1>2 DEF Prompt, NewThread, SaveNew, Refused, SeeEvent, SeeResult, Resume, threads, history
  <2> QED
    BY <2>1, IdleStep
<1>3. CASE AskLater
  BY <1>3, Enqueues DEF AskLater
<1>4. ASSUME NEW w \in Workers, Ask(w) PROVE ListsInv'
  <2>1. /\ ui.at = "asking" /\ Enqueue /\ worker[w].at = "free"
        /\ worker' = [worker EXCEPT ![w] = [worker[w] EXCEPT !.at = "spawned", !.thread = ui.thread]]
    BY <1>4 DEF Ask, At
  <2>2. worker \in [Workers -> WorkerState] /\ worker[w] \in WorkerState
    BY DEF SideInv, TypeInv
  <2>3. [worker[w] EXCEPT !.at = "spawned", !.thread = ui.thread].at = "spawned"
    BY <2>2 DEF WorkerState
  <2>4. worker'[w].at = "spawned" /\ \A v \in Workers : v # w => worker'[v] = worker[v]
    BY <2>1, <2>2, <2>3
  <2>5. ~Holds(w) /\ ~Holds(w)'
    BY <2>1, <2>4 DEF Holds
  <2> QED
    BY <2>1, <2>4, <2>5, Enqueues
<1>5. CASE Escape
  BY <1>5, Escapes
<1> QED
  BY <1>1, <1>2, <1>3, <1>4, <1>5 DEF InterfaceStep

LEMMA SideInit == Init => SideInv
<1> SUFFICES ASSUME Init PROVE SideInv
  OBVIOUS
<1>1. /\ made = 0 /\ asked = 0 /\ cancelled = {} /\ ui = Free /\ view = NotWaiting
      /\ turns = [t \in Threads |-> <<>>] /\ queue = [t \in Threads |-> <<>>]
      /\ activity = [t \in Threads |-> "none"] /\ worker = [w \in Workers |-> Free]
  BY DEF Init
<1>2. /\ MaxThreads \in Nat /\ <<>> \in Seq(Nat) /\ Free \in WorkerState /\ Free \in UiState
      /\ NotWaiting \in ViewState /\ Free.at = "free"
  BY SideAssumption DEF Free, NotWaiting, WorkerState, UiState, ViewState, Copies, Points
<1>3. \A q : ~Contains(<<>>, q)
  BY DEF Contains
<1>4. /\ \A w \in Workers : ~Holds(w) /\ ~Serves(w)
      /\ \A t \in Threads : turns[t] = <<>> /\ queue[t] = <<>>
  BY <1>1, <1>2 DEF Holds, Serves
<1>5. TypeInv
  BY <1>1, <1>2 DEF TypeInv, Activities
<1>6. SlotInv
  BY <1>4 DEF SlotInv
<1>7. OrderInv
  BY <1>3, <1>4 DEF OrderInv, Increasing
<1>8. HomeInv
  BY <1>1, <1>3, <1>4 DEF HomeInv, InThread, ServedIn
<1>9. CancelInv
  BY <1>1, <1>4 DEF CancelInv
<1> QED
  BY <1>5, <1>6, <1>7, <1>8, <1>9 DEF SideInv

LEMMA SideStep == SideInv /\ [Next]_vars => SideInv'
<1> SUFFICES ASSUME SideInv, [Next]_vars PROVE SideInv'
  OBVIOUS
<1>1. TypeInv
  BY DEF SideInv
<1>2. CASE PromptStep \/ InterfaceStep
  BY <1>1, <1>2, InterfaceTypes, InterfaceKeeps DEF SideInv, ListsInv
<1>3. ASSUME NEW w \in Workers, WorkerStep(w) PROVE SideInv'
  BY <1>1, <1>3, WorkerTypes, WorkerKeeps DEF SideInv, ListsInv
<1>4. CASE UNCHANGED vars
  <2>1. UNCHANGED <<turns, queue, activity, asked, cancelled, worker>> /\ UNCHANGED <<made, ui, view>>
    BY <1>4 DEF vars, threads, history
  <2>2. ListsInv'
    BY <2>1, IdleStep
  <2>3. TypeInv'
    BY <1>1, <2>1 DEF TypeInv
  <2> QED
    BY <2>2, <2>3 DEF SideInv, ListsInv
<1> QED
  BY <1>2, <1>3, <1>4 DEF Next

(* The places exclude one another, and one of them always has the question.*)
LEMMA SideInvGivesOnce == SideInv => EachQuestionOnce
<1> SUFFICES ASSUME SideInv PROVE EachQuestionOnce
  OBVIOUS
<1>1. \A w \in Workers, q \in Nat : Undecided(w, q) => Serves(w) /\ worker[w].question = q
  BY DEF Undecided, Working, Serves
<1>2. \A w \in Workers : Serves(w) => worker[w].thread \in Threads /\ Holds(w)
  BY DEF Serves, Holds, SideInv, TypeInv
<1>3. ASSUME NEW q \in Nat, NEW t \in Threads, ServedIn(q, t)
      PROVE  ~Contains(queue[t], q) /\ ~Contains(turns[t], q)
  <2>1. PICK w \in Workers : Serves(w) /\ worker[w].thread = t /\ worker[w].question = q
    BY <1>3 DEF ServedIn
  <2>2. ~(q < q)
    OBVIOUS
  <2> QED
    BY <2>1, <2>2 DEF SideInv, OrderInv
<1>4. ASSUME NEW q \in Nat, NEW t \in Threads PROVE ~(Contains(queue[t], q) /\ Contains(turns[t], q))
  <2>1. ~(q < q)
    OBVIOUS
  <2> QED
    BY <2>1 DEF SideInv, OrderInv
<1>5. ASSUME NEW q \in 1..asked, q \notin cancelled
      PROVE  \/ Waiting(q) /\ ~Recorded(q) /\ \A w \in Workers : ~Undecided(w, q)
             \/ ~Waiting(q) /\ Recorded(q) /\ \A w \in Workers : ~Undecided(w, q)
             \/ /\ ~Waiting(q) /\ ~Recorded(q)
                /\ \E w \in Workers : Undecided(w, q) /\ \A v \in Workers \ {w} : ~Undecided(v, q)
  <2>0. q \in Nat
    BY DEF SideInv, TypeInv
  <2>1. PICK t \in Threads : InThread(q, t)
    BY <1>5 DEF SideInv, HomeInv
  <2>2. \A u \in Threads : InThread(q, u) => u = t
    BY <2>0, <2>1 DEF SideInv, HomeInv
  <2>3. \A w \in Workers : Undecided(w, q) => ServedIn(q, t) /\ worker[w].thread = t
    <3>1. ASSUME NEW w \in Workers, Undecided(w, q) PROVE ServedIn(q, t) /\ worker[w].thread = t
      <4>1. ServedIn(q, worker[w].thread) /\ worker[w].thread \in Threads
        BY <1>1, <1>2, <2>0, <3>1 DEF ServedIn
      <4> QED
        BY <2>2, <4>1 DEF InThread
    <3> QED
      BY <3>1
  <2>4. (Waiting(q) <=> Contains(queue[t], q)) /\ (Recorded(q) <=> Contains(turns[t], q))
    BY <2>2 DEF Waiting, Recorded, InThread
  <2>5. CASE ServedIn(q, t)
    <3>1. PICK w \in Workers : Serves(w) /\ worker[w].thread = t /\ worker[w].question = q
      BY <2>5 DEF ServedIn
    <3>2. worker[w].at # "dropping"
      BY <1>5, <3>1 DEF SideInv, CancelInv, Gone
    <3>3. Undecided(w, q)
      BY <3>1, <3>2 DEF Undecided, Working, Serves
    <3>4. \A v \in Workers \ {w} : ~Undecided(v, q)
      BY <1>1, <1>2, <2>0, <2>3, <3>1 DEF SideInv, SlotInv
    <3> QED
      BY <1>3, <2>0, <2>4, <2>5, <3>3, <3>4
  <2>6. CASE ~ServedIn(q, t)
    BY <1>4, <2>0, <2>1, <2>3, <2>4, <2>6 DEF InThread
  <2> QED
    BY <2>5, <2>6
<1>6. \A q \in cancelled : ~Waiting(q) /\ ~Recorded(q)
  BY DEF SideInv, CancelInv, Waiting, Recorded
<1>7. \A t \in Threads : \A i, j \in DOMAIN turns[t] : i < j => turns[t][i] < turns[t][j]
  BY DEF SideInv, OrderInv, Increasing
<1> QED
  BY <1>5, <1>6, <1>7 DEF EachQuestionOnce

(* A side question waits, is being answered, is recorded or was cancelled, *)
(* and no two of these at once; each thread tells its questions in the     *)
(* order they were asked.                                                  *)
THEOREM QuestionsAreAnsweredOnce == Spec => []EachQuestionOnce
BY SideInit, SideStep, SideInvGivesOnce, PTL DEF Spec

-----------------------------------------------------------------------------
(* A question asked while nothing else was on its way has the interface to *)
(* itself until its result is seen: only its worker moves.                 *)
Told == /\ Len(turns[view.thread]) = view.start + 1
        /\ turns[view.thread][view.start + 1] = view.question
Untold == Len(turns[view.thread]) = view.start
GivenUp == Untold /\ view.question \in cancelled

Others(w) == \A v \in Workers \ {w} : worker[v].at = "free"

Before(w) ==
  /\ worker[w].at = "spawned" /\ activity[view.thread] = "none"
  /\ queue[view.thread] = <<view.question>> /\ Untold
During(w) == Serves(w) /\ worker[w].question = view.question /\ Untold
After(w) ==
  \/ worker[w].at \in {"recorded", "persisting", "saving", "reporting"} /\ Told
  \/ worker[w].at = "reporting" /\ GivenUp

Stage(w) ==
  \/ (Before(w) \/ During(w) \/ After(w)) /\ worker[w].thread = view.thread /\ results = <<>>
  \/ worker[w].at = "free" /\ (Told \/ GivenUp)

Quiet == view.busy /\ view.thread \in Threads /\ prompt = "none" /\ events = <<>>

AloneInv == view.alone => Quiet /\ \E w \in Workers : Others(w) /\ Stage(w)

LEMMA AloneUnder ==
  ASSUME SideInv, AloneInv, UNCHANGED <<turns, queue, worker, view, prompt, events, results>>,
         cancelled \subseteq cancelled',
         activity' = activity \/ (\E t \in Threads : /\ activity[t] = "running"
                                                     /\ activity' = [activity EXCEPT ![t] = "stopping"])
  PROVE  AloneInv'
<1> SUFFICES ASSUME view.alone PROVE Quiet' /\ \E w \in Workers : Others(w)' /\ Stage(w)'
  BY DEF AloneInv
<1>1. PICK w \in Workers : Others(w) /\ Stage(w)
  BY DEF AloneInv
<1>2. Quiet' /\ Others(w)' /\ (Told' <=> Told) /\ (Untold' <=> Untold) /\ (GivenUp => GivenUp')
  BY <1>1 DEF AloneInv, Quiet, Others, Told, Untold, GivenUp
<1>3. activity[view.thread] = "none" => activity'[view.thread] = "none"
  BY DEF SideInv, TypeInv, AloneInv, Quiet
<1>4. Stage(w)'
  BY <1>1, <1>2, <1>3 DEF Stage, Before, During, After, Serves
<1> QED
  BY <1>1, <1>2, <1>4

LEMMA AloneWorks ==
  ASSUME SideInv, AloneInv, NEW w \in Workers, WorkerStep(w)
  PROVE  AloneInv'
<1> SUFFICES ASSUME view.alone, UNCHANGED <<view, prompt, events>>
             PROVE  Quiet' /\ Others(w)' /\ Stage(w)'
  <2>1. UNCHANGED <<view, prompt, events>>
    BY DEF WorkerStep, StartNext, StartRefused, Respond, EnterCompletion, RecordTurn,
       FinishActivity, Snapshot, Save, Finish, channels
  <2> QED
    BY <2>1 DEF AloneInv
<1>1. Quiet' /\ view.thread \in Threads
  BY DEF AloneInv, Quiet
<1>2. /\ worker \in [Workers -> WorkerState] /\ worker[w] \in WorkerState
      /\ turns \in [Threads -> Seq(Nat)] /\ queue \in [Threads -> Seq(Nat)]
      /\ view.start \in Nat
  BY DEF SideInv, TypeInv, ViewState
<1>3. worker[w].at # "free"
  BY DEF WorkerStep, StartNext, StartRefused, Respond, EnterCompletion, RecordTurn,
     FinishActivity, Snapshot, Save, Finish, At
<1>4. Others(w) /\ (Before(w) \/ During(w) \/ After(w)) /\ worker[w].thread = view.thread /\ results = <<>>
  BY <1>3 DEF AloneInv, Others, Stage
<1>5. ASSUME NEW x, worker' = [worker EXCEPT ![w] = x]
      PROVE  worker'[w] = x /\ Others(w)'
  BY <1>2, <1>4, <1>5 DEF Others
<1>6. CASE StartNext(w)
  <2>1. /\ worker[w].at = "spawned" /\ UNCHANGED <<turns, results>>
        /\ worker' = [worker EXCEPT ![w] = [worker[w] EXCEPT !.at = "responding",
                                                             !.question = Head(queue[worker[w].thread])]]
    BY <1>6 DEF StartNext, At, channels
  <2>2. queue[view.thread] = <<view.question>> /\ Untold
    BY <1>4, <2>1 DEF Before, During, After, Serves
  <2>3. Head(queue[worker[w].thread]) = view.question
    <3>1. Head(<<view.question>>) = view.question
      OBVIOUS
    <3> QED
      BY <1>4, <2>2, <3>1
  <2>4. Others(w)' /\ worker'[w] = [worker[w] EXCEPT !.at = "responding", !.question = view.question]
    BY <1>5, <2>1, <2>3
  <2>5. /\ worker'[w].at = "responding" /\ worker'[w].question = view.question
        /\ worker'[w].thread = worker[w].thread
    BY <1>2, <2>4 DEF WorkerState
  <2> QED
    BY <1>1, <1>4, <2>1, <2>2, <2>4, <2>5 DEF Stage, During, Serves, Untold
<1>7. CASE StartRefused(w)
  <2>1. /\ worker[w].at = "spawned" /\ ~CanStart(view.thread)
    BY <1>4, <1>7 DEF StartRefused, At
  <2>2. Before(w)
    BY <1>4, <2>1 DEF During, After, Serves
  <2>3. <<view.question>> # <<>>
    OBVIOUS
  <2> QED
    BY <2>1, <2>2, <2>3 DEF Before, CanStart
<1>8. CASE Respond(w) \/ EnterCompletion(w)
  <2>1. PICK l \in {"responded", "aborted", "recording", "dropping"} :
          worker' = [worker EXCEPT ![w] = [worker[w] EXCEPT !.at = l]]
    BY <1>8 DEF Respond, EnterCompletion, GoTo
  <2>2. Others(w)' /\ worker'[w] = [worker[w] EXCEPT !.at = l]
    BY <1>5, <2>1
  <2>3. worker'[w].at = l /\ worker'[w].question = worker[w].question /\ worker'[w].thread = worker[w].thread
    BY <1>2, <2>2 DEF WorkerState
  <2>4. UNCHANGED <<turns, results>> /\ worker[w].at \in {"responding", "responded", "aborted"}
    BY <1>8 DEF Respond, EnterCompletion, At, threads, channels
  <2>5. During(w)
    BY <1>4, <2>4 DEF Before, After
  <2> QED
    BY <1>1, <1>4, <2>2, <2>3, <2>4, <2>5 DEF Stage, During, Serves, Untold
<1>9. CASE RecordTurn(w)
  <2>1. /\ worker[w].at = "recording" /\ UNCHANGED results
        /\ worker' = [worker EXCEPT ![w] = [worker[w] EXCEPT !.at = "recorded"]]
        /\ turns' = [turns EXCEPT ![worker[w].thread] = Append(turns[worker[w].thread], worker[w].question)]
    BY <1>9 DEF RecordTurn, GoTo, At, channels
  <2>2. During(w)
    BY <1>4, <2>1 DEF Before, After
  <2>3. turns'[view.thread] = Append(turns[view.thread], view.question)
    BY <1>1, <1>2, <1>4, <2>1, <2>2 DEF During
  <2>4. \A s \in Seq(Nat), q \in Nat : /\ Len(Append(s, q)) = Len(s) + 1
                                       /\ Append(s, q)[Len(s) + 1] = q
    OBVIOUS
  <2>5. turns[view.thread] \in Seq(Nat) /\ view.question \in Nat /\ Len(turns[view.thread]) = view.start
    BY <1>1, <1>2, <2>2 DEF During, Untold, WorkerState
  <2>6. Told'
    BY <2>3, <2>4, <2>5 DEF Told
  <2>7. Others(w)' /\ worker'[w] = [worker[w] EXCEPT !.at = "recorded"]
    BY <1>5, <2>1
  <2>8. worker'[w].at = "recorded" /\ worker'[w].thread = worker[w].thread
    BY <1>2, <2>7 DEF WorkerState
  <2> QED
    BY <1>1, <1>4, <2>1, <2>6, <2>7, <2>8 DEF Stage, After
<1>10. CASE FinishActivity(w)
  <2>1. /\ worker[w].at \in {"recorded", "dropping"} /\ UNCHANGED <<turns, results, cancelled>>
        /\ worker' = [worker EXCEPT ![w] = [worker[w] EXCEPT !.at = AfterFinish(w)]]
    BY <1>10 DEF FinishActivity, GoTo, At, channels, history
  <2>2. Others(w)' /\ worker'[w] = [worker[w] EXCEPT !.at = AfterFinish(w)]
    BY <1>5, <2>1
  <2>3. worker'[w].at = AfterFinish(w) /\ worker'[w].thread = worker[w].thread
    BY <1>2, <2>2 DEF WorkerState
  <2>4. CASE worker[w].at = "recorded"
    <3>1. Told' /\ AfterFinish(w) = "persisting"
      BY <1>4, <2>1, <2>4 DEF Before, During, After, Serves, Told, AfterFinish, At
    <3> QED
      BY <1>1, <1>4, <2>1, <2>2, <2>3, <3>1 DEF Stage, After
  <2>5. CASE worker[w].at = "dropping"
    <3>1. During(w) /\ AfterFinish(w) = "reporting"
      BY <1>4, <2>5 DEF Before, After, AfterFinish, At
    <3>2. view.question \in cancelled
      BY <2>5, <3>1 DEF During, Gone, SideInv, CancelInv
    <3>3. GivenUp'
      BY <2>1, <3>1, <3>2 DEF During, GivenUp, Untold
    <3> QED
      BY <1>1, <1>4, <2>1, <2>2, <2>3, <3>1, <3>3 DEF Stage, After
  <2> QED
    BY <2>1, <2>4, <2>5
<1>11. CASE Snapshot(w) \/ Save(w)
  <2>1. /\ worker[w].at \in {"persisting", "saving"} /\ UNCHANGED <<turns, results>>
        /\ \E l \in {"saving", "reporting"} :
             \/ worker' = [worker EXCEPT ![w] = [worker[w] EXCEPT !.at = l, !.copy = turns]]
             \/ worker' = [worker EXCEPT ![w] = [worker[w] EXCEPT !.at = l, !.copy = <<>>]]
    BY <1>11 DEF Snapshot, Save, At, threads, channels
  <2>2. \A l : /\ [worker[w] EXCEPT !.at = l, !.copy = turns].at = l
               /\ [worker[w] EXCEPT !.at = l, !.copy = turns].thread = worker[w].thread
               /\ [worker[w] EXCEPT !.at = l, !.copy = <<>>].at = l
               /\ [worker[w] EXCEPT !.at = l, !.copy = <<>>].thread = worker[w].thread
    BY <1>2 DEF WorkerState
  <2>3. Others(w)' /\ worker'[w].at \in {"saving", "reporting"} /\ worker'[w].thread = worker[w].thread
    <3>1. PICK l \in {"saving", "reporting"} :
            \/ worker' = [worker EXCEPT ![w] = [worker[w] EXCEPT !.at = l, !.copy = turns]]
            \/ worker' = [worker EXCEPT ![w] = [worker[w] EXCEPT !.at = l, !.copy = <<>>]]
      BY <2>1
    <3>2. CASE worker' = [worker EXCEPT ![w] = [worker[w] EXCEPT !.at = l, !.copy = turns]]
      <4>1. Others(w)' /\ worker'[w] = [worker[w] EXCEPT !.at = l, !.copy = turns]
        BY <1>5, <3>2
      <4> QED
        BY <2>2, <4>1
    <3>3. CASE worker' = [worker EXCEPT ![w] = [worker[w] EXCEPT !.at = l, !.copy = <<>>]]
      <4>1. Others(w)' /\ worker'[w] = [worker[w] EXCEPT !.at = l, !.copy = <<>>]
        BY <1>5, <3>3
      <4> QED
        BY <2>2, <4>1
    <3> QED
      BY <3>1, <3>2, <3>3
  <2>4. Told'
    BY <1>4, <2>1 DEF Before, During, After, Serves, Told
  <2> QED
    BY <1>1, <1>4, <2>1, <2>3, <2>4 DEF Stage, After
<1>12. CASE Finish(w)
  <2>1. /\ worker[w].at = "reporting" /\ UNCHANGED <<turns, cancelled>>
        /\ worker' = [worker EXCEPT ![w] = Free]
    BY <1>12 DEF Finish, At, threads, history
  <2>2. Others(w)' /\ worker'[w].at = "free"
    BY <1>5, <2>1 DEF Free
  <2>3. Told' \/ GivenUp'
    BY <1>4, <2>1 DEF Before, During, After, Serves, Told, GivenUp, Untold
  <2> QED
    BY <1>1, <2>2, <2>3 DEF Stage
<1> QED
  BY <1>6, <1>7, <1>8, <1>9, <1>10, <1>11, <1>12 DEF WorkerStep

LEMMA AloneInterface ==
  ASSUME SideInv, AloneInv, PromptStep \/ InterfaceStep
  PROVE  AloneInv'
<1>1. view.alone => Occupied /\ prompt = "none" /\ events = <<>> /\ view.busy
  BY DEF AloneInv, Quiet, Occupied
<1>2. CASE PromptStep
  <2>1. prompt # "none" /\ UNCHANGED view
    BY <1>2 DEF PromptStep, RunStarts, RunEnds, Backoff, PromptDone
  <2> QED
    BY <1>1, <2>1 DEF AloneInv
<1>3. CASE NewThread \/ SaveNew \/ Refused \/ \E t \in 1..made : Resume(t)
  <2>1. UNCHANGED <<turns, queue, activity, worker, view, prompt, events, results, cancelled>>
    BY <1>3 DEF NewThread, SaveNew, Refused, Resume, threads, channels, history
  <2> QED
    BY <2>1, AloneUnder
<1>4. CASE Escape
  <2>1. /\ UNCHANGED <<turns, queue, worker, view, prompt, events, results>>
        /\ cancelled \subseteq cancelled' /\ activity[view.thread] = "running" /\ view.thread # 0
        /\ activity' = [activity EXCEPT ![view.thread] = "stopping"]
    BY <1>4 DEF Escape, channels
  <2>2. view.thread \in Threads
    <3>1. view.thread \in 0..MaxThreads /\ MaxThreads \in Nat
      BY SideAssumption DEF SideInv, TypeInv, ViewState
    <3> QED
      BY <2>1, <3>1 DEF Threads
  <2> QED
    BY <2>1, <2>2, AloneUnder
<1>5. CASE Prompt \/ SeeEvent
  <2>1. ~Occupied \/ events # <<>>
    BY <1>5 DEF Prompt, SeeEvent
  <2>2. \E b : view' = [view EXCEPT !.busy = b]
    BY <1>5 DEF Prompt, SeeEvent
  <2>3. view'.alone = view.alone
    BY <2>2 DEF SideInv, TypeInv, ViewState
  <2> QED
    BY <1>1, <2>1, <2>3 DEF AloneInv
<1>6. CASE SeeResult
  BY <1>6 DEF SeeResult, AloneInv, NotWaiting
<1>7. CASE AskLater
  BY <1>1, <1>7 DEF AskLater, AloneInv
<1>8. ASSUME NEW w \in Workers, Ask(w) PROVE AloneInv'
  <2>1. PICK t \in Threads, n \in Nat : t = ui.thread /\ n = asked + 1
    BY <1>8 DEF Ask, SideInv, TypeInv
  <2>2. /\ activity[t] = "none" /\ UNCHANGED <<turns, activity, prompt, events, results>>
        /\ queue' = [queue EXCEPT ![t] = Append(queue[t], n)]
        /\ worker' = [worker EXCEPT ![w] = [worker[w] EXCEPT !.at = "spawned", !.thread = t]]
        /\ view' = [busy |-> TRUE, thread |-> t, start |-> Len(turns[t]), question |-> n,
                    alone |-> Alone]
    BY <1>8, <2>1 DEF Ask, Enqueue, channels
  <2>3. /\ queue \in [Threads -> Seq(Nat)] /\ worker \in [Workers -> WorkerState]
        /\ worker[w] \in WorkerState
    BY DEF SideInv, TypeInv
  <2>4. SUFFICES ASSUME Alone PROVE Quiet' /\ Others(w)' /\ Stage(w)'
    BY <2>2 DEF AloneInv
  <2>5. /\ prompt = "none" /\ events = <<>> /\ results = <<>> /\ queue[t] = <<>>
        /\ \A v \in Workers : worker[v].at = "free"
    BY <2>1, <2>4 DEF Alone, At
  <2>6. /\ view'.busy /\ view'.thread = t /\ view'.start = Len(turns[t]) /\ view'.question = n
    BY <2>2
  <2>7. Quiet'
    BY <2>2, <2>5, <2>6 DEF Quiet
  <2>8. worker'[w] = [worker[w] EXCEPT !.at = "spawned", !.thread = t]
        /\ \A v \in Workers : v # w => worker'[v] = worker[v]
    BY <2>2, <2>3
  <2>9. worker'[w].at = "spawned" /\ worker'[w].thread = t
    BY <2>3, <2>8 DEF WorkerState
  <2>10. queue'[t] = <<n>>
    <3>1. Append(<<>>, n) = <<n>>
      OBVIOUS
    <3> QED
      BY <2>2, <2>3, <2>5, <3>1
  <2>11. Others(w)'
    BY <2>5, <2>8 DEF Others
  <2>12. Stage(w)'
    BY <2>2, <2>5, <2>6, <2>9, <2>10 DEF Stage, Before, Untold
  <2> QED
    BY <2>7, <2>11, <2>12
<1> QED
  BY <1>2, <1>3, <1>4, <1>5, <1>6, <1>7, <1>8 DEF InterfaceStep

LEMMA AloneInit == Init => AloneInv
BY DEF Init, NotWaiting, AloneInv

LEMMA AloneStep == SideInv /\ AloneInv /\ [Next]_vars => AloneInv'
<1> SUFFICES ASSUME SideInv, AloneInv, [Next]_vars PROVE AloneInv'
  OBVIOUS
<1>1. CASE UNCHANGED vars
  <2>1. UNCHANGED <<turns, queue, activity, worker, view, prompt, events, results, cancelled>>
    BY <1>1 DEF vars, threads, channels, history
  <2> QED
    BY <2>1, AloneUnder
<1> QED
  BY <1>1, AloneInterface, AloneWorks DEF Next

(* Only a result ends the wait, and none comes before the worker is done.  *)
LEMMA AloneShows ==
  SideInv /\ AloneInv /\ [Next]_vars =>
    [view.alone /\ ~view'.alone =>
       (Card = view.question \/ (Card = 0 /\ view.question \in cancelled))]_vars
<1> SUFFICES ASSUME SideInv, AloneInv, [Next]_vars, view.alone, ~view'.alone
             PROVE  Card = view.question \/ (Card = 0 /\ view.question \in cancelled)
  OBVIOUS
<1>1. Quiet /\ \E w \in Workers : Others(w) /\ Stage(w)
  BY DEF AloneInv
<1>2. SeeResult
  <2>1. \A w \in Workers : ~WorkerStep(w)
    BY DEF WorkerStep, StartNext, StartRefused, Respond, EnterCompletion, RecordTurn,
       FinishActivity, Snapshot, Save, Finish
  <2>2. ~PromptStep
    BY <1>1 DEF Quiet, PromptStep, RunStarts, RunEnds, Backoff, PromptDone
  <2>3. ~(UNCHANGED vars) /\ ~NewThread /\ ~SaveNew /\ ~Refused /\ ~Escape /\ \A t \in 1..made : ~Resume(t)
    BY DEF vars, NewThread, SaveNew, Refused, Escape, Resume
  <2>4. ~Prompt /\ ~SeeEvent /\ ~AskLater /\ \A w \in Workers : ~Ask(w)
    BY <1>1 DEF Quiet, Occupied, Prompt, SeeEvent, AskLater, Ask
  <2> QED
    BY <2>1, <2>2, <2>3, <2>4 DEF Next, InterfaceStep
<1>3. Told \/ GivenUp
  BY <1>1, <1>2 DEF SeeResult, Stage
<1>4. view.start \in Nat /\ turns[view.thread] \in Seq(Nat)
  BY <1>1 DEF SideInv, TypeInv, ViewState, Quiet
<1>5. \A n \in Nat : n + 1 > n /\ ~(n > n)
  OBVIOUS
<1> QED
  BY <1>3, <1>4, <1>5 DEF Told, GivenUp, Untold, Card

(* A side question asked while nothing else was on its way gets its own    *)
(* answer shown, or none if it was cancelled, whatever threads are made    *)
(* and prompts are refused while it is answered.                           *)
THEOREM AnswersAreShown == Spec => ShownIsOwn
BY SideInit, SideStep, AloneInit, AloneStep, AloneShows, PTL DEF Spec, ShownIsOwn
====
