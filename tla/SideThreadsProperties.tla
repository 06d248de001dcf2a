------------------------- MODULE SideThreadsProperties -------------------------
(* What becomes of a side question.                                        *)
EXTENDS SideThreads

Questions == 1..MaxAsked
Working(w, q) == worker[w].question = q /\ worker[w].at \notin {"free", "spawned"}
Undecided(w, q) == Working(w, q) /\ worker[w].at \in {"responding", "responded", "aborted", "recording"}
Waiting(q) == \E t \in Threads : Contains(queue[t], q)
Recorded(q) == \E t \in Threads : Contains(turns[t], q)

(* Every question waits, is being answered by one worker, is recorded or   *)
(* was cancelled, and no two of these at once: a cancellation that was     *)
(* confirmed is final, and a thread tells its questions in the order they  *)
(* were asked (start_next against enter_completion and cancel).  One whose *)
(* reply calls itself cancelled (respond, response_was_cancelled) counts   *)
(* as cancelled: no turn of it is recorded.                                *)
EachQuestionOnce ==
  /\ \A q \in 1..asked :
       \/ Waiting(q) /\ ~Recorded(q) /\ q \notin cancelled /\ \A w \in Workers : ~Undecided(w, q)
       \/ ~Waiting(q) /\ Recorded(q) /\ q \notin cancelled /\ \A w \in Workers : ~Undecided(w, q)
       \/ ~Waiting(q) /\ ~Recorded(q) /\ q \in cancelled
       \/ /\ ~Waiting(q) /\ ~Recorded(q) /\ q \notin cancelled
          /\ \E w \in Workers : Undecided(w, q) /\ \A v \in Workers \ {w} : ~Undecided(v, q)
  /\ \A t \in Threads : \A i, j \in DOMAIN turns[t] : i < j => turns[t][i] < turns[t][j]

(* The card shown for a side question is that question's, and none is      *)
(* shown only when it was cancelled, if nothing else was on its way when   *)
(* it was asked (start_btw_question and finish_pending_btw, which takes    *)
(* any result for the awaited one).                                        *)
ShownIsOwn ==
  [][view.alone /\ ~view'.alone =>
       (Card = view.question \/ (Card = 0 /\ view.question \in cancelled))]_vars

(* A recorded question stands in the saved threads before long, and stays  *)
(* there, unless two saves were ever under way together: persist hands its *)
(* snapshot over without a lock, so the older one may be saved last.       *)
AnswersSaved ==
  \A q \in Questions : Recorded(q) ~> (crossed \/ \E t \in Threads : Contains(saved[t], q))
=============================================================================
