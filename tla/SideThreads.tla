------------------------------ MODULE SideThreads ------------------------------
(***************************************************************************)
(* Side questions (/btw, src/src/btw_runtime.rs and src/src/btw.rs) as the *)
(* fullscreen interface runs them (src/src/main.rs): the threads with      *)
(* their queues, the workers that answer one question each and save all    *)
(* threads when they are done, and the interface, which learns of the end  *)
(* of a prompt and of a side question through the same channel and tells   *)
(* them apart by what it waits for when a result arrives.                  *)
(*                                                                         *)
(* A question is a number, in the order of asking.  A prompt given while   *)
(* an earlier prompt's thread still works is TurnPolicy's subject.         *)
(***************************************************************************)
EXTENDS Naturals, SequencesExt

CONSTANTS
  MaxWorkers,   \* bound: worker threads at a time
  MaxThreads,   \* bound: side threads
  MaxAsked,     \* bound: questions
  MaxPrompts,   \* bound: prompts
  MaxRuns       \* bound: agent runs

ASSUME SideAssumption == {MaxWorkers, MaxThreads, MaxAsked, MaxPrompts, MaxRuns} \subseteq Nat

VARIABLES
  made,       \* the number of side threads
  turns,      \* the questions each thread has recorded
  queue,      \* the ones that wait in it
  activity,   \* its request
  worker,     \* each worker's program counter and locals
  saved,      \* the threads as last saved in the session
  ui,         \* the interface's program counter and locals
  view,       \* what it believes is going on; history: the question it waits
              \* for, and whether that was asked alone
  prompt,     \* the prompt thread
  events,     \* agent events the interface has not seen
  results,    \* results it has not seen: who sent them
  asked, prompts, runs,   \* counters for the bounds
  cancelled,  \* history: questions whose cancellation was confirmed, or whose
              \* reply called itself cancelled
  crossed     \* history: a save has begun while another was under way

threads == <<made, turns, queue, activity>>
channels == <<events, results>>
history == <<cancelled, crossed>>
vars == <<threads, worker, saved, ui, view, prompt, channels, asked, prompts, runs, history>>

Threads == 1..MaxThreads
Workers == 1..MaxWorkers
Free == [at |-> "free", thread |-> 0, question |-> 0, copy |-> <<>>]
NotWaiting == [busy |-> FALSE, thread |-> 0, start |-> 0, question |-> 0, alone |-> FALSE]

Init ==
  /\ made = 0 /\ turns = [t \in Threads |-> <<>>] /\ queue = [t \in Threads |-> <<>>]
  /\ activity = [t \in Threads |-> "none"]
  /\ worker = [w \in Workers |-> Free] /\ saved = [t \in Threads |-> <<>>]
  /\ ui = Free /\ view = NotWaiting
  /\ prompt = "none" /\ events = <<>> /\ results = <<>>
  /\ asked = 0 /\ prompts = 0 /\ runs = 0
  /\ cancelled = {} /\ crossed = FALSE

Saving == ui.at = "saving" \/ \E w \in Workers : worker[w].at = "saving"
At(w, l) == worker[w].at = l
GoTo(w, l) == worker' = [worker EXCEPT ![w].at = l]

-----------------------------------------------------------------------------
(* run_next, on a worker                                                   *)
Report(w, from) == results' = Append(results, from)

\* start_next.
CanStart(t) == activity[t] = "none" /\ queue[t] # <<>>

StartNext(w) ==
  /\ At(w, "spawned")
  /\ LET t == worker[w].thread
     IN /\ CanStart(t)
        /\ queue' = [queue EXCEPT ![t] = Tail(@)]
        /\ activity' = [activity EXCEPT ![t] = "running"]
        /\ worker' = [worker EXCEPT ![w].at = "responding", ![w].question = Head(queue[t])]
  /\ UNCHANGED <<made, turns, saved, ui, view, prompt, channels, asked, prompts, runs, history>>

\* ThreadBusy, or nothing queued.
StartRefused(w) ==
  /\ At(w, "spawned") /\ ~CanStart(worker[w].thread)
  /\ worker' = [worker EXCEPT ![w] = Free]
  /\ Report(w, 0)
  /\ UNCHANGED <<threads, saved, ui, view, prompt, events, asked, prompts, runs, history>>

\* An answer or a failure; a request that was cancelled may still answer, and
\* a reply may call itself cancelled unasked.
Respond(w) ==
  /\ At(w, "responding")
  /\ \/ GoTo(w, "responded") /\ UNCHANGED cancelled
     \/ GoTo(w, "aborted") /\ cancelled' = cancelled \cup {worker[w].question}
  /\ UNCHANGED <<threads, saved, ui, view, prompt, channels, asked, prompts, runs, crossed>>

\* enter_completion: from here on cancellation is refused.
Completes_bug(w) == At(w, "responded")
Completes(w) == At(w, "responded") /\ activity[worker[w].thread] # "stopping"

EnterCompletion(w) ==
  /\ At(w, "responded") \/ At(w, "aborted")
  /\ activity' = [activity EXCEPT ![worker[w].thread] = "completing"]
  /\ GoTo(w, IF Completes(w) THEN "recording" ELSE "dropping")
  /\ UNCHANGED <<made, turns, queue, saved, ui, view, prompt, channels, asked, prompts, runs, history>>

\* record_answered, record_error.
RecordTurn(w) ==
  /\ At(w, "recording")
  /\ turns' = [turns EXCEPT ![worker[w].thread] = Append(@, worker[w].question)]
  /\ GoTo(w, "recorded")
  /\ UNCHANGED <<made, queue, activity, saved, ui, view, prompt, channels, asked, prompts, runs, history>>

\* finish_activity.  There is nothing to save of a cancelled question.
AfterFinish_bug(w) == "reporting"
AfterFinish(w) == IF At(w, "recorded") THEN "persisting" ELSE "reporting"

FinishActivity(w) ==
  /\ At(w, "recorded") \/ At(w, "dropping")
  /\ activity' = [activity EXCEPT ![worker[w].thread] = "none"]
  /\ GoTo(w, AfterFinish(w))
  /\ UNCHANGED <<made, turns, queue, saved, ui, view, prompt, channels, asked, prompts, runs, history>>

\* persist: a snapshot under the manager's lock, saved without it.
Snapshot(w) ==
  /\ At(w, "persisting")
  /\ worker' = [worker EXCEPT ![w].at = "saving", ![w].copy = turns]
  /\ crossed' = (crossed \/ Saving)
  /\ UNCHANGED <<threads, saved, ui, view, prompt, channels, asked, prompts, runs, cancelled>>

Save(w) ==
  /\ At(w, "saving")
  /\ saved' = worker[w].copy
  /\ worker' = [worker EXCEPT ![w].at = "reporting", ![w].copy = <<>>]
  /\ UNCHANGED <<threads, ui, view, prompt, channels, asked, prompts, runs, history>>

\* TurnCompletion::finish.
Finish(w) ==
  /\ At(w, "reporting")
  /\ Report(w, worker[w].question)
  /\ worker' = [worker EXCEPT ![w] = Free]
  /\ UNCHANGED <<threads, saved, ui, view, prompt, events, asked, prompts, runs, history>>

-----------------------------------------------------------------------------
(* The prompt thread: its runs are told by events, its end by a result.    *)
Streaming == prompt = "running"

RunStarts ==
  /\ prompt \in {"started", "ended", "backoff"} /\ runs < MaxRuns
  /\ prompt' = "running" /\ runs' = runs + 1
  /\ events' = Append(events, "start")
  /\ UNCHANGED <<threads, worker, saved, ui, view, results, asked, prompts, history>>

RunEnds ==
  /\ prompt = "running"
  /\ prompt' = "ended"
  /\ events' = Append(events, "end")
  /\ UNCHANGED <<threads, worker, saved, ui, view, results, asked, prompts, runs, history>>

\* The notice that a retry is waited for.
Backoff ==
  /\ prompt = "ended" /\ runs < MaxRuns
  /\ prompt' = "backoff"
  /\ events' = Append(events, "retry")
  /\ UNCHANGED <<threads, worker, saved, ui, view, results, asked, prompts, runs, history>>

PromptDone ==
  /\ prompt \in {"started", "ended", "backoff"}
  /\ prompt' = "none"
  /\ results' = Append(results, 0)
  /\ UNCHANGED <<threads, worker, saved, ui, view, events, asked, prompts, runs, history>>

-----------------------------------------------------------------------------
(* The interface                                                           *)
Occupied_bug == Streaming
Occupied == view.busy \/ Streaming

Prompt ==
  /\ ui.at = "free" /\ ~Occupied
  /\ prompt = "none" /\ prompts < MaxPrompts
  /\ prompt' = "started" /\ prompts' = prompts + 1
  /\ view' = [view EXCEPT !.busy = TRUE]
  /\ UNCHANGED <<threads, worker, saved, ui, channels, asked, runs, history>>

\* /btw <question> makes a thread and saves it, whatever is going on.
NewThread ==
  /\ ui.at = "free" /\ made < MaxThreads /\ asked < MaxAsked
  /\ made' = made + 1
  /\ ui' = [Free EXCEPT !.at = "saving", !.thread = made + 1, !.copy = turns]
  /\ crossed' = (crossed \/ Saving)
  /\ UNCHANGED <<turns, queue, activity, worker, saved, view, prompt, channels, asked, prompts, runs, cancelled>>

SaveNew ==
  /\ ui.at = "saving"
  /\ saved' = ui.copy
  /\ ui' = [ui EXCEPT !.at = "asking", !.copy = <<>>]
  /\ UNCHANGED <<threads, worker, view, prompt, channels, asked, prompts, runs, history>>

\* /btw resume <thread> <question>.
Resume(t) ==
  /\ ui.at = "free" /\ asked < MaxAsked
  /\ ui' = [Free EXCEPT !.at = "asking", !.thread = t]
  /\ UNCHANGED <<threads, worker, saved, view, prompt, channels, asked, prompts, runs, history>>

\* start_btw_question.
Refused ==
  /\ ui.at = "asking" /\ Occupied
  /\ ui' = Free
  /\ UNCHANGED <<threads, worker, saved, view, prompt, channels, asked, prompts, runs, history>>

Enqueue ==
  /\ asked' = asked + 1
  /\ queue' = [queue EXCEPT ![ui.thread] = Append(@, asked + 1)]
  /\ ui' = Free
  /\ UNCHANGED <<made, turns, activity, saved, prompt, channels, prompts, runs, history>>

\* Nothing else is on its way that could be taken for the answer.
Alone == /\ prompt = "none" /\ events = <<>> /\ results = <<>>
         /\ queue[ui.thread] = <<>> /\ \A w \in Workers : At(w, "free")

Ask(w) ==
  /\ ui.at = "asking" /\ ~Occupied /\ activity[ui.thread] = "none"
  /\ At(w, "free") /\ \A v \in 1..w-1 : ~At(v, "free")
  /\ Enqueue
  /\ worker' = [worker EXCEPT ![w].at = "spawned", ![w].thread = ui.thread]
  /\ view' = [busy |-> TRUE, thread |-> ui.thread, start |-> Len(turns[ui.thread]),
              question |-> asked + 1, alone |-> Alone]

\* Left in the queue: nobody runs it before the thread is asked again.
AskLater ==
  /\ ui.at = "asking" /\ ~Occupied /\ activity[ui.thread] # "none"
  /\ Enqueue
  /\ UNCHANGED <<worker, view>>

\* Esc: cancel says whether the request was still running.
Escape ==
  /\ ui.at = "free" /\ view.thread # 0 /\ activity[view.thread] = "running"
  /\ activity' = [activity EXCEPT ![view.thread] = "stopping"]
  /\ cancelled' = cancelled \cup
       {worker[w].question : w \in {v \in Workers : /\ worker[v].thread = view.thread
                                                    /\ worker[v].at \in {"responding", "responded", "aborted"}}}
  /\ UNCHANGED <<made, turns, queue, worker, saved, ui, view, prompt, channels, asked, prompts, runs, crossed>>

\* AgentStart and a retry's notice make the interface busy, AgentEnd idle.
SeeEvent ==
  /\ ui.at = "free" /\ events # <<>>
  /\ view' = [view EXCEPT !.busy = Head(events) # "end"]
  /\ events' = Tail(events)
  /\ UNCHANGED <<threads, worker, saved, ui, prompt, results, asked, prompts, runs, history>>

\* finish_pending_btw: the turn after those the thread had when it was asked.
Card == IF Len(turns[view.thread]) > view.start THEN turns[view.thread][view.start + 1] ELSE 0

SeeResult ==
  /\ ui.at = "free" /\ results # <<>>
  /\ results' = Tail(results)
  /\ view' = NotWaiting
  /\ UNCHANGED <<threads, worker, saved, ui, prompt, events, asked, prompts, runs, history>>

-----------------------------------------------------------------------------
WorkerStep(w) ==
  \/ StartNext(w) \/ StartRefused(w) \/ Respond(w) \/ EnterCompletion(w) \/ RecordTurn(w)
  \/ FinishActivity(w) \/ Snapshot(w) \/ Save(w) \/ Finish(w)

PromptStep == RunStarts \/ RunEnds \/ Backoff \/ PromptDone

InterfaceStep ==
  \/ Prompt \/ NewThread \/ SaveNew \/ Refused \/ AskLater \/ Escape \/ SeeEvent \/ SeeResult
  \/ \E t \in 1..made : Resume(t)
  \/ \E w \in Workers : Ask(w)

Next == PromptStep \/ InterfaceStep \/ \E w \in Workers : WorkerStep(w)

Spec == Init /\ [][Next]_vars

\* Threads run and the responder answers; the interface drains its channels
\* and finishes a command it has begun.  No one has to ask anything.
FairSpec ==
  /\ Spec
  /\ \A w \in Workers : WF_vars(WorkerStep(w))
  /\ WF_vars(SaveNew) /\ WF_vars(SeeEvent) /\ WF_vars(SeeResult)
=============================================================================
