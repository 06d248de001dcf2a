---------------------------- MODULE ProviderStream ----------------------------
(***************************************************************************)
(* One provider request (src/src/providers.rs): stream_with_credentials    *)
(* starts a worker whose MessageEmitter publishes events into an           *)
(* EventStream, and respond_with_credentials drains them for the agent     *)
(* until the final one.  Both wait in slices of STREAM_POLL_INTERVAL, and  *)
(* between two slices look at the cancellation token, at whether the other *)
(* side is gone and at their own budget, TERMINAL_DELIVERY_BUDGET: here a  *)
(* number of slices, chosen anew whenever the code sets a deadline.        *)
(*                                                                         *)
(* Reading the response from the network and the caller's event listener   *)
(* may take for ever.                                                      *)
(***************************************************************************)
EXTENDS EventStream

CONSTANTS
    Worker,
    Responder,
    MaxPublished, \* bound: events of a reply before the final one
    MaxSlices     \* bound: slices of a deadline

ASSUME SlicesAssumption == MaxSlices \in Nat
ASSUME PartiesAssumption ==
    /\ Worker \in Pushers
    /\ Responder \in Takers
    /\ {Worker, Responder} \subseteq Timed

VARIABLES
    cancelled,  \* the run's cancellation token
    wpc,        \* the worker: reading, publishing, finishing, failing or gone
    rpc,        \* the responder: polling, listening or returned
    slices,     \* what is left of the deadline of each party that has one
    heard,      \* history: the events the listener was given
    outcome     \* what respond_with_credentials returned

pvars == <<cancelled, wpc, rpc, slices, heard, outcome>>
allvars == <<vars, pvars>>

NoDeadline == MaxSlices + 1

PInit ==
    /\ Init
    /\ cancelled = FALSE
    /\ wpc = "reading"
    /\ rpc = "polling"
    /\ slices = [p \in Procs |-> NoDeadline]
    /\ heard = <<>>
    /\ outcome = "none"

\* The responder returned and dropped its handle.
Orphaned == rpc = "returned"

Idle(p) == phase[p] = "idle"

Emit(k, final) ==
    /\ Call(Worker)
    /\ offer' = [offer EXCEPT ![Worker] = [by |-> Worker, n |-> k, final |-> final]]
    /\ UNCHANGED <<state, history>>

SetDeadline(p) == \E n \in 0..MaxSlices : slices' = [slices EXCEPT ![p] = n]

(***************************************************************************)
(* The worker                                                              *)
(***************************************************************************)
Publish ==
    /\ wpc = "reading"
    /\ offer[Worker].n < MaxPublished
    /\ Emit(offer[Worker].n + 1, FALSE)
    /\ wpc' = "publishing"
    /\ UNCHANGED <<cancelled, rpc, slices, heard, outcome>>

\* The response is complete.
Finish ==
    /\ wpc = "reading"
    /\ Emit(offer[Worker].n + 1, TRUE)
    /\ SetDeadline(Worker)
    /\ wpc' = "finishing"
    /\ UNCHANGED <<cancelled, rpc, heard, outcome>>

\* The final event of a failure is the k-th.
Fail(k) ==
    /\ Emit(k, TRUE)
    /\ SetDeadline(Worker)
    /\ wpc' = "failing"
    /\ UNCHANGED <<cancelled, rpc, heard, outcome>>

\* The provider failed.
ReadFails == wpc = "reading" /\ Fail(offer[Worker].n + 1)
\* Reading is cut into slices too, so the worker sees a cancelled token.
NoticeAbort == cancelled /\ ReadFails

OfferTaken_bug == answer[Worker] \in {"pushed", "timedOut"}
OfferTaken == answer[Worker] = "pushed"

Published ==
    /\ wpc = "publishing"
    /\ Idle(Worker) /\ OfferTaken
    /\ wpc' = "reading"
    /\ UNCHANGED <<vars, cancelled, rpc, slices, heard, outcome>>

\* Nothing will drain the queue, or nobody wants it drained.
StopsPublishing_bug == Orphaned
StopsPublishing == cancelled \/ Orphaned

PublishAgain ==
    /\ wpc = "publishing"
    /\ answer[Worker] = "timedOut"
    /\ ~StopsPublishing
    /\ OfferAgain(Worker)
    /\ UNCHANGED pvars

\* The event that found no room is dropped for the final one.
PublishFails ==
    /\ wpc = "publishing"
    /\ Idle(Worker) /\ answer[Worker] = "timedOut"
    /\ StopsPublishing
    /\ Fail(offer[Worker].n)

Delivering == wpc \in {"finishing", "failing"}
BudgetSpent(p) == slices[p] = 0

DeliverAgain ==
    /\ Delivering
    /\ answer[Worker] = "timedOut"
    /\ ~Orphaned /\ ~BudgetSpent(Worker)
    /\ OfferAgain(Worker)
    /\ slices' = [slices EXCEPT ![Worker] = @ - 1]
    /\ UNCHANGED <<cancelled, wpc, rpc, heard, outcome>>

\* deliver_terminal returns and finish or fail ends the stream.
Undelivered == answer[Worker] = "timedOut" /\ (Orphaned \/ BudgetSpent(Worker))
EndStream ==
    /\ Delivering
    /\ Idle(Worker)
    /\ answer[Worker] = "pushed" \/ Undelivered
    /\ End
    /\ wpc' = IF wpc = "finishing" /\ Undelivered THEN "lost" ELSE "gone"
    /\ UNCHANGED <<cancelled, rpc, slices, heard, outcome>>

\* finish reported its failure, and fail finds the stream closed.
FailLate ==
    /\ wpc = "lost"
    /\ wpc' = "gone"
    /\ UNCHANGED <<vars, cancelled, rpc, slices, heard, outcome>>

(***************************************************************************)
(* The responder                                                           *)
(***************************************************************************)
Poll ==
    /\ rpc = "polling"
    /\ Idle(Responder) /\ answer[Responder] = "none"
    /\ StartTake(Responder)
    /\ UNCHANGED pvars

\* The listener gets the event; it may not come back.
Listen ==
    /\ rpc = "polling"
    /\ Idle(Responder) /\ answer[Responder] = "event"
    /\ heard' = Append(heard, taken[Len(taken)])
    /\ rpc' = "listening"
    /\ UNCHANGED <<vars, cancelled, wpc, slices, outcome>>

ReturnWith(what) ==
    /\ rpc' = "returned"
    /\ outcome' = what
    /\ UNCHANGED <<vars, cancelled, wpc, slices, heard>>

PollAgain ==
    /\ rpc' = "polling"
    /\ StartTake(Responder)
    /\ UNCHANGED <<cancelled, wpc, heard, outcome>>

ListenerReturns ==
    /\ rpc = "listening"
    /\ IF heard[Len(heard)].final THEN ReturnWith("final")
       ELSE PollAgain /\ UNCHANGED slices

StreamClosed ==
    /\ rpc = "polling"
    /\ Idle(Responder) /\ answer[Responder] = "end"
    /\ ReturnWith("closed")

PollTimedOut == rpc = "polling" /\ Idle(Responder) /\ answer[Responder] = "timedOut"

PollOn ==
    /\ PollTimedOut /\ ~cancelled
    /\ PollAgain /\ UNCHANGED slices

HasDeadline_bug == FALSE
HasDeadline == slices[Responder] # NoDeadline

\* The first slice that times out after an abort sets the deadline.
SetAbortDeadline ==
    /\ PollTimedOut /\ cancelled /\ ~HasDeadline
    /\ \E n \in 0..MaxSlices : slices' = [slices EXCEPT ![Responder] = n]
    /\ PollAgain

AwaitAborted ==
    /\ PollTimedOut /\ cancelled /\ HasDeadline /\ ~BudgetSpent(Responder)
    /\ slices' = [slices EXCEPT ![Responder] = @ - 1]
    /\ PollAgain

GiveUpOnWorker ==
    /\ PollTimedOut /\ cancelled /\ HasDeadline /\ BudgetSpent(Responder)
    /\ ReturnWith("aborted")

(***************************************************************************)
Cancel ==
    /\ ~cancelled
    /\ cancelled' = TRUE
    /\ UNCHANGED <<vars, wpc, rpc, slices, heard, outcome>>

WorkerCall == PushStep(Worker) /\ UNCHANGED pvars
ResponderCall == TakeStep(Responder) /\ UNCHANGED pvars
Slice(p) == TimerFires(p) /\ UNCHANGED pvars

WorkerStep ==
    \/ Published \/ PublishAgain \/ PublishFails \/ DeliverAgain \/ EndStream
    \/ FailLate \/ NoticeAbort
ResponderStep ==
    \/ Poll \/ Listen \/ StreamClosed \/ PollOn \/ SetAbortDeadline
    \/ AwaitAborted \/ GiveUpOnWorker

PNext ==
    \/ WorkerStep \/ ResponderStep
    \/ WorkerCall \/ ResponderCall
    \/ Slice(Worker) \/ Slice(Responder)
    \/ Publish \/ Finish \/ ReadFails \/ ListenerReturns \/ Cancel

PSpec == PInit /\ [][PNext]_allvars

\* Timers fire.  It is left to the provider whether it answers, to the user
\* whether the run is aborted, and to a property what else it needs to run.
PFairSpec == PSpec /\ WF_allvars(Slice(Worker)) /\ WF_allvars(Slice(Responder))

WorkerRuns == WF_allvars(WorkerStep) /\ WF_allvars(WorkerCall)
ResponderRuns ==
    WF_allvars(ResponderStep) /\ WF_allvars(ResponderCall) /\ WF_allvars(ListenerReturns)

(***************************************************************************)
(* Properties                                                              *)
(***************************************************************************)
\* A reply that respond returns was heard whole: the listener got every event
\* the worker published, once and in order however often an event had to be
\* offered again, and the final one last.  respond fails with StreamClosed only
\* on a worker that spent its whole budget on offering the final event.
HeardWhole ==
    /\ outcome = "final" =>
          /\ Len(heard) = offer[Worker].n
          /\ \A i \in DOMAIN heard : heard[i].n = i /\ (heard[i].final <=> i = Len(heard))
    /\ outcome = "closed" => BudgetSpent(Worker)

\* "A consumer that stopped draining must not pin this worker": after an abort
\* the worker's thread ends even if the listener never comes back.
WorkerLetGo == WorkerRuns => (cancelled ~> (wpc = "gone"))

\* Cancellation is honoured "by polling": after an abort respond returns even
\* if the worker is wedged.
AbortReturns == ResponderRuns => (cancelled ~> (rpc = "returned"))
=============================================================================
