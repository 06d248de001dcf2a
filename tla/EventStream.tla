----------------------------- MODULE EventStream -----------------------------
(***************************************************************************)
(* AssistantMessageEventStream (src/src/stream.rs): a bounded queue of     *)
(* events behind one mutex, with the condition variable space_available    *)
(* for producers and changed for consumers.  A final (done or error) event *)
(* closes the producer side, end() closes it without one.                  *)
(*                                                                         *)
(* What a call does between two waits happens under the mutex and is one   *)
(* step.  A process is idle, trying to get the mutex, waiting on its       *)
(* condition variable, or expired: its timed wait ran out and it has yet   *)
(* to get the mutex back, so anything may have happened in between.        *)
(***************************************************************************)
EXTENDS Naturals, Sequences, FiniteSets

CONSTANTS
    Pushers,    \* threads that call push, push_timeout or try_push
    Takers,     \* threads that call next, next_timeout or try_next
    Watchers,   \* threads that call result or result_timeout
    Timed,      \* those of them whose calls have a timeout (zero: the try_ calls)
    Capacity,   \* the most events the queue holds
    MaxPushes,  \* bound: events a pusher has to offer
    NoEvent

Procs == Pushers \union Takers \union Watchers

ASSUME CapacityAssumption == Capacity \in Nat \ {0}
ASSUME PushesAssumption == MaxPushes \in Nat
ASSUME RolesAssumption ==
    /\ Pushers \intersect (Takers \union Watchers) = {}
    /\ Takers \intersect Watchers = {}
    /\ IsFiniteSet(Pushers)
    /\ Timed \subseteq Procs

Event == [by: Pushers, n: Nat, final: BOOLEAN]
ASSUME NoEventAssumption == NoEvent \notin Event

Answer == {"none", "pushed", "closed", "timedOut", "event", "end", "result"}

VARIABLES
    queue,     \* EventStreamState::queue
    ended,     \* EventStreamState::ended
    result,    \* EventStreamState::terminal_result, the event that carries it
    phase,     \* where each process is in its current call
    offer,     \* the event a pusher's call holds
    answer,    \* what each process's last call returned
    accepted,  \* history: every event that entered the queue
    taken      \* history: every event that left it

state == <<queue, ended, result>>
history == <<accepted, taken>>
vars == <<queue, ended, result, phase, offer, answer, accepted, taken>>

Init ==
    /\ queue = <<>>
    /\ ended = FALSE
    /\ result = NoEvent
    /\ phase = [p \in Procs |-> "idle"]
    /\ offer = [p \in Pushers |-> [by |-> p, n |-> 0, final |-> FALSE]]
    /\ answer = [p \in Procs |-> "none"]
    /\ accepted = <<>>
    /\ taken = <<>>

Closed == ended \/ result # NoEvent
HasRoom == Len(queue) < Capacity

\* The processes of a set that sleep on their condition variable.
Asleep(S) == {p \in S : phase[p] = "waiting"}
\* Those that are on their way to the mutex.
Awake(S) == {p \in S : phase[p] \in {"trying", "expired"}}

\* The mutex is p's: the wait, if there was one, is over.
Running(p) == phase[p] \in {"trying", "expired"}

\* p's call returns what, and the processes of woken are notified.
Return(p, what, woken) ==
    /\ phase' = [q \in Procs |-> IF q = p THEN "idle"
                                 ELSE IF q \in woken THEN "trying" ELSE phase[q]]
    /\ answer' = [answer EXCEPT ![p] = what]

\* What a notification wakes is a choice among sets of sleeping processes.
NotifyOne(S) == IF Asleep(S) = {} THEN {{}} ELSE {{p} : p \in Asleep(S)}
NotifyAll(S) == {Asleep(S)}

\* changed is shared by takers and watchers.
Consumers == Takers \union Watchers
WakeConsumers == NotifyAll(Consumers)

WakePusher_bug == IF HasRoom THEN {{}} ELSE NotifyOne(Pushers)
WakePusher == NotifyOne(Pushers)

(***************************************************************************)
(* Pushing                                                                 *)
(***************************************************************************)
Call(p) ==
    /\ phase' = [phase EXCEPT ![p] = "trying"]
    /\ answer' = [answer EXCEPT ![p] = "none"]

StartPush(p) ==
    /\ phase[p] = "idle"
    /\ offer[p].n < MaxPushes
    /\ Call(p)
    /\ \E final \in BOOLEAN :
          offer' = [offer EXCEPT ![p] = [by |-> p, n |-> offer[p].n + 1, final |-> final]]
    /\ UNCHANGED <<state, history>>

\* The caller got its event back with the timeout and offers it again.
OfferAgain(p) ==
    /\ phase[p] = "idle"
    /\ answer[p] = "timedOut"
    /\ Call(p)
    /\ UNCHANGED <<state, offer, history>>

Accepts_bug == ~ended /\ HasRoom
Accepts == ~Closed /\ HasRoom

Accept(p) ==
    /\ Running(p)
    /\ Accepts
    /\ queue' = Append(queue, offer[p])
    /\ result' = IF offer[p].final THEN offer[p] ELSE result
    /\ accepted' = Append(accepted, offer[p])
    /\ \E woken \in WakeConsumers : Return(p, "pushed", woken)
    /\ UNCHANGED <<ended, offer, taken>>

RefusePush(p) ==
    /\ Running(p)
    /\ Closed
    /\ Return(p, "closed", {})
    /\ UNCHANGED <<state, offer, history>>

WaitForRoom(p) ==
    /\ phase[p] = "trying"
    /\ ~Closed /\ ~HasRoom
    /\ phase' = [phase EXCEPT ![p] = "waiting"]
    /\ UNCHANGED <<state, offer, answer, history>>

\* The deadline has passed and there is still no room.
PushTimesOut(p) ==
    /\ p \in Timed
    /\ Running(p)
    /\ ~Closed /\ ~HasRoom
    /\ Return(p, "timedOut", {})
    /\ UNCHANGED <<state, offer, history>>

\* end() on any handle.
End ==
    /\ ~ended
    /\ ended' = TRUE
    /\ phase' = [q \in Procs |-> IF q \in Asleep(Procs)
                                 THEN "trying" ELSE phase[q]]
    /\ UNCHANGED <<queue, result, offer, answer, history>>

(***************************************************************************)
(* Taking                                                                  *)
(***************************************************************************)
StartTake(c) ==
    /\ phase[c] = "idle"
    /\ Call(c)
    /\ UNCHANGED <<state, offer, history>>

Take(c) ==
    /\ Running(c)
    /\ queue # <<>>
    /\ queue' = Tail(queue)
    /\ taken' = Append(taken, Head(queue))
    /\ \E woken \in WakePusher : Return(c, "event", woken)
    /\ UNCHANGED <<ended, result, offer, accepted>>

\* The queue is looked at before the flags: what was accepted is handed out.
Drained == queue = <<>> /\ Closed

TakeEnd(c) ==
    /\ Running(c)
    /\ Drained
    /\ Return(c, "end", {})
    /\ UNCHANGED <<state, offer, history>>

WaitForEvent(c) ==
    /\ phase[c] = "trying"
    /\ queue = <<>> /\ ~Closed
    /\ phase' = [phase EXCEPT ![c] = "waiting"]
    /\ UNCHANGED <<state, offer, answer, history>>

TakeTimesOut(c) ==
    /\ c \in Timed
    /\ Running(c)
    /\ queue = <<>> /\ ~Closed
    /\ Return(c, "timedOut", {})
    /\ UNCHANGED <<state, offer, history>>

(***************************************************************************)
(* Waiting for the final message                                           *)
(***************************************************************************)
Resolve(w) ==
    /\ Running(w)
    /\ Closed
    /\ Return(w, IF result # NoEvent THEN "result" ELSE "end", {})
    /\ UNCHANGED <<state, offer, history>>

WaitForResult(w) ==
    /\ phase[w] = "trying"
    /\ ~Closed
    /\ phase' = [phase EXCEPT ![w] = "waiting"]
    /\ UNCHANGED <<state, offer, answer, history>>

ResultTimesOut(w) ==
    /\ w \in Timed
    /\ Running(w)
    /\ ~Closed
    /\ Return(w, "timedOut", {})
    /\ UNCHANGED <<state, offer, history>>

(***************************************************************************)
(* The condition variables: a timed wait runs out, any wait may end early  *)
(***************************************************************************)
TimerFires(p) ==
    /\ p \in Timed
    /\ phase[p] = "waiting"
    /\ phase' = [phase EXCEPT ![p] = "expired"]
    /\ UNCHANGED <<state, offer, answer, history>>

WakesEarly(p) ==
    /\ phase[p] = "waiting"
    /\ phase' = [phase EXCEPT ![p] = "trying"]
    /\ UNCHANGED <<state, offer, answer, history>>

\* What goes on inside the calls of each kind of process.
PushStep(p) == Accept(p) \/ RefusePush(p) \/ WaitForRoom(p) \/ PushTimesOut(p)
TakeStep(c) == Take(c) \/ TakeEnd(c) \/ WaitForEvent(c) \/ TakeTimesOut(c)
WatchStep(w) == Resolve(w) \/ WaitForResult(w) \/ ResultTimesOut(w)

Next ==
    \/ \E p \in Pushers : StartPush(p) \/ OfferAgain(p) \/ PushStep(p)
    \/ \E c \in Takers : StartTake(c) \/ TakeStep(c)
    \/ \E w \in Watchers : StartTake(w) \/ WatchStep(w)
    \/ \E p \in Procs : TimerFires(p) \/ WakesEarly(p)
    \/ End

Spec == Init /\ [][Next]_vars
=============================================================================
