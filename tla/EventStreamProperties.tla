------------------------ MODULE EventStreamProperties ------------------------
(* What every user of the stream relies on, whatever calls it makes.       *)
EXTENDS EventStream

\* Every variable keeps its type and the queue its bound.
TypeOK ==
    /\ queue \in Seq(Event)
    /\ Len(queue) <= Capacity
    /\ ended \in BOOLEAN
    /\ result \in Event \union {NoEvent}
    /\ phase \in [Procs -> {"idle", "trying", "waiting", "expired"}]
    /\ offer \in [Pushers -> Event]
    /\ answer \in [Procs -> Answer]
    /\ accepted \in Seq(Event)
    /\ taken \in Seq(Event)

\* A final event is the last one that enters the stream, and it is the one
\* result() reports: push_inner refuses everything after it.
FinalMessageLast ==
    \A i \in DOMAIN accepted :
        accepted[i].final => i = Len(accepted) /\ result = accepted[i]

\* Nobody sleeps beside something to do.  A taker sleeps only on an empty open
\* queue and a watcher only on an open stream, because changed is notified for
\* all of them; of the pushers one is notified for every event taken, so while
\* some sleep on an open stream at least as many are on their way as there are
\* free places.
NoLostWakeup ==
    /\ Asleep(Takers) # {} => queue = <<>> /\ ~Closed
    /\ Asleep(Watchers) # {} => ~Closed
    /\ Asleep(Pushers) # {} /\ ~Closed =>
          Capacity - Len(queue) <= Cardinality(Awake(Pushers))
=============================================================================
