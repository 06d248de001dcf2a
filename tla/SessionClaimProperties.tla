------------------------ MODULE SessionClaimProperties ------------------------
(***************************************************************************)
(* What the claim protocol guarantees, with and without stalled owners.    *)
(***************************************************************************)
EXTENDS SessionClaim, FiniteSets

Writing(p) == pc[p] \in {"ready", "write"}

-----------------------------------------------------------------------------
(* However long its owner was stalled and whatever the other processes     *)
(* did, a writer whose lock was taken over gets at most one more line into *)
(* the file, the one it had verified before it stopped: it "must stop      *)
(* [...] at its next line" (ensure_writable).  A check that could not read *)
(* the lock, which proves nothing (still_held), is worth one line more.    *)
OneLateAppend == \A p \in Procs : late[p] <= 1 + unread[p]

(* Once every process is done nobody's lock is left behind, except by an   *)
(* owner whose own removal of it failed: every path out of a claim, failed *)
(* opens included, drops it, and takeovers keep track of whose lock is     *)
(* whose.                                                                  *)
NoLockLeftBehind == (\A p \in Procs : pc[p] = "idle") => lock = NoLock \/ lock.by \in left

-----------------------------------------------------------------------------
(* As long as no live owner stalls and no two processes find a dead one's  *)
(* lock at the same time, the file is an ExclusiveLog of its lines, whoever *)
(* crashes and whatever fails: an unterminated rest aside, which attach    *)
(* cuts off, every line is an entry of the writer of its time.             *)
Orderly == stalls = 0 /\ ~crowded

Readable == SubSeq(log, 1, Kept(log))

CurrentHolder == IF \E p \in Procs : Writing(p)
                 THEN CHOOSE p \in Procs : Writing(p) ELSE NoProc

AuthorOf(e) == e.by[1]

Exclusive == INSTANCE ExclusiveLog WITH
               holder <- CurrentHolder, entries <- Readable, Nobody <- NoProc,
               Author <- AuthorOf, Reply <- IsReply
ImplementsExclusiveLog ==
  Exclusive!Init /\ [][Orderly' => [Exclusive!Next]_<<CurrentHolder, Readable>>]_vars

(* Entries reported as written stay readable as long as the session exists,*)
(* although a crash may leave half a line behind: attach cuts it off       *)
(* before anything is appended to it.                                      *)
AckedReadable ==
  exists /\ Orderly =>
    /\ \A e \in acked : \E i \in DOMAIN log : log[i] = e
    /\ \A i \in DOMAIN log : log[i] # Garbage

-----------------------------------------------------------------------------
(* claim() returns: its remove-and-retry loop ends however the processes   *)
(* race for the lock.                                                      *)
ClaimReturns == \A p \in Procs : []<>(pc[p] \notin Claiming)

(* A writer whose lock was taken over learns of it from its heartbeat,     *)
(* even if nothing is appended any more.                                   *)
LossNoticed ==
  \A p \in Procs : []<>(Held(p) \/ lost[p] \/ pc[p] # "ready")
=============================================================================
