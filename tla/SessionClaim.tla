----------------------------- MODULE SessionClaim -----------------------------
(***************************************************************************)
(* The claim on a session file (src/src/sessionlog.rs): a sidecar lock     *)
(* file that carries its owner's token and whose modification time the     *)
(* owner's heartbeat thread refreshes, and the append-only session file    *)
(* the owner writes.  Every process of Procs runs the same code on the     *)
(* same path; a step is one file-system operation, since nothing protects  *)
(* a sequence of them.  Heartbeat is the process's second thread.          *)
(*                                                                         *)
(* A session file is a sequence of lines.  A line is an entry, or Torn (an *)
(* unterminated rest of one) or Garbage (an entry glued to such a rest,    *)
(* which every reader skips); the rest that lacks only its newline, which  *)
(* attach terminates, is not distinguished.  Time is the lock's age:       *)
(* Expire says that LOCK_STALE went by without a heartbeat.  An operation  *)
(* on the lock file may fail although the file is there (MaxErrors times). *)
(* X_bug is the form a plausible mistake would give to X.                  *)
(***************************************************************************)
EXTENDS Integers, SequencesExt

CONSTANTS
  Procs, NoProc,
  Creator,       \* the process that creates the session (its id is random)
  MaxClaims,     \* claims attempted altogether
  MaxAppends,    \* appends under one claim
  MaxStalls,     \* times a lock's heartbeat goes silent for too long
  MaxCrashes,    \* processes killed
  MaxFaults,     \* stalls and crashes together
  MaxErrors      \* operations on a lock file that fail

ASSUME ClaimAssumption ==
  /\ Creator \in Procs /\ NoProc \notin Procs
  /\ MaxClaims \in Nat /\ MaxAppends \in Nat /\ MaxStalls \in Nat /\ MaxCrashes \in Nat
  /\ MaxFaults \in Nat /\ MaxErrors \in Nat

VARIABLES
  lock,      \* the lock file: NoLock, or who created it, whether its token is
             \* written, and whether its modification time is too old
  created, exists, log,   \* the session file: ever created, present, its lines
  pc, claims,             \* main thread of each process, claims it attempted
  beat,                   \* its heartbeat thread
  lost, degraded, keep, size, hasReply, appended,   \* LockClaim and Writer
  handle,                 \* whether the open file is still the one at the path
  acked, late,            \* history: entries reported written; appends of this
                          \* claim made after its lock was taken over
  unread,    \* history: checks of this claim that could not read the lock
  stalls, crashes, errors,
  crowded,   \* history: two processes found the lock stale at the same time
  left       \* history: tokens whose owner failed to remove their lock

file   == <<created, exists, log>>
writer == <<lost, degraded, keep, size, hasReply, appended, handle>>
faults == <<stalls, crashes, errors, crowded, left>>
vars   == <<lock, file, pc, claims, beat, writer, acked, late, unread, faults>>

ClaimDue == FoldFunction(+, 0, claims) < MaxClaims
FaultDue == stalls + crashes < MaxFaults

NoLock == [by |-> <<NoProc, 0>>, written |-> FALSE, old |-> FALSE]

Tok(p) == <<p, claims[p]>>
Held(p) == lock.by = Tok(p) /\ lock.written

(* The first entry of a claim is a prompt, the second an assistant reply.  *)
NewEntry(p) == [by |-> Tok(p), n |-> appended[p] + 1]
Torn    == [by |-> <<NoProc, 0>>, n |-> 0]
Garbage == [by |-> <<NoProc, 0>>, n |-> 1]
IsEntry(e) == e.by[1] # NoProc
IsReply(e) == IsEntry(e) /\ e.n = 2

EndsTorn(s) == s # <<>> /\ Last(s) = Torn
Glue(s, e)  == IF EndsTorn(s) THEN Append(Front(s), Garbage) ELSE Append(s, e)

Claiming  == {"create", "writeToken", "check", "removeStale"}
Holding   == {"open", "repair", "ready", "write"}
Releasing == {"release", "unlink"}

Init ==
  /\ lock = NoLock
  /\ created = FALSE /\ exists = FALSE /\ log = <<>>
  /\ pc = [p \in Procs |-> "idle"] /\ claims = [p \in Procs |-> 0]
  /\ beat = [p \in Procs |-> "off"]
  /\ lost = [p \in Procs |-> FALSE] /\ degraded = [p \in Procs |-> FALSE]
  /\ keep = [p \in Procs |-> FALSE] /\ size = [p \in Procs |-> 0]
  /\ hasReply = [p \in Procs |-> FALSE] /\ appended = [p \in Procs |-> 0]
  /\ handle = [p \in Procs |-> FALSE]
  /\ acked = {} /\ late = [p \in Procs |-> 0] /\ unread = [p \in Procs |-> 0]
  /\ stalls = 0 /\ crashes = 0 /\ errors = 0 /\ crowded = FALSE /\ left = {}

Goto(p, l) == pc' = [pc EXCEPT ![p] = l]

(* An operation on the lock file fails, for a reason that will pass.       *)
OperationFails ==
  errors < MaxErrors /\ errors' = errors + 1 /\ UNCHANGED <<stalls, crashes, crowded>>

(* ... and with it the removal of p's lock, which nobody tries again.      *)
LeaveLock(p) ==
  /\ OperationFails
  /\ left' = IF lock.by = Tok(p) THEN left \cup {Tok(p)} ELSE left
  /\ UNCHANGED lock

-----------------------------------------------------------------------------
(* claim: create_new the lock, or find it stale, remove it and try again.  *)

StartClaim(p) ==
  /\ pc[p] = "idle" /\ ClaimDue
  /\ exists \/ (p = Creator /\ ~created)
  /\ claims' = [claims EXCEPT ![p] = @ + 1]
  /\ late' = [late EXCEPT ![p] = 0] /\ unread' = [unread EXCEPT ![p] = 0]
  /\ Goto(p, "create")
  /\ UNCHANGED <<lock, file, beat, writer, acked, faults>>

LockFree == lock = NoLock

CreateLock(p) ==
  /\ pc[p] = "create"
  /\ IF LockFree
     THEN lock' = [by |-> Tok(p), written |-> FALSE, old |-> FALSE] /\ Goto(p, "writeToken")
     ELSE UNCHANGED lock /\ Goto(p, "check")
  /\ UNCHANGED <<file, claims, beat, writer, acked, late, unread, faults>>

(* The token goes into the file this process created, which another one    *)
(* may have unlinked meanwhile.                                            *)
WriteToken(p) ==
  /\ pc[p] = "writeToken"
  /\ lock' = IF lock.by = Tok(p) THEN [lock EXCEPT !.written = TRUE, !.old = FALSE]
                                 ELSE lock
  /\ beat' = [beat EXCEPT ![p] = "wait"]
  /\ lost' = [lost EXCEPT ![p] = FALSE]
  /\ degraded' = [degraded EXCEPT ![p] = FALSE]
  /\ appended' = [appended EXCEPT ![p] = 0]
  /\ Goto(p, "open")
  /\ UNCHANGED <<file, claims, keep, size, hasReply, handle, acked, late, unread, faults>>

(* No token, no claim: whatever is at the path is removed, or, if that     *)
(* fails as well, stays.                                                   *)
TokenFails(p) ==
  /\ pc[p] = "writeToken"
  /\ \/ lock' = NoLock /\ UNCHANGED faults
     \/ LeaveLock(p)
  /\ Goto(p, "idle")
  /\ UNCHANGED <<file, claims, beat, writer, acked, late, unread>>

(* The lock cannot be created, nor judged (which counts as not stale), nor *)
(* removed: claim returns the error.                                       *)
ClaimFails(p) ==
  /\ pc[p] \in {"create", "check", "removeStale"}
  /\ OperationFails
  /\ Goto(p, "idle")
  /\ UNCHANGED <<lock, file, claims, beat, writer, acked, late, unread, left>>

(* lock_is_stale: the heartbeat stopped, or the pid in the file is dead.   *)
IsStale_bug == TRUE
IsStale == lock # NoLock /\ (lock.old \/ (lock.written /\ pc[lock.by[1]] = "crashed"))

CheckStale(p) ==
  /\ pc[p] = "check"
  /\ Goto(p, IF IsStale THEN "removeStale" ELSE "idle")
  /\ crowded' = (crowded \/ (IsStale /\ \E q \in Procs : pc[q] = "removeStale"))
  /\ UNCHANGED <<lock, file, claims, beat, writer, acked, late, unread, stalls, crashes,
                 errors, left>>

RemoveStale_bug(p) ==
  /\ pc[p] = "removeStale"
  /\ lock' = IF lock.by[1] = p THEN NoLock ELSE lock
  /\ Goto(p, "create")
  /\ UNCHANGED <<file, claims, beat, writer, acked, late, unread, faults>>

RemoveStale(p) ==
  /\ pc[p] = "removeStale"
  /\ lock' = NoLock
  /\ Goto(p, "create")
  /\ UNCHANGED <<file, claims, beat, writer, acked, late, unread, faults>>

-----------------------------------------------------------------------------
(* create_with_id makes the file; attach reads it and repairs its tail.  A *)
(* failure on the way drops the claim.                                     *)

CreateFile(p) ==
  /\ pc[p] = "open" /\ p = Creator /\ ~created
  /\ created' = TRUE /\ exists' = TRUE
  /\ keep' = [keep EXCEPT ![p] = FALSE]
  /\ size' = [size EXCEPT ![p] = 0]
  /\ hasReply' = [hasReply EXCEPT ![p] = FALSE]
  /\ handle' = [handle EXCEPT ![p] = TRUE]
  /\ Goto(p, "ready")
  /\ UNCHANGED <<lock, log, claims, beat, lost, degraded, appended, acked, late, unread, faults>>

Kept(s) == IF EndsTorn(s) THEN Len(s) - 1 ELSE Len(s)

AttachRead(p) ==
  /\ pc[p] = "open" /\ exists
  /\ keep' = [keep EXCEPT ![p] = TRUE]
  /\ size' = [size EXCEPT ![p] = Kept(log)]
  /\ hasReply' = [hasReply EXCEPT ![p] = \E i \in DOMAIN log : IsReply(log[i])]
  /\ handle' = [handle EXCEPT ![p] = TRUE]
  /\ Goto(p, "repair")
  /\ UNCHANGED <<lock, file, claims, beat, lost, degraded, appended, acked, late, unread, faults>>

AttachRepair_bug(p) ==
  /\ pc[p] = "repair"
  /\ Goto(p, "ready")
  /\ UNCHANGED <<lock, file, claims, beat, writer, acked, late, unread, faults>>

AttachRepair(p) ==
  /\ pc[p] = "repair"
  /\ log' = IF handle[p] /\ Len(log) > size[p] THEN SubSeq(log, 1, size[p]) ELSE log
  /\ Goto(p, "ready")
  /\ UNCHANGED <<lock, created, exists, claims, beat, writer, acked, late, unread, faults>>

AfterOpenFailed_bug == "idle"
AfterOpenFailed == "release"

OpenFails(p) ==
  /\ pc[p] \in {"open", "repair"}
  /\ Goto(p, AfterOpenFailed)
  /\ UNCHANGED <<lock, file, claims, beat, writer, acked, late, unread, faults>>

-----------------------------------------------------------------------------
(* append: ensure_writable re-reads the lock (Verify), then the line is    *)
(* written with O_APPEND.                                                  *)

StillHeld_bug(p) == ~lost[p]
StillHeld(p) == ~lost[p] /\ Held(p)

Verify(p) ==
  /\ pc[p] = "ready" /\ appended[p] < MaxAppends
  /\ IF StillHeld(p)
     THEN /\ ~degraded[p] /\ Goto(p, "write")
          /\ UNCHANGED <<lost, degraded>>
     ELSE /\ lost' = [lost EXCEPT ![p] = TRUE]
          /\ degraded' = [degraded EXCEPT ![p] = TRUE]
          /\ UNCHANGED pc
  /\ UNCHANGED <<lock, file, claims, beat, keep, size, hasReply, appended, handle,
                 acked, late, unread, faults>>

(* still_held: a lock that cannot be read proves nothing, and the claim is *)
(* taken to hold.                                                          *)
VerifyUnread(p) ==
  /\ pc[p] = "ready" /\ appended[p] < MaxAppends /\ ~lost[p] /\ ~degraded[p]
  /\ OperationFails
  /\ unread' = [unread EXCEPT ![p] = @ + 1]
  /\ Goto(p, "write")
  /\ UNCHANGED <<lock, file, claims, beat, writer, acked, late, left>>

WriteLine(p) ==
  /\ pc[p] = "write"
  /\ log' = IF handle[p] THEN Glue(log, NewEntry(p)) ELSE log
  /\ acked' = acked \cup {NewEntry(p)}
  /\ late' = [late EXCEPT ![p] = @ + (IF Held(p) THEN 0 ELSE 1)]
  /\ size' = [size EXCEPT ![p] = @ + 1]
  /\ hasReply' = [hasReply EXCEPT ![p] = @ \/ IsReply(NewEntry(p))]
  /\ appended' = [appended EXCEPT ![p] = @ + 1]
  /\ Goto(p, "ready")
  /\ UNCHANGED <<lock, created, exists, claims, beat, lost, degraded, keep, handle, unread,
                 faults>>

(* The entry or the session would be too large; the latter is final.       *)
Refuse(p) ==
  /\ pc[p] = "write"
  /\ degraded' \in {degraded, [degraded EXCEPT ![p] = TRUE]}
  /\ Goto(p, "ready")
  /\ UNCHANGED <<lock, file, claims, beat, lost, keep, size, hasReply, appended,
                 handle, acked, late, unread, faults>>

(* write_all failed: set_len brings the file to the size this writer knows *)
(* (cutting it, or filling it up with zero bytes), or fails as well and    *)
(* leaves what was written of the line; the writer stops.                  *)
TornLog == IF EndsTorn(log) THEN log ELSE Append(log, Torn)
SetLen(n) == CASE Len(log) > n -> SubSeq(log, 1, n)
               [] Len(log) < n -> TornLog
               [] OTHER -> log

WriteFails(p) ==
  /\ pc[p] = "write"
  /\ log' \in IF handle[p] THEN {SetLen(size[p]), TornLog} ELSE {log}
  /\ degraded' = [degraded EXCEPT ![p] = TRUE]
  /\ Goto(p, "ready")
  /\ UNCHANGED <<lock, created, exists, claims, beat, lost, keep, size, hasReply,
                 appended, handle, acked, late, unread, faults>>

-----------------------------------------------------------------------------
(* close: a session this process created and nobody replied to is deleted, *)
(* then the claim is dropped: the heartbeat is joined, and the lock file   *)
(* is removed if it was read with this claim's token.                      *)

Discards(p) == ~keep[p] /\ ~lost[p] /\ ~hasReply[p]

Close(p) ==
  /\ pc[p] = "ready"
  /\ IF Discards(p)
     THEN exists' = FALSE /\ log' = <<>> /\ handle' = [q \in Procs |-> FALSE]
     ELSE handle' = [handle EXCEPT ![p] = FALSE] /\ UNCHANGED <<exists, log>>
  /\ Goto(p, "release")
  /\ UNCHANGED <<lock, created, claims, beat, lost, degraded, keep, size, hasReply,
                 appended, acked, late, unread, faults>>

ReleaseRead(p) ==
  /\ pc[p] = "release" /\ beat[p] # "touch"
  /\ beat' = [beat EXCEPT ![p] = "off"]
  /\ Goto(p, IF Held(p) THEN "unlink" ELSE "idle")
  /\ UNCHANGED <<lock, file, claims, writer, acked, late, unread, faults>>

ReleaseUnlink(p) ==
  /\ pc[p] = "unlink"
  /\ lock' = NoLock
  /\ Goto(p, "idle")
  /\ UNCHANGED <<file, claims, beat, writer, acked, late, unread, faults>>

(* Drop ignores both errors: a lock that cannot be read, or not be         *)
(* unlinked, stays where it is.                                            *)
ReleaseFails(p) ==
  /\ \/ pc[p] = "release" /\ beat[p] # "touch"
     \/ pc[p] = "unlink"
  /\ LeaveLock(p)
  /\ beat' = [beat EXCEPT ![p] = "off"]
  /\ Goto(p, "idle")
  /\ UNCHANGED <<file, claims, writer, acked, late, unread>>

-----------------------------------------------------------------------------
(* The heartbeat thread: still_held, then touch whatever is at the path.   *)

BeatCheck_bug(p) ==
  /\ beat[p] = "wait" /\ pc[p] # "crashed"
  /\ beat' = [beat EXCEPT ![p] = "touch"]
  /\ UNCHANGED <<lock, file, pc, claims, writer, acked, late, unread, faults>>

BeatCheck(p) ==
  /\ beat[p] = "wait" /\ pc[p] # "crashed"
  /\ IF StillHeld(p)
     THEN beat' = [beat EXCEPT ![p] = "touch"] /\ UNCHANGED lost
     ELSE beat' = [beat EXCEPT ![p] = "off"] /\ lost' = [lost EXCEPT ![p] = TRUE]
  /\ UNCHANGED <<lock, file, pc, claims, degraded, keep, size, hasReply, appended,
                 handle, acked, late, unread, faults>>

BeatTouch(p) ==
  /\ beat[p] = "touch" /\ pc[p] # "crashed"
  /\ lock' = [lock EXCEPT !.old = FALSE]
  /\ beat' = [beat EXCEPT ![p] = "wait"]
  /\ UNCHANGED <<file, pc, claims, writer, acked, late, unread, faults>>

(* An unreadable lock is touched all the same, and a failing touch is      *)
(* ignored.                                                                *)
BeatFails(p) ==
  /\ pc[p] # "crashed"
  /\ \/ beat[p] = "wait" /\ ~lost[p] /\ beat' = [beat EXCEPT ![p] = "touch"]
     \/ beat[p] = "touch" /\ beat' = [beat EXCEPT ![p] = "wait"]
  /\ OperationFails
  /\ UNCHANGED <<lock, file, pc, claims, writer, acked, late, unread, left>>

-----------------------------------------------------------------------------
(* The environment.                                                        *)

(* No heartbeat comes for the lock of a dead owner or one left behind.     *)
Abandoned == pc[lock.by[1]] = "crashed" \/ lock.by \in left

Expire ==
  /\ lock # NoLock /\ ~lock.old
  /\ IF Abandoned THEN UNCHANGED stalls
     ELSE stalls < MaxStalls /\ FaultDue /\ stalls' = stalls + 1
  /\ lock' = [lock EXCEPT !.old = TRUE]
  /\ UNCHANGED <<file, pc, claims, beat, writer, acked, late, unread, crashes, errors, crowded,
                 left>>

(* A kill, possibly in the middle of a write.                              *)
Crash(p) ==
  /\ pc[p] \notin {"idle", "crashed"}
  /\ crashes < MaxCrashes /\ FaultDue /\ crashes' = crashes + 1
  /\ \/ UNCHANGED log
     \/ pc[p] = "write" /\ handle[p] /\ log' = TornLog
  /\ beat' = [beat EXCEPT ![p] = "off"]
  /\ handle' = [handle EXCEPT ![p] = FALSE]
  /\ Goto(p, "crashed")
  /\ UNCHANGED <<lock, created, exists, claims, lost, degraded, keep, size, hasReply,
                 appended, acked, late, unread, stalls, errors, crowded, left>>

MainStep(p) ==
  \/ CreateLock(p) \/ WriteToken(p) \/ TokenFails(p) \/ CheckStale(p) \/ RemoveStale(p)
  \/ ClaimFails(p)
  \/ CreateFile(p) \/ AttachRead(p) \/ AttachRepair(p) \/ OpenFails(p)
  \/ WriteLine(p) \/ Refuse(p) \/ WriteFails(p)
  \/ ReleaseRead(p) \/ ReleaseUnlink(p) \/ ReleaseFails(p)

BeatStep(p) == BeatCheck(p) \/ BeatTouch(p) \/ BeatFails(p)

UserStep(p) == StartClaim(p) \/ Verify(p) \/ VerifyUnread(p) \/ Close(p)

Next ==
  \/ \E p \in Procs : MainStep(p) \/ BeatStep(p) \/ UserStep(p) \/ Crash(p)
  \/ Expire
  \/ /\ \A p \in Procs : pc[p] \in {"idle", "crashed"}
     /\ UNCHANGED vars

Spec == Init /\ [][Next]_vars

(* Processes run; the user is not obliged to open, append or close.        *)
Fairness == \A p \in Procs : WF_vars(MainStep(p)) /\ WF_vars(BeatStep(p))

FairSpec == Spec /\ Fairness
=============================================================================
