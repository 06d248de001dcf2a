-------------------------- MODULE SessionClaimProofs --------------------------
(***************************************************************************)
(* For any number of processes, claims, appends and errors: a displaced    *)
(* writer appends at most once more, and once for each check that could    *)
(* not read the lock, no lock is left behind but by an owner who could not *)
(* remove it, and as long as no live owner stalls and no two processes     *)
(* find a stale lock at once the session file is an ExclusiveLog that      *)
(* keeps what it acknowledged.                                             *)
(***************************************************************************)
EXTENDS SessionClaimProperties, TLAPS

(* A claim that made all its late appends has lost its lock for good,      *)
(* since a token is never written twice, and stays out of the way of the   *)
(* lock, and of the file, until the process claims again or a check cannot *)
(* read the lock.                                                          *)
Locks     == [by : (Procs \cup {NoProc}) \X Nat, written : BOOLEAN, old : BOOLEAN]
Phases    == Claiming \cup Holding \cup Releasing \cup {"idle", "crashed"}
Displaced == {"ready", "release", "unlink", "idle", "crashed"}

Spent(p)  == late[p] = 1 + unread[p]

LateInv ==
  /\ lock \in Locks
  /\ pc \in [Procs -> Phases]
  /\ claims \in [Procs -> Nat]
  /\ late \in [Procs -> Nat] /\ unread \in [Procs -> Nat]
  /\ \A p \in Procs : late[p] <= 1 + unread[p]
  /\ \A p \in Procs : Spent(p) => ~Held(p) /\ pc[p] \in Displaced

LEMMA LateInit == Init => LateInv
BY DEF Init, LateInv, Locks, Phases, NoLock, Spent

(* Steps that write neither the lock, nor pc, claims, late and unread.     *)
LEMMA LateFrame == LateInv /\ UNCHANGED <<lock, pc, claims, late, unread>> => LateInv'
BY DEF LateInv, Held, Tok, Spent

(* A token names its process and claim.                                    *)
LEMMA TokensDiffer == \A p, q \in Procs : Tok(p) = Tok(q) => p = q
BY DEF Tok

(* A new lock belongs to nobody yet, or to the process that writes its     *)
(* token: a step that moves one process, in the claim protocol's first     *)
(* half or out of the way of it, keeps LateInv if nobody else gains a lock.*)
LEMMA LateMove ==
  ASSUME LateInv, NEW p \in Procs, NEW l \in Phases, Spent(p) => l \in Displaced,
         pc' = [pc EXCEPT ![p] = l], lock' \in Locks, UNCHANGED <<claims, late, unread>>,
         \A q \in Procs : Spent(q) /\ lock'.by = Tok(q) /\ lock'.written => Held(q)
  PROVE  LateInv'
BY DEF LateInv, Held, Tok, Spent

LEMMA LateStep == LateInv /\ [Next]_vars => LateInv'
<1> SUFFICES ASSUME LateInv, [Next]_vars PROVE LateInv'
  OBVIOUS
<1> USE DEF Claiming, Holding, Releasing, Phases, Locks
<1>1. CASE UNCHANGED vars
  BY <1>1, LateFrame DEF vars
<1>2. ASSUME NEW p \in Procs, StartClaim(p) PROVE LateInv'
  BY <1>2 DEF StartClaim, Goto, LateInv, Held, Tok, Displaced, Spent
<1>3. ASSUME NEW p \in Procs, CreateLock(p) PROVE LateInv'
  <2>1. ~Spent(p) /\ Tok(p) \in (Procs \cup {NoProc}) \X Nat
    BY <1>3 DEF CreateLock, LateInv, Displaced, Tok
  <2>2. CASE LockFree
    <3>1. /\ lock' = [by |-> Tok(p), written |-> FALSE, old |-> FALSE]
          /\ pc' = [pc EXCEPT ![p] = "writeToken"] /\ UNCHANGED <<claims, late, unread>>
      BY <1>3, <2>2 DEF CreateLock, Goto
    <3> QED
      BY <2>1, <3>1, LateMove
  <2>3. CASE ~LockFree
    <3>1. pc' = [pc EXCEPT ![p] = "check"] /\ UNCHANGED <<lock, claims, late, unread>>
      BY <1>3, <2>3 DEF CreateLock, Goto
    <3> QED
      BY <2>1, <3>1, LateMove DEF LateInv, Held
  <2> QED
    BY <2>2, <2>3
<1>4. ASSUME NEW p \in Procs, WriteToken(p) PROVE LateInv'
  <2>1. ~Spent(p) /\ pc' = [pc EXCEPT ![p] = "open"] /\ UNCHANGED <<claims, late, unread>>
    BY <1>4 DEF WriteToken, Goto, LateInv, Displaced
  <2>2. lock' \in Locks
    BY <1>4 DEF WriteToken, LateInv
  <2>3. \A q \in Procs : Spent(q) /\ lock'.by = Tok(q) /\ lock'.written => Held(q)
    BY <1>4, <2>1, TokensDiffer DEF WriteToken, LateInv, Held
  <2> QED
    BY <2>1, <2>2, <2>3, LateMove
<1>5. ASSUME NEW p \in Procs, \/ TokenFails(p) \/ RemoveStale(p) \/ ReleaseUnlink(p)
                              \/ ClaimFails(p) \/ ReleaseFails(p)
      PROVE LateInv'
  <2>1. lock' \in {NoLock, lock} /\ UNCHANGED <<claims, late, unread>>
    BY <1>5 DEF TokenFails, RemoveStale, ReleaseUnlink, ClaimFails, ReleaseFails, LeaveLock
  <2>2. PICK l \in Phases : pc' = [pc EXCEPT ![p] = l] /\ (Spent(p) => l \in Displaced)
    BY <1>5 DEF TokenFails, RemoveStale, ReleaseUnlink, ClaimFails, ReleaseFails, Goto, LateInv,
                Displaced
  <2>3. NoLock \in Locks /\ ~NoLock.written
    BY DEF NoLock
  <2> QED
    BY <2>1, <2>2, <2>3, LateMove DEF LateInv, Held
<1>6. ASSUME NEW p \in Procs, CheckStale(p) PROVE LateInv'
  BY <1>6 DEF CheckStale, Goto, LateInv, Held, Tok, Displaced, Spent
<1>7. ASSUME NEW p \in Procs, CreateFile(p) \/ AttachRead(p) \/ AttachRepair(p) \/ OpenFails(p)
      PROVE LateInv'
  BY <1>7 DEF CreateFile, AttachRead, AttachRepair, OpenFails, AfterOpenFailed, Goto,
              LateInv, Held, Tok, Displaced, Spent
<1>8. ASSUME NEW p \in Procs, Verify(p) PROVE LateInv'
  BY <1>8 DEF Verify, StillHeld, Goto, LateInv, Held, Tok, Displaced, Spent
<1>9. ASSUME NEW p \in Procs, WriteLine(p) PROVE LateInv'
  BY <1>9 DEF WriteLine, Goto, LateInv, Held, Tok, Displaced, Spent
<1>10. ASSUME NEW p \in Procs, Refuse(p) \/ WriteFails(p) PROVE LateInv'
  BY <1>10 DEF Refuse, WriteFails, Goto, LateInv, Held, Tok, Displaced, Spent
<1>11. ASSUME NEW p \in Procs, Close(p) \/ ReleaseRead(p) PROVE LateInv'
  BY <1>11 DEF Close, ReleaseRead, Goto, LateInv, Held, Tok, Displaced, Spent
<1>16. ASSUME NEW p \in Procs, VerifyUnread(p) PROVE LateInv'
  <2>1. /\ pc' = [pc EXCEPT ![p] = "write"] /\ unread' = [unread EXCEPT ![p] = @ + 1]
        /\ UNCHANGED <<lock, claims, late>>
    BY <1>16 DEF VerifyUnread, Goto
  <2> QED
    BY <2>1 DEF LateInv, Held, Tok, Spent
<1>12. ASSUME NEW p \in Procs, BeatCheck(p) \/ BeatFails(p) PROVE LateInv'
  BY <1>12, LateFrame DEF BeatCheck, BeatFails
<1>13. ASSUME NEW p \in Procs, BeatTouch(p) PROVE LateInv'
  BY <1>13 DEF BeatTouch, LateInv, Held, Tok, Spent
<1>14. CASE Expire
  BY <1>14 DEF Expire, LateInv, Held, Tok, Spent
<1>15. ASSUME NEW p \in Procs, Crash(p) PROVE LateInv'
  BY <1>15 DEF Crash, Goto, LateInv, Held, Tok, Displaced, Spent
<1> QED
  BY <1>1, <1>2, <1>3, <1>4, <1>5, <1>6, <1>7, <1>8, <1>9, <1>10, <1>11, <1>12, <1>13,
     <1>14, <1>15, <1>16 DEF Next, MainStep, BeatStep, UserStep

(* A writer whose lock was taken over gets at most one more line into the  *)
(* file, and one for each check that could not read the lock:              *)
(* ensure_writable stops it at the next one.                               *)
THEOREM AtMostOneLate == Spec => []OneLateAppend
<1>1. LateInv => OneLateAppend
  BY DEF LateInv, OneLateAppend
<1> QED
  BY <1>1, LateInit, LateStep, PTL DEF Spec

-----------------------------------------------------------------------------
(* Whose lock it is.                                                       *)

(* From the creation of its lock to its removal a process owns the lock.   *)
Owning == Holding \cup Releasing \cup {"writeToken"}

OwnedBy(q) ==
  /\ lock.by = Tok(q) /\ pc[q] \in Owning \cup {"crashed"}
  /\ pc[q] \in Owning \ {"writeToken"} => lock.written

(* A token left behind is one of a claim that is over.                     *)
LeftInv ==
  \A t \in left : /\ t \in Procs \X Nat
                  /\ t[2] < claims[t[1]] \/ (t[2] = claims[t[1]] /\ pc[t[1]] = "idle")

OwnerInv == lock # NoLock => lock.by \in left \/ \E q \in Procs : OwnedBy(q)

LEMMA NoOwner == NoLock.by[1] = NoProc /\ ~NoLock.old /\ ~NoLock.written /\ NoLock \in Locks
BY DEF NoLock, Locks

LEMMA OwnerInit == Init => LeftInv /\ OwnerInv
BY DEF Init, LeftInv, OwnerInv

LEMMA LeftStep == LateInv /\ LeftInv /\ [Next]_vars => LeftInv' /\ left \subseteq left'
<1> SUFFICES ASSUME LateInv, LeftInv, [Next]_vars PROVE LeftInv' /\ left \subseteq left'
  OBVIOUS
<1>1. ASSUME left' = left, claims' = claims,
             pc' = pc \/ \E p \in Procs, l \in Phases : pc[p] # "idle" /\ pc' = [pc EXCEPT ![p] = l]
      PROVE  LeftInv'
  BY <1>1 DEF LeftInv, LateInv
<1>2. ASSUME NEW p \in Procs, StartClaim(p) PROVE LeftInv' /\ left' = left
  BY <1>2 DEF StartClaim, Goto, LeftInv, LateInv, faults
<1>3. ASSUME NEW p \in Procs, pc' = [pc EXCEPT ![p] = "idle"], LeaveLock(p), claims' = claims
      PROVE  LeftInv' /\ left \subseteq left'
  <2>1. left' = left \/ left' = left \cup {Tok(p)}
    BY <1>3 DEF LeaveLock
  <2> QED
    BY <1>3, <2>1 DEF LeftInv, LateInv, Tok
<1>4. ASSUME NEW p \in Procs, TokenFails(p) \/ ReleaseFails(p)
      PROVE  LeftInv' /\ left \subseteq left'
  <2>1. /\ pc[p] # "idle" /\ pc' = [pc EXCEPT ![p] = "idle"] /\ claims' = claims
        /\ left' = left \/ LeaveLock(p)
    BY <1>4 DEF TokenFails, ReleaseFails, Goto, faults
  <2> QED
    BY <1>1, <1>3, <2>1 DEF Phases
<1>5. ASSUME NEW p \in Procs,
             \/ CreateLock(p) \/ WriteToken(p) \/ CheckStale(p) \/ RemoveStale(p) \/ ClaimFails(p)
             \/ CreateFile(p) \/ AttachRead(p) \/ AttachRepair(p) \/ OpenFails(p) \/ Verify(p)
             \/ VerifyUnread(p) \/ WriteLine(p) \/ Refuse(p) \/ WriteFails(p) \/ Close(p)
             \/ ReleaseRead(p) \/ ReleaseUnlink(p) \/ Crash(p)
      PROVE  LeftInv' /\ left' = left
  <2>1. /\ left' = left /\ claims' = claims /\ pc[p] # "idle"
        /\ pc' = pc \/ \E l \in Phases : pc' = [pc EXCEPT ![p] = l]
    BY <1>5 DEF CreateLock, WriteToken, CheckStale, RemoveStale, ClaimFails, CreateFile, AttachRead,
       AttachRepair, OpenFails, AfterOpenFailed, Verify, VerifyUnread, WriteLine, Refuse, WriteFails,
       Close, ReleaseRead, ReleaseUnlink, Crash, Goto, faults, Phases, Claiming, Holding, Releasing
  <2> QED
    BY <1>1, <2>1
<1>6. ASSUME NEW p \in Procs, BeatStep(p) \/ Expire PROVE LeftInv' /\ left' = left
  BY <1>1, <1>6 DEF BeatStep, BeatCheck, BeatTouch, BeatFails, Expire, faults
<1>7. CASE UNCHANGED vars
  BY <1>1, <1>7 DEF vars, faults
<1> QED
  BY <1>2, <1>4, <1>5, <1>6, <1>7, ClaimAssumption DEF Next, MainStep, UserStep

(* A step that moves one process, of which the lock's owner, if it moves,  *)
(* stays the owner.                                                        *)
LEMMA OwnerMove ==
  ASSUME LateInv, OwnerInv, NEW p \in Procs, NEW l \in Phases, left \subseteq left',
         pc' = [pc EXCEPT ![p] = l], claims' = claims,
         lock' = lock \/ (lock # NoLock /\ lock'.by = lock.by /\ lock'.written = lock.written),
         \/ l = "crashed"
         \/ lock = NoLock
         \/ lock.by # Tok(p)
         \/ l \in Owning /\ lock.written
  PROVE  OwnerInv'
<1> SUFFICES ASSUME lock' # NoLock PROVE OwnerInv'
  BY DEF OwnerInv
<1>1. CASE lock.by \in left
  BY <1>1 DEF OwnerInv
<1>2. CASE \E q \in Procs : OwnedBy(q)
  <2>1. PICK q \in Procs : OwnedBy(q)
    BY <1>2
  <2>2. lock'.by = Tok(q)' /\ lock'.written = lock.written
    BY <2>1 DEF OwnedBy, Tok
  <2>3. pc'[q] \in Owning \cup {"crashed"} /\ (pc'[q] \in Owning \ {"writeToken"} => lock.written)
    BY <2>1 DEF OwnedBy, LateInv, Owning, Holding, Releasing
  <2> QED
    BY <2>2, <2>3 DEF OwnerInv, OwnedBy
<1> QED
  BY <1>1, <1>2 DEF OwnerInv

LEMMA OwnerStep == LateInv /\ LeftInv /\ OwnerInv /\ [Next]_vars => OwnerInv'
<1> SUFFICES ASSUME LateInv, LeftInv, OwnerInv, [Next]_vars, left \subseteq left' PROVE OwnerInv'
  BY LeftStep
<1>0. CASE UNCHANGED <<lock, pc, claims>>
  BY <1>0 DEF OwnerInv, OwnedBy, Tok
<1>a. ASSUME NEW p \in Procs, Tok(p) \in left PROVE pc[p] = "idle"
  BY <1>a DEF LeftInv, LateInv, Tok
<1>1. ASSUME NEW p \in Procs, lock.by = Tok(p), lock # NoLock,
             pc[p] \notin Owning \cup {"crashed", "idle"}
      PROVE  FALSE
  BY <1>1, <1>a, TokensDiffer DEF OwnerInv, OwnedBy
<1>2. ASSUME NEW p \in Procs, lock.by = Tok(p), pc[p] \in Owning \ {"writeToken"}, lock # NoLock
      PROVE  lock.written
  BY <1>2, <1>a, TokensDiffer DEF OwnerInv, OwnedBy, Owning, Holding, Releasing
<1>3. ASSUME NEW p \in Procs, StartClaim(p) PROVE OwnerInv'
  <2>1. /\ pc' = [pc EXCEPT ![p] = "create"] /\ claims' = [claims EXCEPT ![p] = @ + 1]
        /\ lock' = lock /\ pc[p] = "idle"
    BY <1>3 DEF StartClaim, Goto
  <2> QED
    BY <2>1 DEF OwnerInv, OwnedBy, LateInv, Tok, Owning, Holding, Releasing
<1>4. ASSUME NEW p \in Procs, CreateLock(p) PROVE OwnerInv'
  <2>1. CASE LockFree
    <3>1. /\ lock' = [by |-> Tok(p), written |-> FALSE, old |-> FALSE] /\ claims' = claims
          /\ pc' = [pc EXCEPT ![p] = "writeToken"]
      BY <1>4, <2>1 DEF CreateLock, Goto
    <3>2. lock'.by = Tok(p)' /\ pc'[p] = "writeToken"
      BY <3>1 DEF Tok, LateInv
    <3> QED
      BY <3>2 DEF OwnerInv, OwnedBy, Owning
  <2>2. CASE ~LockFree
    <3>1. lock' = lock /\ claims' = claims /\ pc' = [pc EXCEPT ![p] = "check"] /\ pc[p] = "create"
      BY <1>4, <2>2 DEF CreateLock, Goto
    <3>2. lock = NoLock \/ lock.by # Tok(p)
      BY <1>1, <3>1 DEF Owning, Holding, Releasing
    <3> QED
      BY <3>1, <3>2, OwnerMove DEF Phases, Claiming
  <2> QED
    BY <2>1, <2>2
<1>5. ASSUME NEW p \in Procs, WriteToken(p) PROVE OwnerInv'
  <2>1. /\ pc' = [pc EXCEPT ![p] = "open"] /\ claims' = claims
        /\ lock' = IF lock.by = Tok(p) THEN [lock EXCEPT !.written = TRUE, !.old = FALSE] ELSE lock
    BY <1>5 DEF WriteToken, Goto
  <2>2. CASE lock.by = Tok(p)
    <3>1. lock'.by = Tok(p)' /\ lock'.written /\ pc'[p] = "open"
      BY <2>1, <2>2 DEF LateInv, Locks, Tok
    <3> QED
      BY <3>1 DEF OwnerInv, OwnedBy, Owning, Holding
  <2>3. CASE lock.by # Tok(p)
    BY <2>1, <2>3, OwnerMove DEF Phases, Holding
  <2> QED
    BY <2>2, <2>3
<1>6. ASSUME NEW p \in Procs, TokenFails(p) \/ RemoveStale(p) \/ ReleaseUnlink(p) \/ ReleaseFails(p)
      PROVE  OwnerInv'
  <2>1. CASE lock' = NoLock
    BY <2>1 DEF OwnerInv
  <2>2. CASE LeaveLock(p) /\ lock.by = Tok(p)
    BY <2>2 DEF LeaveLock, OwnerInv
  <2>3. CASE LeaveLock(p) /\ lock.by # Tok(p) /\ lock' # NoLock
    <3>1. lock' = lock /\ claims' = claims /\ pc' = [pc EXCEPT ![p] = "idle"]
      BY <1>6, <2>3 DEF TokenFails, RemoveStale, ReleaseUnlink, ReleaseFails, LeaveLock, Goto
    <3> QED
      BY <2>3, <3>1, OwnerMove DEF Phases
  <2> QED
    BY <1>6, <2>1, <2>2, <2>3 DEF TokenFails, RemoveStale, ReleaseUnlink, ReleaseFails
<1>7. ASSUME NEW p \in Procs, CheckStale(p) \/ ClaimFails(p) PROVE OwnerInv'
  <2>1. PICK l \in {"removeStale", "idle"} : pc' = [pc EXCEPT ![p] = l]
    BY <1>7 DEF CheckStale, ClaimFails, Goto
  <2>2. lock' = lock /\ claims' = claims /\ pc[p] \in {"create", "check", "removeStale"}
    BY <1>7 DEF CheckStale, ClaimFails
  <2>3. lock = NoLock \/ lock.by # Tok(p)
    BY <1>1, <2>2 DEF Owning, Holding, Releasing
  <2> QED
    BY <2>1, <2>2, <2>3, OwnerMove DEF Phases, Claiming
<1>8. ASSUME NEW p \in Procs, \/ CreateFile(p) \/ AttachRead(p) \/ AttachRepair(p) \/ OpenFails(p)
                              \/ Verify(p) \/ WriteLine(p) \/ Refuse(p) \/ WriteFails(p) \/ Close(p)
                              \/ VerifyUnread(p)
      PROVE OwnerInv'
  <2>1. /\ lock' = lock /\ claims' = claims /\ pc[p] \in Holding
        /\ pc' = pc \/ \E l \in Holding \cup Releasing : pc' = [pc EXCEPT ![p] = l]
    BY <1>8 DEF CreateFile, AttachRead, AttachRepair, OpenFails, AfterOpenFailed, Verify,
                VerifyUnread, WriteLine, Refuse, WriteFails, Close, Goto, Holding, Releasing
  <2>2. CASE pc' = pc
    BY <1>0, <2>1, <2>2
  <2>3. ASSUME NEW l \in Holding \cup Releasing, pc' = [pc EXCEPT ![p] = l] PROVE OwnerInv'
    <3>1. lock = NoLock \/ lock.by # Tok(p) \/ lock.written
      BY <1>2, <2>1 DEF Owning, Holding
    <3> QED
      BY <2>1, <2>3, <3>1, OwnerMove DEF Phases, Owning
  <2> QED
    BY <2>1, <2>2, <2>3
<1>9. ASSUME NEW p \in Procs, ReleaseRead(p) PROVE OwnerInv'
  <2>1. /\ lock' = lock /\ claims' = claims /\ pc[p] = "release"
        /\ pc' = [pc EXCEPT ![p] = IF Held(p) THEN "unlink" ELSE "idle"]
    BY <1>9 DEF ReleaseRead, Goto
  <2>2. lock = NoLock \/ lock.by # Tok(p) \/ Held(p)
    BY <1>2, <2>1 DEF Owning, Releasing, Held
  <2> QED
    BY <2>1, <2>2, OwnerMove DEF Phases, Owning, Releasing, Held
<1>10. ASSUME NEW p \in Procs, BeatCheck(p) \/ BeatFails(p) PROVE OwnerInv'
  BY <1>0, <1>10 DEF BeatCheck, BeatFails
<1>11. ASSUME NEW p \in Procs, BeatTouch(p) \/ Expire PROVE OwnerInv'
  <2>1. /\ lock'.by = lock.by /\ lock'.written = lock.written /\ UNCHANGED <<pc, claims>>
    BY <1>11 DEF BeatTouch, Expire, LateInv, Locks
  <2>2. lock' # NoLock => lock # NoLock
    BY <1>11 DEF BeatTouch, Expire, NoLock
  <2> QED
    BY <2>1, <2>2 DEF OwnerInv, OwnedBy, Tok
<1>12. ASSUME NEW p \in Procs, Crash(p) PROVE OwnerInv'
  <2>1. lock' = lock /\ claims' = claims /\ pc' = [pc EXCEPT ![p] = "crashed"]
    BY <1>12 DEF Crash, Goto
  <2> QED
    BY <2>1, OwnerMove DEF Phases
<1>13. CASE UNCHANGED vars
  BY <1>0, <1>13 DEF vars
<1> QED
  BY <1>3, <1>4, <1>5, <1>6, <1>7, <1>8, <1>9, <1>10, <1>11, <1>12, <1>13, ClaimAssumption
     DEF Next, MainStep, BeatStep, UserStep

(* Whatever path a claim takes, and however often locks are taken over,    *)
(* when every process is done no lock is left to shut anyone out, unless   *)
(* its owner failed to remove it.                                          *)
THEOREM LocksAreGivenBack == Spec => []NoLockLeftBehind
<1>1. OwnerInv => NoLockLeftBehind
  BY DEF OwnerInv, OwnedBy, NoLockLeftBehind, Owning, Holding, Releasing
<1> QED
  BY <1>1, LateInit, LateStep, LeftStep, OwnerInit, OwnerStep, PTL DEF Spec

-----------------------------------------------------------------------------
(* As long as no owner stalls and no two processes find a stale lock at    *)
(* once, whoever is past creating the lock holds it, and a lock is stale   *)
(* only when its owner is dead or left it behind.                          *)

HoldInv ==
  Orderly =>
    /\ \A p \in Procs : pc[p] \in Owning => lock.by = Tok(p)
    /\ \A p \in Procs : pc[p] \in Owning \ {"writeToken"} => lock.written
    /\ lock.old => Abandoned
    /\ \A p \in Procs : pc[p] = "removeStale" => lock # NoLock /\ Abandoned
    /\ \A p, q \in Procs : pc[p] = "removeStale" /\ pc[q] = "removeStale" => p = q

FaultsType == stalls \in Nat /\ crowded \in BOOLEAN

LEMMA FaultsStay ==
  ASSUME FaultsType, [Next]_vars
  PROVE  FaultsType' /\ (Orderly' => Orderly)
<1>1. ASSUME NEW p \in Procs, MainStep(p) \/ BeatStep(p) \/ UserStep(p) \/ Crash(p)
      PROVE  stalls' = stalls /\ (crowded' = crowded \/ CheckStale(p))
  <2>1. CASE CheckStale(p)
    BY <2>1 DEF CheckStale
  <2> QED
    BY <1>1, <2>1 DEF MainStep, BeatStep, UserStep, StartClaim, CreateLock, WriteToken, TokenFails,
       RemoveStale, ClaimFails, CreateFile, AttachRead, AttachRepair, OpenFails, Verify, VerifyUnread,
       WriteLine, Refuse, WriteFails, Close, ReleaseRead, ReleaseUnlink, ReleaseFails, LeaveLock,
       OperationFails, BeatCheck, BeatTouch, BeatFails, Crash, faults
<1>2. ASSUME NEW p \in Procs, CheckStale(p)
      PROVE  crowded' \in BOOLEAN /\ (crowded => crowded')
  BY <1>2 DEF CheckStale, FaultsType
<1>3. CASE Expire
  BY <1>3 DEF Expire, FaultsType, Orderly
<1>4. CASE UNCHANGED vars
  BY <1>4 DEF vars, faults, FaultsType, Orderly
<1> QED
  BY <1>1, <1>2, <1>3, <1>4 DEF Next, FaultsType, Orderly

LEMMA HoldInit == Init => HoldInv
BY DEF Init, HoldInv, NoLock, Owning, Holding, Releasing

LEMMA OneOwner ==
  ASSUME HoldInv, Orderly, NEW p \in Procs, NEW q \in Procs, pc[p] \in Owning, pc[q] \in Owning
  PROVE  p = q
BY TokensDiffer DEF HoldInv

(* Tokens left behind are not those of processes that own the lock.        *)
LEMMA OwnersStay ==
  ASSUME LeftInv, LateInv, HoldInv, Orderly, NEW p \in Procs, pc[p] \in Owning
  PROVE  ~Abandoned
<1>1. lock.by = Tok(p) /\ lock.by[1] = p /\ pc[p] \notin {"crashed", "idle"}
  BY DEF HoldInv, Tok, Owning, Holding, Releasing
<1> QED
  BY <1>1 DEF Abandoned, LeftInv, LateInv, Tok

(* A step of one process that keeps its lock, or has none.                 *)
LEMMA HoldMove ==
  ASSUME LateInv, OwnerInv, HoldInv, Orderly, NEW p \in Procs, NEW l \in Phases,
         pc' = [pc EXCEPT ![p] = l], claims' = claims, lock' = lock, left \subseteq left',
         l \in Owning => pc[p] \in Owning \ {"writeToken"},
         l = "removeStale" => /\ lock # NoLock /\ Abandoned
                              /\ \A q \in Procs : pc[q] # "removeStale",
         pc[p] # "crashed"
  PROVE  HoldInv'
<1>1. ASSUME NEW q \in Procs, pc'[q] \in Owning
      PROVE  lock'.by = Tok(q)' /\ (pc'[q] \in Owning \ {"writeToken"} => lock'.written)
  <2>1. pc[q] \in Owning /\ (pc'[q] \in Owning \ {"writeToken"} => pc[q] \in Owning \ {"writeToken"})
    BY <1>1 DEF LateInv
  <2> QED
    BY <2>1 DEF HoldInv, Tok
<1>a. Abandoned => Abandoned'
  BY DEF Abandoned, LateInv
<1>2. lock'.old => Abandoned'
  BY <1>a DEF HoldInv
<1>3. ASSUME NEW q \in Procs, pc'[q] = "removeStale"
      PROVE  /\ lock # NoLock /\ Abandoned'
             /\ \A r \in Procs : pc'[r] = "removeStale" => r = q
  <2>1. CASE q = p
    <3>1. l = "removeStale"
      BY <1>3, <2>1 DEF LateInv
    <3> QED
      BY <1>a, <2>1, <3>1 DEF LateInv
  <2>2. CASE q # p
    <3>1. pc[q] = "removeStale" /\ l # "removeStale"
      BY <1>3, <2>2 DEF LateInv
    <3> QED
      BY <1>a, <3>1 DEF HoldInv, LateInv
  <2> QED
    BY <2>1, <2>2
<1> QED
  BY <1>1, <1>2, <1>3 DEF HoldInv

(* A step after which there is no lock.                                    *)
LEMMA HoldFree ==
  ASSUME LateInv, HoldInv, Orderly, NEW p \in Procs, NEW l \in Phases \ Owning,
         pc' = [pc EXCEPT ![p] = l], lock' = NoLock, l # "removeStale",
         \A q \in Procs : q # p => pc[q] \notin Owning \cup {"removeStale"}
  PROVE  HoldInv'
<1>1. \A q \in Procs : pc'[q] \notin Owning \cup {"removeStale"}
  BY DEF LateInv
<1> QED
  BY <1>1, NoOwner DEF HoldInv

LEMMA HoldStep ==
  LateInv /\ LeftInv /\ OwnerInv /\ FaultsType /\ HoldInv /\ [Next]_vars => HoldInv'
<1> SUFFICES ASSUME LateInv, LeftInv, OwnerInv, FaultsType, HoldInv, [Next]_vars, Orderly, Orderly',
                    left \subseteq left'
             PROVE  HoldInv'
  BY FaultsStay, LeftStep DEF HoldInv
<1>0. CASE UNCHANGED <<lock, pc, claims>>
  BY <1>0 DEF HoldInv, Tok, Abandoned
<1>f. lock = NoLock => \A q \in Procs : pc[q] \notin Owning \cup {"removeStale"}
  BY NoOwner, ClaimAssumption DEF HoldInv, Tok
<1>3. ASSUME NEW p \in Procs, StartClaim(p) PROVE HoldInv'
  <2>1. /\ pc' = [pc EXCEPT ![p] = "create"] /\ claims' = [claims EXCEPT ![p] = @ + 1]
        /\ lock' = lock /\ pc[p] = "idle"
    BY <1>3 DEF StartClaim, Goto
  <2>2. \A q \in Procs : q # p => Tok(q)' = Tok(q) /\ pc'[q] = pc[q]
    BY <2>1 DEF LateInv, Tok
  <2>3. pc'[p] = "create" /\ "create" \notin Owning
    BY <2>1 DEF LateInv, Owning, Holding, Releasing
  <2>4. Abandoned => Abandoned'
    BY <2>1 DEF Abandoned, LateInv
  <2> QED
    BY <2>1, <2>2, <2>3, <2>4 DEF HoldInv
<1>4. ASSUME NEW p \in Procs, CreateLock(p) PROVE HoldInv'
  <2>1. CASE LockFree
    <3>1. /\ lock' = [by |-> Tok(p), written |-> FALSE, old |-> FALSE] /\ claims' = claims
          /\ pc' = [pc EXCEPT ![p] = "writeToken"]
      BY <1>4, <2>1 DEF CreateLock, Goto
    <3>2. lock'.by = Tok(p)' /\ pc'[p] = "writeToken" /\ ~lock'.old
      BY <3>1 DEF Tok, LateInv
    <3>3. \A q \in Procs : q # p => pc'[q] \notin Owning \cup {"removeStale"}
      BY <1>f, <2>1, <3>1 DEF LockFree, LateInv
    <3> QED
      BY <3>2, <3>3 DEF HoldInv
  <2>2. CASE ~LockFree
    <3>1. lock' = lock /\ claims' = claims /\ pc' = [pc EXCEPT ![p] = "check"] /\ pc[p] = "create"
      BY <1>4, <2>2 DEF CreateLock, Goto
    <3> QED
      BY <3>1, HoldMove DEF Phases, Claiming, Owning, Holding, Releasing
  <2> QED
    BY <2>1, <2>2
<1>5. ASSUME NEW p \in Procs, WriteToken(p) PROVE HoldInv'
  <2>1. /\ pc' = [pc EXCEPT ![p] = "open"] /\ claims' = claims /\ pc[p] = "writeToken"
        /\ lock' = IF lock.by = Tok(p) THEN [lock EXCEPT !.written = TRUE, !.old = FALSE] ELSE lock
    BY <1>5 DEF WriteToken, Goto
  <2>2. lock.by = Tok(p) /\ Tok(p)[1] = p
    BY <2>1 DEF HoldInv, Owning, Tok
  <2>3. lock'.by = lock.by /\ lock'.written /\ ~lock'.old
    BY <2>1, <2>2 DEF LateInv, Locks
  <2>4. \A q \in Procs : q # p => pc'[q] \notin Owning /\ pc'[q] = pc[q]
    BY <2>1, OneOwner DEF LateInv, Owning
  <2>5. \A q \in Procs : pc[q] # "removeStale"
    BY <2>1, OwnersStay DEF HoldInv, Owning
  <2>6. pc'[p] = "open" /\ Tok(p)' = Tok(p)
    BY <2>1 DEF LateInv, Tok
  <2> QED
    BY <2>2, <2>3, <2>4, <2>5, <2>6 DEF HoldInv
<1>6. ASSUME NEW p \in Procs, TokenFails(p) \/ ReleaseUnlink(p), lock' = NoLock PROVE HoldInv'
  <2>1. lock' = NoLock /\ pc' = [pc EXCEPT ![p] = "idle"] /\ pc[p] \in {"writeToken", "unlink"}
    BY <1>6 DEF TokenFails, ReleaseUnlink, Goto
  <2>2. \A q \in Procs : q # p => pc[q] \notin Owning
    BY <2>1, OneOwner DEF Owning, Releasing
  <2>3. \A q \in Procs : pc[q] # "removeStale"
    BY <2>1, OwnersStay DEF HoldInv, Owning, Releasing
  <2> QED
    BY <2>1, <2>2, <2>3, HoldFree DEF Phases, Owning, Holding, Releasing
<1>7. ASSUME NEW p \in Procs, RemoveStale(p) PROVE HoldInv'
  <2>1. lock' = NoLock /\ pc' = [pc EXCEPT ![p] = "create"] /\ pc[p] = "removeStale"
    BY <1>7 DEF RemoveStale, Goto
  <2>2. \A q \in Procs : q # p => pc[q] # "removeStale"
    BY <2>1 DEF HoldInv
  <2>3. ASSUME NEW q \in Procs, pc[q] \in Owning PROVE FALSE
    <3>1. ~Abandoned
      BY <2>3, OwnersStay
    <3> QED
      BY <2>1, <3>1 DEF HoldInv
  <2> QED
    BY <2>1, <2>2, <2>3, HoldFree DEF Phases, Claiming, Owning, Holding, Releasing
<1>8. ASSUME NEW p \in Procs, CheckStale(p) PROVE HoldInv'
  <2>1. /\ pc' = [pc EXCEPT ![p] = IF IsStale THEN "removeStale" ELSE "idle"]
        /\ lock' = lock /\ claims' = claims /\ pc[p] = "check"
        /\ crowded' = (crowded \/ (IsStale /\ \E q \in Procs : pc[q] = "removeStale"))
    BY <1>8 DEF CheckStale, Goto
  <2>2. IsStale => lock # NoLock /\ Abandoned /\ \A q \in Procs : pc[q] # "removeStale"
    BY <2>1 DEF IsStale, HoldInv, Orderly, Abandoned
  <2> QED
    BY <2>1, <2>2, HoldMove DEF Phases, Claiming, Owning, Holding, Releasing
<1>9. ASSUME NEW p \in Procs, \/ CreateFile(p) \/ AttachRead(p) \/ AttachRepair(p) \/ OpenFails(p)
                              \/ Verify(p) \/ WriteLine(p) \/ Refuse(p) \/ WriteFails(p) \/ Close(p)
                              \/ VerifyUnread(p) \/ ReleaseRead(p) \/ ReleaseFails(p)
      PROVE HoldInv'
  <2>1. /\ lock' = lock /\ claims' = claims /\ pc[p] \in Holding \cup Releasing
        /\ pc' = pc \/ \E l \in Holding \cup Releasing \cup {"idle"} : pc' = [pc EXCEPT ![p] = l]
    BY <1>9 DEF CreateFile, AttachRead, AttachRepair, OpenFails, AfterOpenFailed, Verify,
                VerifyUnread, WriteLine, Refuse, WriteFails, Close, ReleaseRead, ReleaseFails,
                LeaveLock, Goto, Holding, Releasing
  <2>2. CASE pc' = pc
    BY <1>0, <2>1, <2>2
  <2>3. ASSUME NEW l \in Holding \cup Releasing \cup {"idle"}, pc' = [pc EXCEPT ![p] = l] PROVE HoldInv'
    BY <2>1, <2>3, HoldMove DEF Phases, Owning, Holding, Releasing
  <2> QED
    BY <2>1, <2>2, <2>3
<1>15. ASSUME NEW p \in Procs, ClaimFails(p) \/ (TokenFails(p) /\ LeaveLock(p)) PROVE HoldInv'
  <2>1. /\ lock' = lock /\ claims' = claims /\ pc' = [pc EXCEPT ![p] = "idle"]
        /\ pc[p] # "crashed"
    BY <1>15 DEF ClaimFails, TokenFails, LeaveLock, Goto
  <2> QED
    BY <2>1, HoldMove DEF Phases, Owning, Holding, Releasing
<1>10. ASSUME NEW p \in Procs, BeatCheck(p) \/ BeatFails(p) PROVE HoldInv'
  BY <1>0, <1>10 DEF BeatCheck, BeatFails
<1>11. ASSUME NEW p \in Procs, BeatTouch(p) PROVE HoldInv'
  <2>1. /\ lock'.by = lock.by /\ lock'.written = lock.written /\ ~lock'.old
        /\ UNCHANGED <<pc, claims>>
    BY <1>11 DEF BeatTouch, LateInv, Locks
  <2>2. lock # NoLock => lock' # NoLock
    <3>1. lock # NoLock => lock.by[1] # NoProc
      BY ClaimAssumption DEF OwnerInv, OwnedBy, LeftInv, Tok
    <3> QED
      BY <2>1, <3>1, NoOwner
  <2> QED
    BY <2>1, <2>2 DEF HoldInv, Tok, Abandoned
<1>12. CASE Expire
  <2>1. /\ lock'.by = lock.by /\ lock'.written = lock.written /\ UNCHANGED <<pc, claims>>
        /\ Abandoned
    BY <1>12 DEF Expire, LateInv, Locks, Orderly, FaultsType
  <2>2. lock' # NoLock
    <3>1. lock.by[1] # NoProc
      BY <1>12, ClaimAssumption DEF OwnerInv, OwnedBy, LeftInv, Tok, Expire
    <3> QED
      BY <2>1, <3>1, NoOwner
  <2> QED
    BY <2>1, <2>2 DEF HoldInv, Tok, Abandoned
<1>13. ASSUME NEW p \in Procs, Crash(p) PROVE HoldInv'
  <2>1. lock' = lock /\ claims' = claims /\ pc' = [pc EXCEPT ![p] = "crashed"] /\ pc[p] # "crashed"
    BY <1>13 DEF Crash, Goto
  <2> QED
    BY <2>1, HoldMove DEF Phases, Owning, Holding, Releasing
<1>14. CASE UNCHANGED vars
  BY <1>0, <1>14 DEF vars
<1>16. ASSUME NEW p \in Procs, TokenFails(p) \/ ReleaseUnlink(p)
       PROVE  lock' = NoLock \/ (TokenFails(p) /\ LeaveLock(p))
  BY <1>16 DEF TokenFails, ReleaseUnlink
<1> QED
  BY <1>3, <1>4, <1>5, <1>6, <1>7, <1>8, <1>9, <1>10, <1>11, <1>12, <1>13, <1>14, <1>15, <1>16
     DEF Next, MainStep, BeatStep, UserStep

-----------------------------------------------------------------------------
(* What the file holds.                                                    *)

Line == [by : (Procs \cup {NoProc}) \X Nat, n : Nat]

FileTypes ==
  /\ created \in BOOLEAN /\ exists \in BOOLEAN /\ log \in Seq(Line)
  /\ handle \in [Procs -> BOOLEAN] /\ hasReply \in [Procs -> BOOLEAN]
  /\ degraded \in [Procs -> BOOLEAN]
  /\ size \in [Procs -> Nat] /\ appended \in [Procs -> Nat]
  /\ acked \subseteq Line

FileInv ==
  /\ ~created => ~exists /\ log = <<>> /\ acked = {}
  /\ ~exists => log = <<>>
  /\ \A p \in Procs : pc[p] \in {"repair", "ready", "write"} => created
  /\ \A p \in Procs : handle[p] => exists
  /\ \A e \in acked : IsEntry(e)

(* A rest stands at the end, where the next line would be glued to it.     *)
Tidy(s) == \A i \in DOMAIN s : s[i] # Garbage /\ (s[i] = Torn => i = Len(s))
Holds(s, es) == \A e \in es : \E i \in DOMAIN s : s[i] = e
Replied(s) == \E i \in DOMAIN s : IsReply(s[i])

Attached(p) ==
  pc[p] \in {"repair", "ready", "write"} =>
    /\ handle[p] /\ hasReply[p] = Replied(log)
    /\ pc[p] = "repair" => size[p] = Kept(log)
    /\ pc[p] # "repair" /\ ~degraded[p] => ~EndsTorn(log) /\ size[p] = Len(log)
    /\ pc[p] = "write" => ~degraded[p]

LogInv ==
  Orderly =>
    /\ Tidy(log)
    /\ exists => Holds(log, acked)
    /\ \A p \in Procs : Attached(p)

LEMMA LinesType ==
  /\ Torn \in Line /\ Garbage \in Line /\ Torn # Garbage /\ ~IsEntry(Torn) /\ ~IsEntry(Garbage)
  /\ ~IsReply(Torn)
BY DEF Torn, Garbage, Line, IsEntry, IsReply

LEMMA NewEntryType ==
  ASSUME LateInv, FileTypes, NEW p \in Procs
  PROVE  /\ NewEntry(p) \in Line /\ IsEntry(NewEntry(p)) /\ AuthorOf(NewEntry(p)) = p
         /\ NewEntry(p) # Torn /\ NewEntry(p) # Garbage
<1>1. Tok(p) \in (Procs \cup {NoProc}) \X Nat /\ Tok(p)[1] = p /\ p # NoProc
  BY ClaimAssumption DEF LateInv, Tok
<1>2. appended[p] \in Nat
  BY DEF FileTypes
<1>3. NewEntry(p) \in Line /\ NewEntry(p).by = Tok(p)
  BY <1>1, <1>2 DEF NewEntry, Line
<1>4. IsEntry(NewEntry(p)) /\ AuthorOf(NewEntry(p)) = p
  BY <1>1, <1>3 DEF IsEntry, AuthorOf
<1> QED
  BY <1>3, <1>4, LinesType

LEMMA EndLine ==
  ASSUME NEW s \in Seq(Line)
  PROVE  /\ EndsTorn(s) <=> Len(s) > 0 /\ s[Len(s)] = Torn
         /\ Kept(s) \in Nat /\ Kept(s) <= Len(s)
         /\ ~EndsTorn(s) => Kept(s) = Len(s)
         /\ EndsTorn(s) => Kept(s) = Len(s) - 1
BY DEF EndsTorn, Kept, Last

LEMMA AddedLine ==
  ASSUME NEW s \in Seq(Line), NEW e \in Line, ~EndsTorn(s), Tidy(s), e # Garbage
  PROVE  /\ Append(s, e) \in Seq(Line) /\ Len(Append(s, e)) = Len(s) + 1 /\ Tidy(Append(s, e))
         /\ Append(s, e)[Len(s) + 1] = e
         /\ EndsTorn(Append(s, e)) <=> e = Torn
         /\ \A es : Holds(s, es) => Holds(Append(s, e), es)
         /\ Replied(Append(s, e)) <=> Replied(s) \/ IsReply(e)
         /\ SubSeq(Append(s, e), 1, Len(s)) = s
<1> DEFINE t == Append(s, e)
<1>1. /\ t \in Seq(Line) /\ Len(t) = Len(s) + 1 /\ DOMAIN t = 1 .. Len(s) + 1
      /\ \A i \in 1 .. Len(s) : t[i] = s[i]
      /\ t[Len(s) + 1] = e /\ DOMAIN s = 1 .. Len(s) /\ Len(s) \in Nat
  OBVIOUS
<1>2. SubSeq(t, 1, Len(s)) = s
  OBVIOUS
<1> HIDE DEF t
<1>3. \A i \in DOMAIN t : (i \in DOMAIN s /\ t[i] = s[i]) \/ i = Len(s) + 1
  BY <1>1
<1>4. EndsTorn(t) <=> e = Torn
  BY <1>1, EndLine
<1>5. Tidy(t)
  <2>1. ASSUME NEW i \in DOMAIN s PROVE s[i] # Torn /\ s[i] # Garbage
    BY <1>1, EndLine DEF Tidy
  <2> QED
    BY <1>1, <1>3, <2>1 DEF Tidy
<1>6. ASSUME NEW es, Holds(s, es) PROVE Holds(t, es)
  BY <1>1, <1>6 DEF Holds
<1>7. Replied(t) <=> Replied(s) \/ IsReply(e)
  BY <1>1, <1>3 DEF Replied
<1> QED
  BY <1>1, <1>2, <1>4, <1>5, <1>6, <1>7 DEF t

LEMMA CutLine ==
  ASSUME NEW s \in Seq(Line), Tidy(s)
  PROVE  LET t == SubSeq(s, 1, Kept(s))
         IN  /\ t \in Seq(Line) /\ Len(t) = Kept(s) /\ Tidy(t) /\ ~EndsTorn(t)
             /\ \A es \in SUBSET Line : Torn \notin es /\ Holds(s, es) => Holds(t, es)
             /\ Replied(t) <=> Replied(s)
             /\ Kept(s) = Len(s) => t = s
<1> DEFINE n == Kept(s)
           t == SubSeq(s, 1, n)
<1>1. n \in Nat /\ n <= Len(s) /\ (n = Len(s) \/ (n = Len(s) - 1 /\ s[Len(s)] = Torn))
  BY EndLine
<1>2. (n = Len(s) /\ ~EndsTorn(s)) \/ n = Len(s) - 1
  <2>1. Len(s) \in Nat
    OBVIOUS
  <2> QED
    BY <2>1, EndLine
<1>a. /\ 1 .. n \subseteq 1 .. Len(s)
      /\ \A i \in 1 .. Len(s) : i \in 1 .. n \/ s[i] = Torn
  <2>1. Len(s) \in Nat
    OBVIOUS
  <2> HIDE DEF n
  <2> QED
    BY <1>1, <2>1
<1> HIDE DEF n
<1>3. /\ t \in Seq(Line) /\ Len(t) = n /\ DOMAIN t = 1 .. n /\ \A i \in 1 .. n : t[i] = s[i]
      /\ DOMAIN s = 1 .. Len(s) /\ Len(s) \in Nat
      /\ n = Len(s) => t = s
  BY <1>1
<1> HIDE DEF t
<1>4. \A i \in DOMAIN s : i \in DOMAIN t \/ s[i] = Torn
  BY <1>a, <1>3
<1>5. ASSUME NEW i \in DOMAIN t PROVE i \in DOMAIN s /\ t[i] = s[i] /\ s[i] # Torn /\ s[i] # Garbage
  <2>1. i \in DOMAIN s /\ t[i] = s[i]
    BY <1>a, <1>3
  <2>2. s[i] # Torn
    <3>1. CASE ~EndsTorn(s)
      BY <1>3, <2>1, <3>1, EndLine DEF Tidy
    <3>2. CASE n = Len(s) - 1
      BY <1>3, <2>1, <3>2 DEF Tidy
    <3> QED
      BY <1>2, <3>1, <3>2
  <2> QED
    BY <2>1, <2>2 DEF Tidy
<1>6. Tidy(t)
  BY <1>5 DEF Tidy
<1>7. ~EndsTorn(t)
  BY <1>3, <1>5, EndLine
<1>8. ASSUME NEW es \in SUBSET Line, Torn \notin es, Holds(s, es) PROVE Holds(t, es)
  BY <1>4, <1>5, <1>8 DEF Holds
<1>9. Replied(t) <=> Replied(s)
  BY <1>4, <1>5, LinesType DEF Replied
<1> QED
  BY <1>3, <1>6, <1>7, <1>8, <1>9 DEF t, n

LEMMA FileInit == Init => FileTypes /\ FileInv /\ LogInv
<1> SUFFICES ASSUME Init PROVE FileTypes /\ FileInv /\ LogInv
  OBVIOUS
<1>1. FileTypes
  <2>1. <<>> \in Seq(Line)
    OBVIOUS
  <2> QED
    BY <2>1 DEF Init, FileTypes
<1>2. FileInv
  BY DEF Init, FileInv
<1>3. LogInv
  BY DEF Init, LogInv, Tidy, Holds, Attached
<1> QED
  BY <1>1, <1>2, <1>3

(* Steps that leave the file and the writers' records of it alone.         *)
Elsewhere ==
  UNCHANGED <<created, exists, log, handle, hasReply, size, acked>>

LEMMA AttachedStays ==
  ASSUME NEW q \in Procs, Attached(q), log' = log, handle'[q] = handle[q],
         hasReply'[q] = hasReply[q], size'[q] = size[q], degraded'[q] = degraded[q],
         \/ pc'[q] \notin {"repair", "ready", "write"}
         \/ pc'[q] = pc[q]
         \/ pc[q] = "ready" /\ pc'[q] = "write" /\ ~degraded[q]
         \/ pc[q] = "write" /\ pc'[q] = "ready"
  PROVE  Attached(q)'
BY DEF Attached

LEMMA ElsewhereKeeps ==
  ASSUME LateInv, FileTypes, FileInv, LogInv, Orderly' => Orderly, Elsewhere,
         appended' \in [Procs -> Nat], degraded' \in [Procs -> BOOLEAN],
         NEW p \in Procs, NEW l \in Phases, pc' = [pc EXCEPT ![p] = l],
         \A q \in Procs : q # p => degraded'[q] = degraded[q],
         \/ l \notin {"repair", "ready", "write"}
         \/ l = pc[p] /\ degraded'[p] = degraded[p]
         \/ pc[p] = "ready" /\ l = "write" /\ ~degraded[p] /\ degraded'[p] = degraded[p]
         \/ pc[p] \in {"ready", "write"} /\ l = "ready" /\ (degraded'[p] = degraded[p] \/ degraded'[p])
  PROVE  FileTypes' /\ FileInv' /\ LogInv'
<1>1. FileTypes'
  BY DEF FileTypes, Elsewhere
<1>2. FileInv'
  BY DEF FileInv, Elsewhere
<1>3. ASSUME NEW q \in Procs, Orderly' PROVE Attached(q)'
  <2>1. Attached(q)
    BY <1>3 DEF LogInv
  <2>2. CASE q # p
    BY <2>1, <2>2, AttachedStays DEF LateInv, Elsewhere
  <2>3. CASE q = p
    BY <2>1, <2>3 DEF Attached, LateInv, Elsewhere
  <2> QED
    BY <2>2, <2>3
<1>4. LogInv'
  BY <1>3 DEF LogInv, Elsewhere
<1> QED
  BY <1>1, <1>2, <1>4

(* A step of the process at the file: nobody else is there.                *)
LEMMA AloneAtFile ==
  ASSUME LateInv, HoldInv, Orderly, NEW p \in Procs, NEW l \in Phases, pc[p] \in Owning,
         pc' = [pc EXCEPT ![p] = l], Attached(p)'
  PROVE  \A q \in Procs : Attached(q)'
<1> SUFFICES ASSUME NEW q \in Procs, q # p PROVE Attached(q)'
  OBVIOUS
<1>1. pc'[q] = pc[q] /\ pc[q] \notin Owning
  BY OneOwner DEF LateInv
<1> QED
  BY <1>1 DEF Attached, Owning, Holding

LEMMA OpenKeepsFile ==
  ASSUME LateInv, HoldInv, FileTypes, FileInv, LogInv, Orderly' => Orderly, NEW p \in Procs,
         CreateFile(p) \/ AttachRead(p) \/ AttachRepair(p)
  PROVE  FileTypes' /\ FileInv' /\ LogInv'
<1>1. CASE CreateFile(p)
  <2>1. /\ pc[p] = "open" /\ ~created /\ created' /\ exists' /\ UNCHANGED <<log, degraded, appended, acked>>
        /\ size' = [size EXCEPT ![p] = 0] /\ hasReply' = [hasReply EXCEPT ![p] = FALSE]
        /\ handle' = [handle EXCEPT ![p] = TRUE] /\ pc' = [pc EXCEPT ![p] = "ready"]
        /\ created' \in BOOLEAN /\ exists' \in BOOLEAN
    BY <1>1 DEF CreateFile, Goto
  <2>2. log = <<>> /\ acked = {}
    BY <2>1 DEF FileInv
  <2>3. FileTypes'
    BY <2>1 DEF FileTypes
  <2>4. FileInv'
    BY <2>1, <2>2 DEF FileInv
  <2>5. Attached(p)'
    <3>1. ~EndsTorn(log) /\ Replied(log) = FALSE /\ Len(log) = 0
      BY <2>2 DEF EndsTorn, Replied
    <3>2. pc'[p] = "ready" /\ handle'[p] /\ hasReply'[p] = FALSE /\ size'[p] = 0
      BY <2>1 DEF LateInv, FileTypes
    <3> QED
      BY <2>1, <3>1, <3>2 DEF Attached
  <2>6. LogInv'
    BY <2>1, <2>2, <2>5, AloneAtFile DEF LogInv, Owning, Holding, Phases, Holds
  <2> QED
    BY <2>3, <2>4, <2>6
<1>2. CASE AttachRead(p)
  <2>1. /\ pc[p] = "open" /\ exists /\ UNCHANGED <<created, exists, log, degraded, appended, acked>>
        /\ size' = [size EXCEPT ![p] = Kept(log)]
        /\ hasReply' = [hasReply EXCEPT ![p] = Replied(log)]
        /\ handle' = [handle EXCEPT ![p] = TRUE] /\ pc' = [pc EXCEPT ![p] = "repair"]
    BY <1>2 DEF AttachRead, Goto, file, Replied
  <2>2. Kept(log) \in Nat /\ Replied(log) \in BOOLEAN
    BY EndLine DEF FileTypes, Replied
  <2>3. FileTypes'
    BY <2>1, <2>2 DEF FileTypes
  <2>4. FileInv'
    BY <2>1 DEF FileInv
  <2>5. Attached(p)'
    BY <2>1, <2>2 DEF Attached, LateInv, FileTypes
  <2>6. LogInv'
    BY <2>1, <2>5, AloneAtFile DEF LogInv, Owning, Holding, Phases
  <2> QED
    BY <2>3, <2>4, <2>6
<1>3. CASE AttachRepair(p)
  <2>1. /\ pc[p] = "repair" /\ pc' = [pc EXCEPT ![p] = "ready"]
        /\ log' = IF handle[p] /\ Len(log) > size[p] THEN SubSeq(log, 1, size[p]) ELSE log
        /\ UNCHANGED <<created, exists, degraded, appended, acked, handle, hasReply, size>>
    BY <1>3 DEF AttachRepair, Goto, writer
  <2>2. log' \in Seq(Line) /\ (log = <<>> => log' = <<>>)
    BY <2>1 DEF FileTypes
  <2>3. FileTypes'
    BY <2>1, <2>2 DEF FileTypes
  <2>4. FileInv'
    BY <2>1, <2>2 DEF FileInv
  <2>5. ASSUME Orderly PROVE LogInv'
    <3>1. Tidy(log) /\ handle[p] /\ size[p] = Kept(log) /\ hasReply[p] = Replied(log)
      BY <2>1, <2>5 DEF LogInv, Attached
    <3>2. log' = SubSeq(log, 1, Kept(log))
      <4>1. log \in Seq(Line) /\ Len(log) \in Nat
        BY DEF FileTypes
      <4>2. CASE Len(log) > Kept(log)
        BY <2>1, <3>1, <4>2
      <4>3. CASE ~(Len(log) > Kept(log))
        <5>1. Kept(log) = Len(log)
          BY <4>1, <4>3, EndLine
        <5> QED
          BY <2>1, <3>1, <4>1, <4>3, <5>1, CutLine
      <4> QED
        BY <4>2, <4>3
    <3>3. /\ Tidy(log') /\ ~EndsTorn(log') /\ Len(log') = Kept(log)
          /\ Replied(log') = Replied(log)
          /\ \A es \in SUBSET Line : Torn \notin es /\ Holds(log, es) => Holds(log', es)
      BY <3>1, <3>2, CutLine DEF FileTypes, Replied
    <3>4. Torn \notin acked /\ acked \in SUBSET Line
      BY LinesType DEF FileInv, FileTypes
    <3>5. pc'[p] = "ready"
      BY <2>1 DEF LateInv
    <3>6. Attached(p)'
      BY <2>1, <3>1, <3>3, <3>5 DEF Attached
    <3>7. exists' => Holds(log, acked)'
      BY <2>1, <2>5, <3>3, <3>4 DEF LogInv
    <3>8. \A q \in Procs : Attached(q)'
      BY <2>1, <2>5, <3>6, AloneAtFile DEF Owning, Holding, Phases
    <3> QED
      BY <3>3, <3>7, <3>8 DEF LogInv
  <2> QED
    BY <2>3, <2>4, <2>5 DEF LogInv
<1> QED
  BY <1>1, <1>2, <1>3

LEMMA WriteKeepsFile ==
  ASSUME LateInv, HoldInv, FileTypes, FileInv, LogInv, Orderly' => Orderly, NEW p \in Procs,
         WriteLine(p)
  PROVE  FileTypes' /\ FileInv' /\ LogInv'
<1> DEFINE e == NewEntry(p)
<1>1. /\ pc[p] = "write" /\ pc' = [pc EXCEPT ![p] = "ready"]
      /\ log' = IF handle[p] THEN Glue(log, e) ELSE log
      /\ acked' = acked \cup {e} /\ size' = [size EXCEPT ![p] = @ + 1]
      /\ hasReply' = [hasReply EXCEPT ![p] = @ \/ IsReply(e)]
      /\ appended' = [appended EXCEPT ![p] = @ + 1]
      /\ UNCHANGED <<created, exists, degraded, handle>>
  BY DEF WriteLine, Goto
<1>2. e \in Line /\ IsEntry(e) /\ e # Torn /\ e # Garbage /\ IsReply(e) \in BOOLEAN
  BY NewEntryType DEF IsReply
<1> HIDE DEF e
<1>3. Glue(log, e) \in Seq(Line)
  BY <1>2, LinesType DEF Glue, FileTypes, Front
<1>4. FileTypes'
  BY <1>1, <1>2, <1>3 DEF FileTypes
<1>5. created
  BY <1>1 DEF FileInv
<1>6. FileInv'
  <2>1. ~exists => ~handle[p] /\ log = <<>>
    BY DEF FileInv
  <2> QED
    BY <1>1, <1>2, <1>5, <2>1 DEF FileInv
<1>7. ASSUME Orderly PROVE LogInv'
  <2>1. /\ handle[p] /\ hasReply[p] = Replied(log) /\ ~EndsTorn(log) /\ size[p] = Len(log)
        /\ Tidy(log) /\ ~degraded[p]
    BY <1>1, <1>7 DEF LogInv, Attached
  <2>2. log' = Append(log, e)
    BY <1>1, <2>1 DEF Glue
  <2>3. /\ Len(log') = Len(log) + 1 /\ Tidy(log') /\ ~EndsTorn(log')
        /\ log'[Len(log) + 1] = e /\ log' \in Seq(Line) /\ Len(log) \in Nat
        /\ \A es : Holds(log, es) => Holds(log', es)
        /\ Replied(log') <=> Replied(log) \/ IsReply(e)
    BY <1>2, <2>1, <2>2, AddedLine DEF FileTypes
  <2>4. pc'[p] = "ready" /\ size'[p] = Len(log') /\ hasReply'[p] = (hasReply[p] \/ IsReply(e))
    BY <1>1, <2>1, <2>3 DEF LateInv, FileTypes
  <2>5. hasReply'[p] = Replied(log')
    BY <2>1, <2>3, <2>4 DEF Replied
  <2>6. Attached(p)'
    BY <1>1, <2>1, <2>3, <2>4, <2>5 DEF Attached
  <2>7. exists' => Holds(log', acked')
    <3>1. Len(log) + 1 \in DOMAIN log'
      BY <2>3
    <3>2. exists => Holds(log', acked)
      BY <1>7, <2>3 DEF LogInv
    <3> QED
      BY <1>1, <2>3, <3>1, <3>2 DEF Holds
  <2>8. \A q \in Procs : Attached(q)'
    BY <1>1, <1>7, <2>6, AloneAtFile DEF Owning, Holding, Phases
  <2> QED
    BY <2>3, <2>7, <2>8 DEF LogInv
<1> QED
  BY <1>4, <1>6, <1>7 DEF LogInv

(* A write that fails or is cut short by a kill leaves at most a rest.     *)
LEMMA TornKeeps ==
  ASSUME FileTypes, LogInv, Orderly, NEW p \in Procs, pc[p] = "write"
  PROVE  /\ TornLog = Append(log, Torn) /\ SetLen(size[p]) = log
         /\ Tidy(TornLog) /\ Replied(TornLog) = Replied(log)
         /\ \A es : Holds(log, es) => Holds(TornLog, es)
<1>1. ~EndsTorn(log) /\ size[p] = Len(log) /\ Tidy(log)
  BY DEF LogInv, Attached
<1>2. TornLog = Append(log, Torn)
  BY <1>1 DEF TornLog
<1>3. SetLen(size[p]) = log
  <2>1. Len(log) \in Nat
    BY DEF FileTypes
  <2> QED
    BY <1>1, <2>1 DEF SetLen
<1>4. Tidy(TornLog) /\ (Replied(TornLog) <=> Replied(log)) /\ \A es : Holds(log, es) => Holds(TornLog, es)
  BY <1>1, <1>2, AddedLine, LinesType DEF FileTypes
<1> QED
  BY <1>2, <1>3, <1>4 DEF Replied

LEMMA TornType == FileTypes => TornLog \in Seq(Line) /\ \A n \in Nat : SetLen(n) \in Seq(Line)
<1> SUFFICES ASSUME FileTypes, NEW n \in Nat PROVE TornLog \in Seq(Line) /\ SetLen(n) \in Seq(Line)
  OBVIOUS
<1>1. log \in Seq(Line) /\ Len(log) \in Nat
  BY DEF FileTypes
<1>2. TornLog \in Seq(Line)
  BY <1>1, LinesType DEF TornLog
<1>3. Len(log) > n => SubSeq(log, 1, n) \in Seq(Line)
  BY <1>1
<1> QED
  BY <1>1, <1>2, <1>3 DEF SetLen

LEMMA FailKeepsFile ==
  ASSUME LateInv, HoldInv, FileTypes, FileInv, LogInv, Orderly' => Orderly, NEW p \in Procs,
         WriteFails(p) \/ Crash(p)
  PROVE  FileTypes' /\ FileInv' /\ LogInv'
<1>1. UNCHANGED <<created, exists, size, hasReply, appended, acked>>
  BY DEF WriteFails, Crash
<1>2. /\ handle' \in [Procs -> BOOLEAN] /\ degraded' \in [Procs -> BOOLEAN]
      /\ \A q \in Procs : handle'[q] => handle[q]
      /\ log' = log \/ (pc[p] = "write" /\ handle[p] /\ log' \in {SetLen(size[p]), TornLog})
  BY DEF WriteFails, Crash, FileTypes
<1>3. log' \in Seq(Line)
  BY <1>2, TornType DEF FileTypes
<1>4. FileTypes'
  BY <1>1, <1>2, <1>3 DEF FileTypes
<1>5. FileInv'
  <2>1. \A q \in Procs : pc'[q] = pc[q] \/ pc'[q] = "crashed" \/ pc[q] = "write"
    BY DEF WriteFails, Crash, Goto, LateInv
  <2>2. (~exists => ~handle[p]) /\ (pc[p] = "write" => created)
    BY DEF FileInv
  <2> QED
    BY <1>1, <1>2, <2>1, <2>2 DEF FileInv
<1>6. ASSUME Orderly, log' # log \/ WriteFails(p) PROVE LogInv'
  <2>1. pc[p] = "write"
    BY <1>2, <1>6 DEF WriteFails
  <2>2. log' \in {log, TornLog}
    BY <1>2, <1>6, <2>1, TornKeeps
  <2>3. Tidy(log') /\ Replied(log') = Replied(log) /\ \A es : Holds(log, es) => Holds(log', es)
    BY <1>6, <2>1, <2>2, TornKeeps DEF LogInv
  <2>4. Attached(p)'
    <3>1. CASE WriteFails(p)
      <4>1. pc'[p] = "ready" /\ degraded'[p] /\ handle' = handle
        BY <3>1 DEF WriteFails, Goto, LateInv, FileTypes
      <4>2. handle[p] /\ hasReply[p] = Replied(log)
        BY <1>6, <2>1 DEF LogInv, Attached
      <4> QED
        BY <1>1, <2>3, <4>1, <4>2 DEF Attached
    <3>2. CASE Crash(p)
      <4>1. pc'[p] = "crashed"
        BY <3>2 DEF Crash, Goto, LateInv
      <4> QED
        BY <4>1 DEF Attached
    <3> QED
      BY <3>1, <3>2
  <2>5. PICK l \in Phases : pc' = [pc EXCEPT ![p] = l]
    BY DEF WriteFails, Crash, Goto, Phases, Holding
  <2>6. \A q \in Procs : Attached(q)'
    BY <1>6, <2>1, <2>4, <2>5, AloneAtFile DEF Owning, Holding
  <2>7. exists' => Holds(log', acked')
    BY <1>1, <1>6, <2>3 DEF LogInv
  <2> QED
    BY <2>3, <2>6, <2>7 DEF LogInv
<1>7. ASSUME Orderly, log' = log, Crash(p) PROVE LogInv'
  <2>1. /\ pc' = [pc EXCEPT ![p] = "crashed"] /\ handle' = [handle EXCEPT ![p] = FALSE]
        /\ degraded' = degraded
    BY <1>7 DEF Crash, Goto
  <2>2. ASSUME NEW q \in Procs PROVE Attached(q)'
    <3>1. CASE q = p
      BY <2>1, <3>1 DEF Attached, LateInv
    <3>2. CASE q # p
      <4>1. Attached(q) /\ pc'[q] = pc[q] /\ handle'[q] = handle[q]
        BY <1>7, <2>1, <3>2 DEF LogInv, LateInv, FileTypes
      <4> QED
        BY <1>1, <1>7, <2>1, <4>1, AttachedStays
    <3> QED
      BY <3>1, <3>2
  <2> QED
    BY <1>1, <1>7, <2>2 DEF LogInv
<1> QED
  BY <1>4, <1>5, <1>6, <1>7 DEF LogInv

LEMMA CloseKeepsFile ==
  ASSUME LateInv, HoldInv, FileTypes, FileInv, LogInv, Orderly' => Orderly, NEW p \in Procs,
         Close(p)
  PROVE  FileTypes' /\ FileInv' /\ LogInv'
<1>1. /\ pc[p] = "ready" /\ pc' = [pc EXCEPT ![p] = "release"]
      /\ UNCHANGED <<created, degraded, size, hasReply, appended, acked>>
  BY DEF Close, Goto
<1>2. \/ /\ exists' = FALSE /\ log' = <<>> /\ handle' = [q \in Procs |-> FALSE]
      \/ handle' = [handle EXCEPT ![p] = FALSE] /\ UNCHANGED <<exists, log>>
  BY DEF Close
<1>3. FileTypes'
  <2>1. <<>> \in Seq(Line)
    OBVIOUS
  <2> QED
    BY <1>1, <1>2, <2>1 DEF FileTypes
<1>c. created' /\ \A e \in acked' : IsEntry(e)
  BY <1>1 DEF FileInv
<1>4. FileInv'
  <2>1. CASE exists' = FALSE /\ log' = <<>> /\ handle' = [q \in Procs |-> FALSE]
    BY <1>c, <2>1 DEF FileInv
  <2>2. CASE handle' = [handle EXCEPT ![p] = FALSE] /\ UNCHANGED <<exists, log>>
    BY <1>c, <2>2 DEF FileInv, FileTypes
  <2> QED
    BY <1>2, <2>1, <2>2
<1>5. ASSUME Orderly PROVE LogInv'
  <2>1. Attached(p)'
    BY <1>1 DEF Attached, LateInv
  <2>2. \A q \in Procs : Attached(q)'
    BY <1>1, <1>5, <2>1, AloneAtFile DEF Owning, Holding, Releasing, Phases
  <2>3. Tidy(log)' /\ (exists' => Holds(log, acked)')
    BY <1>1, <1>2, <1>5 DEF LogInv, Tidy
  <2> QED
    BY <2>2, <2>3 DEF LogInv
<1> QED
  BY <1>3, <1>4, <1>5 DEF LogInv

LEMMA OthersKeepFile ==
  ASSUME LateInv, FileTypes, FileInv, LogInv, Orderly' => Orderly, NEW p \in Procs,
         \/ StartClaim(p) \/ CreateLock(p) \/ WriteToken(p) \/ TokenFails(p) \/ CheckStale(p)
         \/ RemoveStale(p) \/ OpenFails(p) \/ Verify(p) \/ Refuse(p)
         \/ ReleaseRead(p) \/ ReleaseUnlink(p) \/ ClaimFails(p) \/ VerifyUnread(p)
         \/ ReleaseFails(p)
  PROVE  FileTypes' /\ FileInv' /\ LogInv'
<1>1. Elsewhere
  BY DEF Elsewhere, StartClaim, CreateLock, WriteToken, TokenFails, CheckStale, RemoveStale,
         OpenFails, Verify, Refuse, ReleaseRead, ReleaseUnlink, ClaimFails, VerifyUnread,
         ReleaseFails, file, writer
<1>2. CASE \/ StartClaim(p) \/ CreateLock(p) \/ TokenFails(p) \/ CheckStale(p) \/ RemoveStale(p)
           \/ OpenFails(p) \/ ReleaseRead(p) \/ ReleaseUnlink(p) \/ ClaimFails(p) \/ ReleaseFails(p)
  <2>1. UNCHANGED <<degraded, appended>>
    BY <1>2 DEF StartClaim, CreateLock, TokenFails, CheckStale, RemoveStale, OpenFails,
                ReleaseRead, ReleaseUnlink, ClaimFails, ReleaseFails, writer
  <2>2. PICK l \in Claiming \cup Releasing \cup {"idle"} : pc' = [pc EXCEPT ![p] = l]
    BY <1>2 DEF StartClaim, CreateLock, TokenFails, CheckStale, RemoveStale, OpenFails,
                AfterOpenFailed, ReleaseRead, ReleaseUnlink, ClaimFails, ReleaseFails, Goto,
                Claiming, Releasing
  <2> QED
    BY <1>1, <2>1, <2>2, ElsewhereKeeps DEF Phases, Claiming, Releasing, FileTypes
<1>3. CASE WriteToken(p)
  <2>1. /\ pc' = [pc EXCEPT ![p] = "open"] /\ degraded' = [degraded EXCEPT ![p] = FALSE]
        /\ appended' = [appended EXCEPT ![p] = 0]
    BY <1>3 DEF WriteToken, Goto
  <2> QED
    BY <1>1, <2>1, ElsewhereKeeps DEF Phases, Holding, FileTypes
<1>4. CASE Verify(p)
  <2>1. pc[p] = "ready" /\ appended' = appended
    BY <1>4 DEF Verify
  <2>2. CASE StillHeld(p)
    <3>1. ~degraded[p] /\ pc' = [pc EXCEPT ![p] = "write"] /\ degraded' = degraded
      BY <1>4, <2>2 DEF Verify, Goto
    <3> QED
      BY <1>1, <2>1, <3>1, ElsewhereKeeps DEF Phases, Holding, FileTypes
  <2>3. CASE ~StillHeld(p)
    <3>1. degraded' = [degraded EXCEPT ![p] = TRUE] /\ pc' = [pc EXCEPT ![p] = "ready"]
      BY <1>4, <2>1, <2>3 DEF Verify, LateInv
    <3>2. degraded'[p]
      BY <3>1 DEF FileTypes
    <3> QED
      BY <1>1, <2>1, <3>1, <3>2, ElsewhereKeeps DEF Phases, Holding, FileTypes
  <2> QED
    BY <2>2, <2>3
<1>6. CASE VerifyUnread(p)
  <2>1. /\ pc[p] = "ready" /\ ~degraded[p] /\ pc' = [pc EXCEPT ![p] = "write"]
        /\ UNCHANGED <<degraded, appended>>
    BY <1>6 DEF VerifyUnread, Goto, writer
  <2> QED
    BY <1>1, <2>1, ElsewhereKeeps DEF Phases, Holding, FileTypes
<1>5. CASE Refuse(p)
  <2>1. /\ pc[p] = "write" /\ pc' = [pc EXCEPT ![p] = "ready"] /\ appended' = appended
        /\ degraded' = degraded \/ degraded' = [degraded EXCEPT ![p] = TRUE]
    BY <1>5 DEF Refuse, Goto
  <2>2. degraded'[p] = degraded[p] \/ degraded'[p]
    BY <2>1 DEF FileTypes
  <2> QED
    BY <1>1, <2>1, <2>2, ElsewhereKeeps DEF Phases, Holding, FileTypes
<1> QED
  BY <1>2, <1>3, <1>4, <1>5, <1>6

ClaimInv == LateInv /\ LeftInv /\ OwnerInv /\ FaultsType /\ HoldInv /\ FileTypes /\ FileInv /\ LogInv

LEMMA ClaimStep == ClaimInv /\ [Next]_vars => ClaimInv'
<1> SUFFICES ASSUME ClaimInv, [Next]_vars PROVE ClaimInv'
  OBVIOUS
<1>0. LateInv /\ LeftInv /\ OwnerInv /\ FaultsType /\ HoldInv /\ FileTypes /\ FileInv /\ LogInv
  BY DEF ClaimInv
<1>1. LateInv' /\ LeftInv' /\ OwnerInv' /\ FaultsType' /\ HoldInv' /\ (Orderly' => Orderly)
  BY <1>0, LateStep, LeftStep, OwnerStep, FaultsStay, HoldStep
<1>2. CASE Elsewhere /\ UNCHANGED <<pc, degraded, appended>>
  <2>1. FileTypes' /\ FileInv'
    BY <1>0, <1>2 DEF Elsewhere, FileTypes, FileInv
  <2>2. ASSUME NEW q \in Procs, Orderly' PROVE Attached(q)'
    BY <1>0, <1>1, <1>2, <2>2, AttachedStays DEF LogInv, Elsewhere
  <2>3. LogInv'
    BY <1>0, <1>1, <1>2, <2>2 DEF LogInv, Elsewhere
  <2> QED
    BY <1>1, <2>1, <2>3 DEF ClaimInv
<1>3. ASSUME NEW p \in Procs, MainStep(p) \/ UserStep(p) \/ Crash(p)
      PROVE  FileTypes' /\ FileInv' /\ LogInv'
  BY <1>0, <1>1, <1>3, OpenKeepsFile, WriteKeepsFile, FailKeepsFile, CloseKeepsFile, OthersKeepFile
     DEF MainStep, UserStep
<1>4. ASSUME NEW p \in Procs, BeatStep(p) PROVE Elsewhere /\ UNCHANGED <<pc, degraded, appended>>
  BY <1>4 DEF BeatStep, BeatCheck, BeatTouch, BeatFails, Elsewhere, file, writer
<1>5. CASE Expire
  BY <1>2, <1>5 DEF Expire, Elsewhere, file, writer
<1>6. CASE UNCHANGED vars
  BY <1>2, <1>6 DEF vars, Elsewhere, file, writer
<1> QED
  BY <1>1, <1>2, <1>3, <1>4, <1>5, <1>6 DEF Next, ClaimInv

LEMMA ClaimHolds == Spec => []ClaimInv
<1>1. Init => FaultsType
  <2>1. Init => crowded \in BOOLEAN
    BY DEF Init
  <2>2. Init => stalls \in Nat
    BY DEF Init
  <2> QED
    BY <2>1, <2>2 DEF FaultsType
<1>2. Init => ClaimInv
  BY <1>1, LateInit, OwnerInit, HoldInit, FileInit DEF ClaimInv
<1> QED
  BY <1>2, ClaimStep, PTL DEF Spec

(* As long as nobody stalls and no two find a stale lock at once, nothing  *)
(* that was reported written is lost, and no line is glued to a torn one,  *)
(* whoever crashes and whatever write fails.                               *)
THEOREM AckedStays == Spec => []AckedReadable
<1>1. ClaimInv => AckedReadable
  BY DEF ClaimInv, LogInv, AckedReadable, Tidy, Holds
<1> QED
  BY <1>1, ClaimHolds, PTL

-----------------------------------------------------------------------------
(* The refinement.                                                         *)

HolderKnown ==
  /\ \A p \in Procs : Writing(p) => CurrentHolder = p
  /\ (\A p \in Procs : ~Writing(p)) => CurrentHolder = NoProc

LEMMA Holder == HoldInv /\ Orderly => HolderKnown
<1> SUFFICES ASSUME HoldInv, Orderly PROVE HolderKnown
  OBVIOUS
<1>1. \A p, q \in Procs : Writing(p) /\ Writing(q) => p = q
  BY OneOwner DEF Writing, Owning, Holding
<1>2. ASSUME NEW p \in Procs, Writing(p) PROVE CurrentHolder = p
  BY <1>1, <1>2 DEF CurrentHolder
<1> QED
  BY <1>2 DEF CurrentHolder, HolderKnown

LEMMA HolderNext == HoldInv' /\ Orderly' => HolderKnown'
BY Holder, PTL

(* Nothing happens to an ExclusiveLog.                                     *)
LEMMA Stutters ==
  ASSUME HolderKnown, HolderKnown', \A p \in Procs : Writing(p)' <=> Writing(p),
         Readable' = Readable
  PROVE  UNCHANGED <<CurrentHolder, Readable>>
<1>1. CASE \E p \in Procs : Writing(p)
  <2>1. PICK p \in Procs : Writing(p) /\ Writing(p)'
    BY <1>1
  <2> QED
    BY <2>1 DEF HolderKnown
<1>2. CASE \A p \in Procs : ~Writing(p) /\ ~Writing(p)'
  BY <1>2 DEF HolderKnown
<1> QED
  BY <1>1, <1>2

LEMMA SameReadable ==
  ASSUME log' = log
  PROVE  Readable' = Readable
BY DEF Readable, Kept, EndsTorn

(* A step of the only process at the file.                                 *)
LEMMA WriterMoves ==
  ASSUME LateInv, HoldInv, Orderly, NEW p \in Procs, NEW l \in Phases, pc[p] \in Owning,
         pc' = [pc EXCEPT ![p] = l], HolderKnown, HolderKnown'
  PROVE  /\ CurrentHolder = IF Writing(p) THEN p ELSE NoProc
         /\ CurrentHolder' = IF l \in {"ready", "write"} THEN p ELSE NoProc
<1>1. \A q \in Procs : q # p => ~Writing(q)
  BY OneOwner DEF Writing, Owning, Holding
<1>2. \A q \in Procs : q # p => ~Writing(q)'
  BY <1>1 DEF Writing, LateInv
<1>3. Writing(p)' <=> l \in {"ready", "write"}
  BY DEF Writing, LateInv
<1> QED
  BY <1>1, <1>2, <1>3 DEF HolderKnown

LEMMA EntersLog ==
  ASSUME ClaimInv, HolderKnown, HolderKnown', Orderly, NEW p \in Procs,
         CreateFile(p) \/ AttachRepair(p)
  PROVE  Exclusive!Enter
<1>1. pc[p] \in {"open", "repair"} /\ pc' = [pc EXCEPT ![p] = "ready"]
  BY DEF CreateFile, AttachRepair, Goto
<1>2. CurrentHolder = NoProc /\ CurrentHolder' = p
  BY <1>1, WriterMoves DEF ClaimInv, Writing, Owning, Holding, Phases
<1>3. Readable' = Readable
  <2>1. CASE CreateFile(p)
    BY <2>1, SameReadable DEF CreateFile
  <2>2. CASE AttachRepair(p)
    <3>1. /\ handle[p] /\ size[p] = Kept(log) /\ Tidy(log) /\ log \in Seq(Line)
      BY <2>2 DEF AttachRepair, ClaimInv, LogInv, Attached, FileTypes
    <3>2. log' = IF Len(log) > Kept(log) THEN SubSeq(log, 1, Kept(log)) ELSE log
      BY <2>2, <3>1 DEF AttachRepair
    <3>3. CASE Len(log) > Kept(log)
      <4>1. /\ log' = Readable /\ log' \in Seq(Line) /\ ~EndsTorn(log')
        BY <3>1, <3>2, <3>3, CutLine DEF Readable
      <4>2. Kept(log') = Len(log')
        BY <4>1, EndLine
      <4>3. Readable' = log'
        BY <4>1, <4>2 DEF Readable
      <4> QED
        BY <4>1, <4>3
    <3>4. CASE ~(Len(log) > Kept(log))
      BY <3>2, <3>4, SameReadable
    <3> QED
      BY <3>3, <3>4
  <2> QED
    BY <2>1, <2>2
<1> QED
  BY <1>2, <1>3, ClaimAssumption DEF Exclusive!Enter

LEMMA WritesLog ==
  ASSUME ClaimInv, HolderKnown, HolderKnown', Orderly, NEW p \in Procs, WriteLine(p)
  PROVE  Exclusive!Write
<1> DEFINE e == NewEntry(p)
<1>1. pc[p] = "write" /\ pc' = [pc EXCEPT ![p] = "ready"]
  BY DEF WriteLine, Goto
<1>2. CurrentHolder = p /\ CurrentHolder' = p
  BY <1>1, WriterMoves DEF ClaimInv, Writing, Owning, Holding, Phases
<1>3. e \in Line /\ AuthorOf(e) = p /\ e # Torn /\ e # Garbage
  BY NewEntryType DEF ClaimInv
<1>4. handle[p] /\ ~EndsTorn(log) /\ Tidy(log) /\ log \in Seq(Line)
  BY <1>1 DEF ClaimInv, LogInv, Attached, FileTypes
<1>5. log' = Append(log, e)
  BY <1>4 DEF WriteLine, Glue
<1> HIDE DEF e
<1>6. /\ log' \in Seq(Line) /\ Len(log') = Len(log) + 1 /\ log'[Len(log) + 1] = e
      /\ ~EndsTorn(log') /\ SubSeq(log', 1, Len(log)) = log
  BY <1>3, <1>4, <1>5, AddedLine
<1>7. Readable = log
  <2>1. Kept(log) = Len(log)
    BY <1>4, EndLine
  <2> QED
    BY <1>4, <2>1 DEF Readable
<1>8. Readable' = log'
  <2>1. Kept(log') = Len(log')
    BY <1>6, EndLine
  <2> QED
    BY <1>6, <2>1 DEF Readable
<1> QED
  BY <1>2, <1>3, <1>6, <1>7, <1>8, ClaimAssumption DEF Exclusive!Write

(* A rest changes nothing for a reader.                                    *)
LEMMA TornReads ==
  ASSUME ClaimInv, Orderly, NEW p \in Procs, pc[p] = "write",
         log' \in {log, TornLog, SetLen(size[p])}
  PROVE  Readable' = Readable
<1>1. ~EndsTorn(log) /\ Tidy(log) /\ log \in Seq(Line)
  BY DEF ClaimInv, LogInv, Attached, FileTypes
<1>2. log' = log \/ log' = Append(log, Torn)
  BY TornKeeps DEF ClaimInv
<1>3. CASE log' = Append(log, Torn)
  <2>1. /\ log' \in Seq(Line) /\ Len(log') = Len(log) + 1 /\ EndsTorn(log')
        /\ SubSeq(log', 1, Len(log)) = log /\ Len(log) \in Nat
    BY <1>1, <1>3, AddedLine, LinesType
  <2>2. Kept(log') = Len(log) /\ Kept(log) = Len(log)
    BY <1>1, <2>1, EndLine
  <2> QED
    BY <1>1, <2>1, <2>2 DEF Readable
<1> QED
  BY <1>2, <1>3, SameReadable

LEMMA FailuresStutter ==
  ASSUME ClaimInv, ClaimInv', HolderKnown, HolderKnown', Orderly, NEW p \in Procs, WriteFails(p)
  PROVE  UNCHANGED <<CurrentHolder, Readable>>
<1>1. pc[p] = "write" /\ pc' = [pc EXCEPT ![p] = "ready"]
  BY DEF WriteFails, Goto
<1>2. CurrentHolder = p /\ CurrentHolder' = p
  BY <1>1, WriterMoves DEF ClaimInv, Writing, Owning, Holding, Phases
<1>3. Readable' = Readable
  BY <1>1, TornReads DEF WriteFails, ClaimInv
<1> QED
  BY <1>2, <1>3

LEMMA LeavesLog ==
  ASSUME ClaimInv, HolderKnown, HolderKnown', Orderly, NEW p \in Procs, Close(p)
  PROVE  Exclusive!Leave
<1>1. pc[p] = "ready" /\ pc' = [pc EXCEPT ![p] = "release"]
  BY DEF Close, Goto
<1>2. CurrentHolder = p /\ CurrentHolder' = NoProc
  BY <1>1, WriterMoves DEF ClaimInv, Writing, Owning, Holding, Releasing, Phases
<1>3. Readable' = Readable \/ (Readable' = <<>> /\ ~hasReply[p])
  <2>1. CASE Discards(p)
    <3>1. log' = <<>> /\ ~hasReply[p]
      BY <2>1 DEF Close, Discards
    <3>2. Readable' = <<>>
      BY <3>1 DEF Readable, Kept, EndsTorn
    <3> QED
      BY <3>1, <3>2
  <2>2. CASE ~Discards(p)
    BY <2>2, SameReadable DEF Close
  <2> QED
    BY <2>1, <2>2
<1>4. ASSUME ~hasReply[p], NEW i \in DOMAIN Readable PROVE ~IsReply(Readable[i])
  <2>1. Tidy(log) /\ log \in Seq(Line) /\ hasReply[p] = Replied(log)
    BY <1>1 DEF ClaimInv, LogInv, Attached, FileTypes
  <2>2. Replied(Readable) <=> Replied(log)
    BY <2>1, CutLine DEF Readable
  <2> QED
    BY <1>4, <2>1, <2>2 DEF Replied
<1> QED
  BY <1>2, <1>3, <1>4, ClaimAssumption DEF Exclusive!Leave

LEMMA CrashLeavesLog ==
  ASSUME ClaimInv, HolderKnown, HolderKnown', Orderly, NEW p \in Procs, Crash(p)
  PROVE  [Exclusive!Next]_<<CurrentHolder, Readable>>
<1>1. pc' = [pc EXCEPT ![p] = "crashed"] /\ (log' = log \/ (pc[p] = "write" /\ log' = TornLog))
  BY DEF Crash, Goto
<1>2. Readable' = Readable
  BY <1>1, SameReadable, TornReads
<1>3. CASE Writing(p)
  <2>1. CurrentHolder = p /\ CurrentHolder' = NoProc
    BY <1>1, <1>3, WriterMoves DEF ClaimInv, Writing, Owning, Holding, Phases
  <2> QED
    BY <1>2, <2>1, ClaimAssumption DEF Exclusive!Leave, Exclusive!Next
<1>4. CASE ~Writing(p)
  <2>1. \A q \in Procs : Writing(q)' <=> Writing(q)
    BY <1>1, <1>4 DEF ClaimInv, LateInv, Writing
  <2> QED
    BY <1>2, <2>1, Stutters
<1> QED
  BY <1>3, <1>4

(* The remaining steps neither write the file nor begin or end writing.    *)
LEMMA OthersStutter ==
  ASSUME ClaimInv, HolderKnown, HolderKnown', NEW p \in Procs,
         \/ StartClaim(p) \/ CreateLock(p) \/ WriteToken(p) \/ TokenFails(p) \/ CheckStale(p)
         \/ RemoveStale(p) \/ AttachRead(p) \/ OpenFails(p) \/ Verify(p) \/ Refuse(p)
         \/ ReleaseRead(p) \/ ReleaseUnlink(p) \/ ClaimFails(p) \/ VerifyUnread(p)
         \/ ReleaseFails(p)
  PROVE  UNCHANGED <<CurrentHolder, Readable>>
<1>1. log' = log
  BY DEF StartClaim, CreateLock, WriteToken, TokenFails, CheckStale, RemoveStale, AttachRead,
         OpenFails, Verify, Refuse, ReleaseRead, ReleaseUnlink, ClaimFails, VerifyUnread,
         ReleaseFails, file
<1>2. \A q \in Procs : Writing(q)' <=> Writing(q)
  <2>1. pc \in [Procs -> Phases]
    BY DEF ClaimInv, LateInv
  <2>2. \/ pc' = pc
        \/ \E l : pc' = [pc EXCEPT ![p] = l] /\ (l \in {"ready", "write"} <=> Writing(p))
    BY DEF StartClaim, CreateLock, WriteToken, TokenFails, CheckStale, RemoveStale, AttachRead,
           OpenFails, AfterOpenFailed, Verify, Refuse, ReleaseRead, ReleaseUnlink, ClaimFails,
           VerifyUnread, ReleaseFails, Goto, Writing
  <2> QED
    BY <2>1, <2>2 DEF Writing
<1> QED
  BY <1>1, <1>2, SameReadable, Stutters

(* The session file is an ExclusiveLog: one writer at a time, whose        *)
(* entries are added at the end and taken away only with a session nobody  *)
(* replied to.  It holds as long as no live owner stalls and no two        *)
(* processes find a dead one's lock at the same time.                      *)
THEOREM ClaimImplementsLog == Spec => ImplementsExclusiveLog
<1>1. Init => Exclusive!Init
  <2> SUFFICES ASSUME Init PROVE Exclusive!Init
    OBVIOUS
  <2>1. log = <<>> /\ \A p \in Procs : ~Writing(p)
    BY DEF Init, Writing
  <2>2. CurrentHolder = NoProc
    BY <2>1 DEF CurrentHolder
  <2>3. Readable = <<>>
    BY <2>1 DEF Readable, Kept, EndsTorn
  <2> QED
    BY <2>2, <2>3 DEF Exclusive!Init
<1>2. ASSUME ClaimInv, ClaimInv', [Next]_vars
      PROVE  [Orderly' => [Exclusive!Next]_<<CurrentHolder, Readable>>]_vars
  <2> SUFFICES ASSUME Orderly', vars' # vars PROVE [Exclusive!Next]_<<CurrentHolder, Readable>>
    OBVIOUS
  <2>1. Orderly /\ HolderKnown /\ HolderKnown'
    BY <1>2, FaultsStay, Holder, HolderNext DEF ClaimInv
  <2>2. ASSUME NEW p \in Procs, MainStep(p) \/ UserStep(p)
        PROVE  [Exclusive!Next]_<<CurrentHolder, Readable>>
    BY <1>2, <2>1, <2>2, EntersLog, WritesLog, FailuresStutter, LeavesLog, OthersStutter
       DEF MainStep, UserStep, Exclusive!Next
  <2>3. ASSUME UNCHANGED <<log, pc>> PROVE UNCHANGED <<CurrentHolder, Readable>>
    BY <2>1, <2>3, SameReadable, Stutters DEF Writing
  <2>4. ASSUME NEW p \in Procs, BeatStep(p) \/ Expire PROVE UNCHANGED <<log, pc>>
    BY <2>4 DEF BeatStep, BeatCheck, BeatTouch, BeatFails, Expire, file
  <2> QED
    BY <1>2, <2>1, <2>2, <2>3, <2>4, CrashLeavesLog, ClaimAssumption DEF Next
<1> QED
  BY <1>1, <1>2, ClaimHolds, PTL DEF Spec, ImplementsExclusiveLog
=============================================================================
