-------------------------- MODULE CredentialProofs --------------------------
(***************************************************************************)
(* For any number of threads and processes: the locks of auth.json exclude *)
(* writers, what is read without them is fresh, a login is refreshed once  *)
(* and stays usable, remembered refusals are true, and the file is a       *)
(* CredentialMap.                                                          *)
(***************************************************************************)
EXTENDS CredentialProperties, TLAPS

Positions == {"idle", "stat", "look", "read", "fill", "judge", "refused", "recheck",
              "mutex", "done", "crashed"} \cup InMutex

Calls == {"resolve", "login", "logout"}

Locals == [call : Calls \cup {"none"}, calls : Nat, begun : Nat,
           stamp : Nat, got : File, first : Tokens, current : Tokens, next : Tokens,
           tries : Nat, raced : BOOLEAN,
           error : {"none", "storage", "transient", "unauthorized"}]

Entry == [stamp : Nat, file : File]

(* A read of the file tells what it was at its stamp. *)
Known(f, now) == f.stamp <= now.stamp /\ (f.stamp = now.stamp => f = now)

(* A cache is older than what it holds, never newer. *)
Kept(c, now) == c # NoCache => c.stamp <= c.file.stamp /\ Known(c.file, now)

(* What a thread carries to a position: the call it is in; a read begins, looks *)
(* at the stamp and reads the file in this order.                               *)
Ready(at, l, now) ==
  /\ at \notin {"idle", "crashed"} => l.call \in Calls
  /\ at = "stat" => l.begun <= now.stamp
  /\ at \in {"look", "read"} => l.begun <= l.stamp /\ l.stamp <= now.stamp
  /\ at = "fill" => l.begun <= l.stamp /\ l.stamp <= l.got.stamp /\ Known(l.got, now)
  /\ at \in {"judge", "recheck"} => l.begun <= l.got.stamp

CachesKept == cache \in [Processes -> Entry \cup {NoCache}] /\ \A p \in Processes : Kept(cache[p], disk)

ReadInv ==
  /\ disk \in File /\ CachesKept
  /\ pc \in [Threads -> Positions] /\ local \in [Threads -> Locals]
  /\ \A t \in Threads : Ready(pc[t], local[t], disk)

LEMMA CurrentCaches == ReadInv => CacheCurrent
<1> SUFFICES ASSUME ReadInv, NEW p \in Processes, cache[p] # NoCache
             PROVE  /\ cache[p].stamp <= cache[p].file.stamp
                    /\ cache[p].stamp = disk.stamp => cache[p].file = disk
  BY DEF CacheCurrent
<1>1. cache[p] \in Entry /\ Kept(cache[p], disk) /\ disk \in File
  BY DEF ReadInv, CachesKept
<1>2. cache[p].stamp \in Nat /\ cache[p].file.stamp \in Nat /\ disk.stamp \in Nat
  BY <1>1 DEF Entry, File
<1> QED
  BY <1>1, <1>2 DEF Kept, Known

LEMMA FreshReads == ReadInv => ReadsAreFresh
BY DEF ReadInv, ReadsAreFresh, Ready, Locals, File

LEMMA TokensType == NoLogin \in Tokens /\ 1 \in Tokens /\ Tokens \subseteq Nat
BY StoreAssumption DEF Tokens, NoLogin

LEMMA NoLocalsType ==
  /\ NoLocals \in Locals /\ NoFile \in File
  /\ \A l \in Locals : [NoLocals EXCEPT !.calls = l.calls] \in Locals
<1>1. NoFile \in File
  BY TokensType DEF NoFile, File
<1>2. NoLocals \in Locals
  BY <1>1, TokensType DEF NoLocals, Locals
<1>3. ASSUME NEW l \in Locals PROVE [NoLocals EXCEPT !.calls = l.calls] \in Locals
  <2>1. l.calls \in Nat
    BY DEF Locals
  <2> QED
    BY <1>2, <2>1 DEF Locals
<1> QED
  BY <1>1, <1>2, <1>3

LEMMA ReadInit == Init => ReadInv
<1> SUFFICES ASSUME Init PROVE ReadInv
  OBVIOUS
<1>1. disk \in File
  BY TokensType DEF Init, File
<1>2. CachesKept
  BY DEF Init, CachesKept, Kept
<1>3. \A t \in Threads : pc[t] = "idle" /\ local[t] = NoLocals
  BY DEF Init
<1> QED
  BY <1>1, <1>2, <1>3, NoLocalsType DEF Init, ReadInv, Ready, Positions

(* The file only gets newer, so that caches are kept and the others stay ready. *)
Newer == disk' \in File /\ (disk' = disk \/ disk.stamp < disk'.stamp)

LEMMA KnownStays ==
  ASSUME NEW f \in File, NEW now \in File, NEW later \in File,
         Known(f, now), later = now \/ now.stamp < later.stamp
  PROVE  Known(f, later)
<1>1. f.stamp \in Nat /\ now.stamp \in Nat /\ later.stamp \in Nat
  BY DEF File
<1> QED
  BY <1>1 DEF Known

LEMMA CachesStay ==
  ASSUME ReadInv, Newer, UNCHANGED cache
  PROVE  CachesKept'
<1> SUFFICES ASSUME NEW p \in Processes, cache[p] # NoCache PROVE Kept(cache[p], disk')
  BY DEF ReadInv, CachesKept, Kept
<1>1. cache[p] \in Entry /\ Kept(cache[p], disk) /\ disk \in File
  BY DEF ReadInv, CachesKept
<1>2. cache[p].file \in File
  BY <1>1 DEF Entry
<1> QED
  BY <1>1, <1>2, KnownStays DEF Kept, Newer

LEMMA ReadyStays ==
  ASSUME disk \in File, Newer, NEW at, NEW l \in Locals, Ready(at, l, disk)
  PROVE  Ready(at, l, disk')
<1>1. /\ l.begun \in Nat /\ l.stamp \in Nat /\ l.got \in File
      /\ disk.stamp \in Nat /\ disk'.stamp \in Nat
  BY DEF Newer, Locals, File
<1>2. disk.stamp <= disk'.stamp /\ (Known(l.got, disk) => Known(l.got, disk'))
  BY <1>1, KnownStays DEF Newer
<1> QED
  BY <1>1, <1>2 DEF Ready

LEMMA Moved ==
  ASSUME ReadInv, NEW t \in Threads, NEW to \in Positions, NEW l \in Locals,
         GotoWith(t, to, l), Ready(to, l, disk'),
         Newer, CachesKept'
  PROVE  ReadInv'
<1>1. pc' \in [Threads -> Positions] /\ local' \in [Threads -> Locals]
  BY DEF ReadInv, GotoWith, Goto
<1>2. ASSUME NEW u \in Threads PROVE Ready(pc'[u], local'[u], disk')
  <2>1. CASE u = t
    BY <2>1 DEF ReadInv, GotoWith, Goto
  <2>2. CASE u # t
    <3>1. pc'[u] = pc[u] /\ local'[u] = local[u] /\ Ready(pc[u], local[u], disk)
      BY <2>2 DEF ReadInv, GotoWith, Goto
    <3>2. Ready(pc[u], local[u], disk')
      BY <3>1, ReadyStays DEF ReadInv
    <3> QED
      BY <3>1, <3>2
  <2> QED
    BY <2>1, <2>2
<1> QED
  BY <1>1, <1>2 DEF ReadInv, Newer

LEMMA MovedOnly ==
  ASSUME ReadInv, NEW t \in Threads, NEW to \in Positions, NEW l \in Locals,
         GotoWith(t, to, l), Ready(to, l, disk), UNCHANGED <<disk, cache>>
  PROVE  ReadInv'
<1>1. Newer /\ CachesKept' /\ disk' = disk
  BY CachesStay DEF ReadInv, Newer
<1> QED
  BY <1>1, Moved

(* The way back to idle, and to a position that asks for no more than a call. *)
LEMMA Returned ==
  ASSUME ReadInv, NEW t \in Threads, Return(t), UNCHANGED <<disk, cache>>
  PROVE  ReadInv'
<1> DEFINE l == [NoLocals EXCEPT !.calls = local[t].calls]
<1>1. l \in Locals /\ GotoWith(t, "idle", l)
  BY NoLocalsType DEF ReadInv, Return
<1>2. Ready("idle", l, disk) /\ "idle" \in Positions
  BY DEF Ready, Positions
<1> HIDE DEF l
<1> QED
  BY <1>1, <1>2, MovedOnly

Writing == {"mutex", "done"} \cup InMutex

LEMMA InCall ==
  ASSUME ReadInv, NEW t \in Threads, pc[t] \notin {"idle", "crashed"}
  PROVE  local[t] \in Locals /\ local[t].call \in Calls
BY DEF ReadInv, Ready

LEMMA MovedOn ==
  ASSUME ReadInv, NEW t \in Threads, NEW to \in Writing \cup {"refused"}, NEW l \in Locals, l.call \in Calls,
         GotoWith(t, to, l), UNCHANGED <<disk, cache>>
  PROVE  ReadInv'
<1>1. to \in Positions /\ Ready(to, l, disk)
  BY DEF Positions, Writing, Ready, InMutex
<1> QED
  BY <1>1, MovedOnly

LEMMA ReadingKeeps ==
  ASSUME ReadInv, NEW t \in Threads, Reads(t)
  PROVE  ReadInv'
<1>0. local[t] \in Locals /\ disk \in File /\ disk.stamp \in Nat
  BY DEF ReadInv, File
<1>c. pc[t] # "idle" /\ pc[t] # "crashed"
  BY DEF Reads, Stat, Look, ReadFile, Fill
<1>d. local[t].call \in Calls
  BY <1>c, InCall
<1>w. WhichRead(local[t]) \in {"judge", "recheck"}
  BY DEF WhichRead
<1>1. CASE Stat(t)
  <2> DEFINE l == [local[t] EXCEPT !.stamp = disk.stamp]
  <2>1. l \in Locals
    BY <1>0 DEF Locals
  <2>2. l.call = local[t].call /\ l.begun = local[t].begun /\ l.stamp = disk.stamp
    BY <1>0 DEF Locals
  <2>3. local[t].begun <= disk.stamp
    BY <1>1 DEF Stat, ReadInv, Ready
  <2>4. Ready("look", l, disk)
    BY <1>0, <1>d, <2>2, <2>3 DEF Ready
  <2>5. GotoWith(t, "look", l) /\ "look" \in Positions /\ UNCHANGED <<disk, cache>>
    BY <1>1 DEF Stat, Positions
  <2> QED
    BY <2>1, <2>4, <2>5, MovedOnly
<1>2. CASE Look(t) /\ Cached(t)
  <2> DEFINE l == [local[t] EXCEPT !.got = cache[Mine(t)].file]
  <2>0. Mine(t) \in Processes
    BY StoreAssumption DEF Mine
  <2>1. /\ cache[Mine(t)] \in Entry /\ cache[Mine(t)].stamp <= cache[Mine(t)].file.stamp
        /\ cache[Mine(t)].stamp = local[t].stamp
    BY <1>2, <2>0 DEF Cached, ReadInv, CachesKept, Kept
  <2>2. l \in Locals /\ l.call = local[t].call /\ l.begun = local[t].begun
        /\ l.got = cache[Mine(t)].file
    BY <1>0, <2>1 DEF Locals, Entry
  <2>3. local[t].begun <= local[t].stamp
    BY <1>2 DEF Look, ReadInv, Ready
  <2>4. l.begun <= l.got.stamp
    <3>1. local[t].begun \in Nat /\ local[t].stamp \in Nat /\ l.got.stamp \in Nat
      BY <1>0, <2>1, <2>2 DEF Locals, Entry, File
    <3> QED
      BY <3>1, <2>1, <2>2, <2>3
  <2>5. Ready(WhichRead(local[t]), l, disk)
    BY <1>d, <1>w, <2>2, <2>4 DEF Ready
  <2>6. GotoWith(t, WhichRead(local[t]), l) /\ UNCHANGED <<disk, cache>>
    BY <1>2 DEF Look
  <2> QED
    BY <1>w, <2>2, <2>5, <2>6, MovedOnly DEF Positions
<1>3. CASE Look(t) /\ ~Cached(t)
  <2>1. Ready("read", local[t], disk)
    BY <1>3, <1>d DEF Look, ReadInv, Ready
  <2>2. GotoWith(t, "read", local[t]) /\ UNCHANGED <<disk, cache>>
    BY <1>3 DEF Look, ReadInv, GotoWith
  <2> QED
    BY <1>0, <2>1, <2>2, MovedOnly DEF Positions
<1>4. CASE ReadFile(t)
  <2> DEFINE l == [local[t] EXCEPT !.got = disk]
  <2>1. l \in Locals /\ l.call = local[t].call /\ l.begun = local[t].begun
        /\ l.stamp = local[t].stamp /\ l.got = disk
    BY <1>0 DEF Locals
  <2>2. local[t].begun <= local[t].stamp /\ local[t].stamp <= disk.stamp
    BY <1>4 DEF ReadFile, ReadInv, Ready
  <2>3. Ready("fill", l, disk)
    BY <1>0, <1>d, <2>1, <2>2 DEF Ready, Known
  <2>4. GotoWith(t, "fill", l) /\ UNCHANGED <<disk, cache>>
    BY <1>4 DEF ReadFile
  <2> QED
    BY <2>1, <2>3, <2>4, MovedOnly DEF Positions
<1>5. CASE Fill(t)
  <2>0. Mine(t) \in Processes
    BY StoreAssumption DEF Mine
  <2>1. /\ local[t].begun <= local[t].stamp /\ local[t].stamp <= local[t].got.stamp
        /\ Known(local[t].got, disk)
    BY <1>5 DEF Fill, ReadInv, Ready
  <2>2. local[t].begun \in Nat /\ local[t].stamp \in Nat /\ local[t].got \in File
        /\ local[t].got.stamp \in Nat
    BY <1>0 DEF Locals, File
  <2>3. CacheEntry(t) \in Entry /\ Kept(CacheEntry(t), disk)
    BY <2>1, <2>2 DEF CacheEntry, Entry, Kept
  <2>4. CachesKept'
    BY <1>5, <2>0, <2>3 DEF Fill, ReadInv, CachesKept
  <2>5. GotoWith(t, WhichRead(local[t]), local[t]) /\ disk' = disk /\ Newer
    BY <1>0, <1>5 DEF Fill, GotoWith, Goto, ReadInv, Newer
  <2>6. Ready(WhichRead(local[t]), local[t], disk)
    BY <1>d, <1>w, <2>1, <2>2 DEF Ready
  <2> QED
    BY <1>0, <1>w, <2>4, <2>5, <2>6, Moved DEF Positions
<1> QED
  BY <1>1, <1>2, <1>3, <1>4, <1>5 DEF Reads

LEMMA CallingKeeps ==
  ASSUME ReadInv, NEW t \in Threads, Resolve(t) \/ Login(t) \/ Logout(t)
  PROVE  ReadInv'
<1>0. local[t] \in Locals /\ disk.stamp \in Nat
  BY DEF ReadInv, File
<1>1. ASSUME NEW call \in Calls
      PROVE  /\ Called(t, call) \in Locals /\ Called(t, call).call = call
             /\ call = "resolve" => Called(t, call).begun = disk.stamp
  <2> DEFINE began == IF call = "resolve" THEN disk.stamp ELSE 0
  <2>1. began \in Nat /\ local[t].calls + 1 \in Nat
    BY <1>0 DEF Locals
  <2>2. Called(t, call) = [local[t] EXCEPT !.call = call, !.calls = @ + 1, !.begun = began]
    BY DEF Called
  <2>3. call = "resolve" => began = disk.stamp
    OBVIOUS
  <2> HIDE DEF began
  <2>4. Called(t, call) \in Locals
    BY <1>0, <2>1, <2>2 DEF Locals
  <2>5. Called(t, call).call = call /\ Called(t, call).begun = began
    BY <1>0, <2>2 DEF Locals
  <2> QED
    BY <2>3, <2>4, <2>5
<1>2. CASE Resolve(t)
  <2>1. Called(t, "resolve") \in Locals /\ Ready("stat", Called(t, "resolve"), disk)
    BY <1>0, <1>1 DEF Ready, Calls
  <2>2. GotoWith(t, "stat", Called(t, "resolve")) /\ UNCHANGED <<disk, cache>>
    BY <1>2 DEF Resolve
  <2> QED
    BY <2>1, <2>2, MovedOnly DEF Positions
<1>3. CASE Login(t)
  <2>1. PICK k \in Tokens : GotoWith(t, "mutex", [Called(t, "login") EXCEPT !.next = k])
    BY <1>3 DEF Login
  <2> DEFINE l == [Called(t, "login") EXCEPT !.next = k]
  <2>2. l \in Locals /\ l.call = Called(t, "login").call
    BY <1>1 DEF Locals, Calls
  <2>3. l.call \in Calls /\ UNCHANGED <<disk, cache>>
    BY <1>1, <1>3, <2>2 DEF Login, Calls
  <2> HIDE DEF l
  <2> QED
    BY <2>1, <2>2, <2>3, MovedOn DEF Writing, l
<1>4. CASE Logout(t)
  <2>1. GotoWith(t, "mutex", Called(t, "logout")) /\ UNCHANGED <<disk, cache>>
    BY <1>4 DEF Logout
  <2> QED
    BY <1>1, <2>1, MovedOn DEF Writing, Calls
<1> QED
  BY <1>2, <1>3, <1>4

LEMMA JudgingKeeps ==
  ASSUME ReadInv, NEW t \in Threads, Judges(t)
  PROVE  ReadInv'
<1>0. local[t] \in Locals /\ disk \in File /\ disk.stamp \in Nat /\ Stored(t) \in Tokens
  BY DEF ReadInv, File, Stored, Locals
<1>1. CASE Judge(t)
  <2>1. local[t].call \in Calls /\ UNCHANGED <<disk, cache>>
    BY <1>1, InCall DEF Judge
  <2>2. CASE Stored(t) = NoLogin
    BY <1>1, <2>1, <2>2, Returned DEF Judge
  <2>3. CASE Stored(t) # NoLogin
    <3> DEFINE to == IF Refuses(t) THEN "refused" ELSE "stat"
               err == IF Refuses(t) /\ failure[Mine(t)].unauthorized
                      THEN "unauthorized" ELSE "none"
               l == [local[t] EXCEPT !.first = Stored(t), !.begun = disk.stamp,
                                     !.got = NoFile, !.error = err]
    <3>1. to \in {"refused", "stat"} /\ err \in {"unauthorized", "none"}
      OBVIOUS
    <3>2. GotoWith(t, to, l)
      BY <1>1, <2>3 DEF Judge
    <3> HIDE DEF to, err
    <3>3. l \in Locals /\ l.call = local[t].call /\ l.begun = disk.stamp
      BY <1>0, <3>1, NoLocalsType DEF Locals
    <3> HIDE DEF l
    <3>4. Ready(to, l, disk) /\ to \in Positions
      BY <1>0, <2>1, <3>1, <3>3 DEF Ready, Positions
    <3> QED
      BY <2>1, <3>2, <3>3, <3>4, MovedOnly
  <2> QED
    BY <2>2, <2>3
<1>2. CASE Refused(t)
  BY <1>2, Returned DEF Refused
<1>3. CASE Recheck(t)
  <2>1. local[t].call \in Calls /\ UNCHANGED <<disk, cache>>
    BY <1>3, InCall DEF Recheck
  <2>2. CASE Stored(t) \in stale
    <3> DEFINE l == [local[t] EXCEPT !.begun = 0, !.stamp = 0, !.got = NoFile]
    <3>1. l \in Locals /\ l.call = local[t].call
      BY <1>0, NoLocalsType DEF Locals
    <3>2. GotoWith(t, "mutex", l)
      BY <1>3, <2>2 DEF Recheck
    <3> HIDE DEF l
    <3> QED
      BY <2>1, <3>1, <3>2, MovedOn DEF Writing
  <2>3. CASE Stored(t) \notin stale
    BY <1>3, <2>1, <2>3, Returned DEF Recheck
  <2> QED
    BY <2>2, <2>3
<1>4. CASE Done(t)
  BY <1>4, Returned DEF Done
<1> QED
  BY <1>1, <1>2, <1>3, <1>4 DEF Judges

(* Steps that leave the locals alone but for an error, or a lock. *)
LEMMA LockingKeeps ==
  ASSUME ReadInv, NEW t \in Threads, Locks(t)
  PROVE  ReadInv'
<1>0. local[t] \in Locals /\ local[t].call \in Calls /\ UNCHANGED <<disk, cache>>
  BY InCall DEF Locks, TakeMutex, MutexTimesOut, TakeFileLock, FileLockTimesOut, Unlock
<1>1. ASSUME NEW to \in Writing, Goto(t, to), UNCHANGED local PROVE ReadInv'
  <2>1. GotoWith(t, to, local[t])
    BY <1>1 DEF GotoWith, ReadInv
  <2> QED
    BY <1>0, <2>1, MovedOn
<1>2. CASE TimedOut(t)
  <2> DEFINE l == [local[t] EXCEPT !.error = "storage"]
  <2>1. l \in Locals /\ l.call = local[t].call
    BY <1>0 DEF Locals
  <2>2. GotoWith(t, "done", l)
    BY <1>2 DEF TimedOut
  <2> HIDE DEF l
  <2> QED
    BY <1>0, <2>1, <2>2, MovedOn DEF Writing
<1>3. CASE TakeMutex(t)
  BY <1>1, <1>3 DEF TakeMutex, Writing, InMutex
<1>4. CASE TakeFileLock(t)
  BY <1>1, <1>4 DEF TakeFileLock, Writing, InMutex
<1>5. CASE Unlock(t)
  BY <1>1, <1>5 DEF Unlock, Writing
<1> QED
  BY <1>2, <1>3, <1>4, <1>5 DEF Locks, MutexTimesOut, FileLockTimesOut

LEMMA FailingKeeps ==
  ASSUME ReadInv, NEW t \in Threads, pc[t] \in InMutex,
         NEW error \in {"storage", "transient", "unauthorized"}, Fails(t, error),
         Newer, UNCHANGED cache
  PROVE  ReadInv'
<1>0. local[t] \in Locals /\ local[t].call \in Calls
  BY InCall DEF InMutex
<1> DEFINE l == [local[t] EXCEPT !.error = error, !.got = NoFile, !.raced = FALSE, !.tries = 0]
<1>1. l \in Locals /\ l.call = local[t].call
  BY <1>0, NoLocalsType DEF Locals
<1>2. GotoWith(t, "unlock", l)
  BY DEF Fails
<1>3. Ready("unlock", l, disk') /\ CachesKept'
  BY <1>0, <1>1, CachesStay DEF Ready
<1> HIDE DEF l
<1> QED
  BY <1>1, <1>2, <1>3, Moved DEF Positions, InMutex

LEMMA FileNewer ==
  ASSUME ReadInv, NEW t \in Threads
  PROVE  /\ disk' = disk => Newer
         /\ Replace(t) => Newer
<1>1. local[t].next \in Tokens /\ local[t].got.other \in Nat /\ disk.stamp \in Nat /\ disk \in File
  BY DEF ReadInv, Locals, File
<1> QED
  BY <1>1 DEF Replace, File, Newer

LEMMA NoAnswerKeeps ==
  ASSUME ReadInv, NEW t \in Threads, pc[t] = "ask", NoAnswer(t), UNCHANGED <<disk, cache>>
  PROVE  ReadInv'
<1>0. local[t] \in Locals /\ local[t].call \in Calls
  BY InCall
<1>1. CASE Fails(t, "transient")
  BY <1>1, FailingKeeps, FileNewer DEF InMutex
<1>2. CASE GotoWith(t, "ask", [local[t] EXCEPT !.tries = @ + 1])
  <2> DEFINE l == [local[t] EXCEPT !.tries = @ + 1]
  <2>1. l \in Locals /\ l.call = local[t].call
    BY <1>0 DEF Locals
  <2> HIDE DEF l
  <2> QED
    BY <1>0, <1>2, <2>1, MovedOn DEF Writing, InMutex, l
<1> QED
  BY <1>1, <1>2 DEF NoAnswer

LEMMA AskingKeeps ==
  ASSUME ReadInv, NEW t \in Threads, Asks(t) \/ AnswerLost(t)
  PROVE  ReadInv'
<1>0. local[t] \in Locals /\ local[t].call \in Calls /\ pc[t] = "ask" /\ UNCHANGED <<disk, cache>>
  BY InCall DEF Asks, Refreshed, ServerFails, Rejected, AnswerLost
<1>1. CASE Refreshed(t)
  <2>1. PICK k \in Tokens : GotoWith(t, "reload", [local[t] EXCEPT !.next = k, !.tries = 0])
    BY <1>1 DEF Refreshed
  <2> DEFINE l == [local[t] EXCEPT !.next = k, !.tries = 0]
  <2>2. l \in Locals /\ l.call = local[t].call
    BY <1>0 DEF Locals
  <2> HIDE DEF l
  <2> QED
    BY <1>0, <2>1, <2>2, MovedOn DEF Writing, InMutex, l
<1>2. CASE Rejected(t)
  BY <1>0, <1>2, FailingKeeps, FileNewer DEF Rejected, InMutex
<1> QED
  BY <1>0, <1>1, <1>2, NoAnswerKeeps DEF Asks, ServerFails, AnswerLost

LEMMA StoringKeeps ==
  ASSUME ReadInv, NEW t \in Threads, Writes(t) \/ StorageFails(t) \/ StoredButFails(t)
  PROVE  ReadInv'
<1>0. local[t] \in Locals /\ local[t].call \in Calls /\ disk \in File
  BY InCall DEF Writes, Load, Reload, Store, Uncache, StorageFails, StoredButFails, ReadInv
<1>1. CASE Load(t)
  <2> DEFINE l == [local[t] EXCEPT !.current = Current(t), !.got = disk]
  <2>1. l \in Locals /\ l.call = local[t].call
    BY <1>0 DEF Locals, Current, File
  <2>2. AfterLoad(t) \in Writing
    BY <1>0 DEF AfterLoad, Calls, Writing, InMutex
  <2> HIDE DEF l
  <2> QED
    BY <1>0, <1>1, <2>1, <2>2, MovedOn DEF Load, l
<1>2. CASE Reload(t)
  <2> DEFINE l == [local[t] EXCEPT !.got = Base(t)]
  <2>1. l \in Locals /\ l.call = local[t].call
    BY <1>0 DEF Locals, Base
  <2> HIDE DEF l
  <2> QED
    BY <1>0, <1>2, <2>1, MovedOn DEF Reload, l, Writing, InMutex
<1>3. CASE Store(t)
  <2> DEFINE l == [local[t] EXCEPT !.got = NoFile, !.raced = FALSE]
  <2>1. l \in Locals /\ l.call = local[t].call
    BY <1>0, NoLocalsType DEF Locals
  <2> HIDE DEF l
  <2>2. Ready("uncache", l, disk') /\ CachesKept'
    BY <1>0, <1>3, <2>1, FileNewer, CachesStay DEF Store, Ready
  <2>3. GotoWith(t, "uncache", l) /\ Newer
    BY <1>3, FileNewer DEF Store, l
  <2> QED
    BY <2>1, <2>2, <2>3, Moved DEF Positions, InMutex
<1>4. CASE Uncache(t)
  <2>1. CachesKept'
    BY <1>4 DEF Uncache, ReadInv, CachesKept, Kept
  <2>2. GotoWith(t, "done", local[t]) /\ disk' = disk
    BY <1>4 DEF Uncache, GotoWith, ReadInv
  <2>3. Ready("done", local[t], disk) /\ Newer
    BY <1>0, <2>2, FileNewer DEF Ready
  <2> QED
    BY <1>0, <2>1, <2>2, <2>3, Moved DEF Positions
<1>5. CASE StorageFails(t)
  BY <1>5, FailingKeeps, FileNewer DEF StorageFails, InMutex
<1>6. CASE StoredButFails(t)
  BY <1>6, FailingKeeps, FileNewer DEF StoredButFails, InMutex
<1> QED
  BY <1>1, <1>2, <1>3, <1>4, <1>5, <1>6 DEF Writes

LEMMA OthersKeep ==
  ASSUME ReadInv,
         ForeignWrite \/ (\E p \in Processes : Forget(p) \/ Crash(p))
                      \/ (\E k \in Tokens : ExpiresSoon(k))
  PROVE  ReadInv'
<1>0. disk.stamp \in Nat /\ disk.other \in Nat /\ \A t \in Threads : local[t] \in Locals
  BY DEF ReadInv, File
<1>1. CASE ForeignWrite
  <2>1. Newer
    <3>1. disk \in File /\ disk' = [disk EXCEPT !.stamp = @ + 1, !.other = @ + 1]
      BY <1>1 DEF ForeignWrite, ReadInv
    <3>2. disk.stamp + 1 \in Nat /\ disk.other + 1 \in Nat
      BY <1>0
    <3>3. disk' \in File
      BY <3>1, <3>2 DEF File
    <3>4. disk'.stamp = disk.stamp + 1
      BY <3>1 DEF File
    <3> QED
      BY <1>0, <3>3, <3>4 DEF Newer
  <2>2. ASSUME NEW t \in Threads
        PROVE  /\ local'[t] \in Locals /\ local'[t].call = local[t].call
               /\ local'[t].begun = local[t].begun /\ local'[t].stamp = local[t].stamp
               /\ local'[t].got = local[t].got
    <3> DEFINE r == local[t].raced \/ pc[t] = "store"
    <3>1. local'[t] = [local[t] EXCEPT !.raced = r] /\ r \in BOOLEAN
      BY <1>1 DEF ForeignWrite
    <3> HIDE DEF r
    <3> QED
      BY <1>0, <3>1 DEF Locals
  <2>3. ASSUME NEW t \in Threads PROVE Ready(pc[t], local'[t], disk')
    <3>1. Ready(pc[t], local[t], disk')
      BY <1>0, <2>1, ReadyStays DEF ReadInv
    <3> QED
      BY <2>2, <3>1 DEF Ready
  <2>4. local' \in [Threads -> Locals] /\ UNCHANGED <<pc, cache>>
    BY <1>1, <2>2 DEF ForeignWrite
  <2> QED
    BY <2>1, <2>3, <2>4, CachesStay DEF ReadInv, Newer
<1>2. ASSUME NEW p \in Processes, Crash(p) PROVE ReadInv'
  <2> DEFINE dead == {t \in Threads : Mine(t) = p /\ pc[t] # "crashed"}
  <2>a. /\ pc' = [t \in Threads |-> IF t \in dead THEN "crashed" ELSE pc[t]]
        /\ local' = [t \in Threads |-> IF t \in dead THEN NoLocals ELSE local[t]]
        /\ UNCHANGED <<disk, cache>>
    BY <1>2 DEF Crash
  <2> HIDE DEF dead
  <2>1. pc' \in [Threads -> Positions] /\ local' \in [Threads -> Locals]
    BY <1>0, <2>a, NoLocalsType DEF ReadInv, Positions
  <2>2. ASSUME NEW t \in Threads PROVE Ready(pc'[t], local'[t], disk)
    <3>1. \/ pc'[t] = "crashed"
          \/ pc'[t] = pc[t] /\ local'[t] = local[t]
      BY <2>a
    <3> QED
      BY <3>1 DEF Ready, ReadInv
  <2> QED
    BY <2>a, <2>1, <2>2 DEF ReadInv, CachesKept
<1>3. CASE UNCHANGED <<disk, cache, pc, local>>
  BY <1>3 DEF ReadInv, CachesKept
<1> QED
  BY <1>1, <1>2, <1>3 DEF Forget, ExpiresSoon

LEMMA ReadNext == ReadInv /\ [Next]_vars => ReadInv'
<1> SUFFICES ASSUME ReadInv, [Next]_vars PROVE ReadInv'
  OBVIOUS
<1>1. CASE UNCHANGED vars
  BY <1>1 DEF vars, ReadInv, CachesKept
<1>2. CASE Next
  BY <1>2, ReadingKeeps, CallingKeeps, JudgingKeeps, LockingKeeps, AskingKeeps, StoringKeeps,
     OthersKeep DEF Next, ThreadStep
<1> QED
  BY <1>1, <1>2

(* A cache that carries the stamp of the file carries its contents, and a  *)
(* read without a lock returns what the file held at some time during it.  *)
THEOREM ReadsNeverOld == Spec => []CacheCurrent /\ []ReadsAreFresh
<1>1. Spec => []ReadInv
  BY ReadInit, ReadNext, PTL DEF Spec
<1> QED
  BY <1>1, CurrentCaches, FreshReads, PTL

-----------------------------------------------------------------------------
(* The locks: a thread is past taking one exactly while it holds it, and a *)
(* process's own is held by one of its threads.                            *)
FileLockHeld ==
  /\ flock \in Threads \cup {NoThread}
  /\ \A t \in Threads : pc[t] \in InFile <=> flock = t

MutexHeld ==
  /\ writer \in [Processes -> Threads \cup {NoThread}]
  /\ \A t \in Threads : pc[t] \in InMutex <=> writer[Mine(t)] = t
  /\ \A p \in Processes : writer[p] # NoThread => Mine(writer[p]) = p

LocksInv == pc \in [Threads -> Positions] /\ FileLockHeld /\ MutexHeld

LEMMA LocksGiveExclusion == LocksInv => WritersExclusive
BY StoreAssumption
   DEF LocksInv, FileLockHeld, MutexHeld, WritersExclusive, Mine, InFile, InMutex

LEMMA LocksInit == Init => LocksInv
BY StoreAssumption
   DEF Init, LocksInv, FileLockHeld, MutexHeld, Positions, InFile, InMutex, Mine

(* A step of t that neither takes nor frees a lock, between positions that *)
(* hold the same ones.                                                     *)
KeepsLocks(t, to) ==
  /\ Goto(t, to) /\ to \in Positions /\ UNCHANGED locks
  /\ pc[t] \in InMutex <=> to \in InMutex
  /\ pc[t] \in InFile <=> to \in InFile

LEMMA SameLocks ==
  ASSUME LocksInv, NEW t \in Threads, NEW to, KeepsLocks(t, to)
  PROVE  LocksInv'
BY StoreAssumption
   DEF KeepsLocks, LocksInv, FileLockHeld, MutexHeld, Goto, locks, Mine

LEMMA CallsKeepLocks ==
  ASSUME ReadInv, LocksInv, NEW t \in Threads,
         \/ Resolve(t) \/ Login(t) \/ Logout(t)
         \/ Reads(t) \/ Judges(t) \/ MutexTimesOut(t) \/ Asks(t) \/ AnswerLost(t)
         \/ Load(t) \/ Reload(t) \/ Store(t) \/ StorageFails(t) \/ StoredButFails(t)
  PROVE  LocksInv'
<1> SUFFICES \E to : KeepsLocks(t, to)
  BY SameLocks
<1> USE DEF KeepsLocks, locks, Positions, InMutex, InFile
<1>1. CASE Resolve(t)
  BY <1>1 DEF Resolve, CanCall, GotoWith
<1>2. CASE Login(t)
  <2>1. Goto(t, "mutex") /\ UNCHANGED <<writer, flock>>
    BY <1>2 DEF Login, GotoWith
  <2> QED
    BY <1>2, <2>1 DEF Login, CanCall
<1>3. CASE Logout(t)
  BY <1>3 DEF Logout, CanCall, GotoWith
<1>4. CASE Stat(t)
  BY <1>4 DEF Stat, GotoWith
<1>5. CASE Look(t)
  BY <1>5 DEF Look, GotoWith, WhichRead
<1>6. CASE ReadFile(t)
  BY <1>6 DEF ReadFile, GotoWith
<1>7. CASE Fill(t)
  BY <1>7 DEF Fill, WhichRead
<1>8. CASE Judge(t)
  BY <1>8 DEF Judge, GotoWith, Return
<1>9. CASE Refused(t)
  BY <1>9 DEF Refused, GotoWith, Return
<1>10. CASE Recheck(t)
  BY <1>10 DEF Recheck, GotoWith, Return
<1>11. CASE Done(t)
  BY <1>11 DEF Done, GotoWith, Return
<1>12. CASE Refreshed(t)
  <2>1. Goto(t, "reload") /\ UNCHANGED <<writer, flock>>
    BY <1>12 DEF Refreshed, GotoWith
  <2> QED
    BY <1>12, <2>1 DEF Refreshed
<1>13. CASE ServerFails(t)
  BY <1>13 DEF ServerFails, NoAnswer, Fails, GotoWith
<1>14. CASE Rejected(t)
  BY <1>14 DEF Rejected, Fails, GotoWith
<1>15. CASE AnswerLost(t)
  BY <1>15 DEF AnswerLost, NoAnswer, Fails, GotoWith
<1>16. CASE Load(t)
  <2>1. AfterLoad(t) \in {"ask", "unlock", "reload", "store"}
    BY <1>16, InCall DEF Load, AfterLoad, Calls
  <2> QED
    BY <1>16, <2>1 DEF Load, GotoWith
<1>17. CASE Reload(t)
  BY <1>17 DEF Reload, GotoWith
<1>18. CASE Store(t)
  BY <1>18 DEF Store, GotoWith
<1>19. CASE StorageFails(t)
  BY <1>19 DEF StorageFails, Fails, GotoWith
<1>20. CASE StoredButFails(t)
  BY <1>20 DEF StoredButFails, Fails, GotoWith
<1>21. CASE MutexTimesOut(t)
  BY <1>21 DEF MutexTimesOut, TimedOut, GotoWith
<1> QED
  BY <1>1, <1>2, <1>3, <1>4, <1>5, <1>6, <1>7, <1>8, <1>9, <1>10, <1>11,
     <1>12, <1>13, <1>14, <1>15, <1>16, <1>17, <1>18, <1>19, <1>20, <1>21
     DEF Reads, Judges, Asks

LEMMA LocksKeepLocks ==
  ASSUME LocksInv, NEW t \in Threads,
         TakeMutex(t) \/ TakeFileLock(t) \/ FileLockTimesOut(t) \/ Unlock(t) \/ Uncache(t)
  PROVE  LocksInv'
<1> USE StoreAssumption DEF LocksInv, FileLockHeld, MutexHeld, Goto, locks, Mine, Positions, InMutex, InFile
<1>1. CASE TakeMutex(t)
  BY <1>1 DEF TakeMutex
<1>2. CASE TakeFileLock(t)
  BY <1>2 DEF TakeFileLock, FileLockFree
<1>3. CASE FileLockTimesOut(t)
  BY <1>3 DEF FileLockTimesOut, DropGuard, FreeMutex, TimedOut, GotoWith
<1>4. CASE Unlock(t)
  BY <1>4 DEF Unlock, DropGuards, FreeMutex
<1>5. CASE Uncache(t)
  BY <1>5 DEF Uncache, DropGuards, FreeMutex
<1> QED
  BY <1>1, <1>2, <1>3, <1>4, <1>5

LEMMA LocksNext == LocksInv /\ ReadInv /\ [Next]_vars => LocksInv'
<1> SUFFICES ASSUME LocksInv, ReadInv, [Next]_vars PROVE LocksInv'
  OBVIOUS
<1>1. CASE UNCHANGED <<pc, writer, flock>>
  BY <1>1 DEF LocksInv, FileLockHeld, MutexHeld
<1>2. ASSUME NEW p \in Processes, Crash(p) PROVE LocksInv'
  BY <1>2, StoreAssumption
     DEF LocksInv, FileLockHeld, MutexHeld, Crash, Mine, Positions, InMutex, InFile
<1> QED
  BY <1>1, <1>2, CallsKeepLocks, LocksKeepLocks
     DEF Next, ThreadStep, Locks, Writes, vars, locks, ForeignWrite, ExpiresSoon, Forget

(* The two locks exclude writers across threads and processes and are given *)
(* back on every path, whichever call times out, fails or dies.             *)
THEOREM WritersExclude == Spec => []WritersExclusive
<1>1. Spec => [](ReadInv /\ LocksInv)
  BY ReadInit, ReadNext, LocksInit, LocksNext, PTL DEF Spec
<1> QED
  BY <1>1, LocksGiveExclusion, PTL

-----------------------------------------------------------------------------
(* The tokens.                                                             *)
Reading == {"stat", "look", "read", "fill", "judge", "refused", "recheck"}

(* A login on its way to the file: a finished one, or one the server gave  *)
(* for the login that is stored.                                           *)
Rotating(at, l) == l.call = "resolve" /\ at \in {"reload", "store"}
Pending(at, l) ==
  \/ l.call = "login" /\ at \in {"mutex", "flock", "load", "reload", "store"}
  \/ Rotating(at, l)

(* What a thread relies on: the login it asks about is the one that is     *)
(* stored, the one it brings is new, a logout brings none.                 *)
Sound(at, l, now) ==
  /\ at \in Reading \cup {"ask"} => l.call = "resolve"
  /\ at = "ask" => l.current = now.login /\ l.current # NoLogin
  /\ Rotating(at, l) => l.current = now.login /\ parent[l.next] = l.current
  /\ Pending(at, l) => l.next \in 1 .. issued /\ l.next \notin spent /\ l.next # now.login
  /\ Pending(at, l) /\ l.call = "login" => parent[l.next] = NoLogin
  /\ at = "idle" => l.next = NoLogin
  /\ l.call = "logout" /\ at \in {"mutex", "flock", "load", "reload", "store"} => l.next = NoLogin
  /\ at = "store" /\ ~l.raced => l.got.other = now.other

TokensKnown ==
  /\ issued \in 0 .. MaxTokens /\ spent \subseteq 1 .. issued /\ disk.login \in 0 .. issued
  /\ parent \in [Tokens -> Tokens]

AllSound == \A t \in Threads : Sound(pc[t], local[t], disk)

PendingDiffer ==
  \A t, u \in Threads :
    t # u /\ Pending(pc[t], local[t]) /\ Pending(pc[u], local[u]) => local[t].next # local[u].next

TokenInv == TokensKnown /\ AllSound /\ PendingDiffer /\ StoredLoginUsable /\ RefreshedOnce

LEMMA TokenInit == Init => TokenInv
<1> SUFFICES ASSUME Init PROVE TokenInv
  OBVIOUS
<1>1. \A t \in Threads : pc[t] = "idle" /\ local[t] = NoLocals
  BY DEF Init
<1>2. NoLocals.call = "none" /\ NoLocals.next = NoLogin
  BY DEF NoLocals
<1>3. Sound("idle", NoLocals, disk) /\ ~Pending("idle", NoLocals)
  BY <1>2 DEF Sound, Pending, Rotating, Reading
<1>4. TokensKnown
  BY TokensType, StoreAssumption DEF Init, TokensKnown
<1>5. StoredLoginUsable /\ RefreshedOnce
  BY DEF Init, StoredLoginUsable, RefreshedOnce
<1> QED
  BY <1>1, <1>3, <1>4, <1>5 DEF TokenInv, AllSound, PendingDiffer

LEMMA OneMoved ==
  ASSUME ReadInv, NEW t \in Threads, NEW to, NEW l, GotoWith(t, to, l)
  PROVE  /\ pc'[t] = to /\ local'[t] = l
         /\ \A u \in Threads \ {t} : pc'[u] = pc[u] /\ local'[u] = local[u]
BY DEF GotoWith, Goto, ReadInv

(* A thread that moves without touching the file or the tokens, brings no  *)
(* login it did not bring before, and gives one up only as an orphan.      *)
LEMMA QuietMove ==
  ASSUME ReadInv, TokenInv, NEW t \in Threads, NEW to, NEW l, GotoWith(t, to, l),
         UNCHANGED <<disk, spent, issued, parent>>, orphaned \subseteq orphaned',
         replayed' \subseteq replayed \cup orphaned,
         Sound(to, l, disk),
         Pending(to, l) => Pending(pc[t], local[t]) /\ l.next = local[t].next,
         Rotating(pc[t], local[t]) =>
           \/ Rotating(to, l) /\ l.current = local[t].current
           \/ local[t].current \in orphaned'
  PROVE  TokenInv'
<1>1. /\ pc'[t] = to /\ local'[t] = l
      /\ \A u \in Threads \ {t} : pc'[u] = pc[u] /\ local'[u] = local[u]
  BY OneMoved
<1>2. AllSound'
  BY <1>1 DEF TokenInv, AllSound, Sound
<1>3. PendingDiffer'
  BY <1>1 DEF TokenInv, PendingDiffer
<1>4. StoredLoginUsable'
  <2> SUFFICES ASSUME disk.login \in spent, disk.login \notin orphaned'
               PROVE  \E u \in Threads : Rotating(pc'[u], local'[u]) /\ local'[u].current = disk.login
    BY DEF StoredLoginUsable, Rotating
  <2>1. PICK u \in Threads : Rotating(pc[u], local[u]) /\ local[u].current = disk.login
    BY DEF TokenInv, StoredLoginUsable, Rotating
  <2>2. CASE u = t
    BY <1>1, <2>1, <2>2
  <2>3. CASE u # t
    BY <1>1, <2>1, <2>3
  <2> QED
    BY <2>2, <2>3
<1>5. TokensKnown' /\ RefreshedOnce'
  BY DEF TokenInv, TokensKnown, RefreshedOnce
<1> QED
  BY <1>2, <1>3, <1>4, <1>5 DEF TokenInv

Resting == {"uncache", "unlock", "done"}

Untouched == UNCHANGED <<disk, spent, issued, parent>>

(* To a position that asks for nothing. *)
LEMMA Away ==
  ASSUME ReadInv, TokenInv, NEW t \in Threads, NEW to, NEW l, GotoWith(t, to, l), Untouched,
         \/ to \in Resting
         \/ to \in Reading /\ l.call = "resolve"
         \/ to = "idle" /\ l.next = NoLogin /\ l.call = "none",
         orphaned \subseteq orphaned', replayed' \subseteq replayed \cup orphaned,
         Rotating(pc[t], local[t]) => local[t].current \in orphaned'
  PROVE  TokenInv'
<1>1. Sound(to, l, disk) /\ ~Pending(to, l)
  BY DEF Resting, Reading, Sound, Pending, Rotating
<1> QED
  BY <1>1, QuietMove DEF Untouched

LEMMA Home ==
  ASSUME ReadInv, TokenInv, NEW t \in Threads, Return(t), Untouched, UNCHANGED ghosts,
         pc[t] \notin {"reload", "store"}
  PROVE  TokenInv'
<1> DEFINE l == [NoLocals EXCEPT !.calls = local[t].calls]
<1>1. l.call = "none" /\ l.next = NoLogin
  BY DEF NoLocals
<1>2. GotoWith(t, "idle", l)
  BY DEF Return
<1> HIDE DEF l
<1> QED
  BY <1>1, <1>2, Away DEF ghosts, Rotating

(* A thread that goes on as it is. *)
LEMMA GoOn ==
  ASSUME ReadInv, NEW t \in Threads, NEW to, Goto(t, to), UNCHANGED local
  PROVE  GotoWith(t, to, local[t])
BY DEF ReadInv, GotoWith

LEMMA ReadsKeepTokens ==
  ASSUME ReadInv, TokenInv, NEW t \in Threads, Reads(t) \/ Judges(t)
  PROVE  TokenInv'
<1>0. local[t] \in Locals
  BY DEF ReadInv
<1>g. Untouched /\ UNCHANGED ghosts
  BY DEF Reads, Judges, Stat, Look, ReadFile, Fill, Judge, Refused, Recheck, Done,
         Untouched, tokens
<1>a. /\ orphaned \subseteq orphaned' /\ replayed' \subseteq replayed \cup orphaned
  BY <1>g DEF ghosts
<1>s. pc[t] \in Reading => local[t].call = "resolve"
  BY DEF TokenInv, AllSound, Sound
<1>n. pc[t] \notin {"reload", "store"} /\ ~Rotating(pc[t], local[t])
  BY DEF Reads, Judges, Stat, Look, ReadFile, Fill, Judge, Refused, Recheck, Done, Rotating
<1>w. WhichRead(local[t]) \in Reading
  BY DEF WhichRead, Reading
<1>1. CASE Stat(t)
  <2> DEFINE l == [local[t] EXCEPT !.stamp = disk.stamp]
  <2>1. l.call = "resolve" /\ GotoWith(t, "look", l)
    BY <1>0, <1>1, <1>s DEF Stat, Locals, Reading
  <2> HIDE DEF l
  <2> QED
    BY <1>a, <1>g, <1>n, <2>1, Away DEF Reading
<1>2. CASE Look(t) /\ Cached(t)
  <2> DEFINE l == [local[t] EXCEPT !.got = cache[Mine(t)].file]
  <2>1. l.call = "resolve" /\ GotoWith(t, WhichRead(local[t]), l)
    BY <1>0, <1>2, <1>s DEF Look, Locals, Reading
  <2> HIDE DEF l
  <2> QED
    BY <1>a, <1>g, <1>n, <1>w, <2>1, Away
<1>3. CASE Look(t) /\ ~Cached(t)
  <2>1. GotoWith(t, "read", local[t]) /\ local[t].call = "resolve"
    BY <1>3, <1>s, GoOn DEF Look, Reading
  <2> QED
    BY <1>a, <1>g, <1>n, <2>1, Away DEF Reading
<1>4. CASE ReadFile(t)
  <2> DEFINE l == [local[t] EXCEPT !.got = disk]
  <2>1. l.call = "resolve" /\ GotoWith(t, "fill", l)
    BY <1>0, <1>4, <1>s DEF ReadFile, Locals, Reading
  <2> HIDE DEF l
  <2> QED
    BY <1>a, <1>g, <1>n, <2>1, Away DEF Reading
<1>5. CASE Fill(t)
  <2>1. GotoWith(t, WhichRead(local[t]), local[t]) /\ local[t].call = "resolve"
    BY <1>5, <1>s, GoOn DEF Fill, Reading
  <2> QED
    BY <1>a, <1>g, <1>n, <1>w, <2>1, Away
<1>6. CASE Judge(t) /\ Stored(t) = NoLogin
  BY <1>6, <1>g, <1>n, Home DEF Judge
<1>7. CASE Judge(t) /\ Stored(t) # NoLogin
  <2> DEFINE to == IF Refuses(t) THEN "refused" ELSE "stat"
             err == IF Refuses(t) /\ failure[Mine(t)].unauthorized
                    THEN "unauthorized" ELSE "none"
             l == [local[t] EXCEPT !.first = Stored(t), !.begun = disk.stamp,
                                   !.got = NoFile, !.error = err]
  <2>1. GotoWith(t, to, l) /\ to \in Reading
    BY <1>7 DEF Judge, Reading
  <2> HIDE DEF to, err
  <2>2. l.call = "resolve"
    BY <1>0, <1>7, <1>s DEF Judge, Locals, Reading
  <2> HIDE DEF l
  <2> QED
    BY <1>a, <1>g, <1>n, <2>1, <2>2, Away
<1>8. CASE Refused(t)
  BY <1>8, <1>g, <1>n, Home DEF Refused
<1>9. CASE Recheck(t) /\ Stored(t) \in stale
  <2> DEFINE l == [local[t] EXCEPT !.begun = 0, !.stamp = 0, !.got = NoFile]
  <2>1. l.call = "resolve" /\ GotoWith(t, "mutex", l)
    BY <1>0, <1>9, <1>s DEF Recheck, Locals, Reading
  <2> HIDE DEF l
  <2>2. Sound("mutex", l, disk) /\ ~Pending("mutex", l)
    BY <2>1 DEF Sound, Pending, Rotating, Reading
  <2> QED
    BY <1>a, <1>g, <1>n, <2>1, <2>2, QuietMove DEF Untouched
<1>10. CASE Recheck(t) /\ Stored(t) \notin stale
  BY <1>10, <1>g, <1>n, Home DEF Recheck
<1>11. CASE Done(t)
  BY <1>11, <1>g, <1>n, Home DEF Done
<1> QED
  BY <1>1, <1>2, <1>3, <1>4, <1>5, <1>6, <1>7, <1>8, <1>9, <1>10, <1>11 DEF Reads, Judges

LEMMA LocksKeepTokens ==
  ASSUME ReadInv, TokenInv, NEW t \in Threads, Locks(t) \/ Uncache(t)
  PROVE  TokenInv'
<1>g. Untouched /\ UNCHANGED ghosts
  BY DEF Locks, TakeMutex, MutexTimesOut, TakeFileLock, FileLockTimesOut, Unlock, Uncache,
         Untouched, tokens
<1>a. /\ orphaned \subseteq orphaned' /\ replayed' \subseteq replayed \cup orphaned
  BY <1>g DEF ghosts
<1>n. ~Rotating(pc[t], local[t])
  BY DEF Locks, TakeMutex, MutexTimesOut, TakeFileLock, FileLockTimesOut, Unlock, Uncache, Rotating
<1>s. Sound(pc[t], local[t], disk)
  BY DEF TokenInv, AllSound
<1>1. CASE MutexTimesOut(t) \/ FileLockTimesOut(t)
  <2>1. GotoWith(t, "done", [local[t] EXCEPT !.error = "storage"])
    BY <1>1 DEF MutexTimesOut, FileLockTimesOut, TimedOut
  <2> QED
    BY <1>a, <1>g, <1>n, <2>1, Away DEF Resting
<1>2. CASE Unlock(t) \/ Uncache(t)
  <2>1. GotoWith(t, "done", local[t])
    BY <1>2, GoOn DEF Unlock, Uncache
  <2> QED
    BY <1>a, <1>g, <1>n, <2>1, Away DEF Resting
<1>3. CASE TakeMutex(t)
  <2>1. pc[t] = "mutex" /\ GotoWith(t, "flock", local[t])
    BY <1>3, GoOn DEF TakeMutex
  <2>2. Sound("flock", local[t], disk) /\ (Pending("flock", local[t]) => Pending(pc[t], local[t]))
    BY <1>s, <2>1 DEF Sound, Pending, Rotating, Reading
  <2> QED
    BY <1>a, <1>g, <1>n, <2>1, <2>2, QuietMove DEF Untouched
<1>4. CASE TakeFileLock(t)
  <2>1. pc[t] = "flock" /\ GotoWith(t, "load", local[t])
    BY <1>4, GoOn DEF TakeFileLock
  <2>2. Sound("load", local[t], disk) /\ (Pending("load", local[t]) => Pending(pc[t], local[t]))
    BY <1>s, <2>1 DEF Sound, Pending, Rotating, Reading
  <2> QED
    BY <1>a, <1>g, <1>n, <2>1, <2>2, QuietMove DEF Untouched
<1> QED
  BY <1>1, <1>2, <1>3, <1>4 DEF Locks

LEMMA CalledAs ==
  ASSUME ReadInv, NEW t \in Threads, NEW call \in Calls
  PROVE  Called(t, call).call = call /\ Called(t, call).next = local[t].next
<1>1. local[t] \in Locals
  BY DEF ReadInv
<1> QED
  BY <1>1 DEF Called, Locals

LEMMA CallsKeepTokens ==
  ASSUME ReadInv, TokenInv, NEW t \in Threads, Resolve(t) \/ Logout(t)
  PROVE  TokenInv'
<1>g. Untouched /\ UNCHANGED ghosts /\ pc[t] = "idle"
  BY DEF Resolve, Logout, Untouched, tokens, CanCall
<1>a. /\ orphaned \subseteq orphaned' /\ replayed' \subseteq replayed \cup orphaned
  BY <1>g DEF ghosts
<1>n. ~Rotating(pc[t], local[t]) /\ local[t].next = NoLogin
  BY <1>g DEF Rotating, TokenInv, AllSound, Sound
<1>1. CASE Resolve(t)
  <2>1. Called(t, "resolve").call = "resolve"
    BY CalledAs DEF Calls
  <2>2. GotoWith(t, "stat", Called(t, "resolve"))
    BY <1>1 DEF Resolve
  <2> QED
    BY <1>a, <1>g, <1>n, <2>1, <2>2, Away DEF Reading
<1>2. CASE Logout(t)
  <2>1. Called(t, "logout").call = "logout" /\ Called(t, "logout").next = NoLogin
    BY <1>n, CalledAs DEF Calls
  <2>2. GotoWith(t, "mutex", Called(t, "logout"))
    BY <1>2 DEF Logout
  <2>3. Sound("mutex", Called(t, "logout"), disk) /\ ~Pending("mutex", Called(t, "logout"))
    BY <2>1 DEF Sound, Pending, Rotating, Reading
  <2> QED
    BY <1>a, <1>g, <1>n, <2>2, <2>3, QuietMove DEF Untouched
<1> QED
  BY <1>1, <1>2

(* Whoever asks holds the file lock, so nobody else is rotating the login. *)
LEMMA SpentWhileAsking ==
  ASSUME LocksInv, TokenInv, NEW t \in Threads, pc[t] = "ask", local[t].current \in spent
  PROVE  local[t].current \in orphaned
<1>1. local[t].current = disk.login
  BY DEF TokenInv, AllSound, Sound
<1>2. ASSUME NEW u \in Threads, pc[u] \in {"reload", "store"} PROVE FALSE
  <2>1. flock = u /\ flock = t
    BY <1>2 DEF LocksInv, FileLockHeld, InFile, InMutex
  <2> QED
    BY <1>2, <2>1
<1> QED
  BY <1>1, <1>2 DEF TokenInv, StoredLoginUsable

(* Failing a call, with what it orphans, and asking again. *)
LEMMA FailKeepsTokens ==
  ASSUME ReadInv, TokenInv, NEW t \in Threads, NEW why, Fails(t, why), Untouched,
         orphaned \subseteq orphaned', replayed' \subseteq replayed \cup orphaned,
         Rotating(pc[t], local[t]) => local[t].current \in orphaned'
  PROVE  TokenInv'
<1> DEFINE l == [local[t] EXCEPT !.error = why, !.got = NoFile, !.raced = FALSE, !.tries = 0]
<1>1. GotoWith(t, "unlock", l)
  BY DEF Fails
<1> HIDE DEF l
<1> QED
  BY <1>1, Away DEF Resting

LEMMA AsksAgain ==
  ASSUME ReadInv, TokenInv, NEW t \in Threads, pc[t] = "ask", NoAnswer(t)
  PROVE  \/ Fails(t, "transient")
         \/ \E l : GotoWith(t, "ask", l) /\ l.call = "resolve" /\ l.current = local[t].current
<1>1. CASE Fails(t, "transient")
  BY <1>1
<1>2. CASE GotoWith(t, "ask", [local[t] EXCEPT !.tries = @ + 1])
  <2> DEFINE l == [local[t] EXCEPT !.tries = @ + 1]
  <2>0. local[t].call = "resolve" /\ local[t] \in Locals
    BY DEF TokenInv, AllSound, Sound, ReadInv
  <2>1. l.call = "resolve" /\ l.current = local[t].current
    BY <2>0 DEF Locals
  <2>2. GotoWith(t, "ask", l)
    BY <1>2
  <2> HIDE DEF l
  <2> QED
    BY <2>1, <2>2
<1> QED
  BY <1>1, <1>2 DEF NoAnswer

LEMMA QuietAsksKeepTokens ==
  ASSUME ReadInv, LocksInv, TokenInv, NEW t \in Threads,
         ServerFails(t) \/ Rejected(t) \/ StorageFails(t)
  PROVE  TokenInv'
<1>1. CASE ServerFails(t)
  <2>1. Untouched /\ UNCHANGED ghosts /\ pc[t] = "ask" /\ NoAnswer(t)
    BY <1>1 DEF ServerFails, Untouched, tokens
  <2>2. /\ orphaned \subseteq orphaned' /\ replayed' \subseteq replayed \cup orphaned
        /\ ~Rotating(pc[t], local[t])
    BY <2>1 DEF ghosts, Rotating
  <2>3. CASE Fails(t, "transient")
    BY <2>1, <2>2, <2>3, FailKeepsTokens
  <2>4. ASSUME NEW l, GotoWith(t, "ask", l), l.call = "resolve", l.current = local[t].current
        PROVE  TokenInv'
    <3>1. Sound("ask", l, disk) /\ ~Pending("ask", l)
      BY <2>1, <2>4 DEF TokenInv, AllSound, Sound, Pending, Rotating
    <3> QED
      BY <2>1, <2>2, <2>4, <3>1, QuietMove DEF Untouched
  <2> QED
    BY <2>1, <2>3, <2>4, AsksAgain
<1>2. CASE Rejected(t)
  <2>1. Untouched /\ orphaned' = orphaned /\ pc[t] = "ask" /\ local[t].current \in spent
    BY <1>2 DEF Rejected, Untouched, tokens
  <2>2. local[t].current \in orphaned /\ ~Rotating(pc[t], local[t])
    BY <2>1, SpentWhileAsking DEF Rotating
  <2>3. replayed' \subseteq replayed \cup orphaned /\ Fails(t, "unauthorized")
    BY <1>2, <2>2 DEF Rejected
  <2> QED
    BY <2>1, <2>2, <2>3, FailKeepsTokens
<1>3. CASE StorageFails(t)
  <2>1. /\ Untouched /\ replayed' = replayed /\ Fails(t, "storage")
        /\ orphaned' = orphaned \cup Orphans(local[t])
    BY <1>3 DEF StorageFails, Untouched, tokens
  <2>2. Rotating(pc[t], local[t]) => local[t].call = "resolve" /\ local[t].next \in 1 .. issued
    BY DEF TokenInv, AllSound, Sound, Pending, Rotating
  <2>3. Rotating(pc[t], local[t]) => local[t].current \in orphaned'
    BY <2>1, <2>2 DEF Orphans, NoLogin, TokenInv, TokensKnown
  <2> QED
    BY <2>1, <2>3, FailKeepsTokens
<1> QED
  BY <1>1, <1>2, <1>3

LEMMA LoadsKeepTokens ==
  ASSUME ReadInv, TokenInv, NEW t \in Threads, Load(t) \/ Reload(t)
  PROVE  TokenInv'
<1>0. local[t] \in Locals /\ disk \in File /\ Sound(pc[t], local[t], disk)
  BY DEF ReadInv, TokenInv, AllSound
<1>g. Untouched /\ UNCHANGED ghosts
  BY DEF Load, Reload, Untouched, tokens
<1>a. /\ orphaned \subseteq orphaned' /\ replayed' \subseteq replayed \cup orphaned
  BY <1>g DEF ghosts
<1>1. CASE Load(t)
  <2> DEFINE l == [local[t] EXCEPT !.current = disk.login, !.got = disk]
  <2>1. pc[t] = "load" /\ GotoWith(t, AfterLoad(t), l)
    BY <1>1 DEF Load, Current
  <2>2. /\ l.call = local[t].call /\ l.next = local[t].next /\ l.current = disk.login
        /\ l.got = disk /\ l.got.other = disk.other
    BY <1>0 DEF Locals
  <2> HIDE DEF l
  <2>n. ~Rotating(pc[t], local[t])
    BY <2>1 DEF Rotating
  <2>3. local[t].call \in Calls
    BY <2>1, InCall
  <2>4. CASE local[t].call = "resolve" /\ ~NeedsRefresh(disk.login)
    <3>1. AfterLoad(t) = "unlock"
      BY <2>4 DEF AfterLoad, Current
    <3> QED
      BY <1>a, <1>g, <2>1, <2>n, <3>1, Away DEF Resting
  <2>5. CASE local[t].call = "resolve" /\ NeedsRefresh(disk.login)
    <3>1. AfterLoad(t) = "ask"
      BY <2>5 DEF AfterLoad, Current
    <3>2. Sound("ask", l, disk) /\ ~Pending("ask", l)
      BY <2>2, <2>5 DEF Sound, Pending, Rotating, NeedsRefresh
    <3> QED
      BY <1>a, <1>g, <2>1, <2>n, <3>1, <3>2, QuietMove DEF Untouched
  <2>6. CASE local[t].call = "login"
    <3>1. AfterLoad(t) = "reload"
      BY <2>6 DEF AfterLoad
    <3>2. Sound("reload", l, disk) /\ Pending(pc[t], local[t])
      BY <1>0, <2>1, <2>2, <2>6 DEF Sound, Pending, Rotating, Reading
    <3> QED
      BY <1>a, <1>g, <2>1, <2>2, <2>n, <3>1, <3>2, QuietMove DEF Untouched
  <2>7. CASE local[t].call = "logout"
    <3>1. AfterLoad(t) = "store"
      BY <2>7 DEF AfterLoad
    <3>2. Sound("store", l, disk) /\ ~Pending("store", l)
      BY <1>0, <2>1, <2>2, <2>7 DEF Sound, Pending, Rotating, Reading
    <3> QED
      BY <1>a, <1>g, <2>1, <2>n, <3>1, <3>2, QuietMove DEF Untouched
  <2> QED
    BY <2>3, <2>4, <2>5, <2>6, <2>7 DEF Calls
<1>2. CASE Reload(t)
  <2> DEFINE l == [local[t] EXCEPT !.got = disk]
  <2>1. pc[t] = "reload" /\ GotoWith(t, "store", l)
    BY <1>2 DEF Reload, Base
  <2>2. /\ l.call = local[t].call /\ l.next = local[t].next /\ l.current = local[t].current
        /\ l.got = disk /\ l.got.other = disk.other
    BY <1>0 DEF Locals
  <2> HIDE DEF l
  <2>3. /\ Sound("store", l, disk)
        /\ Pending("store", l) => Pending(pc[t], local[t])
        /\ Rotating(pc[t], local[t]) => Rotating("store", l)
    BY <1>0, <2>1, <2>2 DEF Sound, Pending, Rotating, Reading
  <2> QED
    BY <1>a, <1>g, <2>1, <2>2, <2>3, QuietMove DEF Untouched
<1> QED
  BY <1>1, <1>2

(* A new token: a login's own, or the one that replaces the stored login. *)
OwnToken(to, l, k, from) ==
  /\ to = "mutex" /\ l.call = "login" /\ l.next = k
  /\ from = NoLogin /\ spent' = spent

NextToken(to, l, k, from) ==
  /\ from = disk.login /\ disk.login # NoLogin /\ spent' = spent \cup {disk.login}
  /\ \/ to = "reload" /\ l.call = "resolve" /\ l.next = k /\ l.current = disk.login
     \/ to = "unlock" /\ disk.login \in orphaned'
     \/ to = "ask" /\ l.call = "resolve" /\ l.current = disk.login /\ disk.login \in orphaned'

LEMMA Issued ==
  ASSUME ReadInv, TokenInv, NEW t \in Threads, NEW to, NEW l, NEW k \in Tokens, NEW from,
         GotoWith(t, to, l), Issue(k, from), UNCHANGED <<disk, replayed>>,
         orphaned \subseteq orphaned', ~Rotating(pc[t], local[t]),
         OwnToken(to, l, k, from) \/ NextToken(to, l, k, from)
  PROVE  TokenInv'
<1>1. /\ pc'[t] = to /\ local'[t] = l
      /\ \A u \in Threads \ {t} : pc'[u] = pc[u] /\ local'[u] = local[u]
  BY OneMoved
<1>2. /\ issued \in 0 .. MaxTokens /\ spent \subseteq 1 .. issued /\ disk.login \in 0 .. issued
      /\ parent \in [Tokens -> Tokens] /\ MaxTokens \in Nat
  BY StoreAssumption DEF TokenInv, TokensKnown
<1>3. /\ k = issued + 1 /\ issued' = k /\ parent' = [parent EXCEPT ![k] = from]
      /\ k \in 1 .. MaxTokens
  BY <1>2 DEF Issue
<1>4. spent' \subseteq spent \cup {disk.login} /\ (from = NoLogin \/ from = disk.login)
  BY DEF OwnToken, NextToken
<1>5. spent' = spent \/ (disk.login # NoLogin /\ spent' = spent \cup {disk.login})
  BY DEF OwnToken, NextToken
<1>6. TokensKnown'
  <2>1. issued' \in 0 .. MaxTokens /\ disk'.login \in 0 .. issued'
    BY <1>2, <1>3
  <2>2. spent' \subseteq 1 .. issued'
    <3>1. 1 .. issued \subseteq 1 .. issued' /\ (disk.login # 0 => disk.login \in 1 .. issued')
      BY <1>2, <1>3
    <3> QED
      BY <1>2, <1>5, <3>1 DEF NoLogin
  <2>3. from \in Tokens
    <3>1. disk.login \in Tokens
      BY <1>2 DEF Tokens
    <3> QED
      BY <1>4, <3>1, TokensType
  <2> QED
    BY <1>2, <1>3, <2>1, <2>2, <2>3 DEF TokensKnown
<1>7. ASSUME NEW n \in 1 .. issued PROVE parent'[n] = parent[n] /\ n \in 1 .. issued' /\ n # k
  BY <1>2, <1>3 DEF Tokens
<1>8. parent'[k] = from /\ k \in 1 .. issued' /\ k # disk.login /\ k \notin spent'
  BY <1>2, <1>3, <1>4 DEF Tokens
<1>9. ASSUME NEW u \in Threads PROVE Sound(pc[u], local[u], disk)'
  <2>1. CASE u = t
    <3>1. \/ to = "mutex" /\ l.call = "login" /\ l.next = k /\ from = NoLogin
          \/ /\ to = "reload" /\ l.call = "resolve" /\ l.next = k
             /\ l.current = disk.login /\ from = disk.login
          \/ to = "unlock"
          \/ to = "ask" /\ l.call = "resolve" /\ l.current = disk.login /\ disk.login # NoLogin
      BY DEF OwnToken, NextToken
    <3> QED
      BY <1>1, <1>8, <2>1, <3>1 DEF Sound, Pending, Rotating, Reading
  <2>2. CASE u # t
    <3>1. Sound(pc[u], local[u], disk) /\ pc'[u] = pc[u] /\ local'[u] = local[u]
      BY <1>1, <2>2 DEF TokenInv, AllSound
    <3>2. Pending(pc[u], local[u]) =>
            /\ local[u].next \in 1 .. issued' /\ parent'[local[u].next] = parent[local[u].next]
            /\ local[u].next \notin spent'
      BY <1>4, <1>7, <3>1 DEF Sound
    <3> QED
      BY <3>1, <3>2 DEF Sound, Pending, Rotating
  <2> QED
    BY <2>1, <2>2
<1>10. PendingDiffer'
  <2>1. \A u \in Threads \ {t} : Pending(pc'[u], local'[u]) =>
          Pending(pc[u], local[u]) /\ local'[u].next = local[u].next /\ local[u].next # k
    BY <1>1, <1>7 DEF TokenInv, AllSound, Sound
  <2>2. Pending(pc'[t], local'[t]) => local'[t].next = k
    BY <1>1 DEF Pending, Rotating, OwnToken, NextToken
  <2> QED
    BY <2>1, <2>2 DEF TokenInv, PendingDiffer
<1>11. StoredLoginUsable'
  <2>1. CASE disk.login \in orphaned'
    BY <2>1 DEF StoredLoginUsable
  <2>2. CASE to = "reload" /\ l.call = "resolve" /\ l.current = disk.login
    BY <1>1, <2>2 DEF StoredLoginUsable
  <2>3. CASE spent' = spent /\ disk.login \in spent /\ disk.login \notin orphaned'
    <3>1. PICK u \in Threads : Rotating(pc[u], local[u]) /\ local[u].current = disk.login
      BY <2>3 DEF TokenInv, StoredLoginUsable, Rotating
    <3>2. u # t /\ Rotating(pc'[u], local'[u]) /\ local'[u].current = disk'.login
      BY <1>1, <3>1
    <3> QED
      BY <3>2 DEF StoredLoginUsable, Rotating
  <2>4. CASE spent' = spent /\ disk.login \notin spent
    BY <2>4 DEF StoredLoginUsable
  <2> QED
    BY <2>1, <2>2, <2>3, <2>4 DEF OwnToken, NextToken
<1>12. RefreshedOnce'
  BY DEF TokenInv, RefreshedOnce
<1> QED
  BY <1>6, <1>9, <1>10, <1>11, <1>12 DEF TokenInv, AllSound

LEMMA IssuesKeepTokens ==
  ASSUME ReadInv, TokenInv, NEW t \in Threads,
         Login(t) \/ Refreshed(t) \/ AnswerLost(t)
  PROVE  TokenInv'
<1>0. local[t] \in Locals /\ Sound(pc[t], local[t], disk)
  BY DEF ReadInv, TokenInv, AllSound
<1>1. CASE Login(t)
  <2>1. PICK k \in Tokens : /\ Issue(k, NoLogin)
                            /\ GotoWith(t, "mutex", [Called(t, "login") EXCEPT !.next = k])
    BY <1>1 DEF Login
  <2> DEFINE l == [Called(t, "login") EXCEPT !.next = k]
  <2>2. l.call = "login" /\ l.next = k
    BY <1>0 DEF Called, Locals
  <2>3. GotoWith(t, "mutex", l)
    BY <2>1
  <2> HIDE DEF l
  <2>4. UNCHANGED <<disk, replayed, orphaned, spent>> /\ ~Rotating(pc[t], local[t])
    BY <1>1 DEF Login, CanCall, ghosts, Rotating
  <2> QED
    BY <2>1, <2>2, <2>3, <2>4, Issued DEF OwnToken
<1>2. ASSUME pc[t] = "ask"
      PROVE  /\ local[t].call = "resolve" /\ local[t].current = disk.login
             /\ disk.login # NoLogin /\ ~Rotating(pc[t], local[t])
  BY <1>0, <1>2 DEF Sound, Rotating
<1>3. CASE Refreshed(t)
  <2>1. PICK k \in Tokens : /\ Taken(t, k)
                            /\ GotoWith(t, "reload", [local[t] EXCEPT !.next = k, !.tries = 0])
    BY <1>3 DEF Refreshed
  <2> DEFINE l == [local[t] EXCEPT !.next = k, !.tries = 0]
  <2>2. l.call = local[t].call /\ l.next = k /\ l.current = local[t].current
    BY <1>0 DEF Locals
  <2>3. GotoWith(t, "reload", l)
    BY <2>1
  <2> HIDE DEF l
  <2>4. pc[t] = "ask" /\ UNCHANGED <<disk, replayed, orphaned>>
    BY <1>3 DEF Refreshed, ghosts
  <2>5. Issue(k, disk.login) /\ spent' = spent \cup {disk.login}
    BY <1>2, <2>1, <2>4 DEF Taken
  <2> QED
    BY <1>2, <2>2, <2>3, <2>4, <2>5, Issued DEF NextToken
<1>4. CASE AnswerLost(t)
  <2>1. PICK k \in Tokens : Taken(t, k)
    BY <1>4 DEF AnswerLost
  <2>2. /\ pc[t] = "ask" /\ UNCHANGED <<disk, replayed>> /\ NoAnswer(t)
        /\ orphaned' = orphaned \cup {local[t].current}
    BY <1>4 DEF AnswerLost
  <2>3. Issue(k, disk.login) /\ spent' = spent \cup {disk.login} /\ disk.login \in orphaned'
    BY <1>2, <2>1, <2>2 DEF Taken
  <2>4. ASSUME NEW l, GotoWith(t, "ask", l), l.call = "resolve", l.current = local[t].current
        PROVE  TokenInv'
    BY <1>2, <2>2, <2>3, <2>4, Issued DEF NextToken
  <2>5. CASE Fails(t, "transient")
    <3> DEFINE l == [local[t] EXCEPT !.error = "transient", !.got = NoFile, !.raced = FALSE, !.tries = 0]
    <3>1. GotoWith(t, "unlock", l)
      BY <2>5 DEF Fails
    <3> HIDE DEF l
    <3> QED
      BY <1>2, <2>2, <2>3, <3>1, Issued DEF NextToken
  <2> QED
    BY <2>2, <2>4, <2>5, AsksAgain
<1> QED
  BY <1>1, <1>3, <1>4

(* Whoever replaces the file is alone with it, and brings the login it read *)
(* nothing else of or none.                                                 *)
LEMMA Replaced ==
  ASSUME ReadInv, LocksInv, TokenInv, NEW t \in Threads, NEW to \in Resting, NEW l,
         pc[t] = "store", Replace(t), GotoWith(t, to, l),
         UNCHANGED <<spent, issued, parent, replayed, orphaned>>
  PROVE  TokenInv'
<1>1. /\ pc'[t] = to /\ local'[t] = l
      /\ \A u \in Threads \ {t} : pc'[u] = pc[u] /\ local'[u] = local[u]
  BY OneMoved
<1>2. disk'.login = local[t].next
  BY DEF Replace
<1>3. local[t].call \in Calls /\ Sound(pc[t], local[t], disk)
  BY InCall DEF TokenInv, AllSound
<1>4. \/ Pending(pc[t], local[t]) /\ disk'.login \in 1 .. issued /\ disk'.login \notin spent
      \/ disk'.login = NoLogin
  BY <1>2, <1>3 DEF Sound, Pending, Rotating, Calls
<1>5. spent \subseteq 1 .. issued /\ issued \in Nat
  BY StoreAssumption DEF TokenInv, TokensKnown
<1>6. disk'.login \in 0 .. issued /\ disk'.login \notin spent
  BY <1>4, <1>5 DEF NoLogin
<1>7. ASSUME NEW u \in Threads PROVE Sound(pc[u], local[u], disk)'
  <2>1. CASE u = t
    BY <1>1, <2>1 DEF Resting, Sound, Pending, Rotating, Reading
  <2>2. CASE u # t
    <3>1. /\ Sound(pc[u], local[u], disk) /\ pc'[u] = pc[u] /\ local'[u] = local[u]
          /\ pc[u] \notin {"ask", "reload", "store"}
      <4>1. flock = t /\ (pc[u] \in InFile <=> flock = u)
        BY DEF LocksInv, FileLockHeld, InFile, InMutex
      <4>2. pc[u] \notin {"ask", "reload", "store"}
        BY <2>2, <4>1 DEF InFile, InMutex
      <4> QED
        BY <1>1, <2>2, <4>2 DEF TokenInv, AllSound
    <3>2. Pending(pc[u], local[u]) => local[u].next # disk'.login
      <4>1. Pending(pc[u], local[u]) => local[u].next # NoLogin
        BY <3>1 DEF Sound, NoLogin
      <4>2. Pending(pc[u], local[u]) /\ Pending(pc[t], local[t]) => local[u].next # local[t].next
        BY <2>2 DEF TokenInv, PendingDiffer
      <4> QED
        BY <1>2, <1>4, <4>1, <4>2
    <3> QED
      BY <3>1, <3>2 DEF Sound, Pending, Rotating
  <2> QED
    BY <2>1, <2>2
<1>8. PendingDiffer'
  <2>1. ~Pending(to, l)
    BY DEF Resting, Pending, Rotating
  <2> QED
    BY <1>1, <2>1 DEF TokenInv, PendingDiffer
<1>9. StoredLoginUsable' /\ RefreshedOnce' /\ TokensKnown'
  BY <1>6 DEF TokenInv, TokensKnown, StoredLoginUsable, RefreshedOnce
<1> QED
  BY <1>7, <1>8, <1>9 DEF TokenInv, AllSound

LEMMA StoresKeepTokens ==
  ASSUME ReadInv, LocksInv, TokenInv, NEW t \in Threads, Store(t) \/ StoredButFails(t)
  PROVE  TokenInv'
<1>1. CASE Store(t)
  <2> DEFINE l == [local[t] EXCEPT !.got = NoFile, !.raced = FALSE]
  <2>1. /\ GotoWith(t, "uncache", l) /\ pc[t] = "store" /\ Replace(t)
        /\ UNCHANGED <<spent, issued, parent, replayed, orphaned>>
    BY <1>1 DEF Store, tokens, ghosts
  <2> HIDE DEF l
  <2> QED
    BY <2>1, Replaced DEF Resting
<1>2. CASE StoredButFails(t)
  <2> DEFINE l == [local[t] EXCEPT !.error = "storage", !.got = NoFile, !.raced = FALSE, !.tries = 0]
  <2>1. /\ GotoWith(t, "unlock", l) /\ pc[t] = "store" /\ Replace(t)
        /\ UNCHANGED <<spent, issued, parent, replayed, orphaned>>
    BY <1>2 DEF StoredButFails, Fails, tokens, ghosts
  <2> HIDE DEF l
  <2> QED
    BY <2>1, Replaced DEF Resting
<1> QED
  BY <1>1, <1>2

LEMMA OthersKeepTokens ==
  ASSUME ReadInv, TokenInv,
         \/ ForeignWrite
         \/ \E k \in Tokens : ExpiresSoon(k)
         \/ \E p \in Processes : Forget(p) \/ Crash(p)
  PROVE  TokenInv'
<1>1. CASE ForeignWrite
  <2>1. /\ disk'.login = disk.login /\ UNCHANGED <<pc, spent, issued, parent, orphaned, replayed>>
    BY <1>1 DEF ForeignWrite, tokens, ghosts, ReadInv, File
  <2>2. ASSUME NEW t \in Threads
        PROVE  /\ local'[t].call = local[t].call /\ local'[t].next = local[t].next
               /\ local'[t].current = local[t].current
               /\ pc[t] = "store" => local'[t].raced
    <3>1. local'[t] = [local[t] EXCEPT !.raced = @ \/ pc[t] = "store"] /\ local[t] \in Locals
      BY <1>1 DEF ForeignWrite, ReadInv
    <3> QED
      BY <3>1 DEF Locals
  <2>3. ASSUME NEW t \in Threads
        PROVE  /\ Pending(pc[t], local[t])' <=> Pending(pc[t], local[t])
               /\ Rotating(pc[t], local[t])' <=> Rotating(pc[t], local[t])
    BY <2>1, <2>2 DEF Pending, Rotating
  <2>4. ASSUME NEW t \in Threads PROVE Sound(pc[t], local[t], disk)'
    <3>1. Sound(pc[t], local[t], disk)
      BY DEF TokenInv, AllSound
    <3> QED
      BY <2>1, <2>2, <2>3, <3>1 DEF Sound
  <2>5. PendingDiffer'
    BY <2>2, <2>3 DEF TokenInv, PendingDiffer
  <2>6. StoredLoginUsable' /\ RefreshedOnce' /\ TokensKnown'
    BY <2>1, <2>2 DEF TokenInv, TokensKnown, StoredLoginUsable, RefreshedOnce
  <2> QED
    BY <2>4, <2>5, <2>6 DEF TokenInv, AllSound
<1>2. ASSUME NEW p \in Processes, Crash(p) PROVE TokenInv'
  <2> DEFINE dead == {t \in Threads : Mine(t) = p /\ pc[t] # "crashed"}
  <2>1. /\ pc' = [t \in Threads |-> IF t \in dead THEN "crashed" ELSE pc[t]]
        /\ local' = [t \in Threads |-> IF t \in dead THEN NoLocals ELSE local[t]]
        /\ orphaned' = orphaned \cup UNION {Orphans(local[t]) :
                         t \in {u \in dead : pc[u] \in {"reload", "store"}}}
        /\ UNCHANGED <<disk, spent, issued, parent, replayed>>
    BY <1>2 DEF Crash, tokens
  <2>d. dead \subseteq Threads
    OBVIOUS
  <2> HIDE DEF dead
  <2>2. \A t \in Threads : \/ t \in dead /\ pc'[t] = "crashed" /\ local'[t] = NoLocals
                           \/ t \notin dead /\ pc'[t] = pc[t] /\ local'[t] = local[t]
    BY <2>1
  <2>3. Sound("crashed", NoLocals, disk) /\ ~Pending("crashed", NoLocals)
    BY DEF Sound, Pending, Rotating, Reading
  <2>4. ASSUME NEW t \in Threads PROVE Sound(pc[t], local[t], disk)'
    <3>1. CASE t \in dead
      BY <2>1, <2>2, <3>1 DEF Sound, Pending, Rotating, Reading
    <3>2. CASE t \notin dead
      <4>1. Sound(pc[t], local[t], disk) /\ pc'[t] = pc[t] /\ local'[t] = local[t]
        BY <2>2, <3>2 DEF TokenInv, AllSound
      <4> QED
        BY <2>1, <4>1 DEF Sound
    <3> QED
      BY <3>1, <3>2
  <2>5. PendingDiffer'
    BY <2>2, <2>3 DEF TokenInv, PendingDiffer
  <2>6. StoredLoginUsable'
    <3> SUFFICES ASSUME disk.login \in spent, disk.login \notin orphaned'
                 PROVE  \E u \in Threads : Rotating(pc'[u], local'[u]) /\ local'[u].current = disk.login
      BY <2>1 DEF StoredLoginUsable, Rotating
    <3>1. PICK u \in Threads : Rotating(pc[u], local[u]) /\ local[u].current = disk.login
      BY <2>1 DEF TokenInv, StoredLoginUsable, Rotating
    <3>2. CASE u \notin dead
      BY <2>2, <3>1, <3>2
    <3>3. CASE u \in dead
      <4>1. local[u].next \in 1 .. issued /\ local[u].call = "resolve" /\ pc[u] \in {"reload", "store"}
        BY <3>1 DEF TokenInv, AllSound, Sound, Pending, Rotating
      <4>2. Orphans(local[u]) = {disk.login}
        BY <3>1, <4>1 DEF Orphans, NoLogin, TokenInv, TokensKnown
      <4>3. disk.login \in orphaned'
        BY <2>1, <3>3, <4>1, <4>2
      <4> QED
        BY <4>3
    <3> QED
      BY <3>2, <3>3
  <2>7. RefreshedOnce' /\ TokensKnown'
    BY <2>1 DEF TokenInv, TokensKnown, RefreshedOnce
  <2> QED
    BY <2>4, <2>5, <2>6, <2>7 DEF TokenInv, AllSound
<1>3. CASE UNCHANGED <<disk, spent, issued, parent, pc, local, orphaned, replayed>>
  BY <1>3 DEF TokenInv, AllSound, Sound, TokensKnown, PendingDiffer, StoredLoginUsable, RefreshedOnce
<1> QED
  BY <1>1, <1>2, <1>3 DEF Forget, ExpiresSoon, ghosts, tokens

LEMMA TokenNext == ReadInv /\ LocksInv /\ TokenInv /\ [Next]_vars => TokenInv'
<1> SUFFICES ASSUME ReadInv, LocksInv, TokenInv, [Next]_vars PROVE TokenInv'
  OBVIOUS
<1>1. CASE UNCHANGED vars
  BY <1>1 DEF vars, tokens, ghosts, TokenInv, AllSound, Sound, TokensKnown, PendingDiffer,
              StoredLoginUsable, RefreshedOnce
<1>2. CASE Next
  BY <1>2, ReadsKeepTokens, LocksKeepTokens, CallsKeepTokens, QuietAsksKeepTokens,
     LoadsKeepTokens, IssuesKeepTokens, StoresKeepTokens, OthersKeepTokens
     DEF Next, ThreadStep, Asks, Writes
<1> QED
  BY <1>1, <1>2

LEMMA StoreInv == Spec => [](ReadInv /\ LocksInv /\ TokenInv)
BY ReadInit, ReadNext, LocksInit, LocksNext, TokenInit, TokenNext, PTL DEF Spec

(* Refreshing never strands the stored login: the successor of a spent one *)
(* is on its way to the file, unless a fault lost it.                      *)
THEOREM LoginStaysUsable == Spec => []StoredLoginUsable
<1>1. TokenInv => StoredLoginUsable
  BY DEF TokenInv
<1> QED
  BY <1>1, StoreInv, PTL

(* However many threads and processes see the same expiring login, no      *)
(* refresh token goes to the server again after it was answered.           *)
THEOREM RefreshesOnce == Spec => []RefreshedOnce
<1>1. TokenInv => RefreshedOnce
  BY DEF TokenInv
<1> QED
  BY <1>1, StoreInv, PTL

LEMMA OnlyStoresChange ==
  ASSUME ReadInv, [Next]_vars
  PROVE  \/ disk' = disk \/ ForeignWrite
         \/ \E t \in Threads : /\ pc[t] = "store" /\ pc'[t] # "store"
                               /\ Replace(t)
<1>1. ASSUME NEW t \in Threads, Store(t) \/ StoredButFails(t)
      PROVE  pc[t] = "store" /\ pc'[t] # "store" /\ Replace(t)
  BY <1>1 DEF ReadInv, Store, StoredButFails, Fails, GotoWith, Goto
<1> QED
  BY <1>1 DEF vars, Next, ThreadStep, Reads, Judges, Locks, Asks, Writes, Resolve, Login, Logout,
     Stat, Look, ReadFile, Fill, Judge, Refused, Recheck, Done, TakeMutex, MutexTimesOut,
     TakeFileLock, FileLockTimesOut, Unlock, Refreshed, ServerFails, Rejected, AnswerLost,
     StorageFails, Load, Reload, Uncache, ExpiresSoon, Forget, Crash

(* Each step of the store is one of the map's or none.                     *)
LEMMA MapStep ==
  ReadInv /\ TokenInv /\ [Next]_vars =>
    [~RacedStore => [Map!Next]_<<disk.login, disk.other>>]_vars
<1> SUFFICES ASSUME ReadInv, TokenInv, [Next]_vars
             PROVE  [~RacedStore => [Map!Next]_<<disk.login, disk.other>>]_vars
  OBVIOUS
<1>1. CASE disk' = disk
  BY <1>1
<1>2. CASE ForeignWrite
  <2>1. disk'.login = disk.login
    BY <1>2 DEF ForeignWrite, ReadInv, File
  <2> QED
    BY <2>1 DEF Map!Next, Map!OtherChanges
<1>3. ASSUME NEW t \in Threads, pc[t] = "store", pc'[t] # "store", Replace(t), ~RacedStore
      PROVE  Map!Next
  <2>1. disk'.login = local[t].next /\ disk'.other = local[t].got.other
    BY <1>3 DEF Replace
  <2>2. local[t].call \in Calls /\ local[t] \in Locals /\ Sound("store", local[t], disk)
    BY <1>3, InCall DEF TokenInv, AllSound
  <2>3. disk'.other = disk.other
    BY <1>3, <2>1, <2>2 DEF RacedStore, Sound, Locals
  <2>4. disk'.login = NoLogin \/ parent[disk'.login] \in {NoLogin, disk.login}
    BY <2>1, <2>2 DEF Sound, Pending, Rotating, Calls
  <2> QED
    BY <2>3, <2>4 DEF Map!Next, Map!LoginChanges
<1> QED
  BY <1>1, <1>2, <1>3, OnlyStoresChange

(* The file is a map from which a login goes only to its own successor, to *)
(* another login or to none, while the other provider's entry stays.       *)
THEOREM StoreImplementsMap == Spec => ImplementsMap
BY StoreInv, MapStep, PTL DEF Spec, ImplementsMap

-----------------------------------------------------------------------------
(* Refusals.                                                               *)

(* A login that was stored once and is not on its way to the file again;   *)
(* one that the server refuses, or that has been replaced for good.        *)
Past(k) == k \in 1 .. issued /\ \A u \in Threads : Pending(pc[u], local[u]) => local[u].next # k
Seen(k) == k = NoLogin \/ Past(k)
Dead(k) == k \in spent \/ (Past(k) /\ k # disk.login)

Judged(at, l) ==
  /\ l.error # "none" => at \in {"refused", "unlock", "done"}
  /\ l.call = "resolve" /\ at \in {"recheck", "mutex", "done"} \cup InMutex => l.first # NoLogin
  /\ l.call = "resolve" /\ at = "uncache" => l.next # NoLogin
  /\ at = "refused" /\ l.error = "unauthorized" => Dead(l.first)
  /\ at = "ask" => l.current = l.first \/ Dead(l.first)
  /\ l.call = "resolve" /\ at \in {"unlock", "done"} /\ Outcome(l) = "unauthorized" => Dead(l.first)

Fine(at, l) == Seen(l.got.login) /\ Seen(l.first) /\ Judged(at, l)

FailureFine(f) == Seen(f.of) /\ (f.unauthorized => Dead(f.of))

RefusalInv ==
  /\ Seen(disk.login)
  /\ \A p \in Processes : cache[p] # NoCache => Seen(cache[p].file.login)
  /\ failure \in [Processes -> [of : Tokens, unauthorized : BOOLEAN]]
  /\ \A p \in Processes : FailureFine(failure[p])
  /\ \A t \in Threads : Fine(pc[t], local[t])

LEMMA NoFailureType == NoFailure \in [of : Tokens, unauthorized : BOOLEAN]
BY TokensType DEF NoFailure

LEMMA RefusalInit == Init => RefusalInv
<1> SUFFICES ASSUME Init PROVE RefusalInv
  OBVIOUS
<1>1. \A t \in Threads : pc[t] = "idle" /\ local[t] = NoLocals
  BY DEF Init
<1>2. \A t \in Threads : ~Pending(pc[t], local[t])
  BY <1>1 DEF Pending, Rotating
<1>3. Seen(disk.login)
  BY <1>2 DEF Init, Seen, Past
<1>4. Fine("idle", NoLocals)
  BY DEF Fine, Judged, Seen, NoLocals, NoFile, InMutex
<1>5. FailureFine(NoFailure)
  BY DEF FailureFine, Seen, NoFailure
<1> QED
  BY <1>1, <1>3, <1>4, <1>5, NoFailureType DEF Init, RefusalInv

(* A step that issues at most the next token and stores at most what is on *)
(* its way: what was seen stays seen, what is dead stays dead.             *)
Grows ==
  /\ issued \in Nat /\ issued' \in {issued, issued + 1} /\ spent \subseteq spent'
  /\ \A u \in Threads : Pending(pc'[u], local'[u]) =>
       \/ local'[u].next = issued + 1
       \/ \E v \in Threads : Pending(pc[v], local[v]) /\ local[v].next = local'[u].next
  /\ \/ disk'.login \in {disk.login, NoLogin}
     \/ \E v \in Threads : Pending(pc[v], local[v]) /\ local[v].next = disk'.login

LEMMA SeenStays ==
  ASSUME Grows
  PROVE  \A k : (Seen(k) => Seen(k)') /\ (Dead(k) => Dead(k)')
<1> SUFFICES ASSUME NEW k PROVE (Seen(k) => Seen(k)') /\ (Dead(k) => Dead(k)')
  OBVIOUS
<1>1. ASSUME Past(k) PROVE Past(k)'
  <2>1. k \in 1 .. issued' /\ k # issued + 1
    BY <1>1 DEF Past, Grows
  <2>2. ASSUME NEW u \in Threads, Pending(pc'[u], local'[u]) PROVE local'[u].next # k
    BY <1>1, <2>1, <2>2 DEF Past, Grows
  <2> QED
    BY <2>1, <2>2 DEF Past
<1>2. ASSUME Past(k), k # disk.login PROVE k # disk'.login
  <2>1. k # NoLogin
    BY <1>2 DEF Past, Grows, NoLogin
  <2> QED
    BY <1>2, <2>1 DEF Past, Grows
<1> QED
  BY <1>1, <1>2 DEF Seen, Dead, Grows

LEMMA RefusalMove ==
  ASSUME ReadInv, TokenInv, RefusalInv, NEW t \in Threads, NEW to, NEW l, GotoWith(t, to, l),
         issued' \in {issued, issued + 1}, spent \subseteq spent',
         Pending(to, l) => \/ l.next = issued + 1
                           \/ Pending(pc[t], local[t]) /\ l.next = local[t].next,
         \/ disk'.login \in {disk.login, NoLogin}
         \/ Pending(pc[t], local[t]) /\ ~Pending(to, l) /\ disk'.login = local[t].next,
         Fine(to, l),
         \A p \in Processes : cache'[p] # NoCache => Seen(cache'[p].file.login),
         failure' \in [Processes -> [of : Tokens, unauthorized : BOOLEAN]],
         \A p \in Processes : FailureFine(failure'[p])
  PROVE  RefusalInv'
<1>1. /\ pc'[t] = to /\ local'[t] = l
      /\ \A u \in Threads \ {t} : pc'[u] = pc[u] /\ local'[u] = local[u]
  BY OneMoved
<1>2. issued \in Nat
  BY StoreAssumption DEF TokenInv, TokensKnown
<1>3. ASSUME NEW u \in Threads, Pending(pc'[u], local'[u])
      PROVE  \/ local'[u].next = issued + 1
             \/ \E v \in Threads : Pending(pc[v], local[v]) /\ local[v].next = local'[u].next
  <2>1. CASE u = t
    BY <1>1, <1>3, <2>1
  <2>2. CASE u # t
    BY <1>1, <1>3, <2>2
  <2> QED
    BY <2>1, <2>2
<1>4. Grows
  BY <1>2, <1>3 DEF Grows
<1>5. ASSUME NEW k, Seen(k) PROVE Seen(k)'
  BY <1>4, <1>5, SeenStays
<1>6. ASSUME NEW k, Dead(k) PROVE Dead(k)'
  BY <1>4, <1>6, SeenStays
<1>7. Seen(disk.login)'
  <2>1. CASE disk'.login = disk.login
    BY <1>5, <2>1 DEF RefusalInv, Seen, Past
  <2>2. CASE disk'.login = NoLogin
    BY <2>2 DEF Seen
  <2>3. CASE Pending(pc[t], local[t]) /\ ~Pending(to, l) /\ disk'.login = local[t].next
    <3>1. local[t].next \in 1 .. issued'
      BY <1>2, <2>3 DEF TokenInv, AllSound, Sound
    <3>2. ASSUME NEW u \in Threads, Pending(pc'[u], local'[u]) PROVE local'[u].next # local[t].next
      <4>1. u # t /\ Pending(pc[u], local[u]) /\ local'[u].next = local[u].next
        BY <1>1, <2>3, <3>2
      <4> QED
        BY <2>3, <4>1 DEF TokenInv, PendingDiffer
    <3> QED
      BY <2>3, <3>1, <3>2 DEF Seen, Past
  <2> QED
    BY <2>1, <2>2, <2>3
<1>8. ASSUME NEW u \in Threads PROVE Fine(pc[u], local[u])'
  <2>1. Fine(pc'[u], local'[u])
    BY <1>1 DEF RefusalInv
  <2> QED
    BY <1>5, <1>6, <2>1 DEF Fine, Judged
<1>9. ASSUME NEW p \in Processes PROVE FailureFine(failure[p])'
  BY <1>5, <1>6 DEF FailureFine
<1>10. \A p \in Processes : cache'[p] # NoCache => Seen(cache[p].file.login)'
  BY <1>5
<1> QED
  BY <1>7, <1>8, <1>9, <1>10 DEF RefusalInv

(* A step that leaves the file, the caches and the failures alone. *)
LEMMA RefusalSteady ==
  ASSUME ReadInv, TokenInv, RefusalInv, NEW t \in Threads, NEW to, NEW l, GotoWith(t, to, l),
         UNCHANGED <<disk, cache, failure, issued>>, spent \subseteq spent',
         Pending(to, l) => Pending(pc[t], local[t]) /\ l.next = local[t].next,
         Fine(to, l)
  PROVE  RefusalInv'
<1>1. /\ \A p \in Processes : cache'[p] # NoCache => Seen(cache'[p].file.login)
      /\ failure' \in [Processes -> [of : Tokens, unauthorized : BOOLEAN]]
      /\ \A p \in Processes : FailureFine(failure'[p])
  BY DEF RefusalInv
<1> QED
  BY <1>1, RefusalMove

(* A new position with the same call behind it. *)
SameCall(l, m) ==
  /\ l.call = m.call /\ l.first = m.first /\ l.current = m.current /\ l.next = m.next
  /\ l.error = m.error

LEMMA FineReads ==
  ASSUME NEW l, NEW m, NEW at, NEW to, Fine(at, m), SameCall(l, m), Seen(l.got.login),
         at \notin {"refused", "unlock", "done"},
         \/ to \in {"stat", "look", "read", "fill", "judge"}
         \/ to = "recheck" /\ l.first # NoLogin
         \/ to = "mutex" /\ l.first # NoLogin
         \/ to \in {"flock", "load"} /\ at \in {"mutex", "flock"}
         \/ to \in {"reload", "store"} /\ at \in {"load", "ask", "reload"}
  PROVE  Fine(to, l)
BY DEF Fine, Judged, SameCall, InMutex

LEMMA FineHome ==
  ASSUME ReadInv, NEW t \in Threads
  PROVE  LET l == [NoLocals EXCEPT !.calls = local[t].calls]
         IN  Fine("idle", l) /\ ~Pending("idle", l)
<1> DEFINE l == [NoLocals EXCEPT !.calls = local[t].calls]
<1>1. l.got.login = NoLogin /\ l.first = NoLogin /\ l.error = "none"
  BY DEF NoLocals, NoFile
<1> HIDE DEF l
<1>2. Fine("idle", l) /\ ~Pending("idle", l)
  BY <1>1 DEF Fine, Judged, Seen, Pending, Rotating, InMutex
<1> QED
  BY <1>2 DEF l

LEMMA ReadsKeepRefusals ==
  ASSUME ReadInv, TokenInv, RefusalInv, NEW t \in Threads, Reads(t)
  PROVE  RefusalInv'
<1>0. local[t] \in Locals /\ Fine(pc[t], local[t]) /\ Seen(disk.login)
  BY DEF ReadInv, RefusalInv
<1>g. UNCHANGED <<disk, failure, issued, spent>>
  BY DEF Reads, Stat, Look, ReadFile, Fill, tokens
<1>m. Mine(t) \in Processes
  BY StoreAssumption DEF Mine
<1>w. /\ WhichRead(local[t]) \in {"judge", "recheck"}
      /\ WhichRead(local[t]) = "recheck" => local[t].first # NoLogin
  BY DEF WhichRead
<1>p. ASSUME NEW to \in {"look", "read", "fill", "judge", "recheck"}, NEW l, l.call = local[t].call,
             pc[t] \in Reading
      PROVE  ~Pending(to, l)
  BY <1>p DEF Pending, Rotating, TokenInv, AllSound, Sound
<1>1. CASE Stat(t)
  <2> DEFINE l == [local[t] EXCEPT !.stamp = disk.stamp]
  <2>1. SameCall(l, local[t]) /\ l.got = local[t].got
    BY <1>0 DEF SameCall, Locals
  <2>2. GotoWith(t, "look", l) /\ pc[t] = "stat" /\ UNCHANGED cache
    BY <1>1 DEF Stat
  <2> HIDE DEF l
  <2>3. Fine("look", l) /\ ~Pending("look", l)
    BY <1>0, <1>p, <2>1, <2>2, FineReads DEF Fine, SameCall, Reading
  <2> QED
    BY <1>g, <2>2, <2>3, RefusalSteady
<1>2. CASE Look(t) /\ Cached(t)
  <2> DEFINE l == [local[t] EXCEPT !.got = cache[Mine(t)].file]
  <2>1. SameCall(l, local[t]) /\ l.got = cache[Mine(t)].file
    BY <1>0 DEF SameCall, Locals
  <2>2. GotoWith(t, WhichRead(local[t]), l) /\ pc[t] = "look" /\ UNCHANGED cache
    BY <1>2 DEF Look
  <2>3. Seen(l.got.login)
    BY <1>2, <1>m, <2>1 DEF Cached, RefusalInv
  <2> HIDE DEF l
  <2>4. Fine(WhichRead(local[t]), l) /\ ~Pending(WhichRead(local[t]), l)
    BY <1>0, <1>p, <1>w, <2>1, <2>2, <2>3, FineReads DEF SameCall, Reading
  <2> QED
    BY <1>g, <2>2, <2>4, RefusalSteady
<1>3. CASE Look(t) /\ ~Cached(t)
  <2>1. GotoWith(t, "read", local[t]) /\ pc[t] = "look" /\ UNCHANGED cache
    BY <1>3, GoOn DEF Look
  <2>2. Fine("read", local[t]) /\ ~Pending("read", local[t])
    BY <1>0, <1>p, <2>1, FineReads DEF Fine, SameCall, Reading
  <2> QED
    BY <1>g, <2>1, <2>2, RefusalSteady
<1>4. CASE ReadFile(t)
  <2> DEFINE l == [local[t] EXCEPT !.got = disk]
  <2>1. SameCall(l, local[t]) /\ l.got = disk
    BY <1>0 DEF SameCall, Locals
  <2>2. GotoWith(t, "fill", l) /\ pc[t] = "read" /\ UNCHANGED cache
    BY <1>4 DEF ReadFile
  <2> HIDE DEF l
  <2>3. Fine("fill", l) /\ ~Pending("fill", l)
    BY <1>0, <1>p, <2>1, <2>2, FineReads DEF SameCall, Reading
  <2> QED
    BY <1>g, <2>2, <2>3, RefusalSteady
<1>5. CASE Fill(t)
  <2>1. GotoWith(t, WhichRead(local[t]), local[t]) /\ pc[t] = "fill"
    BY <1>5, GoOn DEF Fill
  <2>2. Fine(WhichRead(local[t]), local[t]) /\ ~Pending(WhichRead(local[t]), local[t])
    BY <1>0, <1>p, <1>w, <2>1, FineReads DEF Fine, SameCall, Reading
  <2>3. cache' = [cache EXCEPT ![Mine(t)] = CacheEntry(t)] /\ CacheEntry(t).file = local[t].got
    BY <1>5 DEF Fill, CacheEntry
  <2>4. \A p \in Processes : cache'[p] # NoCache => Seen(cache'[p].file.login)
    BY <1>0, <1>m, <2>3 DEF ReadInv, CachesKept, RefusalInv, Fine
  <2>5. /\ failure' \in [Processes -> [of : Tokens, unauthorized : BOOLEAN]]
        /\ \A p \in Processes : FailureFine(failure'[p])
    BY <1>g DEF RefusalInv
  <2> QED
    BY <1>g, <2>1, <2>2, <2>4, <2>5, RefusalMove
<1> QED
  BY <1>1, <1>2, <1>3, <1>4, <1>5 DEF Reads

(* A failure is forgotten, kept, or replaced by a true one. *)
LEMMA FailuresStay ==
  ASSUME RefusalInv, NEW p \in Processes, NEW f \in [of : Tokens, unauthorized : BOOLEAN],
         FailureFine(f), failure' = failure \/ failure' = [failure EXCEPT ![p] = f]
  PROVE  /\ failure' \in [Processes -> [of : Tokens, unauthorized : BOOLEAN]]
         /\ \A q \in Processes : FailureFine(failure'[q])
BY DEF RefusalInv

LEMMA NoFailureFine == FailureFine(NoFailure)
BY DEF FailureFine, Seen, NoFailure

LEMMA RememberedFine ==
  ASSUME ReadInv, RefusalInv, NEW t \in Threads, pc[t] = "done"
  PROVE  Remembered(t) \in [of : Tokens, unauthorized : BOOLEAN] /\ FailureFine(Remembered(t))
<1>1. local[t].call \in Calls /\ local[t] \in Locals /\ Fine("done", local[t])
  BY InCall DEF RefusalInv
<1>2. Mine(t) \in Processes
  BY StoreAssumption DEF Mine
<1>3. failure[Mine(t)] \in [of : Tokens, unauthorized : BOOLEAN] /\ FailureFine(failure[Mine(t)])
  BY <1>2 DEF RefusalInv
<1>4. /\ Failed(t) \in [of : Tokens, unauthorized : BOOLEAN]
      /\ Failed(t).of = local[t].first
      /\ Failed(t).unauthorized => Outcome(local[t]) = "unauthorized"
  BY <1>1 DEF Failed, Locals
<1>5. CASE local[t].call = "resolve" /\ Outcome(local[t]) # "none"
  <2>1. Remembered(t) = Failed(t)
    BY <1>5 DEF Remembered
  <2> QED
    BY <1>1, <1>4, <1>5, <2>1 DEF Fine, Judged, FailureFine
<1>6. CASE ~(local[t].call = "resolve" /\ Outcome(local[t]) # "none")
  <2>1. Remembered(t) \in {NoFailure, failure[Mine(t)]}
    BY <1>1, <1>6 DEF Remembered, Calls
  <2> QED
    BY <1>3, <2>1, NoFailureType, NoFailureFine
<1> QED
  BY <1>5, <1>6

LEMMA JudgesKeepRefusals ==
  ASSUME ReadInv, TokenInv, RefusalInv, NEW t \in Threads, Judges(t)
  PROVE  RefusalInv'
<1>0. local[t] \in Locals /\ Fine(pc[t], local[t])
  BY DEF ReadInv, RefusalInv
<1>g. UNCHANGED <<disk, cache, issued, spent>>
  BY DEF Judges, Judge, Refused, Recheck, Done, tokens
<1>m. Mine(t) \in Processes
  BY StoreAssumption DEF Mine
<1>c. \A p \in Processes : cache'[p] # NoCache => Seen(cache'[p].file.login)
  BY <1>g DEF RefusalInv
<1>r. pc[t] \in Reading => local[t].call = "resolve"
  BY DEF TokenInv, AllSound, Sound
<1>f. ASSUME NEW f \in [of : Tokens, unauthorized : BOOLEAN], FailureFine(f),
             failure' = failure \/ failure' = [failure EXCEPT ![Mine(t)] = f]
      PROVE  /\ failure' \in [Processes -> [of : Tokens, unauthorized : BOOLEAN]]
             /\ \A p \in Processes : FailureFine(failure'[p])
  BY <1>f, <1>m, FailuresStay
<1>h. ASSUME Return(t), NEW f \in [of : Tokens, unauthorized : BOOLEAN], FailureFine(f),
             failure' = failure \/ failure' = [failure EXCEPT ![Mine(t)] = f]
      PROVE  RefusalInv'
  <2> DEFINE l == [NoLocals EXCEPT !.calls = local[t].calls]
  <2>1. GotoWith(t, "idle", l) /\ Fine("idle", l) /\ ~Pending("idle", l)
    BY <1>h, FineHome DEF Return
  <2> HIDE DEF l
  <2>2. /\ failure' \in [Processes -> [of : Tokens, unauthorized : BOOLEAN]]
        /\ \A p \in Processes : FailureFine(failure'[p])
    BY <1>f, <1>h
  <2> QED
    BY <1>c, <1>g, <2>1, <2>2, RefusalMove
<1>1. CASE Judge(t) /\ Stored(t) = NoLogin
  BY <1>1, <1>h, NoFailureType, NoFailureFine DEF Judge
<1>2. CASE Judge(t) /\ Stored(t) # NoLogin
  <2> DEFINE to == IF Refuses(t) THEN "refused" ELSE "stat"
             err == IF Refuses(t) /\ failure[Mine(t)].unauthorized
                    THEN "unauthorized" ELSE "none"
             l == [local[t] EXCEPT !.first = Stored(t), !.begun = disk.stamp,
                                   !.got = NoFile, !.error = err]
  <2>1. GotoWith(t, to, l) /\ pc[t] = "judge"
    BY <1>2 DEF Judge
  <2>2. /\ to \in {"refused", "stat"} /\ (to = "stat" => err = "none")
        /\ err = "unauthorized" => Refuses(t) /\ failure[Mine(t)].unauthorized
    OBVIOUS
  <2> HIDE DEF to, err
  <2>3. l.call = "resolve" /\ l.first = local[t].got.login /\ l.got = NoFile /\ l.error = err
    BY <1>0, <1>r, <2>1 DEF Locals, Stored, Reading
  <2> HIDE DEF l
  <2>4. Seen(l.first) /\ Seen(l.got.login)
    BY <1>0, <2>3 DEF Fine, Seen, NoFile
  <2>5. err = "unauthorized" => Dead(l.first)
    BY <1>m, <2>2, <2>3 DEF Refuses, Applies, Stored, RefusalInv, FailureFine
  <2>6. Fine(to, l) /\ ~Pending(to, l)
    BY <2>2, <2>3, <2>4, <2>5 DEF Fine, Judged, Pending, Rotating, InMutex
  <2>7. failure' = failure \/ failure' = [failure EXCEPT ![Mine(t)] = NoFailure]
    BY <1>2 DEF Judge
  <2>8. /\ failure' \in [Processes -> [of : Tokens, unauthorized : BOOLEAN]]
        /\ \A p \in Processes : FailureFine(failure'[p])
    BY <1>f, <2>7, NoFailureType, NoFailureFine
  <2> QED
    BY <1>c, <1>g, <2>1, <2>6, <2>8, RefusalMove
<1>3. CASE Refused(t)
  BY <1>3, <1>h, NoFailureType, NoFailureFine DEF Refused
<1>4. CASE Recheck(t) /\ Stored(t) \in stale
  <2> DEFINE l == [local[t] EXCEPT !.begun = 0, !.stamp = 0, !.got = NoFile]
  <2>1. SameCall(l, local[t]) /\ l.got = NoFile
    BY <1>0 DEF SameCall, Locals
  <2>2. GotoWith(t, "mutex", l) /\ pc[t] = "recheck" /\ UNCHANGED failure
    BY <1>4 DEF Recheck
  <2>3. local[t].call = "resolve" /\ local[t].first # NoLogin
    BY <1>0, <1>r, <2>2 DEF Reading, Fine, Judged
  <2> HIDE DEF l
  <2>4. Seen(l.got.login)
    BY <2>1 DEF Seen, NoFile
  <2>5. Fine("mutex", l) /\ ~Pending("mutex", l)
    BY <1>0, <2>1, <2>2, <2>3, <2>4, FineReads DEF SameCall, Pending, Rotating
  <2> QED
    BY <1>g, <2>2, <2>5, RefusalSteady
<1>5. CASE Recheck(t) /\ Stored(t) \notin stale
  BY <1>5, <1>h, NoFailureType, NoFailureFine DEF Recheck
<1>6. CASE Done(t)
  <2>1. pc[t] = "done" /\ Return(t) /\ failure' = [failure EXCEPT ![Mine(t)] = Remembered(t)]
    BY <1>6 DEF Done
  <2>2. Remembered(t) \in [of : Tokens, unauthorized : BOOLEAN] /\ FailureFine(Remembered(t))
    BY <2>1, RememberedFine
  <2> QED
    BY <1>h, <2>1, <2>2
<1> QED
  BY <1>1, <1>2, <1>3, <1>4, <1>5, <1>6 DEF Judges

(* Giving up a call, with an error that is no refusal or a true one. *)
LEMMA FineGivesUp ==
  ASSUME NEW l, NEW m, NEW at, NEW to \in {"unlock", "done"}, Fine(at, m),
         l.first = m.first, l.call = m.call, Seen(l.got.login),
         at \in {"mutex"} \cup InMutex,
         \/ l.error \in {"storage", "transient"}
         \/ l.error = "unauthorized" /\ Dead(l.first)
  PROVE  Fine(to, l)
BY DEF Fine, Judged, Outcome, InMutex

LEMMA FailsFine ==
  ASSUME ReadInv, RefusalInv, NEW t \in Threads, NEW why \in {"storage", "transient", "unauthorized"},
         Fails(t, why), pc[t] \in InMutex, why = "unauthorized" => Dead(local[t].first)
  PROVE  \E l : GotoWith(t, "unlock", l) /\ Fine("unlock", l) /\ ~Pending("unlock", l)
<1> DEFINE l == [local[t] EXCEPT !.error = why, !.got = NoFile, !.raced = FALSE, !.tries = 0]
<1>1. local[t] \in Locals /\ Fine(pc[t], local[t]) /\ GotoWith(t, "unlock", l)
  BY DEF ReadInv, RefusalInv, Fails
<1>2. l.first = local[t].first /\ l.call = local[t].call /\ l.error = why /\ l.got = NoFile
  BY <1>1 DEF Locals
<1> HIDE DEF l
<1>3. Fine("unlock", l) /\ ~Pending("unlock", l)
  BY <1>1, <1>2, FineGivesUp DEF Seen, NoFile, Pending, Rotating
<1> QED
  BY <1>1, <1>3

LEMMA LocksKeepRefusals ==
  ASSUME ReadInv, TokenInv, RefusalInv, NEW t \in Threads, Locks(t) \/ Uncache(t)
  PROVE  RefusalInv'
<1>0. local[t] \in Locals /\ Fine(pc[t], local[t])
  BY DEF ReadInv, RefusalInv
<1>g. UNCHANGED <<disk, failure, issued, spent>>
  BY DEF Locks, TakeMutex, MutexTimesOut, TakeFileLock, FileLockTimesOut, Unlock, Uncache, tokens
<1>1. CASE MutexTimesOut(t) \/ FileLockTimesOut(t)
  <2> DEFINE l == [local[t] EXCEPT !.error = "storage"]
  <2>1. GotoWith(t, "done", l) /\ pc[t] \in {"mutex", "flock"} /\ UNCHANGED cache
    BY <1>1 DEF MutexTimesOut, FileLockTimesOut, TimedOut
  <2>2. /\ l.first = local[t].first /\ l.call = local[t].call /\ l.error = "storage"
        /\ l.got = local[t].got
    BY <1>0 DEF Locals
  <2> HIDE DEF l
  <2>3. Fine("done", l) /\ ~Pending("done", l)
    BY <1>0, <2>1, <2>2, FineGivesUp DEF Fine, InMutex, Pending, Rotating
  <2> QED
    BY <1>g, <2>1, <2>3, RefusalSteady
<1>2. CASE Unlock(t)
  <2>1. GotoWith(t, "done", local[t]) /\ pc[t] = "unlock" /\ UNCHANGED cache
    BY <1>2, GoOn DEF Unlock
  <2>2. Fine("done", local[t]) /\ ~Pending("done", local[t])
    BY <1>0, <2>1 DEF Fine, Judged, InMutex, Pending, Rotating
  <2> QED
    BY <1>g, <2>1, <2>2, RefusalSteady
<1>3. CASE Uncache(t)
  <2>1. GotoWith(t, "done", local[t]) /\ pc[t] = "uncache"
    BY <1>3, GoOn DEF Uncache
  <2>2. Fine("done", local[t]) /\ ~Pending("done", local[t])
    BY <1>0, <2>1 DEF Fine, Judged, Outcome, InMutex, Pending, Rotating
  <2>3. \A p \in Processes : cache'[p] # NoCache => Seen(cache'[p].file.login)
    BY <1>3 DEF Uncache, RefusalInv, ReadInv, CachesKept
  <2>4. /\ failure' \in [Processes -> [of : Tokens, unauthorized : BOOLEAN]]
        /\ \A p \in Processes : FailureFine(failure'[p])
    BY <1>g DEF RefusalInv
  <2> QED
    BY <1>g, <2>1, <2>2, <2>3, <2>4, RefusalMove
<1>4. CASE TakeMutex(t) \/ TakeFileLock(t)
  <2>1. PICK to \in {"flock", "load"} : GotoWith(t, to, local[t])
    BY <1>4, GoOn DEF TakeMutex, TakeFileLock
  <2>2. pc[t] \in {"mutex", "flock"} /\ UNCHANGED cache
    BY <1>4 DEF TakeMutex, TakeFileLock
  <2>3. Fine(to, local[t]) /\ (Pending(to, local[t]) => Pending(pc[t], local[t]))
    BY <1>0, <2>2, FineReads DEF Fine, SameCall, Pending, Rotating
  <2> QED
    BY <1>g, <2>1, <2>2, <2>3, RefusalSteady
<1> QED
  BY <1>1, <1>2, <1>3, <1>4 DEF Locks

LEMMA CalledFine ==
  ASSUME ReadInv, RefusalInv, NEW t \in Threads, NEW call \in Calls, pc[t] = "idle"
  PROVE  /\ Called(t, call).call = call
         /\ Called(t, call).got = local[t].got /\ Called(t, call).first = local[t].first
         /\ Called(t, call).error = "none"
         /\ Seen(local[t].got.login) /\ Seen(local[t].first)
<1>1. local[t] \in Locals /\ Fine(pc[t], local[t])
  BY DEF ReadInv, RefusalInv
<1>2. local[t].error = "none"
  BY <1>1 DEF Fine, Judged
<1> QED
  BY <1>1, <1>2 DEF Called, Locals, Fine

LEMMA CallsKeepRefusals ==
  ASSUME ReadInv, TokenInv, RefusalInv, NEW t \in Threads, Resolve(t) \/ Login(t) \/ Logout(t)
  PROVE  RefusalInv'
<1>g. UNCHANGED <<disk, cache, failure, spent>> /\ pc[t] = "idle"
  BY DEF Resolve, Login, Logout, CanCall, tokens
<1>1. CASE Resolve(t)
  <2> DEFINE l == Called(t, "resolve")
  <2>1. GotoWith(t, "stat", l) /\ issued' = issued
    BY <1>1 DEF Resolve, tokens
  <2>2. Fine("stat", l) /\ ~Pending("stat", l)
    BY <1>g, CalledFine DEF Calls, Fine, Judged, Pending, Rotating, InMutex
  <2> HIDE DEF l
  <2> QED
    BY <1>g, <2>1, <2>2, RefusalSteady
<1>2. CASE Logout(t)
  <2> DEFINE l == Called(t, "logout")
  <2>1. GotoWith(t, "mutex", l) /\ issued' = issued
    BY <1>2 DEF Logout, tokens
  <2>2. Fine("mutex", l) /\ ~Pending("mutex", l)
    BY <1>g, CalledFine DEF Calls, Fine, Judged, Pending, Rotating, InMutex
  <2> HIDE DEF l
  <2> QED
    BY <1>g, <2>1, <2>2, RefusalSteady
<1>3. CASE Login(t)
  <2>0. PICK k \in Tokens : /\ Issue(k, NoLogin)
                            /\ GotoWith(t, "mutex", [Called(t, "login") EXCEPT !.next = k])
    BY <1>3 DEF Login
  <2> DEFINE l == [Called(t, "login") EXCEPT !.next = k]
  <2>1. GotoWith(t, "mutex", l) /\ k = issued + 1 /\ issued' = k
    BY <2>0 DEF Issue
  <2>2. /\ l.call = Called(t, "login").call /\ l.next = k /\ l.got = Called(t, "login").got
        /\ l.first = Called(t, "login").first /\ l.error = Called(t, "login").error
    <3>1. local[t] \in Locals
      BY DEF ReadInv
    <3> QED
      BY <3>1 DEF Called, Locals
  <2> HIDE DEF l
  <2>3. Fine("mutex", l)
    BY <1>g, <2>2, CalledFine DEF Calls, Fine, Judged, InMutex
  <2>4. /\ failure' \in [Processes -> [of : Tokens, unauthorized : BOOLEAN]]
        /\ \A p \in Processes : FailureFine(failure'[p])
        /\ \A p \in Processes : cache'[p] # NoCache => Seen(cache'[p].file.login)
    BY <1>g DEF RefusalInv
  <2> QED
    BY <1>g, <2>1, <2>2, <2>3, <2>4, RefusalMove
<1> QED
  BY <1>1, <1>2, <1>3

LEMMA NoAnswerFine ==
  ASSUME ReadInv, TokenInv, RefusalInv, NEW t \in Threads, pc[t] = "ask", NoAnswer(t)
  PROVE  \E to, l : GotoWith(t, to, l) /\ Fine(to, l) /\ ~Pending(to, l)
<1>1. CASE Fails(t, "transient")
  BY <1>1, FailsFine DEF InMutex
<1>2. CASE GotoWith(t, "ask", [local[t] EXCEPT !.tries = @ + 1])
  <2> DEFINE l == [local[t] EXCEPT !.tries = @ + 1]
  <2>1. local[t] \in Locals /\ Fine("ask", local[t]) /\ GotoWith(t, "ask", l)
    BY <1>2 DEF ReadInv, RefusalInv
  <2>2. SameCall(l, local[t]) /\ l.got = local[t].got
    BY <2>1 DEF SameCall, Locals
  <2> HIDE DEF l
  <2>3. Fine("ask", l)
    BY <2>1, <2>2 DEF Fine, Judged, SameCall, InMutex
  <2>4. l.call = "resolve"
    BY <2>2 DEF SameCall, TokenInv, AllSound, Sound
  <2>5. ~Pending("ask", l)
    BY <2>4 DEF Pending, Rotating
  <2> QED
    BY <2>1, <2>3, <2>5
<1> QED
  BY <1>1, <1>2 DEF NoAnswer

LEMMA AsksKeepRefusals ==
  ASSUME ReadInv, TokenInv, RefusalInv, NEW t \in Threads,
         Asks(t) \/ AnswerLost(t) \/ StorageFails(t)
  PROVE  RefusalInv'
<1>0. local[t] \in Locals /\ Fine(pc[t], local[t])
  BY DEF ReadInv, RefusalInv
<1>g. UNCHANGED <<disk, cache, failure>>
  BY DEF Asks, Refreshed, ServerFails, Rejected, AnswerLost, StorageFails
<1>c. /\ failure' \in [Processes -> [of : Tokens, unauthorized : BOOLEAN]]
      /\ \A p \in Processes : FailureFine(failure'[p])
      /\ \A p \in Processes : cache'[p] # NoCache => Seen(cache'[p].file.login)
  BY <1>g DEF RefusalInv
<1>1. CASE Refreshed(t)
  <2>1. PICK k \in Tokens : /\ Taken(t, k)
                            /\ GotoWith(t, "reload", [local[t] EXCEPT !.next = k, !.tries = 0])
    BY <1>1 DEF Refreshed
  <2> DEFINE l == [local[t] EXCEPT !.next = k, !.tries = 0]
  <2>2. GotoWith(t, "reload", l) /\ issued' = k /\ k = issued + 1 /\ spent \subseteq spent'
    BY <2>1 DEF Taken, Issue
  <2>3. /\ l.call = local[t].call /\ l.next = k /\ l.first = local[t].first
        /\ l.got = local[t].got /\ l.error = local[t].error /\ pc[t] = "ask"
    BY <1>0, <1>1 DEF Locals, Refreshed
  <2> HIDE DEF l
  <2>4. Fine("reload", l)
    BY <1>0, <2>3 DEF Fine, Judged, InMutex
  <2> QED
    BY <1>c, <1>g, <2>2, <2>3, <2>4, RefusalMove
<1>2. CASE ServerFails(t)
  <2>1. pc[t] = "ask" /\ NoAnswer(t) /\ UNCHANGED <<issued, spent>>
    BY <1>2 DEF ServerFails, tokens
  <2>2. PICK to, l : GotoWith(t, to, l) /\ Fine(to, l) /\ ~Pending(to, l)
    BY <2>1, NoAnswerFine
  <2> QED
    BY <1>g, <2>1, <2>2, RefusalSteady
<1>3. CASE AnswerLost(t)
  <2>1. pc[t] = "ask" /\ NoAnswer(t)
    BY <1>3 DEF AnswerLost
  <2>2. PICK to, l : GotoWith(t, to, l) /\ Fine(to, l) /\ ~Pending(to, l)
    BY <2>1, NoAnswerFine
  <2>3. issued' = issued + 1 /\ spent \subseteq spent'
    BY <1>3 DEF AnswerLost, Taken, Issue
  <2> QED
    BY <1>c, <1>g, <2>2, <2>3, RefusalMove
<1>4. CASE Rejected(t)
  <2>1. pc[t] = "ask" /\ local[t].current \in spent /\ Fails(t, "unauthorized") /\ UNCHANGED <<issued, spent>>
    BY <1>4 DEF Rejected, tokens
  <2>2. Dead(local[t].first)
    BY <1>0, <2>1 DEF Fine, Judged, Dead
  <2>3. PICK l : GotoWith(t, "unlock", l) /\ Fine("unlock", l) /\ ~Pending("unlock", l)
    BY <2>1, <2>2, FailsFine DEF InMutex
  <2> QED
    BY <1>g, <2>1, <2>3, RefusalSteady
<1>5. CASE StorageFails(t)
  <2>1. pc[t] \in {"load", "reload", "store"} /\ Fails(t, "storage") /\ UNCHANGED <<issued, spent>>
    BY <1>5 DEF StorageFails, tokens
  <2>2. PICK l : GotoWith(t, "unlock", l) /\ Fine("unlock", l) /\ ~Pending("unlock", l)
    BY <2>1, FailsFine DEF InMutex
  <2> QED
    BY <1>g, <2>1, <2>2, RefusalSteady
<1> QED
  BY <1>1, <1>2, <1>3, <1>4, <1>5 DEF Asks

LEMMA WritesKeepRefusals ==
  ASSUME ReadInv, TokenInv, RefusalInv, NEW t \in Threads,
         Load(t) \/ Reload(t) \/ Store(t) \/ StoredButFails(t)
  PROVE  RefusalInv'
<1>0. local[t] \in Locals /\ Fine(pc[t], local[t]) /\ Seen(disk.login)
  BY DEF ReadInv, RefusalInv
<1>g. UNCHANGED <<cache, failure, issued, spent>>
  BY DEF Load, Reload, Store, StoredButFails, tokens
<1>c. /\ failure' \in [Processes -> [of : Tokens, unauthorized : BOOLEAN]]
      /\ \A p \in Processes : FailureFine(failure'[p])
      /\ \A p \in Processes : cache'[p] # NoCache => Seen(cache'[p].file.login)
  BY <1>g DEF RefusalInv
<1>1. CASE Load(t)
  <2> DEFINE l == [local[t] EXCEPT !.current = disk.login, !.got = disk]
  <2>1. pc[t] = "load" /\ GotoWith(t, AfterLoad(t), l) /\ disk' = disk
    BY <1>1 DEF Load, Current
  <2>2. /\ l.call = local[t].call /\ l.next = local[t].next /\ l.current = disk.login
        /\ l.got = disk /\ l.first = local[t].first /\ l.error = local[t].error
    BY <1>0 DEF Locals
  <2> HIDE DEF l
  <2>3. local[t].call \in Calls /\ l.error = "none" /\ Seen(l.first) /\ Seen(l.got.login)
    BY <1>0, <2>1, <2>2, InCall DEF Fine, Judged
  <2>4. CASE local[t].call = "resolve"
    <3>1. AfterLoad(t) \in {"ask", "unlock"}
      BY <2>4 DEF AfterLoad
    <3>2. l.first # NoLogin /\ (l.current = l.first \/ Dead(l.first))
      BY <1>0, <2>1, <2>2, <2>3, <2>4 DEF Fine, Judged, InMutex, Seen, Dead
    <3>3. Outcome(l) = "unauthorized" => Dead(l.first)
      BY <2>3, <3>2 DEF Outcome
    <3>4. Fine(AfterLoad(t), l) /\ ~Pending(AfterLoad(t), l)
      BY <2>2, <2>3, <2>4, <3>1, <3>2, <3>3 DEF Fine, Judged, Pending, Rotating, InMutex
    <3> QED
      BY <1>g, <2>1, <3>4, RefusalSteady
  <2>5. CASE local[t].call # "resolve"
    <3>1. /\ AfterLoad(t) \in {"reload", "store"}
          /\ AfterLoad(t) = "store" => local[t].call = "logout"
      BY <2>3, <2>5 DEF AfterLoad, Calls
    <3>2. Fine(AfterLoad(t), l) /\ (Pending(AfterLoad(t), l) => Pending(pc[t], local[t]))
      BY <2>1, <2>2, <2>3, <2>5, <3>1 DEF Fine, Judged, Pending, Rotating, InMutex
    <3> QED
      BY <1>g, <2>1, <2>2, <3>2, RefusalSteady
  <2> QED
    BY <2>4, <2>5
<1>2. CASE Reload(t)
  <2> DEFINE l == [local[t] EXCEPT !.got = disk]
  <2>1. pc[t] = "reload" /\ GotoWith(t, "store", l) /\ disk' = disk
    BY <1>2 DEF Reload, Base
  <2>2. SameCall(l, local[t]) /\ l.got = disk
    BY <1>0 DEF SameCall, Locals
  <2> HIDE DEF l
  <2>3. Fine("store", l) /\ (Pending("store", l) => Pending(pc[t], local[t]))
    BY <1>0, <2>1, <2>2, FineReads DEF SameCall, Pending, Rotating
  <2> QED
    BY <1>g, <2>1, <2>2, <2>3, RefusalSteady DEF SameCall
<1>3. ASSUME pc[t] = "store", Replace(t)
      PROVE  \/ disk'.login = NoLogin
             \/ Pending(pc[t], local[t]) /\ disk'.login = local[t].next
  <2>1. local[t].call \in Calls /\ Sound("store", local[t], disk)
    BY <1>3, InCall DEF TokenInv, AllSound
  <2> QED
    BY <1>3, <2>1 DEF Replace, Sound, Pending, Rotating, Calls
<1>4. CASE Store(t)
  <2> DEFINE l == [local[t] EXCEPT !.got = NoFile, !.raced = FALSE]
  <2>1. pc[t] = "store" /\ GotoWith(t, "uncache", l) /\ Replace(t)
    BY <1>4 DEF Store
  <2>2. SameCall(l, local[t]) /\ l.got = NoFile
    BY <1>0 DEF SameCall, Locals
  <2> HIDE DEF l
  <2>3. l.call = "resolve" => l.next # NoLogin
    <3>1. l.call = "resolve" => local[t].next \in 1 .. issued
      BY <2>1, <2>2 DEF SameCall, TokenInv, AllSound, Sound, Pending, Rotating
    <3>2. issued \in Nat
      BY StoreAssumption DEF TokenInv, TokensKnown
    <3> QED
      BY <2>2, <3>1, <3>2 DEF SameCall, NoLogin
  <2>4. Fine("uncache", l) /\ ~Pending("uncache", l)
    BY <1>0, <2>1, <2>2, <2>3 DEF Fine, Judged, SameCall, Seen, NoFile, Pending, Rotating, InMutex
  <2> QED
    BY <1>3, <1>c, <1>g, <2>1, <2>4, RefusalMove
<1>5. CASE StoredButFails(t)
  <2>1. pc[t] = "store" /\ Fails(t, "storage") /\ Replace(t)
    BY <1>5 DEF StoredButFails
  <2>2. PICK l : GotoWith(t, "unlock", l) /\ Fine("unlock", l) /\ ~Pending("unlock", l)
    BY <2>1, FailsFine DEF InMutex
  <2> QED
    BY <1>3, <1>c, <1>g, <2>1, <2>2, RefusalMove
<1> QED
  BY <1>1, <1>2, <1>4, <1>5

(* A step that no thread takes. *)
LEMMA RefusalOthers ==
  ASSUME TokenInv, RefusalInv, disk'.login = disk.login, UNCHANGED <<cache, issued, spent>>,
         \A u \in Threads : /\ Pending(pc'[u], local'[u]) =>
                                 Pending(pc[u], local[u]) /\ local'[u].next = local[u].next
                            /\ Fine(pc'[u], local'[u]),
         failure' \in [Processes -> [of : Tokens, unauthorized : BOOLEAN]],
         \A p \in Processes : FailureFine(failure'[p])
  PROVE  RefusalInv'
<1>1. issued \in Nat
  BY StoreAssumption DEF TokenInv, TokensKnown
<1>2. Grows
  BY <1>1 DEF Grows
<1>3. ASSUME NEW k, Seen(k) PROVE Seen(k)'
  BY <1>2, <1>3, SeenStays
<1>4. ASSUME NEW k, Dead(k) PROVE Dead(k)'
  BY <1>2, <1>4, SeenStays
<1>5. Seen(disk.login)'
  BY <1>3 DEF RefusalInv, Seen, Past
<1>6. \A p \in Processes : cache'[p] # NoCache => Seen(cache[p].file.login)'
  BY <1>3 DEF RefusalInv
<1>7. ASSUME NEW p \in Processes PROVE FailureFine(failure[p])'
  BY <1>3, <1>4 DEF FailureFine
<1>8. ASSUME NEW u \in Threads PROVE Fine(pc[u], local[u])'
  <2>1. Fine(pc'[u], local'[u])
    OBVIOUS
  <2> QED
    BY <1>3, <1>4, <2>1 DEF Fine, Judged
<1> QED
  BY <1>5, <1>6, <1>7, <1>8 DEF RefusalInv

LEMMA OthersKeepRefusals ==
  ASSUME ReadInv, TokenInv, RefusalInv,
         \/ ForeignWrite
         \/ \E k \in Tokens : ExpiresSoon(k)
         \/ \E p \in Processes : Forget(p) \/ Crash(p)
  PROVE  RefusalInv'
<1>f. /\ failure \in [Processes -> [of : Tokens, unauthorized : BOOLEAN]]
      /\ \A p \in Processes : FailureFine(failure[p])
      /\ \A u \in Threads : Fine(pc[u], local[u])
  BY DEF RefusalInv
<1>1. CASE ForeignWrite
  <2>1. disk'.login = disk.login /\ UNCHANGED <<pc, cache, failure, issued, spent>>
    BY <1>1 DEF ForeignWrite, tokens, ReadInv, File
  <2>2. ASSUME NEW u \in Threads
        PROVE  /\ Pending(pc'[u], local'[u]) =>
                    Pending(pc[u], local[u]) /\ local'[u].next = local[u].next
               /\ Fine(pc'[u], local'[u])
    <3>1. local'[u] = [local[u] EXCEPT !.raced = @ \/ pc[u] = "store"] /\ local[u] \in Locals
      BY <1>1 DEF ForeignWrite, ReadInv
    <3>2. /\ local'[u].call = local[u].call /\ local'[u].next = local[u].next
          /\ local'[u].got = local[u].got /\ local'[u].first = local[u].first
          /\ local'[u].current = local[u].current /\ local'[u].error = local[u].error
      BY <3>1 DEF Locals
    <3>3. pc'[u] = pc[u] /\ Fine(pc[u], local[u])
      BY <1>f, <2>1
    <3> QED
      BY <3>2, <3>3 DEF Fine, Judged, Outcome, Pending, Rotating
  <2> QED
    BY <1>f, <2>1, <2>2, RefusalOthers
<1>2. ASSUME NEW p \in Processes, Crash(p) PROVE RefusalInv'
  <2> DEFINE dead == {t \in Threads : Mine(t) = p /\ pc[t] # "crashed"}
  <2>1. /\ pc' = [t \in Threads |-> IF t \in dead THEN "crashed" ELSE pc[t]]
        /\ local' = [t \in Threads |-> IF t \in dead THEN NoLocals ELSE local[t]]
        /\ UNCHANGED <<disk, cache, failure, spent, issued>>
    BY <1>2 DEF Crash, tokens
  <2> HIDE DEF dead
  <2>2. Fine("crashed", NoLocals) /\ ~Pending("crashed", NoLocals)
    BY DEF Fine, Judged, Seen, NoLocals, NoFile, Pending, Rotating, InMutex
  <2>3. ASSUME NEW u \in Threads
        PROVE  /\ Pending(pc'[u], local'[u]) =>
                    Pending(pc[u], local[u]) /\ local'[u].next = local[u].next
               /\ Fine(pc'[u], local'[u])
    <3>1. \/ pc'[u] = "crashed" /\ local'[u] = NoLocals
          \/ pc'[u] = pc[u] /\ local'[u] = local[u]
      BY <2>1
    <3> QED
      BY <1>f, <2>2, <3>1
  <2> QED
    BY <1>f, <2>1, <2>3, RefusalOthers
<1>3. ASSUME NEW p \in Processes, Forget(p) PROVE RefusalInv'
  <2>1. failure' = [failure EXCEPT ![p] = NoFailure] /\ UNCHANGED <<disk, cache, issued, spent, pc, local>>
    BY <1>3 DEF Forget, tokens
  <2>2. /\ failure' \in [Processes -> [of : Tokens, unauthorized : BOOLEAN]]
        /\ \A q \in Processes : FailureFine(failure'[q])
    BY <2>1, FailuresStay, NoFailureFine, NoFailureType
  <2> QED
    BY <1>f, <2>1, <2>2, RefusalOthers
<1>4. ASSUME NEW k \in Tokens, ExpiresSoon(k) PROVE RefusalInv'
  <2>1. UNCHANGED <<disk, cache, failure, issued, spent, pc, local>>
    BY <1>4 DEF ExpiresSoon
  <2> QED
    BY <1>f, <2>1, RefusalOthers
<1> QED
  BY <1>1, <1>2, <1>3, <1>4

LEMMA RefusalNext == ReadInv /\ LocksInv /\ TokenInv /\ RefusalInv /\ [Next]_vars => RefusalInv'
<1> SUFFICES ASSUME ReadInv, LocksInv, TokenInv, RefusalInv, [Next]_vars PROVE RefusalInv'
  OBVIOUS
<1>1. CASE UNCHANGED vars
  <2>1. /\ UNCHANGED <<disk, cache, failure, issued, spent, pc, local>>
        /\ failure \in [Processes -> [of : Tokens, unauthorized : BOOLEAN]]
        /\ \A p \in Processes : FailureFine(failure[p])
        /\ \A u \in Threads : Fine(pc[u], local[u])
    BY <1>1 DEF vars, tokens, RefusalInv
  <2> QED
    BY <2>1, RefusalOthers
<1>2. CASE Next
  BY <1>2, ReadsKeepRefusals, JudgesKeepRefusals, LocksKeepRefusals, CallsKeepRefusals,
     AsksKeepRefusals, WritesKeepRefusals, OthersKeepRefusals
     DEF Next, ThreadStep, Writes
<1> QED
  BY <1>1, <1>2

(* A login completed anywhere is honoured: for any number of threads and   *)
(* processes, a remembered refusal is applied only to a login the server   *)
(* would refuse, or that is stored no longer.                              *)
THEOREM RefusalsAreTrue == Spec => []LoginHonoured
<1>1. Spec => []RefusalInv
  BY StoreInv, RefusalInit, RefusalNext, PTL DEF Spec
<1>2. RefusalInv => LoginHonoured
  BY DEF RefusalInv, Fine, Judged, Dead, LoginHonoured
<1> QED
  BY <1>1, <1>2, PTL
=============================================================================
