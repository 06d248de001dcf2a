---------------------------- MODULE CredentialStore ----------------------------
(***************************************************************************)
(* auth.json (CredentialStore in src/src/catalog.rs) and the OAuth logins  *)
(* in it: threads of several processes read it through a cache and without *)
(* a lock, and change it under an in-process and a cross-process lock.     *)
(* Resolving a login that is about to expire refreshes it at the server    *)
(* while both locks are held (oauth.rs), and the catalog remembers a       *)
(* refresh that failed.                                                    *)
(*                                                                         *)
(* The file has two entries: the login of one OAuth provider, a token, and *)
(* another provider's, a number.  A token stands for one pair of access    *)
(* and refresh token; the server takes a refresh token once.  Every write  *)
(* of the file gives it a new stamp (a new inode); stamp 0 is no file.     *)
(* Foreign writers, such as an editor, know of no lock and change the      *)
(* other entry only.  The in-memory store is not modelled.                 *)
(***************************************************************************)
EXTENDS Naturals

CONSTANTS
  Threads, NoThread,
  Processes, ProcessOf,
  Uses,            \* what each thread calls: resolve (a request), login, logout
  NoCache,
  RefreshRetries,  \* KIMI_REFRESH_MAX_RETRIES; no other provider's refresh retries
  MaxTokens,       \* bound: tokens issued
  MaxCalls,        \* bound: calls of one thread
  MaxExpiries,     \* bound: tokens that come to expire soon
  MaxFaults        \* bound: foreign writes, answers lost, writes that fail, crashes

ASSUME StoreAssumption ==
  /\ ProcessOf \in [Threads -> Processes] /\ NoThread \notin Threads
  /\ Uses \in [Threads -> SUBSET {"resolve", "login", "logout"}]
  /\ RefreshRetries \in Nat /\ MaxTokens \in Nat /\ MaxTokens > 0
  /\ MaxCalls \in Nat /\ MaxExpiries \in Nat /\ MaxFaults \in Nat

NoLogin == 0
Tokens  == 0..MaxTokens

VARIABLES
  disk,            \* auth.json
  writer, flock,   \* per process the holder of CredentialStore::writer; that of the lock file
  cache,           \* per process CredentialStore::cache
  failure,         \* per process the remembered refresh failure
  stale, spent, issued, parent,  \* tokens that expire soon, those whose refresh
                   \* token was taken, the last one issued, what each was refreshed from
  pc, local,       \* the threads
  orphaned, replayed,  \* history: tokens whose successor got lost, and those
                   \* presented again
  expiries, faults

tokens == <<stale, spent, issued, parent>>
locks  == <<writer, flock>>
ghosts == <<orphaned, replayed>>
bounds == <<expiries, faults>>
vars   == <<disk, locks, cache, failure, tokens, pc, local, ghosts, bounds>>

File == [stamp : Nat, login : Tokens, other : Nat]

NoFailure == [of |-> NoLogin, unauthorized |-> FALSE]

NoFile == [stamp |-> 0, login |-> NoLogin, other |-> 0]

NoLocals == [call |-> "none", calls |-> 0, begun |-> 0, stamp |-> 0,
             got |-> NoFile,
             first |-> NoLogin, current |-> NoLogin, next |-> NoLogin,
             tries |-> 0, raced |-> FALSE, error |-> "none"]

Mine(t) == ProcessOf[t]

Init ==
  /\ disk = [stamp |-> 1, login |-> 1, other |-> 0]
  /\ writer = [p \in Processes |-> NoThread] /\ flock = NoThread
  /\ cache = [p \in Processes |-> NoCache]
  /\ failure = [p \in Processes |-> NoFailure]
  /\ stale = {} /\ spent = {} /\ issued = 1
  /\ parent = [k \in Tokens |-> NoLogin]
  /\ pc = [t \in Threads |-> "idle"]
  /\ local = [t \in Threads |-> NoLocals]
  /\ orphaned = {} /\ replayed = {}
  /\ expiries = 0 /\ faults = 0

Goto(t, where) == pc' = [pc EXCEPT ![t] = where]

GotoWith(t, where, l) == Goto(t, where) /\ local' = [local EXCEPT ![t] = l]

Return(t) == GotoWith(t, "idle", [NoLocals EXCEPT !.calls = local[t].calls])

(***************************************************************************)
(* Calls: resolve_auth for a request, a finished login, a logout           *)
(***************************************************************************)
Called(t, call) ==
  [local[t] EXCEPT !.call = call, !.calls = @ + 1,
                   !.begun = IF call = "resolve" THEN disk.stamp ELSE 0]

CanCall(t, call) == call \in Uses[t] /\ pc[t] = "idle" /\ local[t].calls < MaxCalls

Resolve(t) ==
  /\ CanCall(t, "resolve")
  /\ GotoWith(t, "stat", Called(t, "resolve"))
  /\ UNCHANGED <<disk, locks, cache, failure, tokens, ghosts, bounds>>

Issue(k, from) ==
  /\ issued < MaxTokens /\ k = issued + 1
  /\ issued' = k /\ parent' = [parent EXCEPT ![k] = from]

Login(t) ==
  /\ CanCall(t, "login")
  /\ \E k \in Tokens : /\ Issue(k, NoLogin)
                       /\ GotoWith(t, "mutex", [Called(t, "login") EXCEPT !.next = k])
  /\ UNCHANGED <<disk, locks, cache, failure, stale, spent, ghosts, bounds>>

Logout(t) ==
  /\ CanCall(t, "logout")
  /\ GotoWith(t, "mutex", Called(t, "logout"))
  /\ UNCHANGED <<disk, locks, cache, failure, tokens, ghosts, bounds>>

(***************************************************************************)
(* Reading: load_cached_file                                               *)
(***************************************************************************)
Stat(t) ==
  /\ pc[t] = "stat"
  /\ GotoWith(t, "look", [local[t] EXCEPT !.stamp = disk.stamp])
  /\ UNCHANGED <<disk, locks, cache, failure, tokens, ghosts, bounds>>

Cached(t) == cache[Mine(t)] # NoCache /\ cache[Mine(t)].stamp = local[t].stamp

\* The first read is the catalog's, the second resolve_stored_oauth's.
WhichRead(l) == IF l.first = NoLogin THEN "judge" ELSE "recheck"

Look(t) ==
  /\ pc[t] = "look"
  /\ IF Cached(t)
     THEN GotoWith(t, WhichRead(local[t]), [local[t] EXCEPT !.got = cache[Mine(t)].file])
     ELSE Goto(t, "read") /\ UNCHANGED local
  /\ UNCHANGED <<disk, locks, cache, failure, tokens, ghosts, bounds>>

ReadFile(t) ==
  /\ pc[t] = "read"
  /\ GotoWith(t, "fill", [local[t] EXCEPT !.got = disk])
  /\ UNCHANGED <<disk, locks, cache, failure, tokens, ghosts, bounds>>

\* What the cache is filled with: the stamp predates the read.
CacheEntry_bug(t) == [stamp |-> disk.stamp, file |-> local[t].got]
CacheEntry(t) == [stamp |-> local[t].stamp, file |-> local[t].got]

Fill(t) ==
  /\ pc[t] = "fill"
  /\ cache' = [cache EXCEPT ![Mine(t)] = CacheEntry(t)]
  /\ Goto(t, WhichRead(local[t]))
  /\ UNCHANGED <<disk, locks, failure, tokens, local, ghosts, bounds>>

(***************************************************************************)
(* Resolving a login (Catalog::resolve_stored_oauth, then                  *)
(* OAuthClient::resolve_stored_oauth, which reads it again)                *)
(***************************************************************************)
Stored(t) == local[t].got.login

\* A remembered failure concerns the very credential that failed.
Applies_bug(p, k) == failure[p].of # NoLogin
Applies(p, k) == failure[p].of = k

Refuses(t) == Stored(t) \in stale /\ Applies(Mine(t), Stored(t))

Judge(t) ==
  /\ pc[t] = "judge"
  /\ IF Stored(t) = NoLogin
     THEN Return(t) /\ UNCHANGED failure
     ELSE /\ GotoWith(t, IF Refuses(t) THEN "refused" ELSE "stat",
                      [local[t] EXCEPT !.first = Stored(t), !.begun = disk.stamp, !.got = NoFile,
                        !.error = IF Refuses(t) /\ failure[Mine(t)].unauthorized
                                  THEN "unauthorized" ELSE "none"])
          /\ failure' = IF Stored(t) \in stale /\ ~Refuses(t)
                        THEN [failure EXCEPT ![Mine(t)] = NoFailure] ELSE failure
  /\ UNCHANGED <<disk, locks, cache, tokens, ghosts, bounds>>

\* The remembered failure is reported and the server left alone.
Refused(t) ==
  /\ pc[t] = "refused"
  /\ Return(t)
  /\ UNCHANGED <<disk, locks, cache, failure, tokens, ghosts, bounds>>

Recheck(t) ==
  /\ pc[t] = "recheck"
  /\ IF Stored(t) \in stale
     THEN /\ GotoWith(t, "mutex", [local[t] EXCEPT !.begun = 0, !.stamp = 0, !.got = NoFile])
          /\ UNCHANGED failure
     ELSE Return(t) /\ failure' = [failure EXCEPT ![Mine(t)] = NoFailure]
  /\ UNCHANGED <<disk, locks, cache, tokens, ghosts, bounds>>

(***************************************************************************)
(* lock_writers: both locks under one deadline                             *)
(***************************************************************************)
TakeMutex(t) ==
  /\ pc[t] = "mutex" /\ writer[Mine(t)] = NoThread
  /\ writer' = [writer EXCEPT ![Mine(t)] = t]
  /\ Goto(t, "flock")
  /\ UNCHANGED <<disk, flock, cache, failure, tokens, local, ghosts, bounds>>

\* CredentialLockTimeout, a storage error.
TimedOut(t) == GotoWith(t, "done", [local[t] EXCEPT !.error = "storage"])

MutexTimesOut(t) ==
  /\ pc[t] = "mutex" /\ writer[Mine(t)] # NoThread
  /\ TimedOut(t)
  /\ UNCHANGED <<disk, locks, cache, failure, tokens, ghosts, bounds>>

FileLockFree == flock = NoThread

TakeFileLock(t) ==
  /\ pc[t] = "flock" /\ FileLockFree
  /\ flock' = t
  /\ Goto(t, "load")
  /\ UNCHANGED <<disk, writer, cache, failure, tokens, local, ghosts, bounds>>

FreeMutex(t) == writer' = [writer EXCEPT ![Mine(t)] = NoThread]

\* Leaving lock_writers early drops the guard of the in-process lock.
DropGuard_bug(t) == UNCHANGED writer
DropGuard(t) == FreeMutex(t)

FileLockTimesOut(t) ==
  /\ pc[t] = "flock" /\ ~FileLockFree
  /\ DropGuard(t)
  /\ TimedOut(t)
  /\ UNCHANGED <<disk, flock, cache, failure, tokens, ghosts, bounds>>

(***************************************************************************)
(* modify and delete                                                       *)
(***************************************************************************)
\* A refresh looks again under the locks: another process might have rotated
\* the token while this one waited.
NeedsRefresh(k) == k # NoLogin /\ k \in stale

Current_bug(t) == IF local[t].call = "resolve" THEN local[t].first ELSE disk.login
Current(t) == disk.login

AfterLoad(t) ==
  CASE local[t].call = "resolve" -> IF NeedsRefresh(Current(t)) THEN "ask" ELSE "unlock"
    [] local[t].call = "login"   -> "reload"
    [] local[t].call = "logout"  -> "store"

Load(t) ==
  /\ pc[t] = "load"
  /\ GotoWith(t, AfterLoad(t), [local[t] EXCEPT !.current = Current(t), !.got = disk])
  /\ UNCHANGED <<disk, locks, cache, failure, tokens, ghosts, bounds>>

FaultDue == faults < MaxFaults /\ UNCHANGED expiries /\ faults' = faults + 1

Fails(t, error) ==
  GotoWith(t, "unlock", [local[t] EXCEPT !.error = error, !.got = NoFile, !.raced = FALSE, !.tries = 0])

\* The server takes the refresh token and issues the next one.
Taken(t, k) ==
  /\ local[t].current \notin spent
  /\ spent' = spent \cup {local[t].current}
  /\ Issue(k, local[t].current)
  /\ UNCHANGED stale

Refreshed(t) ==
  /\ pc[t] = "ask"
  /\ \E k \in Tokens : /\ Taken(t, k)
                       /\ GotoWith(t, "reload", [local[t] EXCEPT !.next = k, !.tries = 0])
  /\ UNCHANGED <<disk, locks, cache, failure, ghosts, bounds>>

\* No answer: the call fails, or asks again with the same token.
NoAnswer(t) ==
  \/ Fails(t, "transient")
  \/ /\ local[t].tries < RefreshRetries
     /\ GotoWith(t, "ask", [local[t] EXCEPT !.tries = @ + 1])

AnswerLost(t) ==
  /\ pc[t] = "ask" /\ FaultDue
  /\ \E k \in Tokens : Taken(t, k)
  /\ NoAnswer(t)
  /\ orphaned' = orphaned \cup {local[t].current}
  /\ UNCHANGED <<disk, locks, cache, failure, replayed>>

ServerFails(t) ==
  /\ pc[t] = "ask"
  /\ NoAnswer(t)
  /\ UNCHANGED <<disk, locks, cache, failure, tokens, ghosts, bounds>>

Rejected(t) ==
  /\ pc[t] = "ask" /\ local[t].current \in spent
  /\ replayed' = replayed \cup {local[t].current}
  /\ Fails(t, "unauthorized")
  /\ UNCHANGED <<disk, locks, cache, failure, tokens, orphaned, bounds>>

\* The exchange may have taken long: what another writer did meanwhile is read.
Base_bug(t) == local[t].got
Base(t) == disk

Reload(t) ==
  /\ pc[t] = "reload"
  /\ GotoWith(t, "store", [local[t] EXCEPT !.got = Base(t)])
  /\ UNCHANGED <<disk, locks, cache, failure, tokens, ghosts, bounds>>

Replace_bug(t) == disk' = [disk EXCEPT !.stamp = @ + 1, !.other = local[t].got.other]
Replace(t) == disk' = [stamp |-> disk.stamp + 1, login |-> local[t].next,
                       other |-> local[t].got.other]

Store(t) ==
  /\ pc[t] = "store"
  /\ Replace(t)
  /\ GotoWith(t, "uncache", [local[t] EXCEPT !.got = NoFile, !.raced = FALSE])
  /\ UNCHANGED <<locks, cache, failure, tokens, ghosts, bounds>>

Orphans(l) == IF l.call = "resolve" /\ l.next # NoLogin THEN {l.current} ELSE {}

\* A read or the replacement fails.
StorageFails(t) ==
  /\ pc[t] \in {"load", "reload", "store"} /\ FaultDue
  /\ Fails(t, "storage")
  /\ orphaned' = orphaned \cup Orphans(local[t])
  /\ UNCHANGED <<disk, locks, cache, failure, tokens, replayed>>

\* The file is replaced, but its mode cannot be set.
StoredButFails(t) ==
  /\ pc[t] = "store" /\ FaultDue
  /\ Replace(t)
  /\ Fails(t, "storage")
  /\ UNCHANGED <<locks, cache, failure, tokens, ghosts>>

\* WriterGuard drops the file lock first, though nobody can tell.
DropGuards(t) == flock' = NoThread /\ FreeMutex(t)

Uncache(t) ==
  /\ pc[t] = "uncache"
  /\ cache' = [cache EXCEPT ![Mine(t)] = NoCache]
  /\ DropGuards(t)
  /\ Goto(t, "done")
  /\ UNCHANGED <<disk, failure, tokens, local, ghosts, bounds>>

\* Nothing was stored.
Unlock(t) ==
  /\ pc[t] = "unlock"
  /\ DropGuards(t)
  /\ Goto(t, "done")
  /\ UNCHANGED <<disk, cache, failure, tokens, local, ghosts, bounds>>

\* What modify returned: nothing is left to refresh if the login is gone.
Outcome(l) == IF l.error = "none" /\ l.current = NoLogin /\ l.next = NoLogin
              THEN "unauthorized" ELSE l.error

\* The failure of a refresh is remembered with the login the catalog read.
Failed(t) == [of |-> local[t].first, unauthorized |-> Outcome(local[t]) = "unauthorized"]

Remembered(t) ==
  CASE local[t].call = "resolve" -> IF Outcome(local[t]) = "none" THEN NoFailure ELSE Failed(t)
    [] local[t].call = "login"   -> IF local[t].error = "none" THEN NoFailure
                                    ELSE failure[Mine(t)]
    [] local[t].call = "logout"  -> failure[Mine(t)]

Done(t) ==
  /\ pc[t] = "done"
  /\ failure' = [failure EXCEPT ![Mine(t)] = Remembered(t)]
  /\ Return(t)
  /\ UNCHANGED <<disk, locks, cache, tokens, ghosts, bounds>>

(***************************************************************************)
(* Time, other writers, crashes                                            *)
(***************************************************************************)
ExpiresSoon(k) ==
  /\ k \in 1..issued /\ k \notin stale
  /\ stale' = stale \cup {k}
  /\ expiries < MaxExpiries /\ expiries' = expiries + 1
  /\ UNCHANGED <<disk, locks, cache, failure, spent, issued, parent, pc, local, ghosts,
                 faults>>

\* TRANSIENT_OAUTH_FAILURE_TTL is over.
Forget(p) ==
  /\ failure[p] # NoFailure /\ ~failure[p].unauthorized
  /\ failure' = [failure EXCEPT ![p] = NoFailure]
  /\ UNCHANGED <<disk, locks, cache, tokens, pc, local, ghosts, bounds>>

ForeignWrite ==
  /\ FaultDue
  /\ disk' = [disk EXCEPT !.stamp = @ + 1, !.other = @ + 1]
  /\ local' = [t \in Threads |-> [local[t] EXCEPT !.raced = @ \/ pc[t] = "store"]]
  /\ UNCHANGED <<locks, cache, failure, tokens, pc, ghosts>>

\* The operating system drops a dead process's file lock.  A process that dies
\* outside it leaves no more behind than one whose threads take no further step.
Crash(p) ==
  LET dead == {t \in Threads : Mine(t) = p /\ pc[t] # "crashed"} IN
  /\ flock \in dead /\ FaultDue
  /\ pc' = [t \in Threads |-> IF t \in dead THEN "crashed" ELSE pc[t]]
  /\ local' = [t \in Threads |-> IF t \in dead THEN NoLocals ELSE local[t]]
  /\ flock' = NoThread
  /\ writer' = [writer EXCEPT ![p] = NoThread]
  /\ orphaned' = orphaned \cup UNION {Orphans(local[t]) :
                   t \in {u \in dead : pc[u] \in {"reload", "store"}}}
  /\ UNCHANGED <<disk, cache, failure, tokens, replayed>>

Reads(t)   == Stat(t) \/ Look(t) \/ ReadFile(t) \/ Fill(t)
Judges(t)  == Judge(t) \/ Refused(t) \/ Recheck(t) \/ Done(t)
Locks(t)   == TakeMutex(t) \/ MutexTimesOut(t) \/ TakeFileLock(t) \/ FileLockTimesOut(t)
                \/ Unlock(t)
Asks(t)    == Refreshed(t) \/ ServerFails(t) \/ Rejected(t)
Writes(t)  == Load(t) \/ Reload(t) \/ Store(t) \/ Uncache(t)
ThreadStep(t) == Reads(t) \/ Judges(t) \/ Locks(t) \/ Asks(t) \/ Writes(t)

Next ==
  \/ \E t \in Threads : \/ Resolve(t) \/ Login(t) \/ Logout(t)
                        \/ ThreadStep(t)
                        \/ AnswerLost(t) \/ StorageFails(t) \/ StoredButFails(t)
  \/ \E k \in Tokens : ExpiresSoon(k)
  \/ \E p \in Processes : Forget(p) \/ Crash(p)
  \/ ForeignWrite

Spec == Init /\ [][Next]_vars
=============================================================================
