------------------------- MODULE CredentialProperties -------------------------
(***************************************************************************)
(* What the users of auth.json rely on.                                    *)
(***************************************************************************)
EXTENDS CredentialStore

InMutex == {"flock", "load", "ask", "reload", "store", "uncache", "unlock"}
InFile  == InMutex \ {"flock"}

(* Writers are serialized across threads and processes, and no lock is     *)
(* left behind when a wait times out, a step fails or a process dies.      *)
WritersExclusive ==
  /\ \A t, u \in Threads : pc[t] \in InFile /\ pc[u] \in InFile => t = u
  /\ (\A t \in Threads : pc[t] \notin InFile) => flock = NoThread
  /\ \A p \in Processes : (\A t \in Threads : ProcessOf[t] = p => pc[t] \notin InMutex)
                            => writer[p] = NoThread

(* A cache whose stamp is the file's has the file's contents, so a write   *)
(* "invalidates this entry on the next stat instead of hiding": a read     *)
(* without a lock returns what the file held at some time during it.       *)
CacheCurrent ==
  \A p \in Processes : cache[p] # NoCache =>
    /\ cache[p].stamp <= cache[p].file.stamp
    /\ cache[p].stamp = disk.stamp => cache[p].file = disk

ReadsAreFresh ==
  \A t \in Threads : pc[t] \in {"judge", "recheck"} => local[t].got.stamp >= local[t].begun

(* The login in the file can still be refreshed: its successor is on the   *)
(* way to the file, unless the server's answer or the write got lost.      *)
StoredLoginUsable ==
  disk.login \in spent =>
    \/ disk.login \in orphaned
    \/ \E t \in Threads : /\ pc[t] \in {"reload", "store"}
                          /\ local[t].call = "resolve" /\ local[t].current = disk.login

(* "Another process might have rotated this token": no refresh token is    *)
(* presented again once the server answered it.                            *)
RefreshedOnce == replayed \subseteq orphaned

(* A login completed anywhere is honoured without a restart: a process     *)
(* that remembers a refusal applies it only to a login the server really   *)
(* would refuse, or that is no longer stored.                              *)
LoginHonoured ==
  \A t \in Threads : (pc[t] = "refused" /\ local[t].error = "unauthorized")
    => local[t].first \in spent \/ local[t].first # disk.login

(* The file is a CredentialMap, except that a foreign write between the    *)
(* last read and the replacement is lost.                                  *)
Map == INSTANCE CredentialMap WITH
         login <- disk.login, other <- disk.other, refreshedFrom <- parent
RacedStore == \E t \in Threads : pc[t] = "store" /\ local[t].raced /\ pc'[t] # "store"
ImplementsMap == [][~RacedStore => [Map!Next]_<<disk.login, disk.other>>]_vars
=============================================================================
