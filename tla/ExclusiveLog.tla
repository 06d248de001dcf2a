----------------------------- MODULE ExclusiveLog -----------------------------
(***************************************************************************)
(* What a session claim is for: one writer at a time, entries appended by  *)
(* that writer only and never taken away, except that a writer may throw   *)
(* away a session nobody has replied to when it leaves.                    *)
(***************************************************************************)
EXTENDS Integers, Sequences

CONSTANTS Nobody, Author(_), Reply(_)

VARIABLES holder, entries

Init == holder = Nobody /\ entries = <<>>

Enter  == holder = Nobody /\ holder' # Nobody /\ entries' = entries
Write  == /\ holder # Nobody /\ holder' = holder
          /\ Len(entries') = Len(entries) + 1
          /\ entries = SubSeq(entries', 1, Len(entries))
          /\ Author(entries'[Len(entries')]) = holder
Leave  == /\ holder # Nobody /\ holder' = Nobody
          /\ \/ entries' = entries
             \/ /\ entries' = <<>>
                /\ \A i \in DOMAIN entries : ~Reply(entries[i])

Next == Enter \/ Write \/ Leave

Spec == Init /\ [][Next]_<<holder, entries>>
=============================================================================
