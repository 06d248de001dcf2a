---------------------------- MODULE RalphProperties ----------------------------
(* What the users of Ralph loops rely on, in any number of processes.      *)
EXTENDS RalphLoop

Whole(rec, text, run) == rec.run = run /\ text = run

(* A loop that was started and not deleted is there with its task, in use  *)
(* or in the archive, wherever a process dies or a file cannot be written: *)
(* "destination files are committed before sources are removed" (archive). *)
(* An operation that writes what it read before another's write may lose   *)
(* it (crossed): nothing locks the files.                                  *)
LoopKept ==
  \A n \in Loops : promised[n] # 0 /\ ~crossed[n] =>
    \/ Whole(live[n], task[n], promised[n])
    \/ Whole(arch[n], archTask[n], promised[n])

(* Every change of a record is a step of its life: a completed loop comes  *)
(* back by a start only, the count moves one at a time and stops at the    *)
(* limit, whoever reads and writes; but a write based on a record that     *)
(* another overwrote meanwhile undoes that: a stop included.               *)
Record(n) == INSTANCE LoopRecord WITH rec <- live[n]
Overtaken(n) == \E a \in Sessions : op[a].stale /\ op[a].loop = n /\ pc'[a] # pc[a]

RecordFollows ==
  [][\A n \in Loops : ~Overtaken(n) => live'[n] = live[n] \/ Record(n)!Next]_loopVars

(* No iteration's work is skipped and none handed out twice: advancing     *)
(* with a message queued "would produce two prompts and skip an            *)
(* iteration's work" (execute_done_tool).  What is skipped is an iteration *)
(* whose prompt went away: cleared from the queue, gone with its process,  *)
(* or never made because the write of its record reported an error when    *)
(* the file was already replaced (SaveUnsynced).  A loop without an owner  *)
(* is adopted by every session, and each of them advances it.              *)
Before(p) == [p EXCEPT !.it = @ - 1]
Known(p) == p \in worked \cup lost \/ \E s \in Sessions : p \in ToSet(queue[s])

InStep ==
  [][\A s \in Sessions : Len(queue'[s]) > Len(queue[s]) =>
       LET p == Last(queue'[s]) IN
       ~op[s].stale /\ ~crossed[p.loop] /\ live[p.loop].owner # Nobody =>
         /\ ~Known(p)
         /\ p.it = 1 \/ Before(p) \in worked \cup lost]_loopVars
=============================================================================
