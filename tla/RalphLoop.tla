------------------------------- MODULE RalphLoop -------------------------------
(***************************************************************************)
(* Ralph loops (ralph.rs, ralph_runtime.rs): the records and task files    *)
(* below .ralph, which sessions and `goshcoder ralph` on the same          *)
(* workspace read, change and write back without a lock.  A session is     *)
(* one actor: its interface refuses to change a loop while its agent runs, *)
(* and the Ralph tools run one at a time.  A process of the command line   *)
(* is a session that gives one command and dies.                           *)
(*                                                                         *)
(* Left out: what a task says, reflection and pacing hints, the system     *)
(* prompt, commands that only look, records that cannot be read.  `run`    *)
(* stands for started_at.                                                  *)
(***************************************************************************)
EXTENDS Naturals, Sequences, FiniteSets, SequencesExt

CONSTANTS
  Sessions,
  Loops,      \* names, numbered in their lexical order
  Limit,      \* max_iterations of every loop, 0 for none
  MaxMoves,   \* bound: commands, turns, calls of the tools and breaks
  MaxBreaks   \* bound: processes that die, writes that fail

ASSUME LoopsAssumption == Loops \subseteq Nat \ {0} /\ IsFiniteSet(Loops)
ASSUME LoopBoundsAssumption == {Limit, MaxMoves, MaxBreaks} \subseteq Nat

NoLoop == 0
NoText == 0
Nobody == "nobody"

Absent == [status |-> "none", it |-> 0, owner |-> Nobody, run |-> 0]

VARIABLES
  live, task,      \* the record and the text of every loop
  arch, archTask,  \* those in the archive
  current,         \* Store::current of every actor
  queue,           \* the follow-up queue of every session
  pc, op,          \* what an actor is at, and the operation it is in
  worked, lost,    \* history: iterations a session worked on, those whose prompt
                   \* went away or, the record's write failing late, never came
  promised,        \* history: per loop the run that was started and not deleted
  crossed,         \* history: loops written by one whose copy was overtaken
  moves, breaks

files  == <<live, task, arch, archTask>>
ghosts == <<worked, lost>>
counts == <<moves, breaks>>
loopVars == <<files, current, queue, pc, op, ghosts, promised, crossed, counts>>

\* Between two operations: no run, within a turn, after one.
Resting == {"idle", "call", "after"}

NoOp == [kind |-> "none", loop |-> NoLoop, rec |-> Absent, text |-> NoText,
         rest |-> <<>>, back |-> "idle", stale |-> FALSE]

PromptOf(n, rec) == [loop |-> n, run |-> rec.run, it |-> rec.it]

\* A workspace without loops, or with one under way whose record names no owner.
Legacy == [status |-> "active", it |-> IF Limit = 1 THEN 1 ELSE 2, owner |-> Nobody, run |-> 1]

LoopsInit ==
  /\ \E old \in {Absent, Legacy} : \E n \in Loops :
       /\ live = [k \in Loops |-> IF k = n THEN old ELSE Absent]
       /\ task = [k \in Loops |-> IF k = n THEN old.run ELSE NoText]
       /\ promised = [k \in Loops |-> IF k = n THEN old.run ELSE 0]
       /\ worked = IF old = Absent THEN {} ELSE {PromptOf(n, old)}
  /\ arch = [n \in Loops |-> Absent] /\ archTask = [n \in Loops |-> NoText]
  /\ current = [a \in Sessions |-> NoLoop] /\ queue = [s \in Sessions |-> <<>>]
  /\ pc = [a \in Sessions |-> "idle"] /\ op = [a \in Sessions |-> NoOp]
  /\ lost = {}
  /\ crossed = [n \in Loops |-> FALSE]
  /\ moves = 0 /\ breaks = 0

-----------------------------------------------------------------------------
(* Operations: a first step that reads, then the stages listed.            *)
BeginOp(a, kind, n, rec, stages, back) ==
  /\ pc' = [pc EXCEPT ![a] = Head(stages)]
  /\ op' = [op EXCEPT ![a] = [kind |-> kind, loop |-> n, rec |-> rec, text |-> NoText,
                              rest |-> Tail(stages), back |-> back, stale |-> FALSE]]
  /\ UNCHANGED crossed

\* A command of the interface ends with sync_agent.
Synced(back) == IF back = "idle" THEN <<"sync">> ELSE <<>>

LeaveOp(a, to) ==
  pc' = [pc EXCEPT ![a] = to] /\ op' = [op EXCEPT ![a] = NoOp]

Pop(o) == IF o.rest = <<>> THEN NoOp ELSE [o EXCEPT !.rest = Tail(@)]

\* On to the next stage, or back to where the operation began.
NextPlace(o) == Head(Append(o.rest, o.back))
NextStage(a) == pc' = [pc EXCEPT ![a] = NextPlace(op[a])] /\ op' = [op EXCEPT ![a] = Pop(@)]

\* a wrote a file of its loop, and goes on as o at `to`: others in an operation
\* on that loop fall behind.
Overtakes(a, o, to) ==
  LET n == op[a].loop IN
  /\ op' = [b \in Sessions |-> IF b = a THEN o
                              ELSE [op[b] EXCEPT !.stale = @ \/ op[b].loop = n]]
  /\ crossed' = [crossed EXCEPT ![n] = @ \/ op[a].stale]
  /\ pc' = [pc EXCEPT ![a] = to]

Wrote(a) == Overtakes(a, Pop(op[a]), NextPlace(op[a]))

Points(a, n) == current' = [current EXCEPT ![a] = n]
ClearIf(a, n) == Points(a, IF current[a] = n THEN NoLoop ELSE current[a])

OwnedBy(a, rec) == rec.owner \in {Nobody, a}
Mine(a, n) == live[n].status = "active" /\ OwnedBy(a, live[n])

\* Store::current: the remembered loop if it is still ours, else the first that is.
CurrentOf(a) ==
  IF current[a] # NoLoop /\ Mine(a, current[a]) THEN current[a]
  ELSE IF \E n \in Loops : Mine(a, n) THEN Min({n \in Loops : Mine(a, n)}) ELSE NoLoop

Move == moves + breaks < MaxMoves /\ moves' = moves + 1 /\ UNCHANGED breaks

Untouched == UNCHANGED <<files, queue, ghosts, promised>>

-----------------------------------------------------------------------------
(* start, as a command or by the tool ralph_start.                         *)
StartLoad(a, n) ==
  /\ pc[a] \in {"idle", "call"} /\ Move
  /\ live[n].status \in {"none", "completed"}
  /\ BeginOp(a, "start", n, [status |-> "active", it |-> 1, owner |-> a, run |-> moves + 2],
             <<"text", "save">> \o Synced(pc[a]) \o <<"prompt">>, pc[a])
  /\ Untouched /\ UNCHANGED current

WriteTask(a) ==
  /\ pc[a] = "text"
  /\ task' = [task EXCEPT ![op[a].loop] = op[a].rec.run]
  /\ promised' = [promised EXCEPT ![op[a].loop] = 0]
  /\ Wrote(a)
  /\ UNCHANGED <<live, arch, archTask, current, queue, ghosts, counts>>

\* Where the session's current loop points once the record is written.
AfterSave(a) ==
  IF op[a].kind \in {"start", "resume"} THEN Points(a, op[a].loop)
  ELSE IF op[a].kind = "advance" THEN UNCHANGED current
  ELSE ClearIf(a, op[a].loop)

ReplaceRecord(a) ==
  LET n == op[a].loop IN
  /\ pc[a] = "save"
  /\ live' = [live EXCEPT ![n] = op[a].rec]
  /\ promised' = IF op[a].kind = "start" THEN [promised EXCEPT ![n] = op[a].rec.run] ELSE promised
  /\ UNCHANGED <<task, arch, archTask, queue>>

SaveRecord(a) ==
  LET p == PromptOf(op[a].loop, op[a].rec) IN
  /\ ReplaceRecord(a)
  /\ AfterSave(a)
  /\ worked' = IF op[a].kind = "resume" THEN worked \cup {p} ELSE worked
  /\ Wrote(a)
  /\ UNCHANGED <<lost, counts>>

SyncAgent(a) ==
  /\ pc[a] = "sync"
  /\ Points(a, CurrentOf(a))
  /\ NextStage(a)
  /\ Untouched /\ UNCHANGED <<crossed, counts>>

\* Only ralph_start has the text at hand.
CanPrompt(a) ==
  (op[a].kind = "start" /\ op[a].back = "call") \/ task[op[a].loop] # NoText

\* A command begins the first turn itself, the tools leave the agent a prompt.
HandOver(a) ==
  LET p == PromptOf(op[a].loop, op[a].rec) IN
  /\ pc[a] = "prompt" /\ CanPrompt(a)
  /\ IF op[a].back = "idle"
     THEN LeaveOp(a, "call") /\ worked' = worked \cup {p} /\ UNCHANGED queue
     ELSE NextStage(a) /\ queue' = [queue EXCEPT ![a] = Append(@, p)] /\ UNCHANGED worked
  /\ UNCHANGED <<files, current, lost, promised, crossed, counts>>

\* A loop whose task cannot be read is paused.
NoTask(a) ==
  /\ pc[a] = "prompt" /\ ~CanPrompt(a)
  /\ IF op[a].kind = "start" THEN LeaveOp(a, "idle")
     ELSE /\ pc' = [pc EXCEPT ![a] = "save"]
          /\ op' = [op EXCEPT ![a].kind = "pause", ![a].rec.status = "paused"]
  /\ UNCHANGED <<files, current, queue, ghosts, promised, crossed, counts>>

-----------------------------------------------------------------------------
(* resume and stop.                                                        *)
CanResume_bug(rec) == rec.status # "none"
CanResume(rec) == rec.status \in {"active", "paused"}

ResumeLoad(a, n) ==
  /\ pc[a] = "idle" /\ CanResume(live[n]) /\ Move
  /\ BeginOp(a, "resume", n, [live[n] EXCEPT !.status = "active", !.owner = a], <<"save", "sync">>, "idle")
  /\ Untouched /\ UNCHANGED current

Completes(a, n, back) ==
  BeginOp(a, "complete", n, [live[n] EXCEPT !.status = "completed"],
          <<"save">> \o Synced(back), back)

StopLoad(a, n) ==
  /\ pc[a] = "idle" /\ live[n].status # "none" /\ Move
  /\ Completes(a, n, "idle")
  /\ Untouched /\ UNCHANGED current

StopCurrent(a) ==
  /\ pc[a] = "idle" /\ CurrentOf(a) # NoLoop /\ Move
  /\ Points(a, CurrentOf(a))
  /\ Completes(a, CurrentOf(a), "idle")
  /\ Untouched

-----------------------------------------------------------------------------
(* archive and delete.                                                     *)
\* The copies are in place before the originals go.
ArchiveStages_bug == <<"drop", "drop_text", "keep_text", "keep">>
ArchiveStages == <<"keep_text", "keep", "drop", "drop_text">>

ArchiveLoad(a, n) ==
  /\ pc[a] = "idle" /\ live[n].status # "none" /\ Move
  /\ BeginOp(a, "archive", n, live[n], <<"fetch">> \o ArchiveStages \o <<"sync">>, "idle")
  /\ Untouched /\ UNCHANGED current

ArchiveRead(a) ==
  /\ pc[a] = "fetch"
  /\ IF task[op[a].loop] = NoText THEN LeaveOp(a, "idle")
     ELSE /\ pc' = [pc EXCEPT ![a] = Head(op[a].rest)]
          /\ op' = [op EXCEPT ![a].rest = Tail(@), ![a].text = task[op[a].loop]]
  /\ Untouched /\ UNCHANGED <<current, crossed, counts>>

ArchiveText(a) ==
  /\ pc[a] = "keep_text"
  /\ archTask' = [archTask EXCEPT ![op[a].loop] = op[a].text]
  /\ Wrote(a)
  /\ UNCHANGED <<live, task, arch, current, queue, ghosts, promised, counts>>

ArchiveRecord(a) ==
  /\ pc[a] = "keep"
  /\ arch' = [arch EXCEPT ![op[a].loop] = op[a].rec]
  /\ Wrote(a)
  /\ UNCHANGED <<live, task, archTask, current, queue, ghosts, promised, counts>>

DeleteLoad(a, n) ==
  /\ pc[a] = "idle" /\ live[n].status # "none" /\ Move
  /\ BeginOp(a, "delete", n, live[n], <<"drop", "drop_text", "sync">>, "idle")
  /\ Untouched /\ UNCHANGED current

DropRecord(a) ==
  LET n == op[a].loop IN
  /\ pc[a] = "drop"
  /\ live' = [live EXCEPT ![n] = Absent]
  /\ promised' = IF op[a].kind = "delete" THEN [promised EXCEPT ![n] = 0] ELSE promised
  /\ Wrote(a)
  /\ UNCHANGED <<task, arch, archTask, current, queue, ghosts, counts>>

DropTask(a) ==
  /\ pc[a] = "drop_text"
  /\ task' = [task EXCEPT ![op[a].loop] = NoText]
  /\ ClearIf(a, op[a].loop)
  /\ Wrote(a)
  /\ UNCHANGED <<live, arch, archTask, queue, ghosts, promised, counts>>

-----------------------------------------------------------------------------
(* The agent: turns, ralph_done and the completion marker.                 *)
Goes(s, to) == pc' = [pc EXCEPT ![s] = to] /\ UNCHANGED op

\* The prompt is preceded by sync_agent.
UserPrompt(s) ==
  /\ pc[s] = "idle" /\ Move
  /\ Goes(s, "call") /\ Points(s, CurrentOf(s))
  /\ Untouched /\ UNCHANGED crossed

\* The run goes on with a queued prompt, or a later one does.
Deliver(s) ==
  /\ pc[s] \in {"idle", "after"} /\ queue[s] # <<>> /\ Move
  /\ Goes(s, "call")
  /\ queue' = [queue EXCEPT ![s] = Tail(@)]
  /\ worked' = worked \cup {Head(queue[s])}
  /\ UNCHANGED <<files, current, lost, promised, crossed>>

\* The results of the turn's tools are sent.
Continue(s) ==
  /\ pc[s] = "after" /\ Move
  /\ Goes(s, "call")
  /\ Untouched /\ UNCHANGED <<current, crossed>>

RunStops(s) ==
  /\ pc[s] = "after" /\ queue[s] = <<>>
  /\ Goes(s, "idle")
  /\ Untouched /\ UNCHANGED <<current, crossed, counts>>

HasQueued_bug(s) == FALSE
HasQueued(s) == queue[s] # <<>>

Iterate(s, n) ==
  LET next == [live[n] EXCEPT !.it = @ + 1] IN
  IF Limit > 0 /\ next.it > Limit
  THEN BeginOp(s, "complete", n, [next EXCEPT !.status = "completed"], <<"save">>, "call")
  ELSE BeginOp(s, "advance", n, next, <<"save", "prompt">>, "call")

RalphDone(s) ==
  /\ pc[s] = "call" /\ Move
  /\ Points(s, CurrentOf(s))
  /\ IF CurrentOf(s) = NoLoop \/ HasQueued(s) THEN UNCHANGED <<pc, op, crossed>>
     ELSE Iterate(s, CurrentOf(s))
  /\ Untouched

\* prepare_next_turn, without and with the completion marker.
TurnEnds(s) ==
  /\ pc[s] = "call"
  /\ Points(s, CurrentOf(s))
  /\ \/ Goes(s, "after") /\ UNCHANGED crossed
     \/ CurrentOf(s) # NoLoop /\ Completes(s, CurrentOf(s), "after")
  /\ Untouched /\ UNCHANGED counts

\* A reply that failed leaves the loop alone.
TurnFails(s) ==
  /\ pc[s] = "call"
  /\ Goes(s, "idle")
  /\ Untouched /\ UNCHANGED <<current, crossed, counts>>

\* A compaction, or the interface that takes queued prompts back.
QueueCleared(s) ==
  /\ pc[s] \in Resting /\ queue[s] # <<>> /\ Move
  /\ queue' = [queue EXCEPT ![s] = <<>>]
  /\ lost' = lost \cup ToSet(queue[s])
  /\ UNCHANGED <<files, current, pc, op, worked, promised, crossed>>

-----------------------------------------------------------------------------
(* Faults.                                                                 *)
Break ==
  /\ breaks < MaxBreaks /\ moves + breaks < MaxMoves
  /\ breaks' = breaks + 1 /\ UNCHANGED moves

Dies(a) ==
  /\ pc[a] # "dead" /\ Break
  /\ LeaveOp(a, "dead") /\ Points(a, NoLoop)
  /\ queue' = [queue EXCEPT ![a] = <<>>]
  /\ lost' = lost \cup ToSet(queue[a])
  /\ UNCHANGED <<files, worked, promised, crossed>>

\* The record is in place but its directory cannot be synced: that is an error
\* too, so the operation gives up and the prompt of the record never comes to be.
SaveUnsynced(a) ==
  LET p == PromptOf(op[a].loop, op[a].rec) IN
  /\ ReplaceRecord(a) /\ Break
  /\ lost' = IF op[a].kind \in {"start", "advance", "resume"} THEN lost \cup {p} ELSE lost
  /\ Overtakes(a, NoOp, op[a].back)
  /\ UNCHANGED <<current, worked>>

\* A file cannot be written or removed; the operation gives up.  (One that is
\* in place when the sync fails, the task or a copy, is the next stage failing.)
StageFails(a) ==
  /\ pc[a] \in {"text", "save", "keep_text", "keep", "drop", "drop_text"} /\ Break
  /\ LeaveOp(a, op[a].back)
  /\ UNCHANGED <<files, current, queue, ghosts, promised, crossed>>

-----------------------------------------------------------------------------
Loads(a) == \E n \in Loops : StartLoad(a, n) \/ ResumeLoad(a, n) \/ StopLoad(a, n)
                                \/ ArchiveLoad(a, n) \/ DeleteLoad(a, n)
Writing(a) == WriteTask(a) \/ SaveRecord(a) \/ ArchiveRead(a) \/ ArchiveText(a)
                \/ ArchiveRecord(a) \/ DropRecord(a) \/ DropTask(a)
                \/ SyncAgent(a)
Agent(s) == UserPrompt(s) \/ Deliver(s) \/ Continue(s) \/ RunStops(s) \/ RalphDone(s)
              \/ TurnEnds(s) \/ TurnFails(s) \/ QueueCleared(s)
              \/ HandOver(s) \/ NoTask(s)

LoopsNext ==
  \E s \in Sessions : Loads(s) \/ StopCurrent(s) \/ Writing(s) \/ Agent(s)
                       \/ Dies(s) \/ StageFails(s) \/ SaveUnsynced(s)

LoopsSpec == LoopsInit /\ [][LoopsNext]_loopVars
=============================================================================
