---------------------------- MODULE SessionRuntime ----------------------------
(***************************************************************************)
(* The session runtime (src/src/session.rs): a Recorder that writes every  *)
(* event of the agent to the open session, the fold that restores the      *)
(* agent's transcript from a session's tree of entries, and the operations *)
(* that rewind, switch, copy and resume sessions.                          *)
(*                                                                         *)
(* A session file is its sequence of entries; an entry is named by its     *)
(* line and 0 is "no entry".  One prompt thread runs beside the interface, *)
(* which does one operation at a time; a rewind and a change of session    *)
(* take several steps, with those of the prompt thread in between.  Labels,*)
(* names and settings add entries that the transcript does not show and    *)
(* are left out; who may write a file is SessionClaim's subject.           *)
(***************************************************************************)
EXTENDS Naturals, SequencesExt

CONSTANTS
  Sessions,     \* the session files there may be
  First,        \* the one the program starts with
  MaxSaid,      \* bound: messages, summaries, notes, resets and restarts
  MaxFaults,    \* bound: lines that cannot be written
  MaxEvents     \* bound: all of these together

ASSUME FirstAssumption == First \in Sessions

VARIABLES
  log,       \* the entries of each session file
  files,     \* the sessions whose file exists
  cur,       \* the session the recorder writes
  leaf,      \* its write head
  keep,      \* closing it leaves its file in place
  stopped,   \* recording has failed and ended
  context,   \* the agent's transcript
  turn,      \* the prompt thread: what it does and the messages it works from
  ui,        \* the interface: the rewind or change of session it is at
  said, faults,   \* counters for the bounds
  apart      \* history: file and transcript have parted, see Parting below

file == <<log, files, cur, leaf, keep, stopped>>
vars == <<file, context, turn, ui, said, faults, apart>>

UserKinds == {"user", "summary", "branch"}   \* all have the role "user"
Message == [kind : UserKinds \cup {"reply", "failed"}, n : 1..MaxSaid]
Nothing == [kind |-> "reset", n |-> 0]

Line(kind, parent, msg, kept) ==
  [kind |-> kind, parent |-> parent, msg |-> msg, kept |-> kept]

-----------------------------------------------------------------------------
(* The tree of a file's entries                                            *)

\* What s has of S, in its order.
Filtered(s, S) ==
  LET has[i \in 0..Len(s)] == IF i = 0 THEN <<>>
                              ELSE IF s[i] \in S THEN Append(has[i - 1], s[i]) ELSE has[i - 1]
  IN has[Len(s)]

LinesOf(es, kind) == {i \in DOMAIN es : es[i].kind = kind}

\* The lines from the root to l.
Path(es, l) ==
  LET path[i \in 0..Len(es)] == IF i = 0 THEN <<>> ELSE Append(path[es[i].parent], i)
  IN path[l]

Markers(es, p) == {i \in DOMAIN p : es[p[i]].kind \in {"reset", "compaction"}}

\* What the compaction at place i of the path p kept of what was before it.
Retained(es, p, i) ==
  LET from == {k \in 1..i-1 : p[k] = es[p[i]].kept}
  IN IF from = {} THEN <<>> ELSE SubSeq(p, Min(from), i - 1)

\* The newest marker wins.
ContextPath(es, l) ==
  LET p == Path(es, l)
      i == Max(Markers(es, p))
  IN IF Markers(es, p) = {} THEN p
     ELSE IF es[p[i]].kind = "reset" THEN SubSeq(p, i + 1, Len(p))
     ELSE <<p[i]>> \o Retained(es, p, i) \o SubSeq(p, i + 1, Len(p))

\* The transcript a branch restores to.
Restore(es, l) ==
  LET shown == Filtered(ContextPath(es, l), DOMAIN es \ LinesOf(es, "reset"))
  IN [i \in DOMAIN shown |-> es[shown[i]].msg]

\* The line of the first retained message, if the retained ones are the newest
\* messages of the branch.
RetainedTail_bug(es, l, retained) ==
  LET told == Filtered(Path(es, l), LinesOf(es, "message"))
  IN IF Len(told) < Len(retained) THEN 0 ELSE told[Len(told) - Len(retained) + 1]
RetainedTail(es, l, retained) ==
  LET told == Filtered(Path(es, l), LinesOf(es, "message"))
      skip == Len(told) - Len(retained)
  IN IF /\ Len(told) >= Len(retained)
        /\ \A i \in DOMAIN retained : es[told[skip + i]].msg = retained[i]
     THEN told[skip + 1] ELSE 0

\* The lines of a compaction: a marker that points back at the retained tail,
\* or at copies written before it.
CutLines(es, l, summary, retained) ==
  LET tail == RetainedTail(es, l, retained)
      copies == [i \in DOMAIN retained |->
                   Line("message", IF i = 1 THEN l ELSE Len(es) + i - 1, retained[i], 0)]
  IN IF tail # 0 THEN <<Line("compaction", l, summary, tail)>>
     ELSE copies \o <<Line("compaction", Len(es) + Len(copies), summary, Len(es) + 1)>>

\* From an entry to the tip of its branch, by the newest child.
LatestTip(es, t) ==
  LET children(i) == {j \in DOMAIN es : es[j].parent = i}
      tip[i \in DOMAIN es] == IF children(i) = {} THEN i ELSE tip[Max(children(i))]
  IN tip[t]

BranchPoints(es) == {i \in DOMAIN es : es[i].kind = "message" /\ es[i].msg.kind \in UserKinds}

\* A new file with the entries of one branch.
Copied(es, l) ==
  LET p == Path(es, l)
      place(i) == Max({k \in DOMAIN p : p[k] = i} \cup {0})
  IN [k \in DOMAIN p |-> Line(es[p[k]].kind, k - 1, es[p[k]].msg, place(es[p[k]].kept))]

WriteHead(es) == Len(es)

-----------------------------------------------------------------------------
Idling == [at |-> "idle", snap |-> <<>>, then |-> "idle"]
Free == [at |-> "free", session |-> First, ms |-> <<>>, leaf |-> 0, leaves |-> FALSE]

Init ==
  /\ log = [s \in Sessions |-> <<>>]
  /\ files = {First} /\ cur = First /\ leaf = 0 /\ keep = FALSE /\ stopped = FALSE
  /\ context = <<>> /\ turn = Idling /\ ui = Free
  /\ said = 0 /\ faults = 0 /\ apart = FALSE

\* Bounds: there is room for one more message, for one more fault.
Room == said < MaxSaid /\ said + faults < MaxEvents
FaultDue == faults < MaxFaults /\ said + faults < MaxEvents

\* The agent's is_streaming.
Streaming == turn.at \in {"recording", "waiting"}

-----------------------------------------------------------------------------
(* Recorder::mutate with lines to append at the write head.  A line that   *)
(* cannot be written stops the recording; one that is too large is refused *)
(* and the recording goes on without it.                                   *)
Put(lines) ==
  /\ log' = [log EXCEPT ![cur] = @ \o lines]
  /\ leaf' = IF lines = <<>> THEN leaf ELSE Len(log[cur]) + Len(lines)

Written(lines) == ~stopped /\ Put(lines) /\ UNCHANGED <<stopped, faults>>

Failing(lines) ==
  /\ ~stopped /\ FaultDue
  /\ faults' = faults + 1
  /\ \E k \in 0..Len(lines)-1 : Put(SubSeq(lines, 1, k))

Stops(lines) == Failing(lines) /\ stopped' = TRUE
TooLarge(lines) == Failing(lines) /\ UNCHANGED stopped
Unrecorded == stopped /\ UNCHANGED <<log, leaf, stopped, faults>>

Record(lines) ==
  /\ Written(lines) \/ Stops(lines) \/ Unrecorded
  /\ UNCHANGED <<files, cur, keep>>

(* Parting, the first way: what is recorded after the branch was read that *)
(* is about to become the transcript, or goes to the session being left.   *)
Between == ui.at \in {"restored", "swap"}

\* Messages can be of any size.
RecordSpeech(lines) ==
  \/ Record(lines) /\ apart' = (apart \/ Between)
  \/ TooLarge(lines) /\ apart' = TRUE /\ UNCHANGED <<files, cur, keep>>

-----------------------------------------------------------------------------
(* The prompt thread.  The transcript is changed first and the listeners   *)
(* are told afterwards, by the same thread.  The interface starts it when  *)
(* it is between operations.                                               *)
Submit ==
  /\ turn.at = "idle" /\ ui.at = "free"
  /\ turn' = [Idling EXCEPT !.at = "ready"]
  /\ UNCHANGED <<file, context, ui, said, faults, apart>>

Say(kind) ==
  /\ Room
  /\ said' = said + 1
  /\ LET message == [kind |-> kind, n |-> said + 1]
     IN /\ context' = Append(context, message)
        /\ turn' = [Idling EXCEPT !.at = "recording", !.snap = <<message>>]
  /\ UNCHANGED <<file, ui, faults, apart>>

\* The prompt, or a message queued while the run went on.
Prompt == turn.at \in {"ready", "ended"} /\ Say("user")
Reply == turn.at = "waiting" /\ (Say("reply") \/ Say("failed"))

\* MessageEnd.
RecordMessage ==
  /\ turn.at = "recording"
  /\ RecordSpeech(<<Line("message", leaf, Head(turn.snap), 0)>>)
  /\ turn' = [Idling EXCEPT !.at = IF Head(turn.snap).kind = "user" THEN "waiting" ELSE "ended"]
  /\ UNCHANGED <<context, ui, said>>

\* finish_run looks at the transcript: a reply that failed, or was cut short,
\* is answered after a wait or left as the last word.
Conclude ==
  /\ turn.at = "ended"
  /\ \/ turn' = Idling
     \/ /\ context # <<>> /\ Last(context).kind = "failed"
        /\ turn' = [Idling EXCEPT !.at = "backoff", !.snap = context]
  /\ UNCHANGED <<file, context, ui, said, faults, apart>>

(* Parting, the second way: the transcript is put back to what the thread  *)
(* remembers, whatever has happened meanwhile.  What the interface is      *)
(* about to replace does not count.                                        *)
Stale == ui.at \notin {"restored", "opened"} /\ context # turn.snap

DropReply == context' = Front(turn.snap) /\ apart' = (apart \/ Stale)

Retry ==
  /\ turn.at = "backoff"
  /\ DropReply
  /\ turn' = [Idling EXCEPT !.at = "resuming"]
  /\ UNCHANGED <<file, ui, said, faults>>

CancelRetry ==
  /\ turn.at = "backoff"
  /\ turn' = Idling
  /\ UNCHANGED <<file, context, ui, said, faults, apart>>

\* continue_run goes on from a transcript that awaits a reply.
Resume ==
  /\ turn.at = "resuming"
  /\ turn' = [Idling EXCEPT !.at = IF context # <<>> /\ Last(context).kind \in UserKinds
                                   THEN "waiting" ELSE "idle"]
  /\ UNCHANGED <<file, context, ui, said, faults, apart>>

\* Recovery from an overflow: drop the reply, compact, continue.
Overflow ==
  /\ turn.at = "backoff"
  /\ DropReply
  /\ turn' = [Idling EXCEPT !.at = "shrinking", !.then = "resuming"]
  /\ UNCHANGED <<file, ui, said, faults>>

\* Where the history may be cut: before a user turn.
Cuts(ms) == {i \in 2..Len(ms) : Len(ms) >= 3 /\ ms[i].kind \in UserKinds}

\* A compaction begins with a request for the summary, unless there is too
\* little to cut.
Summarise ==
  /\ turn.at = "shrinking"
  /\ turn' = IF Cuts(context) = {} THEN Idling
             ELSE [turn EXCEPT !.at = "summarising", !.snap = context]
  /\ UNCHANGED <<file, context, ui, said, faults, apart>>

\* /compact, and the compaction before a prompt or after a turn.
Compact ==
  /\ turn.at \in {"ready", "ended"} /\ Cuts(context) # {}
  /\ \E then \in {"idle", "ready"} :
       turn' = [at |-> "summarising", snap |-> context, then |-> then]
  /\ UNCHANGED <<file, context, ui, said, faults, apart>>

CompactionFails ==
  /\ turn.at = "summarising"
  /\ turn' = Idling
  /\ UNCHANGED <<file, context, ui, said, faults, apart>>

(* Parting, the third way: only the lengths are compared, so the cut of    *)
(* one conversation may be applied to another that took its place.         *)
Unchanged == Len(context) = Len(turn.snap)

Cut ==
  /\ turn.at = "summarising" /\ Room
  /\ Unchanged /\ apart' = (apart \/ Stale)
  /\ \E i \in Cuts(turn.snap) :
       context' = <<[kind |-> "summary", n |-> said + 1]>>
                    \o SubSeq(turn.snap, i, Len(turn.snap))
  /\ said' = said + 1
  /\ turn' = [turn EXCEPT !.at = "cut", !.snap = context']
  /\ UNCHANGED <<file, ui, faults>>

\* ContextCompacted.
RecordCut ==
  /\ turn.at = "cut"
  /\ RecordSpeech(CutLines(log[cur], leaf, Head(turn.snap), Tail(turn.snap)))
  /\ turn' = [Idling EXCEPT !.at = turn.then]
  /\ UNCHANGED <<context, ui, said>>

-----------------------------------------------------------------------------
(* The interface.  require_idle looks at is_streaming only, and once: an   *)
(* operation is accepted while the thread summarises or waits, and the     *)
(* thread may go on before it is over.                                     *)
Idle == ~Streaming
Recording == ~stopped

Reset ==
  /\ ui.at = "free"
  /\ ~Streaming /\ turn.at # "cut" /\ Room
  /\ said' = said + 1
  /\ context' = <<>>
  /\ Record(<<Line("reset", leaf, Nothing, 0)>>)
  /\ UNCHANGED <<turn, ui, apart>>

\* fork_to, switch_to, clone_session or import_session is accepted.
BeginMove ==
  /\ ui.at = "free" /\ Recording /\ Idle
  /\ \E move \in {"rewind", "open"} : ui' = [ui EXCEPT !.at = move]
  /\ UNCHANGED <<file, context, turn, said, faults, apart>>

\* There is no such point, or no such session, or its file cannot be opened.
GiveUp ==
  /\ ui.at \in {"rewind", "open"}
  /\ ui' = Free
  /\ UNCHANGED <<file, context, turn, said, faults, apart>>

\* A point on the branch is left behind, one off the branch returned to.
Target(t) ==
  LET es == log[cur]
  IN IF Contains(Path(es, leaf), t) THEN es[t].parent ELSE LatestTip(es, t)

Leaves(target) == ~IsPrefix(Path(log[cur], leaf), Path(log[cur], target))

PlanFork(t) ==
  /\ ui.at = "rewind" /\ t \in BranchPoints(log[cur])
  /\ ui' = [ui EXCEPT !.at = "planned", !.leaf = Target(t), !.leaves = Leaves(Target(t))]
  /\ UNCHANGED <<file, context, turn, said, faults, apart>>

\* The write head moves, and a note tells what it left.
Note == Line("branch", ui.leaf, [kind |-> "branch", n |-> said + 1], 0)
Moved == IF ui.leaves THEN Append(log[cur], Note) ELSE log[cur]

MoveLeaf ==
  /\ ui.at = "planned" /\ ~stopped /\ Room
  /\ log' = [log EXCEPT ![cur] = Moved]
  /\ leaf' = IF ui.leaves THEN Len(Moved) ELSE ui.leaf
  /\ ui' = [ui EXCEPT !.at = "moved"]
  /\ said' = said + 1
  /\ UNCHANGED <<files, cur, keep, stopped, context, turn, faults, apart>>

\* The recording has stopped, or the note cannot be written or synchronised:
\* the write head may have moved, the transcript stays.
MoveFails ==
  /\ ui.at = "planned"
  /\ \/ stopped /\ UNCHANGED <<log, leaf, faults>>
     \/ /\ ~stopped /\ FaultDue /\ said < MaxSaid
        /\ faults' = faults + 1
        /\ \/ ui.leaves /\ leaf' = ui.leaf /\ UNCHANGED log
           \/ log' = [log EXCEPT ![cur] = Moved] /\ leaf' = IF ui.leaves THEN Len(Moved) ELSE ui.leaf
  /\ stopped' = TRUE /\ ui' = Free
  /\ said' = IF log' = log THEN said ELSE said + 1
  /\ UNCHANGED <<files, cur, keep, context, turn, apart>>

\* restored(): what was recorded up to here is read back.
ReadBranch ==
  /\ ui.at = "moved"
  /\ ui' = [ui EXCEPT !.at = "restored", !.ms = Restore(log[cur], leaf)]
  /\ apart' = FALSE
  /\ UNCHANGED <<file, context, turn, said, faults>>

\* The file of the session to change to has been opened or written.
Open(s, es) ==
  /\ ui.at = "open"
  /\ log' = [log EXCEPT ![s] = es]
  /\ files' = files \cup {s}
  /\ ui' = [ui EXCEPT !.at = "opened", !.session = s, !.ms = Restore(es, Len(es))]
  /\ apart' = FALSE
  /\ UNCHANGED <<cur, leaf, keep, stopped, context, turn, said, faults>>

SwitchTo(s) == s \in files \ {cur} /\ Open(s, log[s])
CopyInto(s, es) == ~stopped /\ s \notin files /\ Open(s, es)
CloneSession(s) == CopyInto(s, Copied(log[cur], leaf))
ImportSession(s, from) == from \in files /\ CopyInto(s, Copied(log[from], Len(log[from])))

(* Parting, the fourth way: the transcript is replaced while a change of   *)
(* it is still on its way to the recorder.                                 *)
SetContext ==
  /\ ui.at \in {"restored", "opened"}
  /\ context' = ui.ms
  /\ apart' = (apart \/ turn.at \in {"recording", "cut"})
  /\ ui' = IF ui.at = "restored" THEN Free ELSE [ui EXCEPT !.at = "swap"]
  /\ UNCHANGED <<file, turn, said, faults>>

\* Closing a session without a reply removes its file.
HasReply(es) == \E i \in DOMAIN es : es[i].msg.kind \in {"reply", "failed"}
Closed == IF keep \/ HasReply(log[cur]) THEN files ELSE files \ {cur}

\* The recorder gets the new writer, the old one is closed.
Swap ==
  /\ ui.at = "swap"
  /\ log' = [s \in Sessions |-> IF s \in Closed THEN log[s] ELSE <<>>]
  /\ files' = Closed
  /\ cur' = ui.session /\ leaf' = WriteHead(log[cur']) /\ keep' = TRUE /\ stopped' = FALSE
  /\ ui' = Free
  /\ UNCHANGED <<context, turn, said, faults, apart>>

\* The process ends, closing the session between two operations or not at all,
\* and another resumes a session.
Restart(s, kept) ==
  /\ Room
  /\ said' = said + 1
  /\ \/ kept = files
     \/ kept = Closed /\ ui.at = "free"
  /\ s \in kept
  /\ log' = [x \in Sessions |-> IF x \in kept THEN log[x] ELSE <<>>]
  /\ files' = kept
  /\ cur' = s /\ leaf' = WriteHead(log[s]) /\ keep' = TRUE /\ stopped' = FALSE
  /\ context' = Restore(log[s], Len(log[s]))
  /\ turn' = Idling /\ ui' = Free /\ apart' = FALSE
  /\ UNCHANGED faults

-----------------------------------------------------------------------------
PromptStep ==
  \/ Submit \/ Prompt \/ Reply \/ RecordMessage \/ Conclude
  \/ Retry \/ CancelRetry \/ Resume \/ Overflow
  \/ Summarise \/ Compact \/ CompactionFails \/ Cut \/ RecordCut

InterfaceStep ==
  \/ Reset \/ BeginMove \/ GiveUp
  \/ \E t \in BranchPoints(log[cur]) : PlanFork(t)
  \/ MoveLeaf \/ MoveFails \/ ReadBranch
  \/ \E s \in Sessions : SwitchTo(s) \/ CloneSession(s) \/ \E from \in files : ImportSession(s, from)
  \/ SetContext \/ Swap

Next == PromptStep \/ InterfaceStep \/ \E s \in Sessions : Restart(s, files) \/ Restart(s, Closed)

Spec == Init /\ [][Next]_vars
=============================================================================
