-------------------------- MODULE TurnPolicyProofs --------------------------
(***************************************************************************)
(* The turn policy's type correctness, its budget of requests and the end  *)
(* of a wait by Esc, for any number of prompts, retries and messages.      *)
(***************************************************************************)
EXTENDS TurnPolicyProperties, TLAPS

-----------------------------------------------------------------------------
(* Type correctness.                                                       *)

LEMMA EntriesType ==
  /\ \A r \in Replies : r \in Entries
  /\ "user" \in Entries /\ "marker" \in Entries
  /\ Errors \subseteq Replies /\ "aborted" \in Replies
BY DEF Entries, Replies, Errors

LEMMA NoLocalsType == NoLocals \in Locals
<1>1. <<>> \in Seq(Entries)
  OBVIOUS
<1> QED
  BY <1>1, TurnPolicyAssumption DEF NoLocals, Locals, Reasons

LEMMA FrontType ==
  ASSUME NEW S, NEW s \in Seq(S)
  PROVE  Front(s) \in Seq(S)
BY DEF Front

(* Most positions ask for nothing.                                         *)
LEMMA NothingToPrepare ==
  ASSUME NEW at, NEW l, at \notin {"arm", "pause", "drop", "shed", "compact"}
  PROVE  Prepared(at, l)
BY DEF Prepared

(* What Finish and GotoWith leave is typed when what they store is.        *)
LEMMA FinishType ==
  ASSUME TypeOK, NEW p \in Prompts, Finish(p)
  PROVE  /\ pc' \in [Prompts -> Positions] /\ local' \in [Prompts -> Locals]
         /\ result' \in BOOLEAN
         /\ \A q \in Prompts : Prepared(pc'[q], local'[q])
BY NoLocalsType DEF TypeOK, Finish, Positions, Prepared

LEMMA GotoType ==
  ASSUME TypeOK, NEW p \in Prompts, NEW where \in Positions, NEW l \in Locals,
         Prepared(where, l),
         GotoWith(p, where, l)
  PROVE  /\ pc' \in [Prompts -> Positions] /\ local' \in [Prompts -> Locals]
         /\ result' \in BOOLEAN
         /\ \A q \in Prompts : Prepared(pc'[q], local'[q])
BY DEF TypeOK, GotoWith

LEMMA PlainGotoType ==
  ASSUME TypeOK, NEW p \in Prompts, NEW where \in Positions, NEW l \in Locals,
         where \notin {"arm", "pause", "drop", "shed", "compact"},
         GotoWith(p, where, l)
  PROVE  /\ pc' \in [Prompts -> Positions] /\ local' \in [Prompts -> Locals]
         /\ result' \in BOOLEAN
         /\ \A q \in Prompts : Prepared(pc'[q], local'[q])
BY NothingToPrepare, GotoType

LEMMA ClaimType ==
  ASSUME TypeOK, NEW p \in Prompts, NEW s \in Seq(Entries), ClaimRun(p, s),
         UNCHANGED <<transition, aborts, uiVars, notice>>
  PROVE  TypeOK'
<1>1. local[p] \in Locals /\ "running" \in Positions
  BY DEF TypeOK, Positions
<1>2. GotoWith(p, "running", local[p])
  BY DEF ClaimRun, Goto
<1>3. transcript' \in Seq(Entries) /\ steering' \in Nat
  BY EntriesType DEF ClaimRun, TypeOK
<1> QED
  BY <1>1, <1>2, <1>3, PlainGotoType DEF ClaimRun, TypeOK, uiVars

LEMMA RefusedType ==
  ASSUME TypeOK, NEW p \in Prompts, Refused(p),
         UNCHANGED <<transition, aborts, uiVars, notice>>
  PROVE  TypeOK'
BY FinishType DEF Refused, TypeOK, uiVars

LEMMA LookType ==
  ASSUME TypeOK, NEW p \in Prompts, Look(p)
  PROVE  TypeOK'
<1>0. TypeOK /\ local[p] \in Locals /\ pc[p] = "look"
      /\ UNCHANGED <<agentVars, aborts, uiVars, event>>
  BY DEF TypeOK, Look
<1>1. CASE ~LastReply(transcript)
  BY <1>0, <1>1, FinishType DEF Look, TypeOK, agentVars, uiVars
<1>2. CASE LastReply(transcript)
  <2> DEFINE m == Last(transcript)
             retries  == m = "failed" /\ HasAttempts(AttemptAfter(p, m))
             recovers == IsOverflow(m) \/ m = "length"
             next == CASE retries -> "arm"
                       [] ~retries /\ recovers /\ local[p].overflowTried -> "queued"
                       [] ~retries /\ recovers /\ ~local[p].overflowTried
                            /\ WillRetry(m) -> "shed"
                       [] OTHER -> "measure"
             l == [local[p] EXCEPT
                     !.snap = IF next \in {"arm", "shed"} THEN transcript ELSE <<>>,
                     !.attempt = AttemptAfter(p, m) + (IF retries THEN 1 ELSE 0),
                     !.overflowTried = @ \/ recovers,
                     !.why = IF WillRetry(m) THEN "overflow"
                             ELSE IF recovers THEN "silent" ELSE "threshold"]
  <2>1. GotoWith(p, next, l) /\ notice' = (notice \/ retries)
    BY <1>2 DEF Look
  <2>2. next \in Positions /\ (next \in {"arm", "pause", "drop", "shed"}
                                 => next \in {"arm", "shed"})
                              /\ next # "compact"
    BY DEF Positions
  <2>3. AttemptAfter(p, m) \in 0 .. MaxRetries
        /\ (retries => AttemptAfter(p, m) < MaxRetries)
    BY <1>0, TurnPolicyAssumption DEF AttemptAfter, HasAttempts, Locals
  <2>4. AttemptAfter(p, m) + (IF retries THEN 1 ELSE 0) \in 0 .. MaxRetries
    BY <2>3, TurnPolicyAssumption
  <2>5. (local[p].overflowTried \/ recovers) \in BOOLEAN
        /\ (IF WillRetry(m) THEN "overflow"
            ELSE IF recovers THEN "silent" ELSE "threshold") \in Reasons
    BY DEF Reasons
  <2>6. (IF next \in {"arm", "shed"} THEN transcript ELSE <<>>) \in Seq(Entries)
    BY <1>0 DEF TypeOK
  <2>7. l \in Locals
    BY <1>0, <2>4, <2>5, <2>6 DEF Locals
  <2>8. Prepared(next, l)
    <3> SUFFICES ASSUME next \in {"arm", "shed"} PROVE l.snap = transcript
      BY <1>2, <2>2 DEF Prepared
    <3> HIDE DEF next, retries, recovers
    <3> QED
      BY <1>0 DEF Locals
  <2> HIDE DEF next, l, retries, recovers
  <2> QED
    BY <1>0, <2>1, <2>2, <2>7, <2>8, GotoType DEF TypeOK, agentVars, uiVars
<1> QED
  BY <1>1, <1>2

(* Every step of a thread keeps the types.                                 *)
LEMMA ThreadType ==
  ASSUME TypeOK, NEW p \in Prompts, PolicyStep(p)
  PROVE  TypeOK'
<1>0. local[p] \in Locals /\ pc[p] \in Positions /\ TypeOK
  BY DEF TypeOK
<1> DEFINE Rest == <<agentVars, aborts, uiVars, event, notice>>
<1>1. CASE PromptAgent(p)
  <2>1. Append(transcript, "user") \in Seq(Entries)
    BY EntriesType DEF TypeOK
  <2> QED
    BY <1>1, <2>1, ClaimType, RefusedType DEF PromptAgent
<1>2. CASE Reply(p)
  <2>1. PICK r \in (IF cancelled THEN {"aborted"} ELSE Outcomes) :
          LET goesOn == r \notin Errors \cup {"aborted"} /\ steering > 0
          IN /\ transcript' = IF goesOn THEN transcript \o <<r, "user">>
                                        ELSE Append(transcript, r)
             /\ steering'  = IF goesOn THEN steering - 1 ELSE steering
             /\ GotoWith(p, IF goesOn THEN "running" ELSE "ended",
                         [local[p] EXCEPT !.requests = @ + 1])
    BY <1>2 DEF Reply
  <2>2. r \in Entries
    BY EntriesType, TurnPolicyAssumption
  <2>3. transcript' \in Seq(Entries) /\ steering' \in Nat
    BY <2>1, <2>2, EntriesType DEF TypeOK
  <2>4. [local[p] EXCEPT !.requests = @ + 1] \in Locals
    BY <1>0 DEF Locals
  <2>5. {"running", "ended"} \subseteq Positions
    BY DEF Positions
  <2> QED
    BY <1>0, <1>2, <2>1, <2>3, <2>4, <2>5, PlainGotoType DEF Reply, TypeOK, uiVars
<1>3. CASE EndRun(p)
  BY <1>3 DEF EndRun, TypeOK, uiVars
<1>4. CASE ReleaseRun(p)
  <2>1. "again" \in Positions
    BY DEF Positions
  <2> QED
    BY <1>0, <1>4, <2>1, PlainGotoType DEF ReleaseRun, Goto, TypeOK, uiVars
<1>5. CASE RunQueued(p)
  <2>1. CASE Refused(p)
    BY <1>5, <2>1, RefusedType DEF RunQueued
  <2>2. CASE ClaimRun(p, transcript)
    BY <1>5, <2>2, ClaimType DEF RunQueued, TypeOK
  <2>3. CASE /\ Goto(p, "look")
             /\ UNCHANGED <<transcript, steering, runActive, streaming, cancelled, event>>
    <3>1. "look" \in Positions
      BY DEF Positions
    <3> QED
      BY <1>0, <1>5, <2>3, <3>1, PlainGotoType DEF RunQueued, Goto, TypeOK, uiVars
  <2> QED
    BY <1>5, <2>1, <2>2, <2>3 DEF RunQueued
<1>6. CASE ContinueRun(p)
  BY <1>6, RefusedType, ClaimType DEF ContinueRun, TypeOK
<1>7. CASE Look(p)
  BY <1>7, LookType
<1>8. CASE Arm(p)
  <2>1. [local[p] EXCEPT !.abortsSeen = aborts] \in Locals
    BY <1>0 DEF Locals, TypeOK
  <2>2. Prepared("pause", [local[p] EXCEPT !.abortsSeen = aborts])
    BY <1>0, <1>8 DEF Locals, TypeOK, Arm, Prepared
  <2>3. "pause" \in Positions
    BY DEF Positions
  <2> QED
    BY <1>0, <1>8, <2>1, <2>2, <2>3, GotoType DEF Arm, TypeOK, agentVars, uiVars
<1>9. CASE WakeUp(p)
  <2>1. CASE Finish(p)
    BY <1>9, <2>1, FinishType DEF WakeUp, TypeOK, agentVars, uiVars
  <2>2. CASE Goto(p, "drop")
    <3>1. "drop" \in Positions /\ Prepared("drop", local[p])
      BY <1>0, <1>9 DEF Positions, TypeOK, WakeUp, Prepared
    <3> QED
      BY <1>0, <1>9, <2>2, <3>1, GotoType DEF WakeUp, Goto, TypeOK, agentVars, uiVars
  <2> QED
    BY <1>9, <2>1, <2>2 DEF WakeUp
<1>10. CASE DropLast(p)
  <2> DEFINE l == [local[p] EXCEPT !.snap = <<>>]
             where == IF pc[p] = "drop" THEN "continue" ELSE "measure"
  <2>1. l \in Locals
    <3>1. <<>> \in Seq(Entries)
      OBVIOUS
    <3> QED
      BY <1>0, <3>1 DEF Locals
  <2>2. local[p].snap \in Seq(Entries)
    BY <1>0 DEF Locals
  <2>3. transcript' \in Seq(Entries)
    BY <1>10, <2>2, FrontType DEF DropLast
  <2>4. where \in Positions /\ where \notin {"arm", "pause", "drop", "shed", "compact"}
    BY DEF Positions
  <2>5. GotoWith(p, where, l)
    BY <1>10 DEF DropLast
  <2> HIDE DEF l, where
  <2> QED
    BY <1>0, <1>10, <2>1, <2>3, <2>4, <2>5, PlainGotoType DEF DropLast, TypeOK, uiVars
<1>11. CASE CheckQueue(p)
  <2>1. "continue" \in Positions
    BY DEF Positions
  <2> QED
    BY <1>0, <1>11, <2>1, PlainGotoType, FinishType
    DEF CheckQueue, Goto, TypeOK, agentVars, uiVars
<1>12. CASE Measure(p)
  <2>1. {"compact", "prompt", "queued"} \subseteq Positions
    BY DEF Positions
  <2>2. CASE \E c \in Cuts(transcript) :
               GotoWith(p, "compact", [local[p] EXCEPT !.cut = c, !.snap = transcript])
    <3>1. PICK c \in Cuts(transcript) :
            GotoWith(p, "compact", [local[p] EXCEPT !.cut = c, !.snap = transcript])
      BY <2>2
    <3>2. c \in Nat /\ transcript \in Seq(Entries)
      BY DEF Cuts, TypeOK
    <3>3. [local[p] EXCEPT !.cut = c, !.snap = transcript] \in Locals
      BY <1>0, <3>2 DEF Locals
    <3>4. Prepared("compact", [local[p] EXCEPT !.cut = c, !.snap = transcript])
      BY <1>0, <3>2 DEF Prepared, Locals, Cuts
    <3> QED
      BY <1>12, <2>1, <3>1, <3>3, <3>4, GotoType DEF Measure, TypeOK, agentVars, uiVars
  <2>3. CASE Skipped(p)
    BY <1>0, <1>12, <2>1, <2>3, PlainGotoType
    DEF Measure, Skipped, Goto, TypeOK, agentVars, uiVars
  <2>4. CASE Failed(p)
    BY <1>0, <1>12, <2>1, <2>4, PlainGotoType, FinishType
    DEF Measure, Failed, Goto, TypeOK, agentVars, uiVars
  <2> QED
    BY <1>12, <2>2, <2>3, <2>4 DEF Measure
<1>13. CASE ApplyCut(p)
  <2>1. {"announce", "queued"} \subseteq Positions
    BY DEF Positions
  <2>2. CASE Failed(p) /\ UNCHANGED <<transcript, transition>>
    BY <1>0, <1>13, <2>1, <2>2, PlainGotoType, FinishType
    DEF ApplyCut, Failed, Goto, TypeOK, uiVars
  <2>3. CASE LET s == local[p].snap
             IN /\ ~Busy /\ Len(transcript) = Len(s)
                /\ transcript' = <<"marker">> \o SubSeq(s, local[p].cut, Len(s))
                /\ transition' = TRUE
                /\ GotoWith(p, "announce", [local[p] EXCEPT !.snap = <<>>, !.cut = 0])
    <3> DEFINE s == local[p].snap
    <3>1. s \in Seq(Entries) /\ local[p].cut \in 1 .. Len(s)
      BY <1>0, <1>13 DEF Locals, TypeOK, ApplyCut, Prepared
    <3>2. SubSeq(s, local[p].cut, Len(s)) \in Seq(Entries)
      BY <3>1
    <3>3. transcript' \in Seq(Entries)
      BY <1>0, <2>3, <3>1, <3>2, EntriesType
    <3>4. <<>> \in Seq(Entries)
      OBVIOUS
    <3>5. [local[p] EXCEPT !.snap = <<>>, !.cut = 0] \in Locals
      BY <1>0, <3>4 DEF Locals
    <3> QED
      BY <1>13, <2>1, <2>3, <3>3, <3>5, PlainGotoType DEF ApplyCut, TypeOK, uiVars
  <2> QED
    BY <1>13, <2>2, <2>3 DEF ApplyCut
<1>14. CASE AnnounceCut(p)
  <2>1. After(p) \in Positions /\ After(p) \notin {"arm", "pause", "drop", "shed", "compact"}
    BY DEF After, Positions
  <2> QED
    BY <1>0, <1>14, <2>1, PlainGotoType DEF AnnounceCut, Goto, TypeOK, uiVars
<1> QED
  BY <1>1, <1>2, <1>3, <1>4, <1>5, <1>6, <1>7, <1>8, <1>9, <1>10, <1>11, <1>12,
     <1>13, <1>14 DEF PolicyStep

(* The interface's steps do too.                                           *)
LEMMA InterfaceType ==
  ASSUME TypeOK, Interface
  PROVE  TypeOK'
<1>1. CASE DrainEvents
  BY <1>1 DEF DrainEvents, TypeOK, agentVars
<1>2. CASE DrainResults
  BY <1>2 DEF DrainResults, TypeOK, agentVars
<1>3. CASE DrainNotices
  BY <1>3 DEF DrainNotices, TypeOK, agentVars
<1>4. CASE Submit
  <2>1. CASE shown \/ turnPending \/ streaming
    BY <1>4, <2>1 DEF Submit, TypeOK, channels
  <2>2. CASE ~(shown \/ turnPending \/ streaming)
    <3>1. PICK p \in Prompts : /\ pc' = [pc EXCEPT ![p] = "pre"]
                               /\ local' = [local EXCEPT ![p].why = "pre"]
      BY <1>4, <2>2 DEF Submit
    <3>2. local' \in [Prompts -> Locals] /\ pc' \in [Prompts -> Positions]
      BY <3>1 DEF TypeOK, Locals, Reasons, Positions
    <3>3. \A q \in Prompts : Prepared(pc'[q], local'[q])
      BY <3>1, NothingToPrepare DEF TypeOK
    <3> QED
      BY <1>4, <2>2, <3>2, <3>3 DEF Submit, TypeOK, channels
  <2> QED
    BY <2>1, <2>2
<1>5. CASE Abort
  <2>1. \A q \in Prompts : /\ local[q] \in Locals /\ local'[q] \in Locals
                           /\ local'[q].snap = local[q].snap
                           /\ local'[q].cut = local[q].cut
    BY <1>5 DEF Abort, TypeOK, Locals
  <2>2. local' \in [Prompts -> Locals]
    BY <1>5, <2>1 DEF Abort
  <2>3. \A q \in Prompts : Prepared(pc'[q], local'[q])
    BY <1>5, <2>1 DEF Abort, TypeOK, Prepared
  <2> QED
    BY <1>5, <2>2, <2>3 DEF Abort, TypeOK, channels
<1>6. CASE Reset
  BY <1>6 DEF Reset, TypeOK, channels
<1>7. CASE NoInput
  BY <1>7 DEF NoInput, TypeOK, agentVars, channels
<1> QED
  BY <1>1, <1>2, <1>3, <1>4, <1>5, <1>6, <1>7 DEF Interface

LEMMA InitType == Init => TypeOK
<1> SUFFICES ASSUME Init PROVE TypeOK
  OBVIOUS
<1>1. transcript \in Seq(Entries)
  BY EntriesType DEF Init, Entries, Replies
<1>2. pc \in [Prompts -> Positions] /\ local \in [Prompts -> Locals]
  BY NoLocalsType DEF Init, Positions
<1>3. \A p \in Prompts : Prepared(pc[p], local[p])
  BY NothingToPrepare DEF Init
<1> QED
  BY <1>1, <1>2, <1>3 DEF Init, TypeOK

LEMMA StepType == TypeOK /\ [Next]_vars => TypeOK'
<1>1. ASSUME TypeOK, Next PROVE TypeOK'
  BY <1>1, ThreadType, InterfaceType DEF Next
<1>2. ASSUME TypeOK, UNCHANGED vars PROVE TypeOK'
  BY <1>2 DEF TypeOK, vars, agentVars, uiVars, channels
<1> QED
  BY <1>1, <1>2

(* Every variable of the turn policy keeps its type, and what a thread     *)
(* drops or cuts is there.                                                 *)
THEOREM TypeCorrect == Spec => []TypeOK
BY InitType, StepType, PTL DEF Spec

-----------------------------------------------------------------------------
(* A wait that Esc ended.  stopped is raised while a thread waits, and the  *)
(* abort count has then moved past the one it remembers.                    *)
Stopped ==
  \A p \in Prompts :
    /\ local[p].stopped => pc[p] = "pause" /\ local[p].abortsSeen < aborts
    /\ pc[p] = "pause" => local[p].abortsSeen <= aborts

(* A thread's step concerns itself alone.                                  *)
LEMMA OthersRest ==
  ASSUME NEW p \in Prompts, PolicyStep(p), TypeOK, NEW q \in Prompts, q # p
  PROVE  pc'[q] = pc[q] /\ local'[q] = local[q]
BY DEF PolicyStep, PromptAgent, Reply, EndRun, ReleaseRun, RunQueued, ContinueRun,
       Look, Arm, WakeUp, DropLast, CheckQueue, Measure, ApplyCut, AnnounceCut,
       ClaimRun, Refused, Finish, Goto, GotoWith, Failed, Skipped, TypeOK

(* What a refused compaction means to the thread.                           *)
LEMMA FailedMeans ==
  ASSUME NEW p, Failed(p)
  PROVE  Finish(p) \/ GotoWith(p, "queued", local[p])
BY DEF Failed, Goto

(* Outside a wait nothing changes stopped; only Arm begins a wait.          *)
LEMMA OutsideTheWait ==
  ASSUME TypeOK, NEW p \in Prompts, PolicyStep(p), pc[p] # "pause", ~local[p].stopped
  PROVE  /\ ~local'[p].stopped
         /\ pc'[p] = "pause" => local'[p].abortsSeen = aborts
         /\ aborts' = aborts
<1>0. local[p] \in Locals
  BY DEF TypeOK
<1>1. CASE Arm(p)
  BY <1>0, <1>1 DEF Arm, GotoWith, TypeOK, Locals
<1>2. CASE Look(p)
  <2>1. CASE Finish(p)
    BY <1>2, <2>1 DEF Look, Finish, NoLocals, TypeOK
  <2>2. CASE LastReply(transcript)
    <3> DEFINE r == Last(transcript)
               retries  == r = "failed" /\ HasAttempts(AttemptAfter(p, r))
               recovers == IsOverflow(r) \/ r = "length"
               next == CASE retries -> "arm"
                         [] ~retries /\ recovers /\ local[p].overflowTried -> "queued"
                         [] ~retries /\ recovers /\ ~local[p].overflowTried
                              /\ WillRetry(r) -> "shed"
                         [] OTHER -> "measure"
               m == [local[p] EXCEPT
                       !.snap = IF next \in {"arm", "shed"} THEN transcript ELSE <<>>,
                       !.attempt = AttemptAfter(p, r) + (IF retries THEN 1 ELSE 0),
                       !.overflowTried = @ \/ recovers,
                       !.why = IF WillRetry(r) THEN "overflow"
                               ELSE IF recovers THEN "silent" ELSE "threshold"]
    <3>1. GotoWith(p, next, m) /\ aborts' = aborts
      BY <1>2, <2>2 DEF Look
    <3>2. m.stopped = local[p].stopped
      BY <1>0 DEF Locals
    <3>3. next # "pause"
      OBVIOUS
    <3> HIDE DEF next, m
    <3> QED
      BY <3>1, <3>2, <3>3 DEF GotoWith, TypeOK
  <2> QED
    BY <1>2, <2>1, <2>2 DEF Look
<1>3. CASE Reply(p)
  BY <1>0, <1>3 DEF Reply, GotoWith, TypeOK, Locals
<1>4. CASE Measure(p)
  <2>1. CASE \E c \in Cuts(transcript) :
               GotoWith(p, "compact", [local[p] EXCEPT !.cut = c, !.snap = transcript])
    BY <1>0, <1>4, <2>1 DEF Measure, GotoWith, TypeOK, Locals
  <2>2. CASE Skipped(p)
    BY <1>4, <2>2 DEF Measure, Skipped, Goto, GotoWith, TypeOK
  <2>3. CASE Failed(p)
    <3>1. aborts' = aborts
      BY <1>4 DEF Measure
    <3>2. CASE Finish(p)
      BY <3>1, <3>2 DEF Finish, NoLocals, TypeOK
    <3>3. CASE GotoWith(p, "queued", local[p])
      BY <3>1, <3>3 DEF GotoWith, TypeOK
    <3> QED
      BY <2>3, <3>2, <3>3, FailedMeans
  <2> QED
    BY <1>4, <2>1, <2>2, <2>3 DEF Measure
<1>5. CASE ApplyCut(p)
  <2>1. CASE GotoWith(p, "announce", [local[p] EXCEPT !.snap = <<>>, !.cut = 0])
    BY <1>0, <1>5, <2>1 DEF ApplyCut, GotoWith, TypeOK, Locals
  <2>2. CASE Failed(p)
    <3>1. aborts' = aborts
      BY <1>5 DEF ApplyCut
    <3>2. CASE Finish(p)
      BY <3>1, <3>2 DEF Finish, NoLocals, TypeOK
    <3>3. CASE GotoWith(p, "queued", local[p])
      BY <3>1, <3>3 DEF GotoWith, TypeOK
    <3> QED
      BY <2>2, <3>2, <3>3, FailedMeans
  <2> QED
    BY <1>5, <2>1, <2>2 DEF ApplyCut
<1>6. CASE DropLast(p)
  BY <1>0, <1>6 DEF DropLast, GotoWith, TypeOK, Locals
<1>7. CASE PromptAgent(p) \/ RunQueued(p) \/ ContinueRun(p)
  BY <1>7 DEF PromptAgent, RunQueued, ContinueRun, ClaimRun, Refused, Finish, NoLocals,
              Goto, GotoWith, TypeOK
<1>8. CASE EndRun(p) \/ ReleaseRun(p) \/ CheckQueue(p) \/ AnnounceCut(p)
  BY <1>8 DEF EndRun, ReleaseRun, CheckQueue, AnnounceCut, After, Finish, NoLocals,
              Goto, GotoWith, TypeOK
<1>9. CASE WakeUp(p)
  BY <1>9 DEF WakeUp
<1> QED
  BY <1>1, <1>2, <1>3, <1>4, <1>5, <1>6, <1>7, <1>8, <1>9 DEF PolicyStep

(* In the wait only WakeUp is possible, and it ends a stopped prompt.        *)
LEMMA InsideTheWait ==
  ASSUME TypeOK, Stopped, NEW p \in Prompts, PolicyStep(p), pc[p] = "pause"
  PROVE  /\ ~local'[p].stopped /\ pc'[p] # "pause"
         /\ aborts' = aborts
         /\ local[p].stopped => local'[p].requests <= local[p].requests
<1>1. WakeUp(p)
  BY DEF PolicyStep, PromptAgent, Reply, EndRun, ReleaseRun, RunQueued, ContinueRun,
         Look, Arm, DropLast, CheckQueue, Measure, ApplyCut, AnnounceCut
<1>2. local[p] \in Locals /\ local[p].stopped \in BOOLEAN
  BY DEF TypeOK, Locals
<1>3. CASE AbortedSince(p)
  BY <1>1, <1>2, <1>3 DEF WakeUp, Finish, NoLocals, TypeOK, Locals
<1>4. CASE ~AbortedSince(p)
  <2>1. ~local[p].stopped
    BY <1>4 DEF Stopped, AbortedSince, TypeOK, Locals
  <2> QED
    BY <1>1, <1>2, <1>4, <2>1 DEF WakeUp, Goto, GotoWith, TypeOK
<1> QED
  BY <1>3, <1>4

LEMMA StoppedStep == TypeOK /\ Stopped /\ [Next]_vars => Stopped'
<1>0. TypeOK => \A q \in Prompts : local[q] \in Locals /\ local[q].stopped \in BOOLEAN
                                    /\ local[q].abortsSeen \in Nat /\ aborts \in Nat
  BY DEF TypeOK, Locals
<1>1. ASSUME TypeOK, Stopped, NEW p \in Prompts, PolicyStep(p) PROVE Stopped'
  <2> SUFFICES ASSUME NEW q \in Prompts
               PROVE  /\ local'[q].stopped => pc'[q] = "pause" /\ local'[q].abortsSeen < aborts'
                      /\ pc'[q] = "pause" => local'[q].abortsSeen <= aborts'
    BY DEF Stopped
  <2>1. aborts' = aborts /\ aborts \in Nat
    BY <1>0, <1>1, OutsideTheWait, InsideTheWait DEF Stopped
  <2>2. CASE q # p
    BY <1>1, <2>1, <2>2, OthersRest DEF Stopped
  <2>3. CASE q = p
    BY <1>0, <1>1, <2>1, <2>3, OutsideTheWait, InsideTheWait DEF Stopped
  <2> QED
    BY <2>2, <2>3
<1>2. ASSUME TypeOK, Stopped, Submit PROVE Stopped'
  <2>1. CASE UNCHANGED <<pc, local>>
    BY <1>2, <2>1 DEF Submit, Stopped
  <2>2. CASE \E p \in Prompts : /\ pc[p] = "idle"
                                /\ pc' = [pc EXCEPT ![p] = "pre"]
                                /\ local' = [local EXCEPT ![p].why = "pre"]
    BY <1>0, <1>2, <2>2 DEF Submit, Stopped, TypeOK, Locals
  <2> QED
    BY <1>2, <2>1, <2>2 DEF Submit
<1>3. ASSUME TypeOK, Stopped, Abort PROVE Stopped'
  <2>1. \A q \in Prompts : local'[q].abortsSeen = local[q].abortsSeen
                           /\ local'[q].stopped = (local[q].stopped \/ pc[q] = "pause")
    BY <1>0, <1>3 DEF Abort, Locals
  <2> QED
    BY <1>0, <1>3, <2>1 DEF Abort, Stopped
<1>4. ASSUME Stopped, UNCHANGED <<pc, local, aborts>> PROVE Stopped'
  BY <1>4 DEF Stopped
<1>5. ASSUME TypeOK, Stopped, Interface PROVE Stopped'
  BY <1>2, <1>3, <1>4, <1>5
  DEF Interface, DrainEvents, DrainResults, DrainNotices, Reset, NoInput
<1> QED
  BY <1>1, <1>4, <1>5 DEF Next, vars

(* A prompt whose wait was ended by Esc sends nothing more.                 *)
THEOREM EscEndsTheWait == Spec => AbortEndsBackoff
<1>1. Init => Stopped
  BY DEF Init, Stopped, NoLocals
<1>2. ASSUME TypeOK, Stopped, [Next]_vars, NEW p \in Prompts, local[p].stopped
      PROVE  local'[p].requests <= local[p].requests
  <2>0. local[p] \in Locals /\ local[p].requests \in Nat /\ pc[p] = "pause"
    BY <1>2 DEF TypeOK, Stopped, Locals
  <2>1. CASE \E q \in Prompts : PolicyStep(q)
    BY <1>2, <2>0, <2>1, InsideTheWait, OthersRest
  <2>2. CASE Interface
    <3>1. CASE Abort
      <4>1. local'[p] = [local[p] EXCEPT !.stopped = @ \/ pc[p] = "pause"]
        BY <3>1 DEF Abort
      <4> QED
        BY <2>0, <4>1 DEF Locals
    <3>2. CASE Submit
      <4>1. local'[p] = local[p]
        BY <1>2, <2>0, <3>2 DEF Submit, TypeOK
      <4> QED
        BY <2>0, <4>1
    <3>3. CASE UNCHANGED local
      BY <2>0, <3>3
    <3> QED
      BY <2>2, <3>1, <3>2, <3>3
      DEF Interface, DrainEvents, DrainResults, DrainNotices, Reset, NoInput
  <2>3. CASE UNCHANGED vars
    BY <2>0, <2>3 DEF vars
  <2> QED
    BY <1>2, <2>1, <2>2, <2>3 DEF Next
<1>3. TypeOK /\ Stopped /\ [Next]_vars
        => [\A p \in Prompts :
              local[p].stopped => local'[p].requests <= local[p].requests]_vars
  BY <1>2
<1> QED
  BY <1>1, <1>3, InitType, StepType, StoppedStep, PTL DEF Spec, AbortEndsBackoff

-----------------------------------------------------------------------------
(* The budget of requests.  A thread has a credit: the prompt, the recovery  *)
(* from an overflow once it is taken, and each message that left the queue;  *)
(* a message still in the queue counts too for a thread that is going to     *)
(* continue because of it, for this thread or another will take it.  What    *)
(* the thread has sent and may still send before it earns more credit is     *)
(* within the credit's worth.                                                *)
Worth(n)    == (MaxRetries + 1) * n
Gone        == steers - steering
Waiting(at) == IF at = "continue" /\ steering > 0 THEN 1 ELSE 0
Recovered(l) == IF l.overflowTried THEN 1 ELSE 0
Credit(at, l) == Gone + Waiting(at) + Recovered(l) + 1

Need(at, l) ==
  CASE at \in {"ended", "again", "look"} -> MaxRetries - l.attempt
    [] \/ at \in {"pre", "prompt", "running", "arm", "pause", "drop", "shed", "continue"}
       \/ at \in {"measure", "compact", "announce"} /\ l.why \in {"pre", "overflow"}
         -> MaxRetries - l.attempt + 1
    [] OTHER -> 0

Unspent(l) == l.requests = 0 /\ l.attempt = 0 /\ ~l.overflowTried
Within(at, l) == l.requests + Need(at, l) <= Worth(Credit(at, l))

Budget ==
  /\ steering <= steers
  /\ \A p \in Prompts : /\ Within(pc[p], local[p])
                        /\ pc[p] = "idle" => Unspent(local[p])

LEMMA WorthInt == \A n \in Int : Worth(n) \in Int
BY TurnPolicyAssumption DEF Worth

LEMMA WorthSucc == \A n \in Int : Worth(n + 1) = Worth(n) + MaxRetries + 1
<1> TAKE n \in Int
<1>1. (MaxRetries + 1) * (n + 1) = (MaxRetries + 1) * n + (MaxRetries + 1)
  BY TurnPolicyAssumption
<1> QED
  BY <1>1, TurnPolicyAssumption DEF Worth

LEMMA WorthMono == \A m, n \in Int : m <= n => Worth(m) <= Worth(n)
<1> SUFFICES ASSUME NEW m \in Int, NEW n \in Int, m <= n
             PROVE  (MaxRetries + 1) * m <= (MaxRetries + 1) * n
  BY DEF Worth
<1>1. n - m \in Nat /\ MaxRetries + 1 \in Nat
  BY TurnPolicyAssumption
<1>2. (MaxRetries + 1) * (n - m) >= 0
  BY <1>1
<1>3. (MaxRetries + 1) * n = (MaxRetries + 1) * m + (MaxRetries + 1) * (n - m)
  BY <1>1
<1> QED
  BY <1>1, <1>2, <1>3

LEMMA WorthOne == Worth(1) = MaxRetries + 1
BY TurnPolicyAssumption DEF Worth

(* The numbers of a thread.                                                 *)
LEMMA Numbers ==
  ASSUME NEW l \in Locals, NEW at
  PROVE  /\ l.requests \in Nat /\ l.attempt \in 0 .. MaxRetries
         /\ l.overflowTried \in BOOLEAN
         /\ Recovered(l) \in {0, 1} /\ Waiting(at) \in {0, 1}
         /\ Need(at, l) \in 0 .. (MaxRetries - l.attempt + 1)
         /\ Need(at, l) \in Int
<1>1. l.requests \in Nat /\ l.attempt \in 0 .. MaxRetries /\ l.overflowTried \in BOOLEAN
  BY DEF Locals
<1>2. Recovered(l) \in {0, 1} /\ Waiting(at) \in {0, 1}
  BY DEF Recovered, Waiting
<1>3. Need(at, l) \in {0, MaxRetries - l.attempt, MaxRetries - l.attempt + 1}
  BY DEF Need
<1> QED
  BY <1>1, <1>2, <1>3, TurnPolicyAssumption

(* The credit follows the queue: what leaves it is gone for good.           *)
QueueGrows ==
  /\ Gone' \in Int /\ Gone \in Int /\ Gone' >= Gone
  /\ \A at \in Positions : Gone' + Waiting(at)' >= Gone + Waiting(at)

(* The arithmetic of one step on the queue: q waiting of s steered.          *)
LEMMA QueueArithmetic ==
  ASSUME NEW s \in Nat, NEW q \in Nat, NEW s1 \in Nat, NEW q1 \in Nat, q <= s,
         \/ q1 <= q /\ s1 = s
         \/ q1 = q + 1 /\ s1 = s + 1
  PROVE  /\ s - q \in Int /\ s1 - q1 \in Int /\ s1 - q1 >= s - q /\ q1 <= s1
         /\ (s1 - q1) + (IF q1 > 0 THEN 1 ELSE 0) >= (s - q) + (IF q > 0 THEN 1 ELSE 0)
         /\ (s1 - q1) + 0 >= (s - q) + 0
OBVIOUS

LEMMA ClaimQueue ==
  ASSUME TypeOK, NEW p, NEW s, ClaimRun(p, s), steers' = steers
  PROVE  /\ Gone' = Gone + Waiting("continue")
         /\ steering > 0 => steering' = steering - 1
         /\ steering = 0 => steering' = 0
BY DEF ClaimRun, Gone, Waiting, TypeOK

LEMMA QueueStep ==
  ASSUME TypeOK, Budget, Next
  PROVE  QueueGrows /\ steering' <= steers'
<1>0. /\ steering \in Nat /\ steers \in Nat /\ steering <= steers
      /\ steering' \in Nat /\ steers' \in Nat
  <2>1. TypeOK'
    BY StepType
  <2> QED
    BY <2>1 DEF TypeOK, Budget
<1>1. ASSUME \/ steering' <= steering /\ steers' = steers
             \/ steering' = steering + 1 /\ steers' = steers + 1
      PROVE  QueueGrows /\ steering' <= steers'
  <2> DEFINE Ready(q) == IF q > 0 THEN 1 ELSE 0
  <2>1. /\ steers - steering \in Int /\ steers' - steering' \in Int
        /\ steers' - steering' >= steers - steering
        /\ steering' <= steers'
        /\ (steers' - steering') + Ready(steering') >= (steers - steering) + Ready(steering)
        /\ (steers' - steering') + 0 >= (steers - steering) + 0
    BY <1>0, <1>1, QueueArithmetic
  <2>2. ASSUME NEW at \in Positions
        PROVE  (steers' - steering') + Waiting(at)' >= (steers - steering) + Waiting(at)
    <3>1. CASE at = "continue"
      <4>1. Waiting(at) = Ready(steering) /\ Waiting(at)' = Ready(steering')
        BY <3>1 DEF Waiting
      <4> QED
        BY <2>1, <4>1
    <3>2. CASE at # "continue"
      <4>1. Waiting(at) = 0 /\ Waiting(at)' = 0
        BY <3>2 DEF Waiting
      <4> QED
        BY <2>1, <4>1
    <3> QED
      BY <3>1, <3>2
  <2>3. QueueGrows
    BY <2>1, <2>2 DEF QueueGrows, Gone
  <2> QED
    BY <2>1, <2>3
<1>2. ASSUME NEW p \in Prompts, PolicyStep(p)
      PROVE  steering' <= steering /\ steers' = steers
  <2>1. ASSUME NEW s, ClaimRun(p, s) PROVE steering' <= steering
    BY <1>0, <2>1 DEF ClaimRun
  <2>2. CASE PromptAgent(p) \/ RunQueued(p) \/ ContinueRun(p)
    BY <1>0, <2>1, <2>2 DEF PromptAgent, RunQueued, ContinueRun, Refused, uiVars
  <2>3. CASE Reply(p)
    BY <1>0, <2>3 DEF Reply, uiVars
  <2>4. CASE AnnounceCut(p)
    BY <1>0, <2>4 DEF AnnounceCut, uiVars
  <2>5. CASE EndRun(p) \/ ReleaseRun(p) \/ DropLast(p) \/ ApplyCut(p)
    BY <1>0, <2>5 DEF EndRun, ReleaseRun, DropLast, ApplyCut, uiVars
  <2>6. CASE Look(p) \/ Arm(p) \/ WakeUp(p) \/ CheckQueue(p) \/ Measure(p)
    <3>1. UNCHANGED <<agentVars, uiVars>>
      BY <2>6 DEF Look, Arm, WakeUp, CheckQueue, Measure
    <3> QED
      BY <1>0, <3>1 DEF agentVars, uiVars
  <2> QED
    BY <1>2, <2>2, <2>3, <2>4, <2>5, <2>6 DEF PolicyStep
<1>3. ASSUME Interface
      PROVE  \/ steering' <= steering /\ steers' = steers
             \/ steering' = steering + 1 /\ steers' = steers + 1
  <2>1. CASE DrainEvents \/ DrainResults \/ DrainNotices \/ NoInput
    <3>1. UNCHANGED <<agentVars, steers>>
      BY <2>1 DEF DrainEvents, DrainResults, DrainNotices, NoInput
    <3> QED
      BY <1>0, <3>1 DEF agentVars
  <2>2. CASE Submit
    BY <1>0, <2>2 DEF Submit
  <2>3. CASE Abort \/ Reset
    BY <1>0, <2>3 DEF Abort, Reset
  <2> QED
    BY <1>3, <2>1, <2>2, <2>3 DEF Interface
<1> QED
  BY <1>1, <1>2, <1>3 DEF Next

(* A thread that rests stays within a credit that can only have grown.      *)
LEMMA RestWithin ==
  ASSUME QueueGrows, NEW at \in Positions, NEW l \in Locals, Within(at, l)
  PROVE  Within(at, l)'
<1>1. Credit(at, l) \in Int /\ Credit(at, l)' \in Int /\ Credit(at, l)' >= Credit(at, l)
  <2>1. Waiting(at) \in {0, 1} /\ Waiting(at)' \in {0, 1} /\ Recovered(l) \in {0, 1}
    BY DEF Waiting, Recovered
  <2> QED
    BY <2>1 DEF QueueGrows, Credit
<1>2. Worth(Credit(at, l)) <= Worth(Credit(at, l)')
  BY <1>1, WorthMono
<1>3. l.requests \in Nat /\ Need(at, l) \in Int
  BY Numbers
<1>4. Worth(Credit(at, l)) \in Int /\ Worth(Credit(at, l)') \in Int
  BY <1>1, WorthInt
<1> QED
  BY <1>2, <1>3, <1>4 DEF Within

(* A move is within the new credit if what it adds to the need is what it   *)
(* adds to the credit: nothing, or one unit.                                *)
LEMMA MoveWithin ==
  ASSUME QueueGrows, NEW at, NEW l \in Locals, Within(at, l),
         NEW where \in Positions, NEW m \in Locals, NEW k \in {0, 1},
         m.requests + Need(where, m)
           <= l.requests + Need(at, l) + (IF k = 1 THEN MaxRetries + 1 ELSE 0),
         Credit(where, m)' >= Credit(at, l) + k
  PROVE  Within(where, m)'
<1>1. /\ Credit(at, l) \in Int /\ Credit(where, m)' \in Int
  <2>1. /\ Waiting(at) \in {0, 1} /\ Waiting(where)' \in {0, 1}
        /\ Recovered(l) \in {0, 1} /\ Recovered(m) \in {0, 1}
    BY DEF Waiting, Recovered
  <2> QED
    BY <2>1 DEF QueueGrows, Credit
<1>2. Worth(Credit(at, l) + k) = Worth(Credit(at, l)) + (IF k = 1 THEN MaxRetries + 1 ELSE 0)
  <2>1. CASE k = 1
    <3>1. Worth(Credit(at, l) + 1) = Worth(Credit(at, l)) + MaxRetries + 1
      BY <1>1, WorthSucc
    <3>2. Worth(Credit(at, l)) \in Int
      BY <1>1, WorthInt
    <3> QED
      BY <2>1, <3>1, <3>2, TurnPolicyAssumption
  <2>2. CASE k = 0
    <3>1. Credit(at, l) + k = Credit(at, l) /\ Worth(Credit(at, l)) \in Int
      BY <1>1, <2>2, WorthInt
    <3> QED
      BY <2>2, <3>1
  <2> QED
    BY <2>1, <2>2
<1>3. Worth(Credit(at, l) + k) <= Worth(Credit(where, m)')
  BY <1>1, WorthMono
<1>4. /\ Worth(Credit(at, l)) \in Int /\ Worth(Credit(where, m)') \in Int
      /\ l.requests \in Nat /\ m.requests \in Nat
      /\ Need(at, l) \in Int /\ Need(where, m) \in Int
  BY <1>1, WorthInt, Numbers
<1> QED
  BY <1>2, <1>3, <1>4, TurnPolicyAssumption DEF Within

(* The credit of a thread moves with the queue and its own recovery.        *)
LEMMA CreditMoves ==
  ASSUME QueueGrows, NEW at, NEW where, NEW l \in Locals, NEW m \in Locals,
         at # "continue", Recovered(m) >= Recovered(l)
  PROVE  /\ Credit(where, m)' >= Credit(at, l)
         /\ Recovered(m) = Recovered(l) + 1 => Credit(where, m)' >= Credit(at, l) + 1
         /\ Gone' >= Gone + 1 => Credit(where, m)' >= Credit(at, l) + 1
<1>1. /\ Waiting(at) = 0 /\ Waiting(where)' \in {0, 1}
      /\ Recovered(l) \in {0, 1} /\ Recovered(m) \in {0, 1}
  BY DEF Waiting, Recovered
<1>2. /\ Credit(at, l) = Gone + 0 + Recovered(l) + 1
      /\ Credit(where, m)' = Gone' + Waiting(where)' + Recovered(m) + 1
  BY <1>1 DEF Credit, Recovered
<1> QED
  BY <1>1, <1>2 DEF QueueGrows

LEMMA FinishWithin ==
  ASSUME TypeOK, Budget, QueueGrows, NEW p \in Prompts, Finish(p)
  PROVE  Within(pc[p], local[p])'
<1>1. pc'[p] = "done" /\ local'[p] = NoLocals
  BY DEF Finish, TypeOK
<1>2. Gone >= 0 /\ Gone \in Int /\ Gone' >= 0 /\ Gone' \in Int
  BY DEF TypeOK, Budget, Gone, QueueGrows
<1>3. Credit("done", NoLocals)' \in Int /\ Credit("done", NoLocals)' >= 1
  <2>1. Waiting("done")' = 0 /\ Recovered(NoLocals) = 0
    BY DEF Waiting, Recovered, NoLocals
  <2>2. Credit("done", NoLocals)' = Gone' + 0 + 0 + 1
    BY <2>1 DEF Credit, Recovered, NoLocals
  <2> QED
    BY <1>2, <2>2
<1>4. Worth(1) <= Worth(Credit("done", NoLocals)')
      /\ Worth(1) \in Int /\ Worth(Credit("done", NoLocals)') \in Int
  BY <1>3, WorthMono, WorthInt
<1>5. NoLocals.requests + Need("done", NoLocals) = 0
  BY DEF NoLocals, Need
<1>6. 0 <= Worth(Credit("done", NoLocals)')
  BY <1>4, WorthOne, TurnPolicyAssumption
<1>7. Within("done", NoLocals)'
  <2>1. NoLocals.requests + Need("done", NoLocals) <= Worth(Credit("done", NoLocals)')
    BY <1>5, <1>6
  <2> QED
    BY <2>1 DEF Within
<1> QED
  BY <1>1, <1>7

(* A thread that only moves, to a place with no greater need.               *)
LEMMA PlainMove ==
  ASSUME TypeOK, Budget, QueueGrows, NEW p \in Prompts, pc[p] # "continue",
         NEW where \in Positions, NEW m \in Locals, GotoWith(p, where, m),
         m.requests = local[p].requests, m.overflowTried = local[p].overflowTried,
         Need(where, m) <= Need(pc[p], local[p])
  PROVE  Within(pc[p], local[p])'
<1>1. pc'[p] = where /\ local'[p] = m /\ local[p] \in Locals
  BY DEF GotoWith, TypeOK
<1>2. Recovered(m) = Recovered(local[p])
  BY DEF Recovered
<1>3. Within(pc[p], local[p])
  BY DEF Budget
<1>4. Credit(where, m)' >= Credit(pc[p], local[p]) + 0
  <2>1. Credit(where, m)' >= Credit(pc[p], local[p])
    BY <1>1, <1>2, CreditMoves, Numbers
  <2>2. Credit(pc[p], local[p]) \in Int
    BY <1>1, Numbers DEF Credit, QueueGrows
  <2> QED
    BY <2>1, <2>2
<1>5. m.requests + Need(where, m)
        <= local[p].requests + Need(pc[p], local[p]) + (IF 0 = 1 THEN MaxRetries + 1 ELSE 0)
  BY <1>1, Numbers
<1>6. Within(where, m)'
  BY <1>1, <1>3, <1>4, <1>5, MoveWithin
<1> QED
  BY <1>1, <1>6

(* A claim that takes a message has one unit more to spend.                 *)
LEMMA ClaimWithin ==
  ASSUME TypeOK, Budget, QueueGrows, NEW p \in Prompts, NEW s, ClaimRun(p, s),
         steers' = steers, pc[p] \in {"prompt", "continue", "again"},
         pc[p] = "again" => steering > 0
  PROVE  Within(pc[p], local[p])'
<1>0. PICK l \in Locals : l = local[p]
  BY DEF TypeOK
<1>1. /\ pc'[p] = "running" /\ local'[p] = l /\ l \in Locals
      /\ "running" \in Positions /\ Within(pc[p], l)
  BY <1>0 DEF ClaimRun, Goto, GotoWith, TypeOK, Budget, Positions
<1>2. Gone' = Gone + Waiting("continue") /\ Waiting("continue") \in {0, 1}
  BY ClaimQueue DEF Waiting
<1>3. Need("running", l) = MaxRetries - l.attempt + 1
  BY DEF Need
<1>4. /\ l.requests \in Nat /\ l.attempt \in 0 .. MaxRetries
      /\ Recovered(l) \in {0, 1} /\ Gone \in Int
  BY <1>1, Numbers DEF QueueGrows
<1>5. Credit("running", l)' = Gone' + 0 + Recovered(l) + 1
  <2>1. Waiting("running")' = 0
    BY DEF Waiting
  <2> QED
    BY <2>1 DEF Credit, Recovered
<1>6. CASE pc[p] \in {"prompt", "continue"}
  <2>1. Need(pc[p], l) = MaxRetries - l.attempt + 1
    BY <1>6 DEF Need
  <2>2. Waiting(pc[p]) \in {0, 1} /\ Waiting(pc[p]) <= Waiting("continue")
    BY <1>6 DEF Waiting
  <2>3. Credit(pc[p], l) = Gone + Waiting(pc[p]) + Recovered(l) + 1
    BY DEF Credit
  <2>4. Credit("running", l)' >= Credit(pc[p], l) + 0
    BY <1>2, <1>4, <1>5, <2>2, <2>3
  <2>5. l.requests + Need("running", l)
          <= l.requests + Need(pc[p], l) + (IF 0 = 1 THEN MaxRetries + 1 ELSE 0)
    BY <1>3, <1>4, <2>1, TurnPolicyAssumption
  <2> QED
    BY <1>1, <2>4, <2>5, MoveWithin
<1>7. CASE pc[p] = "again"
  <2>1. Need(pc[p], l) = MaxRetries - l.attempt
    BY <1>7 DEF Need
  <2>2. Waiting(pc[p]) = 0 /\ Waiting("continue") = 1
    BY <1>7 DEF Waiting
  <2>3. Credit(pc[p], l) = Gone + 0 + Recovered(l) + 1
    BY <2>2 DEF Credit
  <2>4. Credit("running", l)' >= Credit(pc[p], l) + 1
    BY <1>2, <1>4, <1>5, <2>2, <2>3
  <2>5. l.requests + Need("running", l)
          <= l.requests + Need(pc[p], l) + (IF 1 = 1 THEN MaxRetries + 1 ELSE 0)
    BY <1>3, <1>4, <2>1, TurnPolicyAssumption
  <2> QED
    BY <1>1, <2>4, <2>5, MoveWithin
<1> QED
  BY <1>6, <1>7

(* A reply spends one request, and the next message buys another.           *)
LEMMA ReplyWithin ==
  ASSUME TypeOK, Budget, QueueGrows, NEW p \in Prompts, Reply(p)
  PROVE  Within(pc[p], local[p])'
<1>0. PICK l \in Locals : l = local[p]
  BY DEF TypeOK
<1>1. pc[p] = "running" /\ l \in Locals /\ Within("running", l) /\ steers' = steers
  BY <1>0 DEF Reply, TypeOK, Budget, uiVars
<1> DEFINE m == [l EXCEPT !.requests = @ + 1]
<1>2. m \in Locals /\ m.requests = l.requests + 1 /\ m.attempt = l.attempt
      /\ Recovered(m) = Recovered(l)
  BY <1>1 DEF Locals, Recovered
<1>3. \/ GotoWith(p, "running", m) /\ steering' = steering - 1
      \/ GotoWith(p, "ended", m)
  BY <1>0 DEF Reply
<1>4. Need("running", l) = MaxRetries - l.attempt + 1
      /\ Need("running", m) = MaxRetries - l.attempt + 1
      /\ Need("ended", m) = MaxRetries - l.attempt
  BY <1>2 DEF Need
<1>5. l.requests \in Nat /\ l.attempt \in 0 .. MaxRetries /\ Recovered(l) \in {0, 1}
      /\ Recovered(m) >= Recovered(l)
  BY <1>1, <1>2, Numbers
<1>6. {"running", "ended"} \subseteq Positions
  BY DEF Positions
<1> HIDE DEF m
<1>7. CASE GotoWith(p, "running", m) /\ steering' = steering - 1
  <2>1. Gone' >= Gone + 1
    <3>1. steers' - steering' = (steers - steering) + 1
      BY <1>1, <1>7 DEF TypeOK
    <3> QED
      BY <1>1, <3>1 DEF Gone, TypeOK
  <2>2. Credit("running", m)' >= Credit("running", l) + 1
    BY <1>1, <1>2, <1>5, <2>1, CreditMoves
  <2>3. m.requests + Need("running", m)
          <= l.requests + Need("running", l) + (IF 1 = 1 THEN MaxRetries + 1 ELSE 0)
    BY <1>2, <1>4, <1>5, TurnPolicyAssumption
  <2>4. Within("running", m)'
    BY <1>1, <1>2, <1>6, <2>2, <2>3, MoveWithin
  <2> QED
    BY <1>7, <2>4 DEF GotoWith, TypeOK
<1>8. CASE GotoWith(p, "ended", m)
  <2>1. Credit("ended", m)' >= Credit("running", l) + 0
    <3>1. Credit("ended", m)' >= Credit("running", l)
      BY <1>1, <1>2, <1>5, CreditMoves
    <3>2. Credit("running", l) \in Int
      BY <1>5, Numbers, <1>1 DEF Credit, QueueGrows
    <3> QED
      BY <3>1, <3>2
  <2>2. m.requests + Need("ended", m)
          <= l.requests + Need("running", l) + (IF 0 = 1 THEN MaxRetries + 1 ELSE 0)
    BY <1>2, <1>4, <1>5, TurnPolicyAssumption
  <2>3. Within("ended", m)'
    BY <1>1, <1>2, <1>6, <2>1, <2>2, MoveWithin
  <2> QED
    BY <1>8, <2>3 DEF GotoWith, TypeOK
<1> QED
  BY <1>3, <1>7, <1>8

(* A look grants retries within the attempts left, and one recovery, which  *)
(* is a unit of its own.                                                    *)
LEMMA LookWithin ==
  ASSUME TypeOK, Budget, QueueGrows, NEW p \in Prompts, Look(p)
  PROVE  Within(pc[p], local[p])'
<1> DEFINE l == local[p]
<1>1. pc[p] = "look" /\ l \in Locals /\ Within("look", l) /\ l.overflowTried \in BOOLEAN
  BY DEF Look, TypeOK, Budget, Locals
<1>2. CASE ~LastReply(transcript)
  BY <1>2, FinishWithin DEF Look
<1>3. CASE LastReply(transcript)
  <2>1. PICK where, m :
          /\ where \in {"arm", "queued", "shed", "measure"}
          /\ GotoWith(p, where, m)
          /\ m.requests = l.requests
          /\ where = "arm" => /\ l.attempt < MaxRetries /\ m.attempt = l.attempt + 1
                              /\ m.overflowTried = l.overflowTried
          /\ where = "shed" => ~l.overflowTried /\ m.overflowTried
          /\ where = "measure" => m.why \notin {"pre", "overflow"}
          /\ l.overflowTried => m.overflowTried
    <3> DEFINE r == Last(transcript)
               retries  == r = "failed" /\ HasAttempts(AttemptAfter(p, r))
               recovers == IsOverflow(r) \/ r = "length"
               next == CASE retries -> "arm"
                         [] ~retries /\ recovers /\ l.overflowTried -> "queued"
                         [] ~retries /\ recovers /\ ~l.overflowTried
                              /\ WillRetry(r) -> "shed"
                         [] OTHER -> "measure"
               m == [l EXCEPT
                       !.snap = IF next \in {"arm", "shed"} THEN transcript ELSE <<>>,
                       !.attempt = AttemptAfter(p, r) + (IF retries THEN 1 ELSE 0),
                       !.overflowTried = @ \/ recovers,
                       !.why = IF WillRetry(r) THEN "overflow"
                               ELSE IF recovers THEN "silent" ELSE "threshold"]
    <3>1. GotoWith(p, next, m)
      BY <1>3 DEF Look
    <3>2. /\ m.requests = l.requests
          /\ m.overflowTried = (l.overflowTried \/ recovers)
          /\ m.attempt = AttemptAfter(p, r) + (IF retries THEN 1 ELSE 0)
          /\ m.why = IF WillRetry(r) THEN "overflow"
                     ELSE IF recovers THEN "silent" ELSE "threshold"
      BY <1>1 DEF Locals
    <3>3. next = "arm" => retries
      OBVIOUS
    <3>4. retries => /\ ~recovers /\ AttemptAfter(p, r) = l.attempt
                     /\ l.attempt < MaxRetries
      BY DEF IsOverflow, AttemptAfter, HasAttempts, Errors
    <3>5. next = "shed" => ~l.overflowTried /\ recovers
      OBVIOUS
    <3>6. WillRetry(r) => recovers
      BY DEF WillRetry, IsOverflow
    <3>7. next = "measure" => ~(recovers /\ (l.overflowTried \/ WillRetry(r)))
      OBVIOUS
    <3>8. next \in {"arm", "queued", "shed", "measure"}
      OBVIOUS
    <3> HIDE DEF next, m, retries, recovers, r
    <3>9. next = "measure" => m.why \notin {"pre", "overflow"}
      BY <3>2, <3>6, <3>7
    <3>10. next = "arm" => /\ l.attempt < MaxRetries /\ m.attempt = l.attempt + 1
                           /\ m.overflowTried = l.overflowTried
      BY <1>1, <3>2, <3>3, <3>4
    <3>11. next = "shed" => ~l.overflowTried /\ m.overflowTried
      BY <3>2, <3>5
    <3>12. l.overflowTried => m.overflowTried
      BY <3>2
    <3> QED
      BY <3>1, <3>2, <3>8, <3>9, <3>10, <3>11, <3>12
  <2>2. pc'[p] = where /\ local'[p] = m /\ where \in Positions /\ m \in Locals
    <3>1. TypeOK'
      BY LookType
    <3>2. pc'[p] = where /\ local'[p] = m
      BY <2>1 DEF GotoWith, TypeOK
    <3> QED
      BY <3>1, <3>2 DEF TypeOK
  <2>3. /\ l.requests \in Nat /\ l.attempt \in 0 .. MaxRetries
        /\ m.attempt \in 0 .. MaxRetries /\ m.overflowTried \in BOOLEAN
    BY <1>1, <2>2, Numbers
  <2>4. Recovered(m) >= Recovered(l) /\ Recovered(l) \in {0, 1}
    BY <1>1, <2>1, <2>3 DEF Recovered
  <2>5. Need("look", l) = MaxRetries - l.attempt
    BY DEF Need
  <2>6. Credit("look", l) \in Int
    BY <1>1, Numbers DEF Credit, QueueGrows
  <2>7. Credit(where, m)' >= Credit("look", l) + 0
    BY <1>1, <2>2, <2>4, <2>6, CreditMoves
  <2>8. CASE where \in {"arm", "queued", "measure"}
    <3>1. Need(where, m) <= MaxRetries - l.attempt
      BY <2>1, <2>3, <2>8, TurnPolicyAssumption DEF Need
    <3>2. m.requests + Need(where, m)
            <= l.requests + Need("look", l) + (IF 0 = 1 THEN MaxRetries + 1 ELSE 0)
      <4>1. Need(where, m) \in Int /\ m.requests = l.requests
        BY <2>1, <2>2, Numbers
      <4> QED
        BY <2>3, <2>5, <3>1, <4>1, TurnPolicyAssumption
    <3> QED
      BY <1>1, <2>2, <2>7, <3>2, MoveWithin
  <2>9. CASE where = "shed"
    <3>1. Recovered(m) = Recovered(l) + 1
      BY <1>1, <2>1, <2>9 DEF Recovered
    <3>2. Credit(where, m)' >= Credit("look", l) + 1
      BY <1>1, <2>2, <2>4, <3>1, CreditMoves
    <3>3. Need(where, m) = MaxRetries - m.attempt + 1
      BY <2>9 DEF Need
    <3>4. m.requests + Need(where, m)
            <= l.requests + Need("look", l) + (IF 1 = 1 THEN MaxRetries + 1 ELSE 0)
      BY <2>1, <2>3, <2>5, <3>3, TurnPolicyAssumption
    <3> QED
      BY <1>1, <2>2, <3>2, <3>4, MoveWithin
  <2> QED
    BY <2>1, <2>8, <2>9
<1> QED
  BY <1>2, <1>3

(* Going on because a message waits: it is worth a run.                     *)
LEMMA CheckQueueWithin ==
  ASSUME TypeOK, Budget, QueueGrows, NEW p \in Prompts, CheckQueue(p)
  PROVE  Within(pc[p], local[p])'
<1>0. PICK l \in Locals : l = local[p]
  BY DEF TypeOK
<1>1. pc[p] = "queued" /\ Within("queued", l) /\ UNCHANGED <<steering, steers>>
  BY <1>0 DEF CheckQueue, Budget, agentVars, uiVars
<1>2. CASE steering = 0
  BY <1>2, FinishWithin DEF CheckQueue, TypeOK
<1>3. CASE steering > 0
  <2>1. pc'[p] = "continue" /\ local'[p] = l /\ "continue" \in Positions
    BY <1>0, <1>3 DEF CheckQueue, Goto, GotoWith, TypeOK, Positions
  <2>2. Waiting("queued") = 0 /\ Waiting("continue")' = 1 /\ Gone' = Gone
    BY <1>1, <1>3 DEF Waiting, Gone
  <2>3. /\ Credit("queued", l) = Gone + 0 + Recovered(l) + 1
        /\ Credit("continue", l)' = Gone' + 1 + Recovered(l) + 1
    BY <2>2 DEF Credit, Recovered
  <2>4. l.requests \in Nat /\ l.attempt \in 0 .. MaxRetries
        /\ Recovered(l) \in {0, 1} /\ Gone \in Int
    BY Numbers DEF QueueGrows
  <2>5. Need("queued", l) = 0 /\ Need("continue", l) = MaxRetries - l.attempt + 1
    BY DEF Need
  <2>6. Credit("continue", l)' >= Credit("queued", l) + 1
    BY <2>2, <2>3, <2>4
  <2>7. l.requests + Need("continue", l)
          <= l.requests + Need("queued", l) + (IF 1 = 1 THEN MaxRetries + 1 ELSE 0)
    BY <2>4, <2>5, TurnPolicyAssumption
  <2>8. Within("continue", l)'
    BY <1>1, <2>1, <2>6, <2>7, MoveWithin
  <2> QED
    BY <2>1, <2>8
<1> QED
  BY <1>2, <1>3 DEF TypeOK

(* What a compaction asks for, before, during and after it.                 *)
LEMMA CompactionWithin ==
  ASSUME TypeOK, Budget, QueueGrows, NEW p \in Prompts,
         Measure(p) \/ ApplyCut(p) \/ AnnounceCut(p)
  PROVE  Within(pc[p], local[p])'
<1> DEFINE l == local[p]
           run == MaxRetries - l.attempt + 1
<1>0. /\ l \in Locals /\ pc[p] # "continue" /\ run \in Nat
      /\ pc[p] \in {"pre", "measure", "compact", "announce"}
      /\ {"compact", "announce", "prompt", "queued", "continue"} \subseteq Positions
  <2>1. l \in Locals /\ l.attempt \in 0 .. MaxRetries
    BY Numbers DEF TypeOK
  <2>2. pc[p] \in {"pre", "measure", "compact", "announce"}
    BY DEF Measure, ApplyCut, AnnounceCut
  <2>3. run \in Nat
    BY <2>1, TurnPolicyAssumption
  <2>4. {"compact", "announce", "prompt", "queued", "continue"} \subseteq Positions
    BY DEF Positions
  <2> QED
    BY <2>1, <2>2, <2>3, <2>4
<1>1. /\ Need(pc[p], l) >= 0 /\ Need(pc[p], l) \in Int
      /\ l.why \in {"pre", "overflow"} => Need(pc[p], l) = run
  <2>1. Need(pc[p], l) \in {0, run}
    BY <1>0 DEF Need
  <2>2. l.why \in {"pre", "overflow"} => Need(pc[p], l) = run
    BY <1>0 DEF Need
  <2> QED
    BY <1>0, <2>1, <2>2
<1>2. ASSUME NEW where \in {"queued", "prompt", "continue"}, GotoWith(p, where, l),
             where # "queued" => l.why \in {"pre", "overflow"}
      PROVE  Within(pc[p], local[p])'
  <2>1. Need(where, l) <= Need(pc[p], l)
    <3>1. CASE where = "queued"
      <4>1. Need(where, l) = 0
        BY <3>1 DEF Need
      <4> QED
        BY <1>1, <4>1
    <3>2. CASE where # "queued"
      <4>1. Need(where, l) = run
        BY <1>2, <3>2 DEF Need
      <4> QED
        BY <1>0, <1>1, <1>2, <3>2, <4>1
    <3> QED
      BY <3>1, <3>2
  <2> QED
    BY <1>0, <1>2, <2>1, PlainMove
<1>3. ASSUME NEW where \in {"compact", "announce"}, NEW m \in Locals, GotoWith(p, where, m),
             m.requests = l.requests, m.overflowTried = l.overflowTried,
             m.attempt = l.attempt, m.why = l.why
      PROVE  Within(pc[p], local[p])'
  <2>1. Need(where, m) <= Need(pc[p], l)
    <3>1. CASE l.why \in {"pre", "overflow"}
      <4>1. Need(where, m) = run
        BY <1>3, <3>1 DEF Need
      <4> QED
        BY <1>0, <1>1, <3>1, <4>1
    <3>2. CASE l.why \notin {"pre", "overflow"}
      <4>1. Need(where, m) = 0
        BY <1>3, <3>2 DEF Need
      <4> QED
        BY <1>1, <4>1
    <3> QED
      BY <3>1, <3>2
  <2> QED
    BY <1>0, <1>3, <2>1, PlainMove
<1>4. CASE Failed(p)
  BY <1>2, <1>4, FailedMeans, FinishWithin
<1>5. CASE Skipped(p)
  BY <1>2, <1>5 DEF Skipped, Goto
<1>6. CASE AnnounceCut(p)
  BY <1>2, <1>6 DEF AnnounceCut, After, Goto
<1>7. CASE \E c \in Cuts(transcript) :
             GotoWith(p, "compact", [l EXCEPT !.cut = c, !.snap = transcript])
  <2>1. PICK c \in Cuts(transcript) :
          GotoWith(p, "compact", [l EXCEPT !.cut = c, !.snap = transcript])
    BY <1>7
  <2>2. c \in Nat /\ transcript \in Seq(Entries)
    BY DEF Cuts, TypeOK
  <2>3. [l EXCEPT !.cut = c, !.snap = transcript] \in Locals
    BY <1>0, <2>2 DEF Locals
  <2> QED
    BY <1>0, <1>3, <2>1, <2>3 DEF Locals
<1>8. CASE GotoWith(p, "announce", [l EXCEPT !.snap = <<>>, !.cut = 0])
  <2>1. <<>> \in Seq(Entries)
    OBVIOUS
  <2>2. [l EXCEPT !.snap = <<>>, !.cut = 0] \in Locals
    BY <1>0, <2>1 DEF Locals
  <2> QED
    BY <1>0, <1>3, <1>8, <2>2 DEF Locals
<1> QED
  BY <1>4, <1>5, <1>6, <1>7, <1>8 DEF Measure, ApplyCut

(* Every step of a thread keeps it within its credit.                       *)
LEMMA ThreadWithin ==
  ASSUME TypeOK, Budget, QueueGrows, NEW p \in Prompts, PolicyStep(p)
  PROVE  Within(pc[p], local[p])'
<1>0. /\ local[p] \in Locals /\ pc[p] \in Positions /\ Within(pc[p], local[p])
      /\ local[p].attempt \in 0 .. MaxRetries /\ MaxRetries \in Nat
  BY TurnPolicyAssumption DEF TypeOK, Budget, Locals
<1>1. CASE PromptAgent(p) \/ RunQueued(p) \/ ContinueRun(p)
  <2>1. steers' = steers /\ pc[p] \in {"prompt", "again", "continue"}
    BY <1>1 DEF PromptAgent, RunQueued, ContinueRun, uiVars
  <2>2. CASE Finish(p)
    BY <2>2, FinishWithin
  <2>3. CASE RunQueued(p) /\ Goto(p, "look")
    <3>1. pc[p] = "again" /\ "look" \in Positions
      BY <2>3 DEF RunQueued, Positions
    <3>2. Need("look", local[p]) = MaxRetries - local[p].attempt
          /\ Need(pc[p], local[p]) = MaxRetries - local[p].attempt
      BY <3>1 DEF Need
    <3>3. Need("look", local[p]) <= Need(pc[p], local[p])
      BY <1>0, <3>2
    <3> QED
      BY <1>0, <2>3, <3>1, <3>3, PlainMove DEF Goto
  <2>4. ASSUME NEW s, ClaimRun(p, s), pc[p] = "again" => steering > 0
        PROVE  Within(pc[p], local[p])'
    BY <2>1, <2>4, ClaimWithin
  <2>5. CASE PromptAgent(p)
    BY <2>2, <2>4, <2>5 DEF PromptAgent, Refused
  <2>6. CASE RunQueued(p)
    BY <2>2, <2>3, <2>4, <2>6 DEF RunQueued, Refused
  <2>7. CASE ContinueRun(p)
    BY <2>2, <2>4, <2>7 DEF ContinueRun, Refused
  <2> QED
    BY <1>1, <2>5, <2>6, <2>7
<1>2. CASE Reply(p)
  BY <1>2, ReplyWithin
<1>3. CASE EndRun(p)
  <2>1. pc'[p] = pc[p] /\ local'[p] = local[p]
    BY <1>3 DEF EndRun
  <2> QED
    BY <1>0, <2>1, RestWithin
<1>4. CASE ReleaseRun(p)
  <2>1. pc[p] = "ended" /\ GotoWith(p, "again", local[p]) /\ "again" \in Positions
    BY <1>4 DEF ReleaseRun, Goto, Positions
  <2>2. Need("again", local[p]) = MaxRetries - local[p].attempt
        /\ Need(pc[p], local[p]) = MaxRetries - local[p].attempt
    BY <2>1 DEF Need
  <2>3. Need("again", local[p]) <= Need(pc[p], local[p])
    BY <1>0, <2>2
  <2> QED
    BY <1>0, <2>1, <2>3, PlainMove
<1>5. CASE Look(p)
  BY <1>5, LookWithin
<1>6. CASE Arm(p) \/ WakeUp(p) \/ DropLast(p)
  <2>1. CASE Finish(p)
    BY <2>1, FinishWithin
  <2>2. CASE ~Finish(p)
    <3>1. PICK where \in {"pause", "drop", "continue", "measure"}, m \in Locals :
            /\ GotoWith(p, where, m)
            /\ m.requests = local[p].requests /\ m.attempt = local[p].attempt
            /\ m.overflowTried = local[p].overflowTried
      <4>1. CASE Arm(p)
        <5>1. [local[p] EXCEPT !.abortsSeen = aborts] \in Locals
          BY <1>0 DEF Locals, TypeOK
        <5> QED
          BY <1>0, <4>1, <5>1 DEF Arm, Locals
      <4>2. CASE WakeUp(p)
        BY <1>0, <2>2, <4>2 DEF WakeUp, Goto
      <4>3. CASE DropLast(p)
        <5>1. <<>> \in Seq(Entries)
          OBVIOUS
        <5>2. [local[p] EXCEPT !.snap = <<>>] \in Locals
          BY <1>0, <5>1 DEF Locals
        <5> QED
          BY <1>0, <4>3, <5>2 DEF DropLast, Locals
      <4> QED
        BY <1>6, <4>1, <4>2, <4>3
    <3>2. pc[p] \in {"arm", "pause", "drop", "shed"} /\ where \in Positions
      BY <1>6, <3>1 DEF Arm, WakeUp, DropLast, Positions
    <3>3. Need(pc[p], local[p]) = MaxRetries - local[p].attempt + 1
      BY <3>2 DEF Need
    <3>4. Need(where, m) \in {0, MaxRetries - local[p].attempt + 1}
      BY <3>1 DEF Need
    <3>5. Need(where, m) <= Need(pc[p], local[p])
      BY <1>0, <3>3, <3>4
    <3> QED
      BY <3>1, <3>2, <3>5, PlainMove
  <2> QED
    BY <2>1, <2>2
<1>7. CASE CheckQueue(p)
  BY <1>7, CheckQueueWithin
<1>8. CASE Measure(p) \/ ApplyCut(p) \/ AnnounceCut(p)
  BY <1>8, CompactionWithin
<1> QED
  BY <1>1, <1>2, <1>3, <1>4, <1>5, <1>6, <1>7, <1>8 DEF PolicyStep

(* A prompt begins with the worth of one run; the interface changes nothing *)
(* else a thread's credit depends on but the queue.                         *)
LEMMA InterfaceWithin ==
  ASSUME TypeOK, Budget, QueueGrows, Interface, NEW p \in Prompts
  PROVE  /\ Within(pc[p], local[p])'
         /\ (pc[p] = "idle" => Unspent(local[p]))'
<1>0. PICK l \in Locals, at \in Positions : l = local[p] /\ at = pc[p]
  BY DEF TypeOK
<1>1. Within(at, l) /\ (at = "idle" => Unspent(l))
  BY <1>0 DEF Budget
<1>2. Within(at, l)'
  BY <1>1, RestWithin
<1>3. CASE Submit /\ at = "idle" /\ pc'[p] # "idle"
  <2>1. pc'[p] = "pre" /\ local'[p] = [l EXCEPT !.why = "pre"]
    BY <1>0, <1>1, <1>3 DEF Submit, TypeOK
  <2> DEFINE m == [l EXCEPT !.why = "pre"]
  <2>2. m \in Locals /\ m.requests = 0 /\ m.attempt = 0 /\ ~m.overflowTried
    BY <1>1, <1>3 DEF Unspent, Locals, Reasons
  <2> HIDE DEF m
  <2>3. Need("pre", m) = MaxRetries + 1
    BY <2>2, TurnPolicyAssumption DEF Need
  <2>4. Gone' >= 0 /\ Gone' \in Int
    BY DEF TypeOK, Budget, Gone, QueueGrows
  <2>5. Credit("pre", m)' = Gone' + 0 + 0 + 1
    BY <2>2 DEF Credit, Waiting, Recovered
  <2>6. Worth(1) <= Worth(Credit("pre", m)')
    BY <2>4, <2>5, WorthMono
  <2>7. m.requests + Need("pre", m) <= Worth(Credit("pre", m)')
    BY <2>2, <2>3, <2>6, WorthOne, TurnPolicyAssumption
  <2>8. Within("pre", m)'
    BY <2>7 DEF Within
  <2> QED
    BY <2>1, <2>8 DEF m
<1>4. CASE Abort
  <2>1. pc'[p] = at /\ local'[p] = [l EXCEPT !.stopped = @ \/ at = "pause"]
    BY <1>0, <1>4 DEF Abort
  <2> DEFINE m == [l EXCEPT !.stopped = @ \/ at = "pause"]
  <2>2. m \in Locals /\ m.requests = l.requests /\ m.attempt = l.attempt
        /\ m.overflowTried = l.overflowTried /\ m.why = l.why
    BY DEF Locals
  <2>3. at = "idle" => Unspent(m)
    BY <1>1, <2>2 DEF Unspent
  <2> HIDE DEF m
  <2>4. Need(at, m) = Need(at, l) /\ Recovered(m) = Recovered(l)
    BY <2>2 DEF Need, Recovered
  <2>5. Credit(at, m)' = Credit(at, l)'
    BY <2>4 DEF Credit, Recovered
  <2>6. Within(at, m)'
    BY <1>2, <2>2, <2>4, <2>5 DEF Within
  <2> QED
    BY <2>1, <2>3, <2>6 DEF m
<1>5. CASE pc'[p] = at /\ local'[p] = l
  BY <1>1, <1>2, <1>5
<1>6. \/ Submit /\ at = "idle" /\ pc'[p] # "idle"
      \/ Abort
      \/ pc'[p] = at /\ local'[p] = l
  <2>1. CASE DrainEvents \/ DrainResults \/ DrainNotices \/ Reset \/ NoInput
    BY <1>0, <2>1 DEF DrainEvents, DrainResults, DrainNotices, Reset, NoInput
  <2>2. CASE Submit
    BY <1>0, <2>2 DEF Submit, TypeOK
  <2> QED
    BY <2>1, <2>2 DEF Interface
<1> QED
  BY <1>3, <1>4, <1>5, <1>6

LEMMA BudgetInit == Init => Budget
<1> SUFFICES ASSUME Init PROVE Budget
  OBVIOUS
<1>1. /\ steering = 0 /\ steers = 0
      /\ \A p \in Prompts : pc[p] = "idle" /\ local[p] = NoLocals
  BY DEF Init
<1>2. NoLocals.requests = 0 /\ Need("idle", NoLocals) = 0
  BY DEF NoLocals, Need
<1>3. Credit("idle", NoLocals) = 1
  BY <1>1 DEF Credit, Gone, Waiting, Recovered, NoLocals
<1>4. 0 + 0 <= Worth(1)
  BY WorthOne, TurnPolicyAssumption
<1>5. Within("idle", NoLocals)
  BY <1>2, <1>3, <1>4 DEF Within
<1> QED
  BY <1>1, <1>5 DEF Budget, Unspent, NoLocals

LEMMA BudgetStep == TypeOK /\ Budget /\ [Next]_vars => Budget'
<1>1. ASSUME TypeOK, Budget, Next PROVE Budget'
  <2>1. QueueGrows /\ steering' <= steers'
    BY <1>1, QueueStep
  <2>2. ASSUME NEW q \in Prompts, PolicyStep(q), NEW p \in Prompts
        PROVE  /\ Within(pc[p], local[p])'
               /\ (pc[p] = "idle" => Unspent(local[p]))'
    <3>1. CASE p = q
      <4>1. pc'[p] # "idle"
        BY <1>1, <2>2, <3>1
        DEF PolicyStep, PromptAgent, Reply, EndRun, ReleaseRun, RunQueued, ContinueRun,
            Look, Arm, WakeUp, DropLast, CheckQueue, Measure, ApplyCut, AnnounceCut,
            ClaimRun, Refused, Finish, Goto, GotoWith, Failed, Skipped, After, TypeOK
      <4> QED
        BY <1>1, <2>1, <2>2, <3>1, <4>1, ThreadWithin
    <3>2. CASE p # q
      <4>1. PICK l \in Locals, at \in Positions : l = local[p] /\ at = pc[p]
        BY <1>1 DEF TypeOK
      <4>2. Within(at, l)'
        BY <1>1, <2>1, <4>1, RestWithin DEF Budget
      <4>3. pc'[p] = at /\ local'[p] = l
        BY <1>1, <2>2, <3>2, <4>1, OthersRest
      <4> QED
        BY <1>1, <4>1, <4>2, <4>3 DEF Budget
    <3> QED
      BY <3>1, <3>2
  <2>3. \A p \in Prompts : /\ Within(pc[p], local[p])'
                          /\ (pc[p] = "idle" => Unspent(local[p]))'
    BY <1>1, <2>1, <2>2, InterfaceWithin DEF Next
  <2> QED
    BY <2>1, <2>3 DEF Budget
<1>2. ASSUME Budget, UNCHANGED vars PROVE Budget'
  BY <1>2 DEF Budget, Within, Unspent, Credit, Gone, Waiting, Recovered, vars, agentVars, uiVars
<1> QED
  BY <1>1, <1>2

(* Whatever the provider answers, a prompt costs at most one run of          *)
(* requests for itself, one for the recovery from an overflow and one for    *)
(* each message steered.                                                     *)
THEOREM RequestsAreBounded == Spec => []RequestsBounded
<1>1. TypeOK /\ Budget => RequestsBounded
  <2> SUFFICES ASSUME TypeOK, Budget, NEW p \in Prompts
               PROVE  local[p].requests <= (MaxRetries + 1) * (steers + 2)
    BY DEF RequestsBounded
  <2>0. local[p] \in Locals /\ local[p].requests \in Nat
        /\ Need(pc[p], local[p]) \in Int /\ Need(pc[p], local[p]) >= 0
    BY Numbers DEF TypeOK
  <2>1. Credit(pc[p], local[p]) \in Int /\ Credit(pc[p], local[p]) <= steers + 2
    <3>1. Waiting(pc[p]) \in {0, 1} /\ Recovered(local[p]) \in {0, 1}
          /\ (Waiting(pc[p]) = 1 => steering > 0)
      BY DEF Waiting, Recovered
    <3>2. steering \in Nat /\ steers \in Nat
      BY DEF TypeOK
    <3> QED
      BY <3>1, <3>2 DEF Credit, Gone
  <2>2. Worth(Credit(pc[p], local[p])) <= Worth(steers + 2)
        /\ Worth(Credit(pc[p], local[p])) \in Int /\ Worth(steers + 2) \in Int
    BY <2>1, WorthMono, WorthInt DEF TypeOK
  <2>3. local[p].requests + Need(pc[p], local[p]) <= Worth(Credit(pc[p], local[p]))
    BY DEF Budget, Within
  <2>4. local[p].requests <= Worth(steers + 2)
    BY <2>0, <2>2, <2>3
  <2> QED
    BY <2>4 DEF Worth
<1> QED
  BY <1>1, InitType, StepType, BudgetInit, BudgetStep, PTL DEF Spec
=============================================================================
