--------------------------- MODULE PlannerProperties ---------------------------
(* What several windows on one workspace may rely on.                      *)
EXTENDS Planner

\* What a window makes of a saved state: an executing plan is read again, and
\* its progress is dropped when the plan changed, all of it when it is gone.
Agrees(now, saved) ==
  \/ now = saved
  \/ NeedsPlan(saved) /\ \/ now = Default
                         \/ now.phase = "executing" /\ now.done = {} /\ now.plan # saved.plan

Quiet(w) == \A t \in ThreadsOf(w) : ~Midway(t) /\ ~HasSeen(t)

\* The window has nothing under way and knows the file's latest version.
UpToDate(w) == Quiet(w) /\ seen[w] = file.id /\ ~file.twin /\ ~apart[w]

(* A window that would find nothing to adopt has the shared state in       *)
(* memory: a version another window puts in place while this one saves is  *)
(* still noticed, since the fingerprint is taken before the rename         *)
(* (write_temporary), unless the two agree in time and length (a twin).    *)
(* Two more exceptions are marked by `apart`: a failed save and two threads*)
(* of one window that change and save across one another, after which the  *)
(* window and the file may differ for good.                                *)
SharedStateKnown == \A w \in Windows : UpToDate(w) => Agrees(mem[w], file.state)

(* "Completion markers from this turn land on the shared state instead of  *)
(* replacing it" (planner_subscription): a toggle or the end of a turn     *)
(* takes no mark out of the shared file, unless somebody else saved (or    *)
(* failed to) while the operation was under way, another thread of its     *)
(* window changed the state across it, or the file could not be told from  *)
(* the version the window knew (a twin).                                   *)
MarksKept ==
  [][\A t \in Threads :
       /\ at[t] = "save" /\ at'[t] # "save" /\ alone[t] /\ ~apart[Window(t)] /\ ~file.twin
       /\ file' # file /\ file'.state.plan = file.state.plan
       => file.state.done \subseteq file'.state.done]_vars

(* In a window that is up to date an approval starts execution only while  *)
(* the shared state says planning, however long the review took: `/planner`*)
(* may have toggled it meanwhile, "and an approval must not then start     *)
(* execution behind the user's back" (submit).  A toggle of another window *)
(* that was not adopted yet is not noticed.                                *)
ApprovalRespectsToggle ==
  [][\A w \in Windows :
       /\ UpToDate(w)
       /\ mem'[w].phase = "executing" /\ mem[w].phase # "executing" /\ mem'[w] # file.state
       => file.state.phase = "planning"]_vars
=============================================================================
