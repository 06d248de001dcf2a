----------------------------- MODULE MCSharedFiles -----------------------------
(***************************************************************************)
(* The two kinds of files that several windows change without a lock: the  *)
(* planner's state file, or the records of the Ralph loops.                *)
(***************************************************************************)
EXTENDS PlannerProperties, RalphProperties, TLC

VARIABLE use

MCSymmetry == Permutations(Windows) \cup Permutations(Steps) \cup Permutations(Sessions)

\* The files that are not in use are the empty ones.
MCInit ==
    /\ Init /\ LoopsInit
    /\ \/ use = "planner" /\ live = [n \in Loops |-> Absent]
       \/ use = "loops" /\ file.id = 0

PlannerFile == use = "planner" /\ Next /\ UNCHANGED <<loopVars, use>>
LoopFiles == use = "loops" /\ LoopsNext /\ UNCHANGED <<vars, use>>

MCSpec == MCInit /\ [][PlannerFile \/ LoopFiles]_<<vars, loopVars, use>>
=============================================================================
