-------------------------------- MODULE Planner --------------------------------
(***************************************************************************)
(* The planner of several windows on one workspace (planner_runtime.rs and *)
(* the Manager of plannotator.rs).  Every window keeps a state in memory   *)
(* and shares one file with the others; `seen` is the fingerprint of the   *)
(* version it last wrote or read, and a file with another fingerprint is   *)
(* adopted before a toggle, a prompt and at the end of every turn.  In a   *)
(* window the interface and the agent's thread work at the same time: the  *)
(* manager's mutex is held for one step, `seen` for an adoption or a save. *)
(*                                                                         *)
(* Left out: the prompt and the tool list rebuilt from the state, the copy *)
(* in the session log, and what is not ours in the file (a malformed or a  *)
(* removed one).  A plan's versions are numbers; its steps arrive open.    *)
(***************************************************************************)
EXTENDS Naturals, Sequences, FiniteSets

CONSTANTS
  Windows,
  Steps,      \* the checklist of the plan
  MaxPlans,   \* bound: versions of the plan file
  MaxActs,    \* bound: toggles, turns, submissions, changes of the plan, restarts
  MaxFaults   \* bound: saves that fail or are not to be told from the last

ASSUME StepsAssumption == Steps # {} /\ IsFiniteSet(Steps)
ASSUME BoundsAssumption == {MaxPlans, MaxActs, MaxFaults} \subseteq Nat

Gone == 0

Phases == {"idle", "planning", "executing"}

\* plan is the hash of the plan that was approved, Gone before there is one.
States == [phase : Phases, plan : Nat, done : SUBSET Steps]
Default == [phase |-> "idle", plan |-> Gone, done |-> {}]

Threads == Windows \X {"ui", "agent"}
Window(t) == t[1]
Ui(w) == <<w, "ui">>
AgentOf(w) == <<w, "agent">>
ThreadsOf(w) == {t \in Threads : Window(t) = w}

VARIABLES
  plan,     \* version of the plan file in the workspace, or Gone
  file,     \* the shared file: state and fingerprint, 0 when there is none;
            \* twin (history): the version before it had the same fingerprint
  mem,      \* ManagerInner::state of every window
  seen,     \* Persistence::seen of every window
  at,       \* the stage each thread is at in its operation
  todo,     \* the stages that follow
  held,     \* what it carries: a state, with a fingerprint or a plan version
  running,  \* whether the window's agent is in a run
  acts, faults,
  apart,    \* history: threads of the window changed mem across one another,
            \* or a save failed, since mem and the file last agreed
  alone     \* history: when the thread's operation began its window was not
            \* apart, and nobody has tried to save since

vars == <<plan, file, mem, seen, at, todo, held, running, acts, faults, apart, alone>>
bounds == <<acts, faults>>
history == <<apart, alone>>

\* Stages that wait their turn, and those they go through; "free" is none.
Queued == {"adopt", "flip", "enter", "start", "track"}
Stages == Queued \cup {"free", "put", "reread", "refill", "approve", "save", "saved"}

Nothing == [state |-> Default, num |-> 0]

\* What earlier windows may have left: no file, or a plan under way.
Left == {[state |-> Default, id |-> 0, twin |-> FALSE],
         [state |-> [phase |-> "executing", plan |-> 1, done |-> {}], id |-> 1, twin |-> FALSE]}

Init ==
  /\ plan = 1
  /\ file \in Left
  /\ mem = [w \in Windows |-> file.state]
  /\ seen = [w \in Windows |-> file.id]
  /\ at = [t \in Threads |-> "free"]
  /\ todo = [t \in Threads |-> <<>>]
  /\ held = [t \in Threads |-> Nothing]
  /\ running = [w \in Windows |-> FALSE]
  /\ acts = 0 /\ faults = 0
  /\ apart = [w \in Windows |-> FALSE]
  /\ alone = [t \in Threads |-> FALSE]

-----------------------------------------------------------------------------
Begin(t, stages) ==
  /\ at[t] = "free"
  /\ at' = [at EXCEPT ![t] = Head(stages)]
  /\ todo' = [todo EXCEPT ![t] = Tail(stages)]

GoOn(t, stage) == at' = [at EXCEPT ![t] = stage] /\ UNCHANGED todo

Proceed(t) ==
  IF todo[t] = <<>> THEN GoOn(t, "free")
  ELSE /\ at' = [at EXCEPT ![t] = Head(todo[t])]
       /\ todo' = [todo EXCEPT ![t] = Tail(@)]

Hold(t, state, num) == held' = [held EXCEPT ![t] = [state |-> state, num |-> num]]

Finish(t) == Proceed(t) /\ held' = [held EXCEPT ![t] = Nothing]

Act == acts < MaxActs /\ acts' = acts + 1

\* The lock of `seen`, and a thread between a change of mem and what belongs to it.
HasSeen(t) == at[t] \in {"put", "reread", "refill", "saved"}
SeenFree(w) == \A t \in ThreadsOf(w) : ~HasSeen(t)
Midway(t) == at[t] \in {"put", "reread", "refill", "save"}
Crossing(t) == \E u \in ThreadsOf(Window(t)) \ {t} : Midway(u)

Trust(t, trusted) == alone' = [alone EXCEPT ![t] = trusted /\ ~apart[Window(t)]]

SetMem(t, state) ==
  /\ mem' = [mem EXCEPT ![Window(t)] = state]
  /\ apart' = [apart EXCEPT ![Window(t)] = Crossing(t) \/ (@ /\ Midway(t) /\ at[t] # "put")]

\* A change made here: memory first, the callback saves it after the unlock.
Change(t, state) ==
  /\ SetMem(t, state)
  /\ Hold(t, state, 0)
  /\ GoOn(t, "save")

NoChange(t) == Finish(t) /\ UNCHANGED <<mem, apart>>

-----------------------------------------------------------------------------
(* Adopting what another window saved.                                     *)
AdoptLoad(t) ==
  /\ at[t] = "adopt" /\ SeenFree(Window(t))
  /\ IF seen[Window(t)] = file.id
     THEN Proceed(t) /\ UNCHANGED <<seen, held>>
     ELSE /\ seen' = [seen EXCEPT ![Window(t)] = file.id]
          /\ Hold(t, file.state, file.id)
          /\ GoOn(t, "put")
  /\ UNCHANGED <<plan, file, mem, running, bounds, history>>

NeedsPlan(state) == state.phase = "executing" /\ state.plan # Gone

AdoptPut(t) ==
  /\ at[t] = "put"
  /\ SetMem(t, held[t].state)
  /\ IF mem[Window(t)] # held[t].state /\ NeedsPlan(held[t].state)
     THEN GoOn(t, "reread") /\ UNCHANGED held ELSE Finish(t)
  /\ UNCHANGED <<plan, file, seen, running, bounds, alone>>

\* rehydrate_checklist: the checklist as it is in memory and the plan's file ...
Reread(t) ==
  /\ at[t] = "reread"
  /\ Hold(t, mem[Window(t)], plan)
  /\ GoOn(t, "refill")
  /\ UNCHANGED <<plan, file, mem, seen, running, bounds, history>>

Refilled(now, old, found) ==
  IF found = Gone THEN Default
  ELSE [now EXCEPT !.plan = found, !.done = IF found = old.plan THEN old.done ELSE {}]

\* ... and what comes of them, put into the memory of the moment.
Refill(t) ==
  /\ at[t] = "refill"
  /\ SetMem(t, Refilled(mem[Window(t)], held[t].state, held[t].num))
  /\ Finish(t)
  /\ UNCHANGED <<plan, file, seen, running, bounds, alone>>

-----------------------------------------------------------------------------
(* Saving a change: the file is replaced, then its fingerprint remembered, *)
(* which was taken before the rename.  A fingerprint is a time and a       *)
(* length: a version written in the same tick of the clock as the one it   *)
(* replaces, and of the same length, has the fingerprint of that one.      *)
Rename(t, id) ==
  file' = [state |-> held[t].state, id |-> id, twin |-> id = file.id]

Save(t) ==
  /\ at[t] = "save" /\ SeenFree(Window(t))
  /\ \E id \in {file.id, file.id + 1} :
       /\ Rename(t, id)
       /\ Hold(t, held[t].state, id)
       /\ IF id = file.id THEN faults < MaxFaults /\ faults' = faults + 1
                          ELSE UNCHANGED faults
  /\ alone' = [u \in Threads |-> FALSE]
  /\ GoOn(t, "saved")
  /\ UNCHANGED <<plan, mem, seen, running, acts, apart>>

Remembered_bug(t) == file.id
Remembered(t) == held[t].num

SaveSeen(t) ==
  /\ at[t] = "saved"
  /\ seen' = [seen EXCEPT ![Window(t)] = Remembered(t)]
  /\ Finish(t)
  /\ UNCHANGED <<plan, file, mem, running, bounds, history>>

\* The new file cannot be written, or only its directory not be synced.
SaveFails(t) ==
  /\ at[t] = "save" /\ SeenFree(Window(t))
  /\ faults < MaxFaults /\ faults' = faults + 1
  /\ (\E id \in {file.id, file.id + 1} : Rename(t, id)) \/ file' = file
  /\ Finish(t)
  /\ apart' = [apart EXCEPT ![Window(t)] = TRUE]
  /\ alone' = [u \in Threads |-> FALSE]
  /\ UNCHANGED <<plan, mem, seen, running, acts>>

-----------------------------------------------------------------------------
(* The interface: /planner, whether or not the agent runs; prompts, which  *)
(* adopt first; and the syncs that follow either.                          *)
Sync(w) ==
  /\ Begin(Ui(w), <<"adopt">>)
  /\ seen[w] # file.id
  /\ UNCHANGED <<plan, file, mem, seen, held, running, bounds, history>>

Toggle(w) ==
  /\ Act
  /\ Begin(Ui(w), <<"adopt", "flip", "adopt">>) /\ Trust(Ui(w), TRUE)
  /\ UNCHANGED <<plan, file, mem, seen, held, running, faults, apart>>

Flip(t) ==
  /\ at[t] = "flip"
  /\ Change(t, [mem[Window(t)] EXCEPT !.phase = IF @ = "idle" THEN "planning" ELSE "idle"])
  /\ UNCHANGED <<plan, file, seen, running, bounds, alone>>

Prompt(w) ==
  /\ ~running[w]
  /\ Begin(Ui(w), <<"adopt", "start">>)
  /\ UNCHANGED <<plan, file, mem, seen, held, running, bounds, history>>

Start(t) ==
  /\ at[t] = "start"
  /\ running' = [running EXCEPT ![Window(t)] = TRUE]
  /\ Proceed(t)
  /\ UNCHANGED <<plan, file, mem, seen, held, bounds, history>>

-----------------------------------------------------------------------------
(* The agent's thread, between two turns or between two of their tools.    *)
InTurn(w) == running[w] /\ at[AgentOf(w)] = "free"

\* Markdown may be written in every phase; anyone may remove the file.
EditPlan ==
  /\ Act
  /\ plan # Gone
  /\ plan' \in {Gone} \cup (IF plan < MaxPlans THEN {plan + 1} ELSE {})
  /\ UNCHANGED <<file, mem, seen, at, todo, held, running, faults, history>>

\* planner_submit_plan: the plan is read and shown to a reviewer.
Submit(w) ==
  /\ Act
  /\ InTurn(w) /\ mem[w].phase = "planning" /\ plan # Gone
  /\ Begin(AgentOf(w), <<"approve">>) /\ Trust(AgentOf(w), FALSE)
  /\ Hold(AgentOf(w), Default, plan)
  /\ UNCHANGED <<plan, file, mem, seen, running, faults, apart>>

StillPlanning_bug(w) == TRUE
StillPlanning(w) == mem[w].phase = "planning"

\* The review ends: approved while planning still goes on, or not.
Approve(t) ==
  /\ at[t] = "approve"
  /\ StillPlanning(Window(t))
  /\ Change(t, [phase |-> "executing", plan |-> held[t].num, done |-> {}])
  /\ UNCHANGED <<plan, file, seen, running, bounds, alone>>

Refuse(t) ==
  /\ at[t] = "approve"
  /\ NoChange(t)
  /\ UNCHANGED <<plan, file, seen, running, bounds, alone>>

\* TurnEnd: adopt, then apply the reply's [DONE:n] marks.
TurnEndStages_bug == <<"track", "adopt">>
TurnEndStages == <<"adopt", "track">>

TurnEnd(w) ==
  /\ Act
  /\ InTurn(w)
  /\ Begin(AgentOf(w), TurnEndStages) /\ Trust(AgentOf(w), TRUE)
  /\ UNCHANGED <<plan, file, mem, seen, held, running, faults, apart>>

Marked(state, marks) ==
  LET done == state.done \cup marks
  IN [state EXCEPT !.done = done,
                   !.phase = IF @ = "executing" /\ done = Steps THEN "idle" ELSE @]

Track(t) ==
  /\ at[t] = "track"
  /\ \E marks \in SUBSET Steps :
       LET now == mem[Window(t)]
           new == IF now.plan = Gone \/ marks = {} THEN now ELSE Marked(now, marks)
       IN IF new = now THEN NoChange(t) ELSE Change(t, new)
  /\ UNCHANGED <<plan, file, seen, running, bounds, alone>>

RunEnds(w) ==
  /\ InTurn(w)
  /\ running' = [running EXCEPT ![w] = FALSE]
  /\ UNCHANGED <<plan, file, mem, seen, at, todo, held, bounds, history>>

-----------------------------------------------------------------------------
\* A window is closed or dies at any moment, and another is opened, perhaps
\* with the flag that starts it in planning (attach_with_store).
Restart(w) ==
  /\ Act
  /\ mem' = [mem EXCEPT ![w] = file.state]
  /\ seen' = [seen EXCEPT ![w] = file.id]
  /\ \E next \in {<<"adopt">>, <<"enter", "adopt">>} :
       /\ at' = [at EXCEPT ![AgentOf(w)] = "free",
                          ![Ui(w)] = IF NeedsPlan(file.state) THEN "reread" ELSE Head(next)]
       /\ todo' = [todo EXCEPT ![AgentOf(w)] = <<>>,
                              ![Ui(w)] = IF NeedsPlan(file.state) THEN next ELSE Tail(next)]
  /\ running' = [running EXCEPT ![w] = FALSE]
  /\ apart' = [apart EXCEPT ![w] = FALSE]
  /\ held' = [held EXCEPT ![Ui(w)] = Nothing, ![AgentOf(w)] = Nothing]
  /\ alone' = [alone EXCEPT ![Ui(w)] = FALSE, ![AgentOf(w)] = FALSE]
  /\ UNCHANGED <<plan, file, faults>>

Enter(t) ==
  /\ at[t] = "enter"
  /\ IF mem[Window(t)].phase = "idle"
     THEN Change(t, [mem[Window(t)] EXCEPT !.phase = "planning"]) ELSE NoChange(t)
  /\ UNCHANGED <<plan, file, seen, running, bounds, alone>>

Step(t) ==
  \/ AdoptLoad(t) \/ AdoptPut(t) \/ Reread(t) \/ Refill(t)
  \/ Save(t) \/ SaveSeen(t) \/ SaveFails(t)
  \/ Flip(t) \/ Start(t) \/ Approve(t) \/ Refuse(t) \/ Track(t) \/ Enter(t)

Next ==
  \/ \E t \in Threads : Step(t)
  \/ \E w \in Windows :
       \/ Sync(w) \/ Toggle(w) \/ Prompt(w)
       \/ Submit(w) \/ TurnEnd(w) \/ RunEnds(w)
       \/ Restart(w)
  \/ EditPlan

Spec == Init /\ [][Next]_vars
=============================================================================
