--------------------------- MODULE SharedFilesProofs --------------------------
(***************************************************************************)
(* Windows that share one planner file, for any windows, steps, plans and  *)
(* bounds: a window that is up to date agrees with the file, marks are     *)
(* kept, and an approval starts execution only out of planning.            *)
(*                                                                         *)
(* PlannerInv says that one thread of a window has the lock of `seen`,     *)
(* that a fingerprint belongs to one version of the file, but for a twin   *)
(* (Carries), what memory holds while a thread is on its way (OnTheWay),   *)
(* and what a thread may rely on while nobody saves across it (Trusted).   *)
(***************************************************************************)
EXTENDS PlannerProperties, RalphProperties, SequenceTheorems, WellFoundedInduction, TLAPS

TypeOK ==
  /\ plan \in Nat
  /\ file \in [state : States, id : Nat, twin : BOOLEAN]
  /\ mem \in [Windows -> States]
  /\ seen \in [Windows -> Nat]
  /\ at \in [Threads -> Stages]
  /\ todo \in [Threads -> Seq(Queued)]
  /\ held \in [Threads -> [state : States, num : Nat]]
  /\ running \in [Windows -> BOOLEAN]
  /\ acts \in Nat /\ faults \in Nat
  /\ apart \in [Windows -> BOOLEAN]
  /\ alone \in [Threads -> BOOLEAN]

\* One thread of a window at a time has the lock of `seen`.
LockOf(w) == \A t, u \in ThreadsOf(w) : HasSeen(t) /\ HasSeen(u) => t = u

Matches(w) == seen[w] = file.id
Knows(w) == Matches(w) /\ ~file.twin

\* A fingerprint belongs to one version of the file unless that is a twin of the
\* one before: who carries the latest one carries the state that the file has.
Carries(t) ==
  /\ at[t] = "saved" => held[t].num <= file.id
  /\ at[t] = "saved" /\ held[t].num = file.id /\ ~file.twin => held[t].state = file.state
  /\ at[t] = "put" /\ Knows(Window(t)) => held[t].state = file.state

\* What memory holds while a thread is on its way.
OnTheWay(t) ==
  /\ at[t] = "save" => mem[Window(t)] = held[t].state
  /\ at[t] = "saved" /\ ~Crossing(t) => mem[Window(t)] = held[t].state
  /\ at[t] \in {"reread", "refill"} => NeedsPlan(mem[Window(t)])
  /\ at[t] \in {"reread", "refill"} /\ Knows(Window(t)) => mem[Window(t)] = file.state
  /\ at[t] = "refill" => held[t].state = mem[Window(t)]

Kept(old, new) == new.plan = old.plan => old.done \subseteq new.done
Saving(w) == \E u \in ThreadsOf(w) : at[u] = "save"

\* A thread that nobody's save has overtaken knows the file and carries its marks.
Trusted(t) ==
  /\ at[t] \in {"put", "reread", "refill"} => Matches(Window(t))
  /\ at[t] \in Queued \ {"adopt"} => Matches(Window(t)) /\ SeenFree(Window(t))
  /\ at[t] \notin {"approve", "saved"}
  /\ apart[Window(t)] => Saving(Window(t))
  /\ at[t] = "save" /\ ~apart[Window(t)] /\ ~file.twin => Kept(file.state, held[t].state)

ThreadOK(t) ==
  /\ Carries(t)
  /\ ~apart[Window(t)] => OnTheWay(t)
  /\ alone[t] => Trusted(t)

WindowOK(w) ==
  /\ LockOf(w)
  /\ seen[w] <= file.id
  /\ \A t \in ThreadsOf(w) : ThreadOK(t)
  /\ UpToDate(w) => Agrees(mem[w], file.state)

PlannerInv == TypeOK /\ \A w \in Windows : WindowOK(w)

-----------------------------------------------------------------------------
(* Threads and their windows.                                              *)
LEMMA ThreadTypes ==
  ASSUME NEW t \in Threads
  PROVE  Window(t) \in Windows /\ t \in ThreadsOf(Window(t))
PROOF BY SMT DEF Threads, Window, ThreadsOf

LEMMA WindowThreads ==
  ASSUME NEW w \in Windows
  PROVE  /\ Ui(w) \in Threads /\ Window(Ui(w)) = w
         /\ AgentOf(w) \in Threads /\ Window(AgentOf(w)) = w
         /\ Ui(w) # AgentOf(w)
         /\ \A t \in ThreadsOf(w) : t = Ui(w) \/ t = AgentOf(w)
<1>1. \A t \in ThreadsOf(w) : t = Ui(w) \/ t = AgentOf(w)
  BY SMT DEF ThreadsOf, Threads, Window, Ui, AgentOf
<1>2. "ui" # "agent"
  OBVIOUS
<1> QED BY <1>1, <1>2, SMT DEF Ui, AgentOf, Threads, Window

(* What the parts of the actions do to the functions of TypeOK.            *)
LEMMA SeqParts ==
  ASSUME NEW S, NEW s \in Seq(S), s # <<>>
  PROVE  Head(s) \in S /\ Tail(s) \in Seq(S)
PROOF BY SMT

StayBut(t) == \A u \in Threads : u # t => at'[u] = at[u]
HeldBut(t) == \A u \in Threads : u # t => held'[u] = held[u]
MemBut(w) == \A v \in Windows : v # w => mem'[v] = mem[v] /\ apart'[v] = apart[v]
SeenBut(w) == \A v \in Windows : v # w => seen'[v] = seen[v]

LEMMA GoOnMoves ==
  ASSUME TypeOK, NEW t \in Threads, NEW s \in Stages, GoOn(t, s)
  PROVE  /\ at' \in [Threads -> Stages] /\ todo' \in [Threads -> Seq(Queued)]
         /\ at'[t] = s /\ StayBut(t)
PROOF BY SMT DEF TypeOK, GoOn, StayBut

LEMMA ProceedMoves ==
  ASSUME TypeOK, NEW t \in Threads, Proceed(t)
  PROVE  /\ at' \in [Threads -> Stages] /\ todo' \in [Threads -> Seq(Queued)]
         /\ at'[t] \in Queued \cup {"free"} /\ StayBut(t)
<1>1. CASE todo[t] = <<>>
  <2>1. GoOn(t, "free") /\ "free" \in Stages
    BY <1>1, SMT DEF Proceed, Stages
  <2> QED BY <2>1, GoOnMoves
<1>2. CASE todo[t] # <<>>
  <2>1. todo[t] \in Seq(Queued)
    BY SMT DEF TypeOK
  <2>2. PICK h \in Queued : \E r \in Seq(Queued) : h = Head(todo[t]) /\ r = Tail(todo[t])
    BY <2>1, <1>2, SeqParts
  <2>3. PICK r \in Seq(Queued) : h = Head(todo[t]) /\ r = Tail(todo[t])
    BY <2>2
  <2>4. at' = [at EXCEPT ![t] = h] /\ todo' = [todo EXCEPT ![t] = r]
    BY <1>2, <2>3 DEF Proceed
  <2>5. h \in Stages
    BY DEF Stages
  <2>6. at \in [Threads -> Stages] /\ todo \in [Threads -> Seq(Queued)]
    BY DEF TypeOK
  <2> QED BY <2>4, <2>5, <2>6, SMT DEF StayBut
<1> QED BY <1>1, <1>2

LEMMA BeginMoves ==
  ASSUME TypeOK, NEW t \in Threads, NEW s \in Seq(Queued \cup {"approve"}), s # <<>>,
         Tail(s) \in Seq(Queued), Begin(t, s)
  PROVE  /\ at' \in [Threads -> Stages] /\ todo' \in [Threads -> Seq(Queued)]
         /\ at[t] = "free" /\ at'[t] = Head(s) /\ StayBut(t)
<1>1. PICK h \in Queued \cup {"approve"} : \E r \in Seq(Queued) : h = Head(s) /\ r = Tail(s)
  BY SeqParts
<1>2. PICK r \in Seq(Queued) : h = Head(s) /\ r = Tail(s)
  BY <1>1
<1>3. at' = [at EXCEPT ![t] = h] /\ todo' = [todo EXCEPT ![t] = r] /\ at[t] = "free"
  BY <1>2 DEF Begin
<1>4. h \in Stages
  BY DEF Stages
<1>5. at \in [Threads -> Stages] /\ todo \in [Threads -> Seq(Queued)]
  BY DEF TypeOK
<1> QED BY <1>2, <1>3, <1>4, <1>5, SMT DEF StayBut

LEMMA HoldMoves ==
  ASSUME TypeOK, NEW t \in Threads, NEW s \in States, NEW n \in Nat, Hold(t, s, n)
  PROVE  /\ held' \in [Threads -> [state : States, num : Nat]]
         /\ held'[t].state = s /\ held'[t].num = n /\ HeldBut(t)
<1>1. [state |-> s, num |-> n] \in [state : States, num : Nat]
  BY SMT
<1> QED BY <1>1, SMT DEF TypeOK, Hold, HeldBut

LEMMA DefaultType == Default \in States /\ Nothing \in [state : States, num : Nat]
PROOF BY SMT DEF Default, States, Nothing, Phases, Gone

LEMMA FinishMoves ==
  ASSUME TypeOK, NEW t \in Threads, Finish(t)
  PROVE  /\ at' \in [Threads -> Stages] /\ todo' \in [Threads -> Seq(Queued)]
         /\ held' \in [Threads -> [state : States, num : Nat]]
         /\ at'[t] \in Queued \cup {"free"} /\ StayBut(t) /\ HeldBut(t)
<1>1. Proceed(t) /\ held' = [held EXCEPT ![t] = Nothing]
  BY DEF Finish
<1>2. held' \in [Threads -> [state : States, num : Nat]] /\ HeldBut(t)
  BY <1>1, DefaultType, SMT DEF TypeOK, HeldBut
<1> QED BY <1>1, <1>2, ProceedMoves

LEMMA SetMemMoves ==
  ASSUME TypeOK, NEW t \in Threads, NEW s \in States, SetMem(t, s)
  PROVE  /\ mem' \in [Windows -> States] /\ apart' \in [Windows -> BOOLEAN]
         /\ mem'[Window(t)] = s /\ MemBut(Window(t))
         /\ apart'[Window(t)] <=>
              Crossing(t) \/ (apart[Window(t)] /\ Midway(t) /\ at[t] # "put")
<1>1. (Crossing(t) \/ (apart[Window(t)] /\ Midway(t) /\ at[t] # "put")) \in BOOLEAN
  BY DEF Crossing, Midway
<1>2. Window(t) \in Windows
  BY ThreadTypes
<1> HIDE DEF Crossing, Midway
<1> QED BY <1>1, <1>2, Zenon, SMT DEF TypeOK, SetMem, MemBut

-----------------------------------------------------------------------------
(* A window where nothing happens keeps what it has; a file that another   *)
(* window replaces gets a fingerprint that nobody here knows, or a twin's. *)
FileMoved == file'.id >= file.id /\ (file'.twin \/ file'.id > file.id)
Quietly(u) == at'[u] = at[u] /\ held'[u] = held[u]

LEMMA StageWords ==
  ASSUME NEW u \in Threads, at'[u] = at[u]
  PROVE  (HasSeen(u)' <=> HasSeen(u)) /\ (Midway(u)' <=> Midway(u))
PROOF BY Zenon DEF HasSeen, Midway

LEMMA SameCrossing ==
  ASSUME NEW w \in Windows, \A u \in ThreadsOf(w) : at'[u] = at[u], NEW t \in ThreadsOf(w)
  PROVE  /\ Crossing(t)' <=> Crossing(t)
         /\ SeenFree(w)' <=> SeenFree(w)
         /\ Quiet(w)' <=> Quiet(w)
         /\ Saving(w)' <=> Saving(w)
<1>1. t \in Threads /\ Window(t) = w /\ \A u \in ThreadsOf(w) : u \in Threads
  BY DEF ThreadsOf
<1>2. \A u \in ThreadsOf(w) : (HasSeen(u)' <=> HasSeen(u)) /\ (Midway(u)' <=> Midway(u))
  BY <1>1, StageWords
<1>3. Crossing(t)' <=> Crossing(t)
  BY <1>1, <1>2 DEF Crossing
<1>4. SeenFree(w)' <=> SeenFree(w)
  BY <1>2 DEF SeenFree
<1>5. Quiet(w)' <=> Quiet(w)
  BY <1>2 DEF Quiet
<1>6. Saving(w)' <=> Saving(w)
  BY <1>1 DEF Saving
<1> QED BY <1>3, <1>4, <1>5, <1>6

LEMMA ElsewhereKeeps ==
  ASSUME TypeOK, TypeOK', NEW w \in Windows, WindowOK(w),
         \A u \in ThreadsOf(w) : Quietly(u),
         mem'[w] = mem[w], seen'[w] = seen[w], apart'[w] = apart[w],
         \/ file' = file /\ \A u \in ThreadsOf(w) : alone'[u] => alone[u]
         \/ FileMoved /\ \A u \in ThreadsOf(w) : ~alone'[u]
  PROVE  WindowOK(w)'
<1> USE DEF Quietly
<1>t. \A t \in ThreadsOf(w) : t \in Threads /\ Window(t) = w
  BY DEF ThreadsOf
<1>0. \A u \in ThreadsOf(w) : at'[u] = at[u] /\ held'[u] = held[u]
  OBVIOUS
<1>n. seen[w] \in Nat /\ file.id \in Nat /\ file'.id \in Nat
      /\ \A t \in ThreadsOf(w) : held[t].num \in Nat
  BY <1>t, SMT DEF TypeOK
<1>1. LockOf(w)'
  BY <1>0, <1>t, StageWords DEF WindowOK, LockOf
<1>2. (seen[w] <= file.id)'
  BY <1>n, SMT DEF WindowOK, FileMoved
<1>3. ASSUME NEW t \in ThreadsOf(w) PROVE ThreadOK(t)'
  <2>0. t \in Threads /\ Window(t) = w /\ ThreadOK(t) /\ at'[t] = at[t] /\ held'[t] = held[t]
    BY <1>0, <1>t DEF WindowOK
  <2>1. Crossing(t)' <=> Crossing(t)
    BY <1>0, SameCrossing
  <2>2. SeenFree(w)' <=> SeenFree(w)
    BY <1>0, SameCrossing
  <2>3. Saving(w)' <=> Saving(w)
    BY <1>0, SameCrossing
  <2>4. CASE file' = file /\ \A u \in ThreadsOf(w) : alone'[u] => alone[u]
    <3>1. (Knows(w)' <=> Knows(w)) /\ (Matches(w)' <=> Matches(w))
      BY <2>4 DEF Knows, Matches
    <3>2. Carries(t)'
      BY <2>0, <2>4, <3>1 DEF ThreadOK, Carries
    <3>3. ~apart'[w] => OnTheWay(t)'
      BY <2>0, <2>1, <2>4, <3>1 DEF ThreadOK, OnTheWay
    <3>4. alone'[t] => alone[t]
      BY <2>4
    <3>5. alone'[t] => Trusted(t)'
      BY <2>0, <2>2, <2>3, <2>4, <3>1, <3>4 DEF ThreadOK, Trusted
    <3> QED BY <2>0, <3>2, <3>3, <3>5 DEF ThreadOK
  <2>5. CASE FileMoved /\ \A u \in ThreadsOf(w) : ~alone'[u]
    <3>1. ~Knows(w)'
      BY <2>5, <1>n, SMT DEF Knows, Matches, WindowOK, FileMoved
    <3>2. at[t] = "saved" => held[t].num <= file'.id /\ (held[t].num # file'.id \/ file'.twin)
      BY <2>0, <2>5, <1>n, SMT DEF ThreadOK, Carries, FileMoved
    <3>3. Carries(t)'
      BY <2>0, <3>1, <3>2 DEF Carries
    <3>4. ~apart'[w] => OnTheWay(t)'
      BY <2>0, <2>1, <3>1 DEF ThreadOK, OnTheWay
    <3>5. ~alone'[t]
      BY <2>5
    <3> QED BY <2>0, <3>3, <3>4, <3>5 DEF ThreadOK
  <2> QED BY <2>4, <2>5
<1>4. UpToDate(w)' => Agrees(mem[w], file.state)'
  <2>0. ThreadsOf(w) # {}
    BY WindowThreads DEF ThreadsOf
  <2>1. Quiet(w)' <=> Quiet(w)
    BY <1>0, <2>0, SameCrossing
  <2>2. CASE file' = file
    BY <2>1, <2>2 DEF UpToDate, WindowOK
  <2>3. CASE FileMoved
    <3>1. seen'[w] = file'.id => file'.twin
      BY <2>3, <1>n, SMT DEF WindowOK, FileMoved
    <3> QED BY <3>1 DEF UpToDate
  <2> QED BY <2>2, <2>3
<1> QED BY <1>1, <1>2, <1>3, <1>4 DEF WindowOK

(* What a step of t may do to another thread u of its window.              *)
Spares(t, u) ==
  LET w == Window(t) IN
  /\ HasSeen(u) => seen'[w] = seen[w]
  /\ mem'[w] = mem[w] \/ (Midway(u) => apart'[w])
  /\ at[u] = "saved" => Midway(t)' \/ (~Midway(t) /\ mem'[w] = mem[w])
  /\ apart[w] => apart'[w] \/ (~Midway(u) /\ (at[u] = "saved" => Midway(t)'))
  /\ alone'[u] =>
       /\ Matches(w) /\ SeenFree(w) => Matches(w)' /\ SeenFree(w)'
       /\ (apart[w] => Saving(w)) => (apart'[w] => Saving(w)')

LEMMA BesideKeeps ==
  ASSUME TypeOK, TypeOK', NEW t \in Threads, NEW u \in Threads, u # t,
         Window(u) = Window(t), ThreadOK(u), seen[Window(t)] <= file.id,
         Quietly(u), file' = file \/ (FileMoved /\ ~alone'[u]),
         alone'[u] => alone[u], Spares(t, u)
  PROVE  ThreadOK(u)'
<1> DEFINE w == Window(t)
<1> USE DEF Spares
<1>0. at'[u] = at[u] /\ held'[u] = held[u] /\ w \in Windows /\ Window(u) = w
  BY ThreadTypes DEF Quietly
<1>n. seen[w] \in Nat /\ file.id \in Nat /\ file'.id \in Nat /\ held[u].num \in Nat
  BY <1>0, SMT DEF TypeOK
<1>o. \A v \in ThreadsOf(w) : v = t \/ v = u
  <2>1. t \in ThreadsOf(w) /\ u \in ThreadsOf(w)
    BY DEF ThreadsOf
  <2> QED BY <2>1, <1>0, WindowThreads
<1>t. t \in ThreadsOf(Window(u)) /\ \A v \in ThreadsOf(Window(u)) : v = t \/ v = u
  BY <1>o DEF ThreadsOf
<1>c. (Crossing(u) <=> Midway(t)) /\ (Crossing(u)' <=> Midway(t)')
  BY <1>t, u # t DEF Crossing
<1>m. (HasSeen(u)' <=> HasSeen(u)) /\ (Midway(u)' <=> Midway(u))
  BY <1>0, StageWords
<1>k. HasSeen(u) => (Knows(w)' => Knows(w) /\ file' = file)
  <2>1. CASE file' = file
    BY <2>1 DEF Knows, Matches
  <2>2. CASE FileMoved
    BY <2>2, <1>n, SMT DEF Knows, Matches, FileMoved
  <2> QED BY <2>1, <2>2
<1>1. Carries(u)'
  <2>1. at[u] = "saved" => held[u].num <= file'.id
    BY <1>0, <1>n, SMT DEF ThreadOK, Carries, FileMoved
  <2>2. at[u] = "saved" /\ held[u].num = file'.id /\ ~file'.twin => held[u].state = file'.state
    BY <1>0, <1>n, SMT DEF ThreadOK, Carries, FileMoved
  <2>3. at[u] = "put" /\ Knows(w)' => held[u].state = file'.state
    BY <1>0, <1>k DEF ThreadOK, Carries, HasSeen
  <2> QED BY <2>1, <2>2, <2>3, <1>0 DEF Carries
<1>2. ASSUME ~apart'[w] PROVE OnTheWay(u)'
  <2>1. Midway(u) => mem'[w] = mem[w] /\ OnTheWay(u)
    BY <1>2, <1>0 DEF ThreadOK
  <2>2. at[u] = "save" => mem'[w] = held[u].state
    BY <2>1, <1>0 DEF Midway, OnTheWay
  <2>3. at[u] = "saved" /\ ~Crossing(u)' => mem'[w] = held[u].state
    BY <1>c, <1>2, <1>0 DEF ThreadOK, OnTheWay
  <2>4. at[u] \in {"reread", "refill"} =>
          /\ NeedsPlan(mem'[w])
          /\ Knows(w)' => mem'[w] = file'.state
    BY <2>1, <1>0, <1>k DEF Midway, HasSeen, OnTheWay
  <2>5. at[u] = "refill" => held[u].state = mem'[w]
    BY <2>1, <1>0 DEF Midway, OnTheWay
  <2> QED BY <2>2, <2>3, <2>4, <2>5, <1>0 DEF OnTheWay
<1>3. ASSUME alone'[u] PROVE Trusted(u)'
  <2>1. file' = file /\ alone[u] /\ Trusted(u)
    BY <1>3 DEF ThreadOK
  <2>2. at[u] \in {"put", "reread", "refill"} => Matches(w)'
    BY <2>1, <1>0, <1>3 DEF Trusted, HasSeen, Matches
  <2>3. at[u] \in Queued \ {"adopt"} => Matches(w)' /\ SeenFree(w)'
    BY <2>1, <1>0, <1>3 DEF Trusted
  <2>4. apart'[w] => Saving(w)'
    BY <2>1, <1>0, <1>3 DEF Trusted
  <2>5. at[u] = "save" /\ ~apart'[w] /\ ~file'.twin => Kept(file'.state, held[u].state)
    BY <2>1, <1>0 DEF Trusted, Midway
  <2> QED BY <2>1, <2>2, <2>3, <2>4, <2>5, <1>0 DEF Trusted
<1> QED BY <1>0, <1>1, <1>2, <1>3 DEF ThreadOK

FileStep(t) ==
  \/ file' = file /\ \A u \in Threads : u # t => (alone'[u] => alone[u])
  \/ FileMoved /\ \A u \in Threads : ~alone'[u]

LEMMA StepKeeps ==
  ASSUME PlannerInv, TypeOK', NEW t \in Threads,
         StayBut(t), HeldBut(t), MemBut(Window(t)), SeenBut(Window(t)), FileStep(t),
         HasSeen(t)' => HasSeen(t) \/ SeenFree(Window(t)),
         seen'[Window(t)] <= file'.id,
         ThreadOK(t)',
         UpToDate(Window(t))' => Agrees(mem[Window(t)], file.state)',
         \A u \in ThreadsOf(Window(t)) : u # t => Spares(t, u)
  PROVE  PlannerInv'
<1> DEFINE w == Window(t)
<1>0. w \in Windows /\ t \in ThreadsOf(w) /\ TypeOK /\ \A v \in Windows : WindowOK(v)
  BY ThreadTypes DEF PlannerInv
<1>1. ASSUME NEW v \in Windows, v # w PROVE WindowOK(v)'
  <2>1. \A u \in ThreadsOf(v) : u \in Threads /\ u # t
    BY <1>1 DEF ThreadsOf
  <2>2. \A u \in ThreadsOf(v) : Quietly(u)
    BY <2>1 DEF StayBut, HeldBut, Quietly
  <2>3. mem'[v] = mem[v] /\ seen'[v] = seen[v] /\ apart'[v] = apart[v]
    BY <1>1 DEF MemBut, SeenBut
  <2>4. \/ file' = file /\ \A u \in ThreadsOf(v) : alone'[u] => alone[u]
        \/ FileMoved /\ \A u \in ThreadsOf(v) : ~alone'[u]
    BY <2>1 DEF FileStep
  <2>5. WindowOK(v)
    BY <1>0
  <2> QED BY <1>0, <2>2, <2>3, <2>4, <2>5, ElsewhereKeeps
<1>2. WindowOK(w)'
  <2>0. WindowOK(w)
    BY <1>0
  <2>1. LockOf(w)'
    <3>1. SUFFICES ASSUME NEW a \in ThreadsOf(w), NEW b \in ThreadsOf(w),
                          HasSeen(a)', HasSeen(b)', a # b
                   PROVE  FALSE
      BY DEF LockOf
    <3>2. \A u \in ThreadsOf(w) : u # t => (HasSeen(u)' <=> HasSeen(u))
      BY StageWords DEF StayBut, ThreadsOf
    <3>3. LockOf(w)
      BY <2>0 DEF WindowOK
    <3>4. CASE a # t /\ b # t
      BY <3>1, <3>2, <3>3, <3>4 DEF LockOf
    <3>5. CASE a = t
      BY <3>1, <3>2, <3>3, <3>5, <1>0 DEF LockOf, SeenFree
    <3>6. CASE b = t
      BY <3>1, <3>2, <3>3, <3>6, <1>0 DEF LockOf, SeenFree
    <3> QED BY <3>4, <3>5, <3>6
  <2>2. ASSUME NEW u \in ThreadsOf(w), u # t PROVE ThreadOK(u)'
    <3>1. u \in Threads /\ Window(u) = Window(t) /\ Spares(t, u)
      BY <2>2 DEF ThreadsOf
    <3>2. ThreadOK(u) /\ seen[Window(t)] <= file.id
      BY <2>0 DEF WindowOK
    <3>3. Quietly(u)
      BY <3>1, <2>2 DEF StayBut, HeldBut, Quietly
    <3>4. file' = file \/ (FileMoved /\ ~alone'[u])
      BY <3>1 DEF FileStep
    <3>5. alone'[u] => alone[u]
      BY <3>1, <2>2 DEF FileStep
    <3> QED BY <3>1, <2>2, <3>2, <3>3, <3>4, <3>5, <1>0, BesideKeeps
  <2>3. \A u \in ThreadsOf(w) : ThreadOK(u)'
    BY <2>2
  <2> QED BY <2>1, <2>3 DEF WindowOK
<1> QED BY <1>1, <1>2 DEF PlannerInv

-----------------------------------------------------------------------------
(* A step of t between its stages that wait, where only its place changes. *)
Waiting == Queued \cup {"free", "approve"}

LEMMA WaitingWords ==
  /\ \A t : at[t] \in Waiting => ~HasSeen(t) /\ ~Midway(t)
  /\ \A t : at'[t] \in Waiting => ~HasSeen(t)' /\ ~Midway(t)'
PROOF BY DEF Waiting, Queued, HasSeen, Midway

LEMMA OthersWords ==
  ASSUME NEW t \in Threads, StayBut(t)
  PROVE  /\ \A u \in ThreadsOf(Window(t)) : u # t =>
              (HasSeen(u)' <=> HasSeen(u)) /\ (Midway(u)' <=> Midway(u)) /\ at'[u] = at[u]
         /\ ~HasSeen(t) /\ ~HasSeen(t)' => (SeenFree(Window(t))' <=> SeenFree(Window(t)))
         /\ ~HasSeen(t) /\ ~HasSeen(t)' /\ ~Midway(t) /\ ~Midway(t)' =>
              (Quiet(Window(t))' <=> Quiet(Window(t)))
         /\ at[t] # "save" => (Saving(Window(t)) => Saving(Window(t))')
         /\ Crossing(t)' <=> Crossing(t)
<1>0. \A u \in ThreadsOf(Window(t)) : u \in Threads
  BY DEF ThreadsOf
<1>1. \A u \in ThreadsOf(Window(t)) : u # t =>
              (HasSeen(u)' <=> HasSeen(u)) /\ (Midway(u)' <=> Midway(u)) /\ at'[u] = at[u]
  BY <1>0, StageWords DEF StayBut
<1>2. ~HasSeen(t) /\ ~HasSeen(t)' => (SeenFree(Window(t))' <=> SeenFree(Window(t)))
  BY <1>1 DEF SeenFree
<1>3. ~HasSeen(t) /\ ~HasSeen(t)' /\ ~Midway(t) /\ ~Midway(t)' =>
              (Quiet(Window(t))' <=> Quiet(Window(t)))
  BY <1>1 DEF Quiet
<1>4. at[t] # "save" => (Saving(Window(t)) => Saving(Window(t))')
  BY <1>1 DEF Saving
<1>5. Crossing(t)' <=> Crossing(t)
  BY <1>1 DEF Crossing
<1> QED BY <1>1, <1>2, <1>3, <1>4, <1>5

Nowhere == UNCHANGED <<file, mem, seen, apart>>

LEMMA OffLockKeeps ==
  ASSUME PlannerInv, TypeOK', NEW t \in Threads, at[t] \in Waiting, at'[t] \in Waiting,
         StayBut(t), HeldBut(t), Nowhere,
         \A u \in Threads : u # t => (alone'[u] => alone[u]),
         alone'[t] =>
           /\ at'[t] \in Queued \ {"adopt"} => Matches(Window(t)) /\ SeenFree(Window(t))
           /\ at'[t] # "approve"
           /\ apart[Window(t)] => Saving(Window(t))
  PROVE  PlannerInv'
<1> DEFINE w == Window(t)
<1> USE DEF Nowhere
<1>0. w \in Windows /\ t \in ThreadsOf(w) /\ WindowOK(w)
  BY ThreadTypes DEF PlannerInv
<1>1. ~HasSeen(t) /\ ~Midway(t) /\ ~HasSeen(t)' /\ ~Midway(t)'
  BY WaitingWords
<1>2. /\ SeenFree(w)' <=> SeenFree(w)
      /\ Quiet(w)' <=> Quiet(w)
      /\ Saving(w) => Saving(w)'
  BY <1>1, OthersWords DEF Midway
<1>3. at'[t] \notin {"put", "reread", "refill", "save", "saved"}
  BY <1>1 DEF Midway, HasSeen
<1>4. ThreadOK(t)'
  <2>1. Carries(t)'
    BY <1>3 DEF Carries
  <2>2. OnTheWay(t)'
    BY <1>3 DEF OnTheWay
  <2>3. ASSUME alone'[t] PROVE Trusted(t)'
    BY <1>2, <1>3, <2>3 DEF Trusted, Matches
  <2> QED BY <2>1, <2>2, <2>3 DEF ThreadOK
<1>5. UpToDate(w)' => Agrees(mem[w], file.state)'
  BY <1>0, <1>2 DEF UpToDate, WindowOK
<1>6. \A u \in ThreadsOf(w) : u # t => Spares(t, u)
  BY <1>1, <1>2 DEF Spares, Matches
<1>7. MemBut(w) /\ SeenBut(w) /\ FileStep(t)
  BY DEF MemBut, SeenBut, FileStep
<1>8. seen'[w] <= file'.id
  BY <1>0 DEF WindowOK
<1> QED BY <1>0, <1>1, <1>4, <1>5, <1>6, <1>7, <1>8, StepKeeps

-----------------------------------------------------------------------------
(* A change made here.                                                     *)
LEMMA KeepsMarks ==
  ASSUME NEW now \in States, NEW saved \in States, NEW new \in States,
         Agrees(now, saved), new.plan = now.plan, now.done \subseteq new.done
  PROVE  Kept(saved, new)
<1>1. Default.plan = Gone
  BY DEF Default
<1>2. now = saved \/ now.plan # saved.plan
  BY <1>1 DEF Agrees, NeedsPlan
<1> QED BY <1>2 DEF Kept

Changed(t, s) ==
  /\ at'[t] = "save" /\ StayBut(t)
  /\ held'[t].state = s /\ HeldBut(t)
  /\ mem'[Window(t)] = s /\ MemBut(Window(t))
  /\ apart'[Window(t)] <=> Crossing(t)

LEMMA ChangeKeeps ==
  ASSUME PlannerInv, TypeOK', NEW t \in Threads, NEW s \in States,
         at[t] \in {"flip", "enter", "track", "approve"}, Changed(t, s),
         UNCHANGED <<file, seen, alone>>,
         at[t] # "approve" => s.plan = mem[Window(t)].plan /\ mem[Window(t)].done \subseteq s.done
  PROVE  PlannerInv'
<1> DEFINE w == Window(t)
<1>0. w \in Windows /\ t \in ThreadsOf(w) /\ WindowOK(w) /\ ThreadOK(t)
      /\ mem[w] \in States /\ file.state \in States
  <2>1. w \in Windows /\ t \in ThreadsOf(w) /\ WindowOK(w) /\ TypeOK
    BY ThreadTypes DEF PlannerInv
  <2> QED BY <2>1, SMT DEF WindowOK, TypeOK
<1>c. at'[t] = "save" /\ StayBut(t) /\ held'[t].state = s /\ HeldBut(t)
      /\ mem'[w] = s /\ MemBut(w) /\ (apart'[w] <=> Crossing(t))
  BY DEF Changed
<1>1. ~HasSeen(t) /\ ~Midway(t) /\ ~HasSeen(t)' /\ Midway(t)' /\ at[t] # "save"
  BY <1>c DEF HasSeen, Midway
<1>2. SeenFree(w)' <=> SeenFree(w)
  BY <1>1, <1>c, OthersWords
<1>3. Saving(w)' /\ ~Quiet(w)'
  BY <1>0, <1>1, <1>c DEF Saving, Quiet
<1>4. ASSUME alone[t], ~apart'[w], ~file.twin PROVE Kept(file.state, s)
  <2>1. at[t] \in Queued \ {"adopt"} /\ Matches(w) /\ SeenFree(w) /\ (apart[w] => Saving(w))
    BY <1>4, <1>0 DEF ThreadOK, Trusted, Queued
  <2>2. ~Crossing(t)
    BY <1>4, <1>c
  <2>3. \A u \in ThreadsOf(w) : ~Midway(u)
    BY <2>2, <1>1 DEF Crossing
  <2>4. ~apart[w]
    BY <2>1, <2>3 DEF Saving, Midway
  <2>5. UpToDate(w)
    BY <1>4, <2>1, <2>3, <2>4 DEF UpToDate, Quiet, SeenFree, Matches
  <2>6. Agrees(mem[w], file.state)
    BY <2>5, <1>0 DEF WindowOK
  <2>7. s.plan = mem[w].plan /\ mem[w].done \subseteq s.done
    BY <2>1 DEF Queued
  <2> QED BY <1>0, <2>6, <2>7, KeepsMarks
<1>5. ThreadOK(t)'
  <2>1. Carries(t)'
    BY <1>c DEF Carries
  <2>2. OnTheWay(t)'
    BY <1>c DEF OnTheWay
  <2>3. ASSUME alone'[t] PROVE Trusted(t)'
    <3>1. alone[t]
      BY <2>3
    <3> QED BY <3>1, <1>c, <1>3, <1>4 DEF Trusted, Queued
  <2> QED BY <2>1, <2>2, <2>3 DEF ThreadOK
<1>6. ASSUME NEW u \in ThreadsOf(w), u # t PROVE Spares(t, u)
  <2>1. Midway(u) => apart'[w]
    BY <1>6, <1>c DEF Crossing
  <2> QED BY <2>1, <1>1, <1>2, <1>3 DEF Spares, Matches
<1>7. SeenBut(w) /\ FileStep(t)
  BY DEF SeenBut, FileStep
<1>8. seen'[w] <= file'.id
  BY <1>0 DEF WindowOK
<1>9. ~UpToDate(w)'
  BY <1>3 DEF UpToDate
<1> QED BY <1>0, <1>1, <1>5, <1>6, <1>7, <1>8, <1>9, <1>c, StepKeeps

-----------------------------------------------------------------------------
(* The stages of a thread, one by one.                                     *)
LEMMA StagePlaces ==
  ASSUME PlannerInv, NEW t \in Threads
  PROVE  /\ Window(t) \in Windows /\ t \in ThreadsOf(Window(t))
         /\ TypeOK /\ WindowOK(Window(t)) /\ ThreadOK(t)
         /\ mem[Window(t)] \in States /\ file.state \in States /\ held[t].state \in States
         /\ seen[Window(t)] \in Nat /\ file.id \in Nat /\ held[t].num \in Nat
<1>1. Window(t) \in Windows /\ t \in ThreadsOf(Window(t))
  BY ThreadTypes
<1>2. TypeOK /\ WindowOK(Window(t))
  BY <1>1 DEF PlannerInv
<1>3. ThreadOK(t)
  BY <1>1, <1>2 DEF WindowOK
<1> QED BY <1>1, <1>2, <1>3, SMT DEF TypeOK

LEMMA AdoptLoadKeeps ==
  ASSUME PlannerInv, NEW t \in Threads, AdoptLoad(t)
  PROVE  PlannerInv'
<1> DEFINE w == Window(t)
<1>0. /\ w \in Windows /\ t \in ThreadsOf(w) /\ TypeOK /\ WindowOK(w) /\ ThreadOK(t)
      /\ mem[w] \in States /\ file.state \in States /\ seen[w] \in Nat /\ file.id \in Nat
  BY StagePlaces
<1>1. at[t] = "adopt" /\ SeenFree(w)
      /\ UNCHANGED <<plan, file, mem, running, bounds, history>>
  BY DEF AdoptLoad
<1>2. UNCHANGED <<acts, faults, apart, alone>>
  BY <1>1 DEF bounds, history
<1>3. CASE seen[w] = file.id
  <2>1. Proceed(t) /\ UNCHANGED <<seen, held>>
    BY <1>3 DEF AdoptLoad
  <2>2. /\ at' \in [Threads -> Stages] /\ todo' \in [Threads -> Seq(Queued)]
        /\ at'[t] \in Queued \cup {"free"} /\ StayBut(t)
    BY <2>1, <1>0, ProceedMoves
  <2>3. TypeOK'
    BY <2>1, <2>2, <1>0, <1>1, <1>2 DEF TypeOK
  <2>4. HeldBut(t) /\ Nowhere
    BY <2>1, <1>1, <1>2 DEF HeldBut, Nowhere
  <2>5. at[t] \in Waiting /\ at'[t] \in Waiting /\ at'[t] # "approve"
    BY <1>1, <2>2 DEF Waiting, Queued
  <2>6. alone'[t] => (apart[w] => Saving(w))
    BY <1>0, <1>2 DEF ThreadOK, Trusted
  <2> QED BY <2>2, <2>3, <2>4, <2>5, <2>6, <1>1, <1>2, <1>3, OffLockKeeps DEF Matches
<1>4. CASE seen[w] # file.id
  <2>1. seen' = [seen EXCEPT ![w] = file.id] /\ Hold(t, file.state, file.id) /\ GoOn(t, "put")
    BY <1>4 DEF AdoptLoad
  <2>2. "put" \in Stages
    BY DEF Stages
  <2>3. /\ at' \in [Threads -> Stages] /\ todo' \in [Threads -> Seq(Queued)]
        /\ at'[t] = "put" /\ StayBut(t)
    BY <2>1, <2>2, <1>0, GoOnMoves
  <2>4. /\ held' \in [Threads -> [state : States, num : Nat]]
        /\ held'[t].state = file.state /\ held'[t].num = file.id /\ HeldBut(t)
    BY <2>1, <1>0, HoldMoves
  <2>5. seen' \in [Windows -> Nat] /\ seen'[w] = file.id /\ SeenBut(w)
    BY <2>1, <1>0, SMT DEF TypeOK, SeenBut
  <2>6. TypeOK'
    BY <2>3, <2>4, <2>5, <1>0, <1>1, <1>2 DEF TypeOK
  <2>7. MemBut(w) /\ FileStep(t)
    BY <1>1, <1>2 DEF MemBut, FileStep
  <2>8. Matches(w)' /\ Midway(t)' /\ ~Midway(t) /\ at[t] # "save"
    BY <2>3, <2>5, <1>1 DEF Matches, Midway
  <2>9. ThreadOK(t)'
    <3>1. Carries(t)'
      BY <2>3, <2>4, <1>1 DEF Carries
    <3>2. OnTheWay(t)'
      BY <2>3 DEF OnTheWay
    <3>3. ASSUME alone'[t] PROVE Trusted(t)'
      <4>1. apart[w] => Saving(w)
        BY <3>3, <1>0, <1>2 DEF ThreadOK, Trusted
      <4>2. Saving(w) => Saving(w)'
        BY <2>3, <2>8, OthersWords
      <4> QED BY <4>1, <4>2, <2>3, <2>8, <1>2 DEF Trusted, Queued
    <3> QED BY <3>1, <3>2, <3>3 DEF ThreadOK
  <2>10. ASSUME NEW u \in ThreadsOf(w), u # t PROVE Spares(t, u)
    <3>1. ~HasSeen(u)
      BY <1>1 DEF SeenFree
    <3>2. Saving(w) => Saving(w)'
      BY <2>3, <2>8, OthersWords
    <3> QED BY <3>1, <3>2, <2>8, <1>1, <1>2, <1>4 DEF Spares, Matches, HasSeen
  <2>11. ~UpToDate(w)'
    BY <2>8, <1>0 DEF UpToDate, Quiet
  <2>12. seen'[w] <= file'.id
    BY <2>5, <1>0, <1>1, SMT
  <2> QED BY <1>0, <1>1, <2>3, <2>4, <2>5, <2>6, <2>7, <2>9, <2>10, <2>11, <2>12, StepKeeps
<1> QED BY <1>3, <1>4

\* The thread that has the lock of `seen`.
LEMMA HolderAlone ==
  ASSUME NEW t \in Threads, WindowOK(Window(t)), HasSeen(t), StayBut(t)
  PROVE  /\ \A u \in ThreadsOf(Window(t)) : u # t => ~HasSeen(u) /\ ~HasSeen(u)'
         /\ Crossing(t) => Saving(Window(t))'
         /\ ~SeenFree(Window(t))
         /\ ~HasSeen(t)' => SeenFree(Window(t))'
<1>0. t \in ThreadsOf(Window(t))
  BY ThreadTypes
<1>1. \A u \in ThreadsOf(Window(t)) : u # t => ~HasSeen(u)
  BY <1>0 DEF WindowOK, LockOf
<1>2. \A u \in ThreadsOf(Window(t)) : u # t => ~HasSeen(u)' /\ at'[u] = at[u]
  BY <1>1, OthersWords
<1>3. ASSUME Crossing(t) PROVE Saving(Window(t))'
  <2>1. PICK u \in ThreadsOf(Window(t)) \ {t} : Midway(u)
    BY <1>3 DEF Crossing
  <2>2. at[u] = "save"
    BY <1>1, <2>1 DEF Midway, HasSeen
  <2> QED BY <1>2, <2>1, <2>2 DEF Saving
<1>4. ~HasSeen(t)' => SeenFree(Window(t))'
  BY <1>2 DEF SeenFree
<1> QED BY <1>0, <1>1, <1>2, <1>3, <1>4 DEF SeenFree

LEMMA HolderSpares ==
  ASSUME NEW t \in Threads, WindowOK(Window(t)), HasSeen(t), StayBut(t),
         at[t] = "saved" => mem'[Window(t)] = mem[Window(t)],
         \/ mem'[Window(t)] = mem[Window(t)] /\ apart'[Window(t)] = apart[Window(t)]
         \/ apart'[Window(t)] <=> Crossing(t)
         \/ apart'[Window(t)] <=> Crossing(t) \/ apart[Window(t)]
  PROVE  \A u \in ThreadsOf(Window(t)) : u # t => Spares(t, u)
<1> SUFFICES ASSUME NEW u \in ThreadsOf(Window(t)), u # t PROVE Spares(t, u)
  OBVIOUS
<1> DEFINE w == Window(t)
<1>1. ~HasSeen(u) /\ at[u] # "saved" /\ ~SeenFree(w) /\ (Crossing(t) => Saving(w)')
  BY HolderAlone DEF HasSeen
<1>2. Midway(u) => Crossing(t)
  BY DEF Crossing
<1>3. Saving(w) => Saving(w)'
  BY OthersWords DEF HasSeen
<1>4. mem'[w] = mem[w] \/ (Midway(u) => apart'[w])
  BY <1>2
<1>5. apart[w] => apart'[w] \/ (~Midway(u) /\ (at[u] = "saved" => Midway(t)'))
  BY <1>1, <1>2
<1>6. (apart[w] => Saving(w)) => (apart'[w] => Saving(w)')
  BY <1>1, <1>3
<1> QED BY <1>1, <1>4, <1>5, <1>6 DEF Spares

LEMMA AdoptPutKeeps ==
  ASSUME PlannerInv, NEW t \in Threads, AdoptPut(t)
  PROVE  PlannerInv'
<1> DEFINE w == Window(t)
           s == held[t].state
<1>0. /\ w \in Windows /\ t \in ThreadsOf(w) /\ TypeOK /\ WindowOK(w) /\ ThreadOK(t)
      /\ s \in States
  BY StagePlaces
<1>1. at[t] = "put" /\ SetMem(t, s)
      /\ UNCHANGED <<plan, file, seen, running, acts, faults, alone>>
  BY DEF AdoptPut, bounds
<1>2. /\ mem' \in [Windows -> States] /\ apart' \in [Windows -> BOOLEAN]
      /\ mem'[w] = s /\ MemBut(w) /\ (apart'[w] <=> Crossing(t))
  BY <1>0, <1>1, SetMemMoves
<1>3. /\ at' \in [Threads -> Stages] /\ todo' \in [Threads -> Seq(Queued)]
      /\ held' \in [Threads -> [state : States, num : Nat]]
      /\ StayBut(t) /\ HeldBut(t)
      /\ at'[t] \in Queued \cup {"free", "reread"}
      /\ at'[t] = "reread" => NeedsPlan(s)
  <2>1. CASE mem[w] # s /\ NeedsPlan(s)
    <3>1. GoOn(t, "reread") /\ UNCHANGED held /\ "reread" \in Stages
      BY <2>1 DEF AdoptPut, Stages
    <3>2. held \in [Threads -> [state : States, num : Nat]] /\ HeldBut(t)
      BY <1>0, <3>1 DEF TypeOK, HeldBut
    <3> QED BY <1>0, <2>1, <3>1, <3>2, GoOnMoves
  <2>2. CASE ~(mem[w] # s /\ NeedsPlan(s))
    <3>1. Finish(t)
      BY <2>2 DEF AdoptPut
    <3>2. "reread" \notin Queued \cup {"free"}
      BY DEF Queued
    <3> QED BY <1>0, <3>1, <3>2, FinishMoves
  <2> QED BY <2>1, <2>2
<1>4. TypeOK'
  BY <1>0, <1>1, <1>2, <1>3 DEF TypeOK
<1>5. HasSeen(t) /\ SeenBut(w) /\ FileStep(t)
  BY <1>1 DEF HasSeen, SeenBut, FileStep
<1>6. /\ Crossing(t) => Saving(w)'
      /\ ~HasSeen(t)' => SeenFree(w)'
  BY <1>0, <1>3, <1>5, HolderAlone
<1>7. (Knows(w)' <=> Knows(w)) /\ (Matches(w)' <=> Matches(w))
  BY <1>1 DEF Knows, Matches
<1>8. at'[t] = "reread" \/ (at'[t] \in Waiting /\ at'[t] # "approve")
  BY <1>3 DEF Waiting, Queued
<1>9. at'[t] # "reread" => at'[t] \notin {"put", "refill", "save", "saved"} /\ ~HasSeen(t)'
  BY <1>8, WaitingWords DEF Midway, HasSeen
<1>10. Knows(w) => s = file.state
  BY <1>0, <1>1 DEF ThreadOK, Carries
<1>11. ThreadOK(t)'
  <2>1. Carries(t)'
    BY <1>9 DEF Carries
  <2>2. OnTheWay(t)'
    BY <1>1, <1>2, <1>3, <1>7, <1>9, <1>10 DEF OnTheWay
  <2>3. ASSUME alone'[t] PROVE Trusted(t)'
    <3>1. Matches(w)
      BY <2>3, <1>0, <1>1 DEF ThreadOK, Trusted
    <3>2. at'[t] \in Queued => at'[t] # "reread"
      BY DEF Queued
    <3> QED BY <3>1, <3>2, <1>2, <1>6, <1>7, <1>8, <1>9 DEF Trusted
  <2> QED BY <2>1, <2>2, <2>3 DEF ThreadOK
<1>12. UpToDate(w)' => Agrees(mem[w], file.state)'
  BY <1>1, <1>2, <1>7, <1>10 DEF UpToDate, Knows, Matches, Agrees
<1>13. \A u \in ThreadsOf(w) : u # t => Spares(t, u)
  BY <1>0, <1>1, <1>2, <1>3, <1>5, HolderSpares
<1>14. seen'[w] <= file'.id
  BY <1>0, <1>1 DEF WindowOK
<1> QED BY <1>2, <1>3, <1>4, <1>5, <1>11, <1>12, <1>13, <1>14, StepKeeps

LEMMA RereadKeeps ==
  ASSUME PlannerInv, NEW t \in Threads, Reread(t)
  PROVE  PlannerInv'
<1> DEFINE w == Window(t)
<1>0. /\ w \in Windows /\ t \in ThreadsOf(w) /\ TypeOK /\ WindowOK(w) /\ ThreadOK(t)
      /\ mem[w] \in States
  BY StagePlaces
<1>1. at[t] = "reread" /\ Hold(t, mem[w], plan) /\ GoOn(t, "refill") /\ plan \in Nat
      /\ UNCHANGED <<plan, file, mem, seen, running, acts, faults, apart, alone>>
  BY <1>0 DEF Reread, bounds, history, TypeOK
<1>2. "refill" \in Stages
  BY DEF Stages
<1>3. /\ at' \in [Threads -> Stages] /\ todo' \in [Threads -> Seq(Queued)]
      /\ at'[t] = "refill" /\ StayBut(t)
  BY <1>0, <1>1, <1>2, GoOnMoves
<1>4. /\ held' \in [Threads -> [state : States, num : Nat]]
      /\ held'[t].state = mem[w] /\ HeldBut(t)
  BY <1>0, <1>1, HoldMoves
<1>5. TypeOK'
  BY <1>0, <1>1, <1>3, <1>4 DEF TypeOK
<1>6. HasSeen(t) /\ HasSeen(t)' /\ SeenBut(w) /\ MemBut(w) /\ FileStep(t)
  BY <1>1, <1>3 DEF HasSeen, SeenBut, MemBut, FileStep
<1>7. (Saving(w) => Saving(w)') /\ ~Quiet(w)'
  BY <1>0, <1>1, <1>3, <1>6, OthersWords DEF Quiet
<1>8. ThreadOK(t)'
  <2>1. Carries(t)'
    BY <1>3 DEF Carries
  <2>2. ~apart'[w] => OnTheWay(t)'
    BY <1>0, <1>1, <1>3, <1>4 DEF ThreadOK, OnTheWay, Knows, Matches
  <2>3. ASSUME alone'[t] PROVE Trusted(t)'
    BY <2>3, <1>0, <1>1, <1>3, <1>7 DEF ThreadOK, Trusted, Matches, Queued
  <2> QED BY <2>1, <2>2, <2>3 DEF ThreadOK
<1>9. \A u \in ThreadsOf(w) : u # t => Spares(t, u)
  BY <1>0, <1>1, <1>3, <1>6, HolderSpares
<1>10. seen'[w] <= file'.id
  BY <1>0, <1>1 DEF WindowOK
<1>11. ~UpToDate(w)'
  BY <1>7 DEF UpToDate
<1> QED BY <1>3, <1>4, <1>5, <1>6, <1>8, <1>9, <1>10, <1>11, StepKeeps

\* Records of states, field by field.
LEMMA StateFields ==
  ASSUME NEW a \in States, NEW b \in States,
         a.phase = b.phase, a.plan = b.plan, a.done = b.done
  PROVE  a = b
<1>1. a = [phase |-> a.phase, plan |-> a.plan, done |-> a.done]
  BY SMT DEF States
<1>2. b = [phase |-> b.phase, plan |-> b.plan, done |-> b.done]
  BY SMT DEF States
<1> QED BY <1>1, <1>2

LEMMA StateEdits ==
  ASSUME NEW a \in States
  PROVE  /\ \A n \in Nat : LET b == [a EXCEPT !.plan = n] IN
              b \in States /\ b.plan = n /\ b.phase = a.phase /\ b.done = a.done
         /\ \A d \in SUBSET Steps : LET b == [a EXCEPT !.done = d] IN
              b \in States /\ b.plan = a.plan /\ b.phase = a.phase /\ b.done = d
         /\ \A p \in Phases : LET b == [a EXCEPT !.phase = p] IN
              b \in States /\ b.plan = a.plan /\ b.phase = p /\ b.done = a.done
<1>1. \A n \in Nat : LET b == [a EXCEPT !.plan = n] IN
        b \in States /\ b.plan = n /\ b.phase = a.phase /\ b.done = a.done
  BY SMT DEF States
<1>2. \A d \in SUBSET Steps : LET b == [a EXCEPT !.done = d] IN
        b \in States /\ b.plan = a.plan /\ b.phase = a.phase /\ b.done = d
  BY SMT DEF States
<1>3. \A p \in Phases : LET b == [a EXCEPT !.phase = p] IN
        b \in States /\ b.plan = a.plan /\ b.phase = p /\ b.done = a.done
  BY SMT DEF States
<1> QED BY <1>1, <1>2, <1>3

With(a, n, d) == [a EXCEPT !.plan = n, !.done = d]

LEMMA PlanAndDone ==
  ASSUME NEW a \in States, NEW n \in Nat, NEW d \in SUBSET Steps
  PROVE  /\ With(a, n, d) \in States
         /\ With(a, n, d).phase = a.phase
         /\ With(a, n, d).plan = n
         /\ With(a, n, d).done = d
<1> DEFINE c == [a EXCEPT !.plan = n]
<1>1. c \in States /\ c.plan = n /\ c.phase = a.phase
  BY StateEdits
<1> HIDE DEF c
<1> DEFINE e == [c EXCEPT !.done = d]
<1>2. e \in States /\ e.plan = c.plan /\ e.phase = c.phase /\ e.done = d
  BY <1>1, StateEdits
<1> HIDE DEF e
<1>3. e = With(a, n, d)
  BY DEF c, e, With
<1> QED BY <1>1, <1>2, <1>3

\* A plan that is read again agrees with the state that named it.
LEMMA RefilledType ==
  ASSUME NEW now \in States, NEW old \in States, NEW found \in Nat
  PROVE  Refilled(now, old, found) \in States
<1>1. (IF found = old.plan THEN old.done ELSE {}) \in SUBSET Steps
  BY SMT DEF States
<1> DEFINE d == IF found = old.plan THEN old.done ELSE {}
<1>2. d \in SUBSET Steps
  BY <1>1
<1> HIDE DEF d
<1>3. [now EXCEPT !.plan = found, !.done = d] \in States
  BY <1>2, PlanAndDone DEF With
<1> QED BY <1>3, DefaultType DEF Refilled, d

LEMMA RefilledAgrees ==
  ASSUME NEW now \in States, NEW found \in Nat, NeedsPlan(now)
  PROVE  Agrees(Refilled(now, now, found), now)
<1>1. CASE found = Gone
  BY <1>1 DEF Refilled, Agrees
<1>2. CASE found # Gone /\ found = now.plan
  <2>1. Refilled(now, now, found) = [now EXCEPT !.plan = now.plan, !.done = now.done]
    BY <1>2 DEF Refilled
  <2>2. now.plan \in Nat /\ now.done \in SUBSET Steps
    BY SMT DEF States
  <2> DEFINE b == With(now, now.plan, now.done)
  <2>3. b \in States /\ b.phase = now.phase /\ b.plan = now.plan /\ b.done = now.done
    BY <2>2, PlanAndDone
  <2> HIDE DEF b
  <2>4. b = now
    BY <2>3, StateFields
  <2> QED BY <2>1, <2>4 DEF Agrees, b, With
<1>3. CASE found # Gone /\ found # now.plan
  <2> DEFINE new == Refilled(now, now, found)
  <2>1. new = With(now, found, {}) /\ {} \in SUBSET Steps
    BY <1>3 DEF Refilled, With
  <2> HIDE DEF new
  <2>2. new.phase = now.phase /\ new.plan = found /\ new.done = {}
    BY <2>1, PlanAndDone
  <2> QED BY <2>2, <1>3 DEF Agrees, NeedsPlan, new
<1> QED BY <1>1, <1>2, <1>3

LEMMA RefillKeeps ==
  ASSUME PlannerInv, NEW t \in Threads, Refill(t)
  PROVE  PlannerInv'
<1> DEFINE w == Window(t)
           s == Refilled(mem[w], held[t].state, held[t].num)
<1>0. /\ w \in Windows /\ t \in ThreadsOf(w) /\ TypeOK /\ WindowOK(w) /\ ThreadOK(t)
      /\ mem[w] \in States /\ held[t].state \in States /\ held[t].num \in Nat
  BY StagePlaces
<1>s. s \in States
  BY <1>0, RefilledType
<1> HIDE DEF s
<1>1. at[t] = "refill" /\ SetMem(t, s) /\ Finish(t)
      /\ UNCHANGED <<plan, file, seen, running, acts, faults, alone>>
  BY DEF Refill, bounds, s
<1>2. Midway(t) /\ at[t] # "put"
  BY <1>1 DEF Midway
<1>3. /\ mem' \in [Windows -> States] /\ apart' \in [Windows -> BOOLEAN]
      /\ mem'[w] = s /\ MemBut(w) /\ (apart'[w] <=> Crossing(t) \/ apart[w])
  BY <1>0, <1>1, <1>2, <1>s, SetMemMoves
<1>4. /\ at' \in [Threads -> Stages] /\ todo' \in [Threads -> Seq(Queued)]
      /\ held' \in [Threads -> [state : States, num : Nat]]
      /\ StayBut(t) /\ HeldBut(t) /\ at'[t] \in Queued \cup {"free"}
  BY <1>0, <1>1, FinishMoves
<1>5. TypeOK'
  BY <1>0, <1>1, <1>3, <1>4 DEF TypeOK
<1>6. HasSeen(t) /\ SeenBut(w) /\ FileStep(t) /\ at[t] # "saved" /\ at[t] # "save"
  BY <1>1 DEF HasSeen, SeenBut, FileStep
<1>7. at'[t] \in Waiting /\ at'[t] # "approve"
  BY <1>4 DEF Waiting, Queued
<1>8. ~HasSeen(t)' /\ at'[t] \notin {"put", "reread", "refill", "save", "saved"}
  BY <1>7, WaitingWords DEF Midway, HasSeen
<1>9. (Crossing(t) => Saving(w)') /\ SeenFree(w)'
  BY <1>0, <1>4, <1>6, <1>8, HolderAlone
<1>10. (Knows(w)' <=> Knows(w)) /\ (Matches(w)' <=> Matches(w))
  BY <1>1 DEF Knows, Matches
<1>11. ThreadOK(t)'
  <2>1. Carries(t)'
    BY <1>8 DEF Carries
  <2>2. OnTheWay(t)'
    BY <1>8 DEF OnTheWay
  <2>3. ASSUME alone'[t] PROVE Trusted(t)'
    <3>1. Matches(w) /\ (apart[w] => Saving(w))
      BY <2>3, <1>0, <1>1 DEF ThreadOK, Trusted
    <3>2. Saving(w) => Saving(w)'
      BY <1>4, <1>6, OthersWords
    <3> QED BY <3>1, <3>2, <1>3, <1>7, <1>8, <1>9, <1>10 DEF Trusted
  <2> QED BY <2>1, <2>2, <2>3 DEF ThreadOK
<1>12. UpToDate(w)' => Agrees(mem[w], file.state)'
  <2> SUFFICES ASSUME UpToDate(w)' PROVE Agrees(mem'[w], file'.state)
    OBVIOUS
  <2>1. ~apart[w] /\ Knows(w)
    BY <1>3, <1>10 DEF UpToDate, Knows, Matches
  <2>2. NeedsPlan(mem[w]) /\ mem[w] = file.state /\ held[t].state = mem[w]
    BY <2>1, <1>0, <1>1 DEF ThreadOK, OnTheWay
  <2>3. Agrees(Refilled(mem[w], mem[w], held[t].num), mem[w])
    BY <2>2, <1>0, RefilledAgrees
  <2> QED BY <2>2, <2>3, <1>1, <1>3 DEF s
<1>13. \A u \in ThreadsOf(w) : u # t => Spares(t, u)
  BY <1>0, <1>3, <1>4, <1>6, HolderSpares
<1>14. seen'[w] <= file'.id
  BY <1>0, <1>1 DEF WindowOK
<1> QED BY <1>3, <1>4, <1>5, <1>6, <1>11, <1>12, <1>13, <1>14, StepKeeps

LEMMA RenameMoves ==
  ASSUME NEW t \in Threads, held[t].state \in States, file.id \in Nat,
         NEW id \in {file.id, file.id + 1}, Rename(t, id)
  PROVE  /\ file' \in [state : States, id : Nat, twin : BOOLEAN] /\ FileMoved
         /\ file'.state = held[t].state /\ file'.id = id /\ id \in Nat
<1>1. id \in Nat /\ id >= file.id /\ (id = file.id \/ id > file.id)
  BY SMT
<1>2. file' = [state |-> held[t].state, id |-> id, twin |-> id = file.id]
  BY DEF Rename
<1>3. file'.state = held[t].state /\ file'.id = id /\ (file'.twin <=> id = file.id)
  BY <1>2
<1>4. FileMoved
  BY <1>1, <1>3 DEF FileMoved
<1> QED BY <1>1, <1>2, <1>3, <1>4

LEMMA SaveKeeps ==
  ASSUME PlannerInv, NEW t \in Threads, Save(t)
  PROVE  PlannerInv'
<1> DEFINE w == Window(t)
<1>0. /\ w \in Windows /\ t \in ThreadsOf(w) /\ TypeOK /\ WindowOK(w) /\ ThreadOK(t)
      /\ held[t].state \in States /\ file.id \in Nat /\ seen[w] \in Nat
  BY StagePlaces
<1>1. at[t] = "save" /\ SeenFree(w)
      /\ alone' = [u \in Threads |-> FALSE] /\ GoOn(t, "saved")
      /\ UNCHANGED <<plan, mem, seen, running, acts, apart>>
  BY DEF Save
<1>a. PICK id \in {file.id, file.id + 1} :
        Rename(t, id) /\ Hold(t, held[t].state, id) /\ (faults' = faults + 1 \/ faults' = faults)
  BY DEF Save
<1>2. /\ file' \in [state : States, id : Nat, twin : BOOLEAN] /\ FileMoved
      /\ file'.state = held[t].state /\ file'.id = id /\ id \in Nat
  BY <1>0, <1>a, RenameMoves
<1>3. "saved" \in Stages
  BY DEF Stages
<1>f. faults' \in Nat
  BY <1>0, <1>a, SMT DEF TypeOK
<1>4. /\ at' \in [Threads -> Stages] /\ todo' \in [Threads -> Seq(Queued)]
      /\ at'[t] = "saved" /\ StayBut(t)
  BY <1>0, <1>1, <1>3, GoOnMoves
<1>5. /\ held' \in [Threads -> [state : States, num : Nat]]
      /\ held'[t].state = held[t].state /\ held'[t].num = id /\ HeldBut(t)
  BY <1>0, <1>a, <1>2, HoldMoves
<1>6. alone' \in [Threads -> BOOLEAN] /\ \A u \in Threads : ~alone'[u]
  BY <1>1
<1>7. TypeOK'
  BY <1>0, <1>1, <1>2, <1>4, <1>5, <1>6, <1>f DEF TypeOK
<1>8. SeenBut(w) /\ MemBut(w) /\ FileStep(t) /\ HasSeen(t)'
  BY <1>1, <1>2, <1>4, <1>6 DEF HasSeen, SeenBut, MemBut, FileStep
<1>9. ThreadOK(t)'
  <2>1. held'[t].num <= file'.id
    BY <1>2, <1>5, SMT
  <2>2. Carries(t)'
    BY <2>1, <1>2, <1>4, <1>5 DEF Carries
  <2>3. ~apart'[w] => OnTheWay(t)'
    BY <1>0, <1>1, <1>4, <1>5 DEF ThreadOK, OnTheWay
  <2> QED BY <2>2, <2>3, <1>6 DEF ThreadOK
<1>10. ASSUME NEW u \in ThreadsOf(w), u # t PROVE Spares(t, u)
  <2>1. ~HasSeen(u) /\ at[u] # "saved" /\ ~alone'[u]
    BY <1>1, <1>6 DEF SeenFree, HasSeen, ThreadsOf
  <2> QED BY <2>1, <1>1 DEF Spares
<1>11. seen'[w] <= file'.id
  BY <1>0, <1>1, <1>2, SMT DEF WindowOK, FileMoved
<1>12. ~UpToDate(w)'
  BY <1>0, <1>8 DEF UpToDate, Quiet
<1> QED BY <1>1, <1>4, <1>5, <1>7, <1>8, <1>9, <1>10, <1>11, <1>12, StepKeeps

LEMMA SaveFailsKeeps ==
  ASSUME PlannerInv, NEW t \in Threads, SaveFails(t)
  PROVE  PlannerInv'
<1> DEFINE w == Window(t)
<1>0. /\ w \in Windows /\ t \in ThreadsOf(w) /\ TypeOK /\ WindowOK(w) /\ ThreadOK(t)
      /\ held[t].state \in States /\ file.id \in Nat /\ seen[w] \in Nat
  BY StagePlaces
<1>1. at[t] = "save" /\ SeenFree(w) /\ Finish(t)
      /\ (file' = file \/ \E id \in {file.id, file.id + 1} : Rename(t, id))
      /\ apart' = [apart EXCEPT ![w] = TRUE] /\ alone' = [u \in Threads |-> FALSE]
      /\ UNCHANGED <<plan, mem, seen, running, acts>> /\ faults' = faults + 1
  BY DEF SaveFails
<1>2. file' \in [state : States, id : Nat, twin : BOOLEAN] /\ (FileMoved \/ file' = file)
  BY <1>0, <1>1, RenameMoves DEF TypeOK
<1>4. /\ at' \in [Threads -> Stages] /\ todo' \in [Threads -> Seq(Queued)]
      /\ held' \in [Threads -> [state : States, num : Nat]]
      /\ StayBut(t) /\ HeldBut(t) /\ at'[t] \in Queued \cup {"free"}
  BY <1>0, <1>1, FinishMoves
<1>5. /\ apart' \in [Windows -> BOOLEAN] /\ apart'[w]
      /\ \A v \in Windows : v # w => apart'[v] = apart[v]
  BY <1>0, <1>1, SMT DEF TypeOK
<1>6. alone' \in [Threads -> BOOLEAN] /\ \A u \in Threads : ~alone'[u]
  BY <1>1
<1>f. faults' \in Nat
  BY <1>0, <1>1, SMT DEF TypeOK
<1>7. TypeOK'
  BY <1>0, <1>1, <1>2, <1>4, <1>5, <1>6, <1>f DEF TypeOK
<1>8. SeenBut(w) /\ MemBut(w) /\ FileStep(t)
  BY <1>1, <1>2, <1>5, <1>6 DEF SeenBut, MemBut, FileStep
<1>9. at'[t] \in Waiting
  BY <1>4 DEF Waiting
<1>10. ~HasSeen(t)' /\ at'[t] \notin {"put", "reread", "refill", "save", "saved"}
  BY <1>9, WaitingWords DEF Midway, HasSeen
<1>11. ThreadOK(t)'
  BY <1>5, <1>6, <1>10 DEF ThreadOK, Carries
<1>12. ASSUME NEW u \in ThreadsOf(w), u # t PROVE Spares(t, u)
  <2>1. ~HasSeen(u) /\ at[u] # "saved" /\ ~alone'[u]
    BY <1>1, <1>6 DEF SeenFree, HasSeen, ThreadsOf
  <2> QED BY <2>1, <1>5 DEF Spares
<1>13. seen'[w] <= file'.id
  BY <1>0, <1>1, <1>2, SMT DEF WindowOK, FileMoved, TypeOK
<1>14. ~UpToDate(w)'
  BY <1>5 DEF UpToDate
<1> QED BY <1>4, <1>7, <1>8, <1>10, <1>11, <1>12, <1>13, <1>14, StepKeeps

LEMMA SaveSeenKeeps ==
  ASSUME PlannerInv, NEW t \in Threads, SaveSeen(t)
  PROVE  PlannerInv'
<1> DEFINE w == Window(t)
<1>0. /\ w \in Windows /\ t \in ThreadsOf(w) /\ TypeOK /\ WindowOK(w) /\ ThreadOK(t)
      /\ held[t].num \in Nat
  BY StagePlaces
<1>1. at[t] = "saved" /\ seen' = [seen EXCEPT ![w] = held[t].num] /\ Finish(t)
      /\ UNCHANGED <<plan, file, mem, running, acts, faults, apart, alone>>
  BY DEF SaveSeen, Remembered, bounds, history
<1>2. seen' \in [Windows -> Nat] /\ seen'[w] = held[t].num /\ SeenBut(w)
  BY <1>0, <1>1, SMT DEF TypeOK, SeenBut
<1>3. /\ at' \in [Threads -> Stages] /\ todo' \in [Threads -> Seq(Queued)]
      /\ held' \in [Threads -> [state : States, num : Nat]]
      /\ StayBut(t) /\ HeldBut(t) /\ at'[t] \in Queued \cup {"free"}
  BY <1>0, <1>1, FinishMoves
<1>4. TypeOK'
  BY <1>0, <1>1, <1>2, <1>3 DEF TypeOK
<1>5. HasSeen(t) /\ MemBut(w) /\ FileStep(t)
  BY <1>1 DEF HasSeen, MemBut, FileStep
<1>6. at'[t] \in Waiting
  BY <1>3 DEF Waiting
<1>7. ~HasSeen(t)' /\ ~Midway(t)' /\ at'[t] \notin {"put", "reread", "refill", "save", "saved"}
  BY <1>6, WaitingWords DEF Midway, HasSeen
<1>8. ThreadOK(t)'
  <2>1. ~alone'[t]
    BY <1>0, <1>1 DEF ThreadOK, Trusted
  <2>2. Carries(t)'
    BY <1>7 DEF Carries
  <2>3. OnTheWay(t)'
    BY <1>7 DEF OnTheWay
  <2> QED BY <2>1, <2>2, <2>3 DEF ThreadOK
<1>9. UpToDate(w)' => Agrees(mem[w], file.state)'
  <2> SUFFICES ASSUME UpToDate(w)' PROVE Agrees(mem'[w], file'.state)
    OBVIOUS
  <2>1. ~apart[w] /\ held[t].num = file.id /\ ~file.twin /\ Quiet(w)'
    BY <1>1, <1>2 DEF UpToDate
  <2>2. \A u \in ThreadsOf(w) : u # t => ~Midway(u)
    BY <2>1, <1>3, OthersWords DEF Quiet
  <2>3. ~Crossing(t)
    BY <2>2 DEF Crossing
  <2>4. mem[w] = held[t].state /\ held[t].state = file.state
    BY <2>1, <2>3, <1>0, <1>1 DEF ThreadOK, OnTheWay, Carries
  <2> QED BY <2>4, <1>1 DEF Agrees
<1>10. \A u \in ThreadsOf(w) : u # t => Spares(t, u)
  BY <1>0, <1>1, <1>3, <1>5, HolderSpares
<1>11. seen'[w] <= file'.id
  BY <1>0, <1>1, <1>2 DEF ThreadOK, Carries
<1> QED BY <1>2, <1>3, <1>4, <1>5, <1>7, <1>8, <1>9, <1>10, <1>11, StepKeeps

\* A change, and an operation that changes nothing.
LEMMA ChangeMoves ==
  ASSUME PlannerInv, NEW t \in Threads, NEW s \in States, Change(t, s),
         at[t] \in {"flip", "enter", "track", "approve"},
         UNCHANGED <<plan, file, seen, running, bounds, alone>>,
         at[t] # "approve" => s.plan = mem[Window(t)].plan /\ mem[Window(t)].done \subseteq s.done
  PROVE  PlannerInv'
<1>0. Window(t) \in Windows /\ TypeOK
  BY StagePlaces
<1>1. SetMem(t, s) /\ Hold(t, s, 0) /\ GoOn(t, "save")
  BY DEF Change
<1>2. "save" \in Stages /\ 0 \in Nat
  BY SMT DEF Stages
<1>3. /\ at' \in [Threads -> Stages] /\ todo' \in [Threads -> Seq(Queued)]
      /\ at'[t] = "save" /\ StayBut(t)
  BY <1>0, <1>1, <1>2, GoOnMoves
<1>4. /\ held' \in [Threads -> [state : States, num : Nat]]
      /\ held'[t].state = s /\ HeldBut(t)
  BY <1>0, <1>1, <1>2, HoldMoves
<1>5. ~Midway(t)
  BY DEF Midway
<1>6. /\ mem' \in [Windows -> States] /\ apart' \in [Windows -> BOOLEAN]
      /\ mem'[Window(t)] = s /\ MemBut(Window(t)) /\ (apart'[Window(t)] <=> Crossing(t))
  BY <1>0, <1>1, <1>5, SetMemMoves
<1>7. TypeOK'
  BY <1>0, <1>3, <1>4, <1>6 DEF TypeOK, bounds
<1>8. Changed(t, s)
  BY <1>3, <1>4, <1>6 DEF Changed
<1> QED BY <1>7, <1>8, ChangeKeeps

LEMMA NoChangeMoves ==
  ASSUME PlannerInv, NEW t \in Threads, NoChange(t),
         at[t] \in {"flip", "enter", "track", "approve"},
         UNCHANGED <<plan, file, seen, running, bounds, alone>>
  PROVE  PlannerInv'
<1>0. Window(t) \in Windows /\ TypeOK /\ ThreadOK(t)
  BY StagePlaces
<1>1. Finish(t) /\ UNCHANGED <<mem, apart>>
  BY DEF NoChange
<1>2. /\ at' \in [Threads -> Stages] /\ todo' \in [Threads -> Seq(Queued)]
      /\ held' \in [Threads -> [state : States, num : Nat]]
      /\ at'[t] \in Queued \cup {"free"} /\ StayBut(t) /\ HeldBut(t)
  BY <1>0, <1>1, FinishMoves
<1>3. TypeOK'
  BY <1>0, <1>1, <1>2 DEF TypeOK, bounds
<1>4. Nowhere /\ at[t] \in Waiting /\ at'[t] \in Waiting /\ at'[t] # "approve"
  BY <1>1, <1>2 DEF Nowhere, Waiting, Queued
<1>5. alone'[t] => /\ Matches(Window(t)) /\ SeenFree(Window(t))
                   /\ apart[Window(t)] => Saving(Window(t))
  BY <1>0 DEF ThreadOK, Trusted, Queued
<1> QED BY <1>2, <1>3, <1>4, <1>5, OffLockKeeps

LEMMA PhaseOnly ==
  ASSUME NEW a \in States, NEW p \in Phases
  PROVE  LET b == [a EXCEPT !.phase = p] IN
           b \in States /\ b.plan = a.plan /\ a.done \subseteq b.done
PROOF BY StateEdits

LEMMA FlipKeeps ==
  ASSUME PlannerInv, NEW t \in Threads, Flip(t)
  PROVE  PlannerInv'
<1> DEFINE m == mem[Window(t)]
<1>0. m \in States
  BY StagePlaces
<1>1. at[t] = "flip" /\ UNCHANGED <<plan, file, seen, running, bounds, alone>>
      /\ Change(t, [m EXCEPT !.phase = IF @ = "idle" THEN "planning" ELSE "idle"])
  BY DEF Flip
<1>2. PICK p \in Phases : p = IF m.phase = "idle" THEN "planning" ELSE "idle"
  BY DEF Phases
<1>3. PICK s : s = [m EXCEPT !.phase = p]
  OBVIOUS
<1>4. Change(t, s)
  BY <1>0, <1>1, <1>2, <1>3
<1>5. s \in States /\ s.plan = m.plan /\ m.done \subseteq s.done
  BY <1>0, <1>3, PhaseOnly
<1> QED BY <1>1, <1>4, <1>5, ChangeMoves

LEMMA EnterKeeps ==
  ASSUME PlannerInv, NEW t \in Threads, Enter(t)
  PROVE  PlannerInv'
<1> DEFINE m == mem[Window(t)]
<1>0. m \in States
  BY StagePlaces
<1>1. at[t] = "enter" /\ UNCHANGED <<plan, file, seen, running, bounds, alone>>
  BY DEF Enter
<1>2. CASE m.phase = "idle"
  <2>1. PICK s : s = [m EXCEPT !.phase = "planning"]
    OBVIOUS
  <2>2. Change(t, s)
    BY <1>2, <2>1 DEF Enter
  <2>3. "planning" \in Phases
    BY DEF Phases
  <2>4. s \in States /\ s.plan = m.plan /\ m.done \subseteq s.done
    BY <1>0, <2>1, <2>3, PhaseOnly
  <2> QED BY <1>1, <2>2, <2>4, ChangeMoves
<1>3. CASE m.phase # "idle"
  BY <1>1, <1>3, NoChangeMoves DEF Enter
<1> QED BY <1>2, <1>3

LEMMA MarkedType ==
  ASSUME NEW a \in States, NEW marks \in SUBSET Steps
  PROVE  /\ Marked(a, marks) \in States
         /\ Marked(a, marks).plan = a.plan
         /\ a.done \subseteq Marked(a, marks).done
         /\ a.phase # "executing" => Marked(a, marks).phase = a.phase
<1>0. a.done \in SUBSET Steps /\ a.phase \in Phases
  BY SMT DEF States
<1>1. PICK d \in SUBSET Steps : d = a.done \cup marks
  <2>1. (a.done \cup marks) \in SUBSET Steps
    BY <1>0
  <2> QED BY <2>1
<1>2. PICK p \in Phases : p = IF a.phase = "executing" /\ d = Steps THEN "idle" ELSE a.phase
  BY <1>0 DEF Phases
<1>3. PICK c : c = [a EXCEPT !.done = d]
  OBVIOUS
<1>4. c \in States /\ c.plan = a.plan /\ c.phase = a.phase /\ c.done = d
  BY <1>3, StateEdits
<1>5. PICK e : e = [c EXCEPT !.phase = p]
  OBVIOUS
<1>6. e \in States /\ e.plan = c.plan /\ e.phase = p /\ e.done = c.done
  BY <1>4, <1>5, StateEdits
<1>7. Marked(a, marks) = [[a EXCEPT !.done = d] EXCEPT !.phase = p]
  BY <1>1, <1>2, <1>3, <1>4, SMT DEF Marked
<1> QED BY <1>1, <1>2, <1>3, <1>4, <1>5, <1>6, <1>7

LEMMA TrackKeeps ==
  ASSUME PlannerInv, NEW t \in Threads, Track(t)
  PROVE  PlannerInv'
<1> DEFINE m == mem[Window(t)]
<1>0. m \in States
  BY StagePlaces
<1>1. at[t] = "track" /\ UNCHANGED <<plan, file, seen, running, bounds, alone>>
  BY DEF Track
<1>2. PICK marks \in SUBSET Steps :
        LET new == IF m.plan = Gone \/ marks = {} THEN m ELSE Marked(m, marks)
        IN IF new = m THEN NoChange(t) ELSE Change(t, new)
  BY DEF Track
<1>3. NoChange(t) \/ Change(t, Marked(m, marks))
  BY <1>2
<1>4. CASE NoChange(t)
  BY <1>1, <1>4, NoChangeMoves
<1>5. CASE Change(t, Marked(m, marks))
  <2>1. PICK s : s = Marked(m, marks)
    OBVIOUS
  <2>2. s \in States /\ s.plan = m.plan /\ m.done \subseteq s.done
    BY <1>0, <2>1, MarkedType
  <2> QED BY <1>1, <1>5, <2>1, <2>2, ChangeMoves
<1> QED BY <1>3, <1>4, <1>5

LEMMA ApproveKeeps ==
  ASSUME PlannerInv, NEW t \in Threads, Approve(t)
  PROVE  PlannerInv'
<1>1. PICK s : s = [phase |-> "executing", plan |-> held[t].num, done |-> {}]
  OBVIOUS
<1>2. held[t].num \in Nat
  BY StagePlaces
<1>3. s \in States
  BY <1>1, <1>2, SMT DEF States, Phases
<1>4. at[t] = "approve" /\ Change(t, s)
      /\ UNCHANGED <<plan, file, seen, running, bounds, alone>>
  BY <1>1 DEF Approve
<1> QED BY <1>3, <1>4, ChangeMoves

LEMMA RefuseKeeps ==
  ASSUME PlannerInv, NEW t \in Threads, Refuse(t)
  PROVE  PlannerInv'
PROOF BY NoChangeMoves DEF Refuse

LEMMA StartKeeps ==
  ASSUME PlannerInv, NEW t \in Threads, Start(t)
  PROVE  PlannerInv'
<1>0. Window(t) \in Windows /\ TypeOK /\ ThreadOK(t)
  BY StagePlaces
<1>1. at[t] = "start" /\ running' = [running EXCEPT ![Window(t)] = TRUE] /\ Proceed(t)
      /\ UNCHANGED <<plan, file, mem, seen, held, acts, faults, apart, alone>>
  BY DEF Start, bounds, history
<1>2. /\ at' \in [Threads -> Stages] /\ todo' \in [Threads -> Seq(Queued)]
      /\ at'[t] \in Queued \cup {"free"} /\ StayBut(t)
  BY <1>0, <1>1, ProceedMoves
<1>3. running' \in [Windows -> BOOLEAN]
  BY <1>0, <1>1, SMT DEF TypeOK
<1>4. TypeOK'
  BY <1>0, <1>1, <1>2, <1>3 DEF TypeOK
<1>5. Nowhere /\ HeldBut(t) /\ at[t] \in Waiting /\ at'[t] \in Waiting /\ at'[t] # "approve"
  BY <1>1, <1>2 DEF Nowhere, HeldBut, Waiting, Queued
<1>6. alone'[t] => /\ Matches(Window(t)) /\ SeenFree(Window(t))
                   /\ apart[Window(t)] => Saving(Window(t))
  BY <1>0, <1>1 DEF ThreadOK, Trusted, Queued
<1> QED BY <1>1, <1>2, <1>4, <1>5, <1>6, OffLockKeeps

-----------------------------------------------------------------------------
(* What begins an operation, and what comes from outside.                  *)
LEMMA TrustMoves ==
  ASSUME TypeOK, NEW t \in Threads, NEW b \in BOOLEAN, Trust(t, b)
  PROVE  /\ alone' \in [Threads -> BOOLEAN]
         /\ alone'[t] => b /\ ~apart[Window(t)]
         /\ \A u \in Threads : u # t => alone'[u] = alone[u]
<1>1. (b /\ ~apart[Window(t)]) \in BOOLEAN
  OBVIOUS
<1>2. PICK c \in BOOLEAN : c = (b /\ ~apart[Window(t)])
  BY <1>1
<1>3. alone' = [alone EXCEPT ![t] = c]
  BY <1>2 DEF Trust
<1>4. alone \in [Threads -> BOOLEAN]
  BY DEF TypeOK
<1>5. alone' \in [Threads -> BOOLEAN] /\ alone'[t] = c
      /\ \A u \in Threads : u # t => alone'[u] = alone[u]
  BY <1>3, <1>4
<1> QED BY <1>2, <1>5

LEMMA BeginStages ==
  /\ \A s \in {<<"adopt">>, <<"adopt", "flip", "adopt">>, <<"adopt", "start">>,
                <<"adopt", "track">>} :
       s \in Seq(Queued \cup {"approve"}) /\ s # <<>> /\ Tail(s) \in Seq(Queued) /\ Head(s) = "adopt"
  /\ LET s == <<"approve">> IN
       s \in Seq(Queued \cup {"approve"}) /\ s # <<>> /\ Tail(s) \in Seq(Queued) /\ Head(s) = "approve"
<1> DEFINE Q == Queued \cup {"approve"}
<1>0. {"adopt", "flip", "start", "track"} \subseteq Queued /\ Queued \subseteq Q /\ "approve" \in Q
  BY DEF Queued
<1> HIDE DEF Q
<1>1. <<"adopt">> \in Seq(Q) /\ <<"adopt">> # <<>> /\ Tail(<<"adopt">>) = <<>> /\ Head(<<"adopt">>) = "adopt"
  BY <1>0, SMT
<1>2. <<"adopt", "flip", "adopt">> \in Seq(Q) /\ <<"adopt", "flip", "adopt">> # <<>>
      /\ Tail(<<"adopt", "flip", "adopt">>) = <<"flip", "adopt">> /\ Head(<<"adopt", "flip", "adopt">>) = "adopt"
  BY <1>0, SMT
<1>3. <<"adopt", "start">> \in Seq(Q) /\ <<"adopt", "start">> # <<>>
      /\ Tail(<<"adopt", "start">>) = <<"start">> /\ Head(<<"adopt", "start">>) = "adopt"
  BY <1>0, SMT
<1>4. <<"adopt", "track">> \in Seq(Q) /\ <<"adopt", "track">> # <<>>
      /\ Tail(<<"adopt", "track">>) = <<"track">> /\ Head(<<"adopt", "track">>) = "adopt"
  BY <1>0, SMT
<1>5. <<"approve">> \in Seq(Q) /\ <<"approve">> # <<>> /\ Tail(<<"approve">>) = <<>> /\ Head(<<"approve">>) = "approve"
  BY <1>0, SMT
<1>6. <<>> \in Seq(Queued) /\ <<"flip", "adopt">> \in Seq(Queued) /\ <<"start">> \in Seq(Queued)
      /\ <<"track">> \in Seq(Queued)
  BY <1>0, SMT
<1> QED BY <1>1, <1>2, <1>3, <1>4, <1>5, <1>6, Zenon DEF Q

\* An operation that begins by adopting, whoever trusts it.
LEMMA AdoptBegins ==
  ASSUME PlannerInv, NEW t \in Threads,
         NEW s \in {<<"adopt">>, <<"adopt", "flip", "adopt">>, <<"adopt", "start">>,
                    <<"adopt", "track">>},
         Begin(t, s), UNCHANGED <<plan, file, mem, seen, held, running, faults, apart>>,
         acts' \in Nat, UNCHANGED alone \/ Trust(t, TRUE)
  PROVE  PlannerInv'
<1>0. Window(t) \in Windows /\ TypeOK /\ ThreadOK(t)
  BY StagePlaces
<1>1. s \in Seq(Queued \cup {"approve"}) /\ s # <<>> /\ Tail(s) \in Seq(Queued) /\ Head(s) = "adopt"
  BY BeginStages
<1>2. /\ at' \in [Threads -> Stages] /\ todo' \in [Threads -> Seq(Queued)]
      /\ at[t] = "free" /\ at'[t] = "adopt" /\ StayBut(t)
  BY <1>0, <1>1, BeginMoves
<1>3. /\ alone' \in [Threads -> BOOLEAN]
      /\ alone'[t] => alone[t] \/ ~apart[Window(t)]
      /\ \A u \in Threads : u # t => alone'[u] = alone[u]
  BY <1>0, TrustMoves DEF TypeOK
<1>4. TypeOK'
  BY <1>0, <1>2, <1>3 DEF TypeOK
<1>5. Nowhere /\ HeldBut(t) /\ at[t] \in Waiting /\ at'[t] \in Waiting /\ at'[t] # "approve"
      /\ at'[t] = "adopt"
  BY <1>2 DEF Nowhere, HeldBut, Waiting, Queued
<1>6. alone'[t] => (apart[Window(t)] => Saving(Window(t)))
  BY <1>0, <1>3 DEF ThreadOK, Trusted
<1> QED BY <1>2, <1>3, <1>4, <1>5, <1>6, OffLockKeeps

LEMMA ActMoves ==
  ASSUME TypeOK, Act
  PROVE  acts' \in Nat
PROOF BY SMT DEF TypeOK, Act

LEMMA SubmitKeeps ==
  ASSUME PlannerInv, NEW w \in Windows, Submit(w)
  PROVE  PlannerInv'
<1> DEFINE t == AgentOf(w)
<1>t. t \in Threads /\ Window(t) = w
  BY WindowThreads
<1> HIDE DEF t
<1>0. TypeOK /\ ThreadOK(t)
  BY <1>t, StagePlaces
<1>1. Act /\ Begin(t, <<"approve">>) /\ Trust(t, FALSE) /\ Hold(t, Default, plan) /\ plan \in Nat
      /\ UNCHANGED <<plan, file, mem, seen, running, faults, apart>>
  BY <1>0 DEF Submit, TypeOK, t
<1>2. PICK s : s = <<"approve">>
  OBVIOUS
<1>3. s \in Seq(Queued \cup {"approve"}) /\ s # <<>> /\ Tail(s) \in Seq(Queued) /\ Head(s) = "approve"
  BY <1>2, BeginStages
<1>4. /\ at' \in [Threads -> Stages] /\ todo' \in [Threads -> Seq(Queued)]
      /\ at[t] = "free" /\ at'[t] = "approve" /\ StayBut(t)
  BY <1>t, <1>0, <1>1, <1>2, <1>3, BeginMoves
<1>5. alone' \in [Threads -> BOOLEAN] /\ ~alone'[t] /\ \A u \in Threads : u # t => alone'[u] = alone[u]
  BY <1>t, <1>0, <1>1, TrustMoves
<1>6. held' \in [Threads -> [state : States, num : Nat]] /\ HeldBut(t)
  BY <1>t, <1>0, <1>1, DefaultType, HoldMoves
<1>7. acts' \in Nat
  BY <1>0, <1>1, ActMoves
<1>8. TypeOK'
  BY <1>0, <1>1, <1>4, <1>5, <1>6, <1>7 DEF TypeOK
<1>9. Nowhere /\ at[t] \in Waiting /\ at'[t] \in Waiting
  BY <1>1, <1>4 DEF Nowhere, Waiting
<1> QED BY <1>t, <1>4, <1>5, <1>6, <1>8, <1>9, OffLockKeeps

\* Steps that touch nothing of the invariant.
LEMMA AsideKeeps ==
  ASSUME PlannerInv, TypeOK', UNCHANGED <<file, mem, seen, at, held, apart, alone>>
  PROVE  PlannerInv'
<1> SUFFICES ASSUME NEW w \in Windows PROVE WindowOK(w)'
  BY DEF PlannerInv
<1>1. TypeOK /\ WindowOK(w)
  BY DEF PlannerInv
<1>2. \A u \in ThreadsOf(w) : Quietly(u)
  BY DEF Quietly
<1> QED BY <1>1, <1>2, ElsewhereKeeps

LEMMA RunEndsKeeps ==
  ASSUME PlannerInv, NEW w \in Windows, RunEnds(w)
  PROVE  PlannerInv'
<1>1. TypeOK /\ running' = [running EXCEPT ![w] = FALSE]
      /\ UNCHANGED <<plan, file, mem, seen, at, todo, held, acts, faults, apart, alone>>
  BY DEF PlannerInv, RunEnds, bounds, history
<1>2. TypeOK'
  BY <1>1, SMT DEF TypeOK
<1> QED BY <1>1, <1>2, AsideKeeps

LEMMA EditPlanKeeps ==
  ASSUME PlannerInv, EditPlan
  PROVE  PlannerInv'
<1>1. TypeOK /\ Act /\ plan' \in {Gone} \cup (IF plan < MaxPlans THEN {plan + 1} ELSE {})
      /\ UNCHANGED <<file, mem, seen, at, todo, held, running, faults, apart, alone>>
  BY DEF PlannerInv, EditPlan, history
<1>2. plan' = Gone \/ plan' = plan + 1
  BY <1>1
<1>3. plan' \in Nat
  BY <1>1, <1>2, SMT DEF TypeOK, Gone
<1>4. acts' \in Nat
  BY <1>1, ActMoves
<1>5. TypeOK'
  BY <1>1, <1>3, <1>4 DEF TypeOK
<1> QED BY <1>1, <1>5, AsideKeeps

LEMMA RestartStages ==
  ASSUME NEW next \in {<<"adopt">>, <<"enter", "adopt">>}
  PROVE  next \in Seq(Queued) /\ Head(next) \in Queued /\ Tail(next) \in Seq(Queued)
<1>1. {"adopt", "enter"} \subseteq Queued
  BY DEF Queued
<1>2. <<"adopt">> \in Seq(Queued) /\ <<"adopt">> # <<>>
  BY <1>1, SMT
<1>3. <<"enter", "adopt">> \in Seq(Queued) /\ <<"enter", "adopt">> # <<>>
  BY <1>1, SMT
<1>4. next \in Seq(Queued) /\ next # <<>>
  BY <1>2, <1>3
<1> QED BY <1>4, SeqParts

LEMMA RestartKeeps ==
  ASSUME PlannerInv, NEW w \in Windows, Restart(w)
  PROVE  PlannerInv'
<1> DEFINE ui == Ui(w)
           ag == AgentOf(w)
<1>t. /\ ui \in Threads /\ Window(ui) = w /\ ag \in Threads /\ Window(ag) = w /\ ui # ag
      /\ \A t \in ThreadsOf(w) : t \in Threads /\ (t = ui \/ t = ag)
  BY WindowThreads DEF ThreadsOf
<1> HIDE DEF ui, ag
<1>0. TypeOK /\ WindowOK(w) /\ file.state \in States /\ file.id \in Nat
  BY SMT DEF PlannerInv, TypeOK
<1>1. PICK next \in {<<"adopt">>, <<"enter", "adopt">>} :
        /\ at' = [at EXCEPT ![ag] = "free",
                            ![ui] = IF NeedsPlan(file.state) THEN "reread" ELSE Head(next)]
        /\ todo' = [todo EXCEPT ![ag] = <<>>,
                                ![ui] = IF NeedsPlan(file.state) THEN next ELSE Tail(next)]
  BY DEF Restart, ui, ag
<1>2. /\ mem' = [mem EXCEPT ![w] = file.state] /\ seen' = [seen EXCEPT ![w] = file.id]
      /\ running' = [running EXCEPT ![w] = FALSE] /\ apart' = [apart EXCEPT ![w] = FALSE]
      /\ held' = [held EXCEPT ![ui] = Nothing, ![ag] = Nothing]
      /\ alone' = [alone EXCEPT ![ui] = FALSE, ![ag] = FALSE]
      /\ UNCHANGED <<plan, file, faults>> /\ Act
  BY DEF Restart, ui, ag
<1>3. PICK p \in Stages : /\ p = IF NeedsPlan(file.state) THEN "reread" ELSE Head(next)
                          /\ p \in Queued \cup {"reread"}
                          /\ p = "reread" => NeedsPlan(file.state)
  <2>1. Head(next) \in Queued /\ "reread" \notin Queued
    BY RestartStages DEF Queued
  <2>2. Queued \cup {"reread"} \subseteq Stages
    BY DEF Stages
  <2> QED BY <2>1, <2>2
<1>4. PICK r \in Seq(Queued) : r = IF NeedsPlan(file.state) THEN next ELSE Tail(next)
  BY RestartStages
<1>5. <<>> \in Seq(Queued) /\ "free" \in Stages
  BY SMT DEF Stages
<1>6. at' = [at EXCEPT ![ag] = "free", ![ui] = p] /\ todo' = [todo EXCEPT ![ag] = <<>>, ![ui] = r]
  BY <1>1, <1>3, <1>4
<1>7. /\ at' \in [Threads -> Stages] /\ at'[ag] = "free" /\ at'[ui] = p
      /\ \A u \in Threads : u # ui /\ u # ag => at'[u] = at[u]
  <2>1. at \in [Threads -> Stages]
    BY <1>0 DEF TypeOK
  <2> QED BY <2>1, <1>t, <1>5, <1>6, SMT
<1>8. todo' \in [Threads -> Seq(Queued)]
  <2>1. todo \in [Threads -> Seq(Queued)]
    BY <1>0 DEF TypeOK
  <2> QED BY <2>1, <1>t, <1>5, <1>6
<1>9. /\ held' \in [Threads -> [state : States, num : Nat]]
      /\ \A u \in Threads : u # ui /\ u # ag => held'[u] = held[u]
  <2>1. held \in [Threads -> [state : States, num : Nat]]
    BY <1>0 DEF TypeOK
  <2> QED BY <2>1, <1>t, <1>2, DefaultType
<1>10. /\ alone' \in [Threads -> BOOLEAN] /\ ~alone'[ui] /\ ~alone'[ag]
       /\ \A u \in Threads : u # ui /\ u # ag => alone'[u] = alone[u]
  <2>1. alone \in [Threads -> BOOLEAN]
    BY <1>0 DEF TypeOK
  <2> QED BY <2>1, <1>t, <1>2
<1>11. /\ mem' \in [Windows -> States] /\ mem'[w] = file.state
       /\ seen' \in [Windows -> Nat] /\ seen'[w] = file.id
       /\ apart' \in [Windows -> BOOLEAN] /\ ~apart'[w] /\ running' \in [Windows -> BOOLEAN]
       /\ \A v \in Windows : v # w => mem'[v] = mem[v] /\ seen'[v] = seen[v] /\ apart'[v] = apart[v]
  BY <1>0, <1>2, SMT DEF TypeOK
<1>12. acts' \in Nat
  BY <1>0, <1>2, ActMoves
<1>13. TypeOK'
  BY <1>0, <1>2, <1>7, <1>8, <1>9, <1>10, <1>11, <1>12 DEF TypeOK
<1>14. ASSUME NEW v \in Windows, v # w PROVE WindowOK(v)'
  <2>1. \A u \in ThreadsOf(v) : u \in Threads /\ u # ui /\ u # ag
    BY <1>14, <1>t DEF ThreadsOf
  <2>2. (\A u \in ThreadsOf(v) : Quietly(u)) /\ \A u \in ThreadsOf(v) : alone'[u] => alone[u]
    BY <2>1, <1>7, <1>9, <1>10 DEF Quietly
  <2>3. WindowOK(v)
    BY DEF PlannerInv
  <2> QED BY <2>2, <2>3, <1>0, <1>2, <1>11, <1>13, <1>14, ElsewhereKeeps
<1>15. WindowOK(w)'
  <2>1. at'[ui] \notin {"put", "refill", "save", "saved"} /\ ~HasSeen(ag)'
    BY <1>3, <1>7 DEF Queued, HasSeen
  <2>2. LockOf(w)'
    BY <2>1, <1>t DEF LockOf
  <2>3. (seen[w] <= file.id)'
    BY <1>0, <1>2, <1>11, SMT
  <2>4. ThreadOK(ag)'
    BY <1>7, <1>10 DEF ThreadOK, Carries, OnTheWay
  <2>5. Carries(ui)'
    BY <2>1 DEF Carries
  <2>6. OnTheWay(ui)'
    BY <2>1, <1>2, <1>3, <1>7, <1>11, <1>t DEF OnTheWay
  <2>7. ThreadOK(ui)'
    BY <2>5, <2>6, <1>10 DEF ThreadOK
  <2>8. Agrees(mem[w], file.state)'
    BY <1>2, <1>11 DEF Agrees
  <2>9. \A u \in ThreadsOf(w) : ThreadOK(u)'
    BY <2>4, <2>7, <1>t
  <2> QED BY <2>2, <2>3, <2>8, <2>9 DEF WindowOK
<1> QED BY <1>13, <1>14, <1>15 DEF PlannerInv

-----------------------------------------------------------------------------
LEMMA PlannerInit == Init => PlannerInv
<1> SUFFICES ASSUME Init PROVE PlannerInv
  OBVIOUS
<1>1. file \in [state : States, id : Nat, twin : BOOLEAN]
  <2>1. [phase |-> "executing", plan |-> 1, done |-> {}] \in States
    BY SMT DEF States, Phases
  <2>2. PICK s \in States, n \in Nat : file = [state |-> s, id |-> n, twin |-> FALSE]
    BY <2>1, DefaultType DEF Init, Left
  <2> QED BY <2>2, SMT
<1>2. file.state \in States /\ file.id \in Nat
  BY <1>1
<1>3. <<>> \in Seq(Queued) /\ "free" \in Stages
  BY SMT DEF Stages
<1>4. /\ plan \in Nat /\ acts \in Nat /\ faults \in Nat
      /\ mem \in [Windows -> States] /\ seen \in [Windows -> Nat]
      /\ at \in [Threads -> Stages] /\ todo \in [Threads -> Seq(Queued)]
      /\ held \in [Threads -> [state : States, num : Nat]]
      /\ running \in [Windows -> BOOLEAN]
      /\ apart \in [Windows -> BOOLEAN] /\ alone \in [Threads -> BOOLEAN]
  BY <1>2, <1>3, DefaultType, SMT DEF Init
<1>5. TypeOK
  BY <1>1, <1>4 DEF TypeOK
<1>6. ASSUME NEW w \in Windows PROVE WindowOK(w)
  <2>1. /\ mem[w] = file.state /\ seen[w] = file.id
        /\ \A t \in ThreadsOf(w) : at[t] = "free" /\ ~alone[t]
    BY <1>6 DEF Init, ThreadsOf
  <2>2. LockOf(w)
    BY <2>1 DEF LockOf, HasSeen
  <2>3. seen[w] <= file.id
    BY <2>1, <1>2, SMT
  <2>4. ASSUME NEW t \in ThreadsOf(w) PROVE ThreadOK(t)
    BY <2>1 DEF ThreadOK, Carries, OnTheWay
  <2>5. Agrees(mem[w], file.state)
    BY <2>1 DEF Agrees
  <2> QED BY <2>2, <2>3, <2>4, <2>5 DEF WindowOK
<1> QED BY <1>5, <1>6 DEF PlannerInv

LEMMA ThreadStepKeeps ==
  ASSUME PlannerInv, NEW t \in Threads, Step(t)
  PROVE  PlannerInv'
PROOF BY AdoptLoadKeeps, AdoptPutKeeps, RereadKeeps, RefillKeeps, SaveKeeps, SaveSeenKeeps,
         SaveFailsKeeps, FlipKeeps, StartKeeps, ApproveKeeps, RefuseKeeps, TrackKeeps, EnterKeeps
      DEF Step

LEMMA InterfaceKeeps ==
  ASSUME PlannerInv, NEW w \in Windows, Sync(w) \/ Toggle(w) \/ Prompt(w) \/ TurnEnd(w)
  PROVE  PlannerInv'
<1>0. TypeOK /\ acts \in Nat /\ Ui(w) \in Threads /\ AgentOf(w) \in Threads
  BY WindowThreads DEF PlannerInv, TypeOK
<1>1. CASE Sync(w)
  <2>1. PICK s \in {<<"adopt">>, <<"adopt", "flip", "adopt">>, <<"adopt", "start">>,
                    <<"adopt", "track">>} : s = <<"adopt">>
    OBVIOUS
  <2>2. Begin(Ui(w), s) /\ UNCHANGED <<plan, file, mem, seen, held, running, faults, apart>>
        /\ acts' = acts /\ UNCHANGED alone
    BY <1>1, <2>1 DEF Sync, bounds, history
  <2> QED BY <1>0, <2>2, AdoptBegins
<1>2. CASE Toggle(w)
  <2>1. PICK s \in {<<"adopt">>, <<"adopt", "flip", "adopt">>, <<"adopt", "start">>,
                    <<"adopt", "track">>} : s = <<"adopt", "flip", "adopt">>
    OBVIOUS
  <2>2. Begin(Ui(w), s) /\ UNCHANGED <<plan, file, mem, seen, held, running, faults, apart>>
        /\ Act /\ Trust(Ui(w), TRUE)
    BY <1>2, <2>1 DEF Toggle
  <2> QED BY <1>0, <2>2, ActMoves, AdoptBegins
<1>3. CASE Prompt(w)
  <2>1. PICK s \in {<<"adopt">>, <<"adopt", "flip", "adopt">>, <<"adopt", "start">>,
                    <<"adopt", "track">>} : s = <<"adopt", "start">>
    OBVIOUS
  <2>2. Begin(Ui(w), s) /\ UNCHANGED <<plan, file, mem, seen, held, running, faults, apart>>
        /\ acts' = acts /\ UNCHANGED alone
    BY <1>3, <2>1 DEF Prompt, bounds, history
  <2> QED BY <1>0, <2>2, AdoptBegins
<1>4. CASE TurnEnd(w)
  <2>1. PICK s \in {<<"adopt">>, <<"adopt", "flip", "adopt">>, <<"adopt", "start">>,
                    <<"adopt", "track">>} : s = <<"adopt", "track">>
    OBVIOUS
  <2>2. Begin(AgentOf(w), s) /\ UNCHANGED <<plan, file, mem, seen, held, running, faults, apart>>
        /\ Act /\ Trust(AgentOf(w), TRUE)
    BY <1>4, <2>1 DEF TurnEnd, TurnEndStages
  <2> QED BY <1>0, <2>2, ActMoves, AdoptBegins
<1> QED BY <1>1, <1>2, <1>3, <1>4

LEMMA PlannerStep == PlannerInv /\ [Next]_vars => PlannerInv'
<1> SUFFICES ASSUME PlannerInv, [Next]_vars PROVE PlannerInv'
  OBVIOUS
<1>1. CASE \E t \in Threads : Step(t)
  BY <1>1, ThreadStepKeeps
<1>2. ASSUME NEW w \in Windows,
             \/ Sync(w) \/ Toggle(w) \/ Prompt(w)
             \/ Submit(w) \/ TurnEnd(w) \/ RunEnds(w) \/ Restart(w)
      PROVE  PlannerInv'
  BY <1>2, InterfaceKeeps, SubmitKeeps, RunEndsKeeps, RestartKeeps
<1>3. CASE EditPlan
  BY <1>3, EditPlanKeeps
<1>4. CASE UNCHANGED vars
  <2>1. TypeOK /\ UNCHANGED <<plan, file, mem, seen, at, todo, held, running, acts, faults, apart, alone>>
    BY <1>4 DEF PlannerInv, vars
  <2>2. TypeOK'
    BY <2>1 DEF TypeOK
  <2> QED BY <2>1, <2>2, AsideKeeps
<1> QED BY <1>1, <1>2, <1>3, <1>4 DEF Next

LEMMA PlannerInvShared == PlannerInv => SharedStateKnown
PROOF BY DEF PlannerInv, WindowOK, SharedStateKnown

(* In every window that has nothing under way, knows the file's latest     *)
(* version and had no failed save and no crossing changes, memory agrees   *)
(* with the file (Persistence of planner_runtime.rs): for any number of    *)
(* windows, steps, plans, operations and failures.                         *)
THEOREM SharedStateAlwaysKnown == Spec => []SharedStateKnown
<1>1. Spec => []PlannerInv
  BY PlannerInit, PlannerStep, PTL DEF Spec
<1> QED BY <1>1, PlannerInvShared, PTL

-----------------------------------------------------------------------------
(* Who replaces the file and who changes a memory.                         *)
Renames(u) == \E id \in {file.id, file.id + 1} : Rename(u, id)

LEMMA FileChanges ==
  ASSUME [Next]_vars, file' # file
  PROVE  \E u \in Threads : at[u] = "save" /\ Renames(u) /\ (Save(u) \/ SaveFails(u))
<1>1. CASE \E u \in Threads : Step(u)
  <2>1. PICK u \in Threads : Step(u)
    BY <1>1
  <2>2. Save(u) \/ SaveFails(u)
    BY <2>1 DEF Step, AdoptLoad, AdoptPut, Reread, Refill, SaveSeen, Flip, Start, Approve,
                Refuse, Track, Enter
  <2> QED BY <2>2 DEF Save, SaveFails, Renames
<1>2. ASSUME NEW w \in Windows,
             \/ Sync(w) \/ Toggle(w) \/ Prompt(w)
             \/ Submit(w) \/ TurnEnd(w) \/ RunEnds(w) \/ Restart(w)
      PROVE  FALSE
  BY <1>2 DEF Sync, Toggle, Prompt, Submit, TurnEnd, RunEnds, Restart
<1>3. ~EditPlan /\ ~UNCHANGED vars
  BY DEF EditPlan, vars
<1> QED BY <1>1, <1>2, <1>3 DEF Next

LEMMA SavesMove ==
  ASSUME PlannerInv, NEW u \in Threads, Save(u) \/ SaveFails(u)
  PROVE  StayBut(u)
<1>0. TypeOK
  BY DEF PlannerInv
<1>1. CASE Save(u)
  <2>1. GoOn(u, "saved") /\ "saved" \in Stages
    BY <1>1 DEF Save, Stages
  <2> QED BY <1>0, <2>1, GoOnMoves
<1>2. CASE SaveFails(u)
  BY <1>0, <1>2, FinishMoves DEF SaveFails
<1> QED BY <1>1, <1>2

LEMMA MarksStep ==
  ASSUME PlannerInv, [Next]_vars, NEW t \in Threads,
         at[t] = "save", at'[t] # "save", alone[t], ~apart[Window(t)], ~file.twin,
         file' # file, file'.state.plan = file.state.plan
  PROVE  file.state.done \subseteq file'.state.done
<1>1. PICK u \in Threads : at[u] = "save" /\ Renames(u) /\ (Save(u) \/ SaveFails(u))
  BY FileChanges
<1>2. u = t
  BY <1>1, SavesMove DEF StayBut
<1>3. file'.state = held[t].state
  BY <1>1, <1>2, StagePlaces, RenameMoves DEF Renames
<1>4. Kept(file.state, held[t].state)
  BY StagePlaces DEF ThreadOK, Trusted
<1> QED BY <1>3, <1>4 DEF Kept

(* No toggle and no end of a turn takes a completion mark out of the file  *)
(* while nobody else saved and nobody in the window changed the state      *)
(* across it (planner_subscription), for any number of windows and steps.  *)
THEOREM MarksAreKept == Spec => MarksKept
<1>1. Spec => []PlannerInv
  BY PlannerInit, PlannerStep, PTL DEF Spec
<1>2. PlannerInv /\ [Next]_vars =>
        [\A t \in Threads :
           /\ at[t] = "save" /\ at'[t] # "save" /\ alone[t] /\ ~apart[Window(t)] /\ ~file.twin
           /\ file' # file /\ file'.state.plan = file.state.plan
           => file.state.done \subseteq file'.state.done]_vars
  BY MarksStep
<1> QED BY <1>1, <1>2, PTL DEF Spec, MarksKept

LEMMA MemChanges ==
  ASSUME PlannerInv, [Next]_vars, NEW w \in Windows, mem'[w] # mem[w]
  PROVE  \/ Restart(w)
         \/ \E t \in Threads : Window(t) = w /\ Step(t)
<1>0. mem \in [Windows -> States]
  BY DEF PlannerInv, TypeOK
<1>1. ASSUME NEW t \in Threads, Step(t), Window(t) # w PROVE FALSE
  <2>0. Window(t) \in Windows
    BY ThreadTypes
  <2>1. mem' = mem \/ \E s : SetMem(t, s)
    BY <1>1 DEF Step, AdoptLoad, AdoptPut, Reread, Refill, Save, SaveSeen, SaveFails, Flip, Start,
                Approve, Refuse, Track, Enter, Change, NoChange
  <2>2. PICK s : mem' = mem \/ mem' = [mem EXCEPT ![Window(t)] = s]
    BY <2>1 DEF SetMem
  <2> QED BY <1>0, <1>1, <2>0, <2>2
<1>2. ASSUME NEW v \in Windows,
             \/ Sync(v) \/ Toggle(v) \/ Prompt(v)
             \/ Submit(v) \/ TurnEnd(v) \/ RunEnds(v) \/ (Restart(v) /\ v # w)
      PROVE  FALSE
  <2>1. mem' = mem \/ (mem' = [mem EXCEPT ![v] = file.state] /\ v # w)
    BY <1>2 DEF Sync, Toggle, Prompt, Submit, TurnEnd, RunEnds, Restart
  <2> QED BY <1>0, <2>1
<1>3. ~EditPlan /\ ~UNCHANGED vars
  BY DEF EditPlan, vars
<1> QED BY <1>1, <1>2, <1>3 DEF Next

LEMMA ApprovalStep ==
  ASSUME PlannerInv, [Next]_vars, NEW w \in Windows, UpToDate(w),
         mem'[w].phase = "executing", mem[w].phase # "executing", mem'[w] # file.state
  PROVE  file.state.phase = "planning"
<1>0. TypeOK /\ WindowOK(w) /\ mem \in [Windows -> States] /\ mem[w] \in States /\ mem[w].phase \in Phases
  BY SMT DEF PlannerInv, TypeOK, States
<1>1. mem'[w] # mem[w]
  OBVIOUS
<1>2. ~Restart(w)
  BY <1>0 DEF Restart
<1>3. PICK t \in Threads : Window(t) = w /\ Step(t)
  BY <1>1, <1>2, MemChanges
<1>4. ~HasSeen(t) /\ ~Midway(t)
  BY <1>3, ThreadTypes DEF UpToDate, Quiet
<1>5. ~Flip(t)
  <2> SUFFICES ASSUME Flip(t) PROVE FALSE
    OBVIOUS
  <2>1. PICK p \in Phases : p = (IF mem[w].phase = "idle" THEN "planning" ELSE "idle")
    BY DEF Phases
  <2>2. PICK s : s = [mem[w] EXCEPT !.phase = p]
    OBVIOUS
  <2>3. mem' = [mem EXCEPT ![w] = s]
    BY <1>0, <1>3, <2>1, <2>2 DEF Flip, Change, SetMem
  <2>4. s.phase = p
    BY <1>0, <2>2, StateEdits
  <2>5. mem'[w] = s
    BY <1>0, <2>3
  <2> QED BY <2>1, <2>4, <2>5
<1>6. ~Enter(t)
  <2> SUFFICES ASSUME Enter(t) PROVE FALSE
    OBVIOUS
  <2>1. PICK p \in Phases : p = "planning"
    BY DEF Phases
  <2>2. PICK s : s = [mem[w] EXCEPT !.phase = p]
    OBVIOUS
  <2>3. mem' = mem \/ mem' = [mem EXCEPT ![w] = s]
    BY <1>3, <2>1, <2>2 DEF Enter, Change, NoChange, SetMem
  <2>4. s.phase = p
    BY <1>0, <2>2, StateEdits
  <2> QED BY <1>0, <1>1, <2>1, <2>3, <2>4
<1>7. ~Track(t)
  <2> SUFFICES ASSUME Track(t) PROVE FALSE
    OBVIOUS
  <2>1. PICK marks \in SUBSET Steps : mem' = mem \/ SetMem(t, Marked(mem[w], marks))
    BY <1>3 DEF Track, Change, NoChange
  <2>2. PICK s : s = Marked(mem[w], marks)
    OBVIOUS
  <2>3. mem' = mem \/ mem' = [mem EXCEPT ![w] = s]
    BY <1>3, <2>1, <2>2 DEF SetMem
  <2>4. s.phase = mem[w].phase
    BY <1>0, <2>2, MarkedType
  <2> QED BY <1>0, <1>1, <2>3, <2>4
<1>8. Approve(t)
  BY <1>1, <1>3, <1>4, <1>5, <1>6, <1>7
     DEF Step, AdoptLoad, AdoptPut, Reread, Refill, Save, SaveSeen, SaveFails, Start, Refuse,
         NoChange, HasSeen, Midway
<1>9. mem[w].phase = "planning"
  BY <1>3, <1>8 DEF Approve, StillPlanning
<1>10. Agrees(mem[w], file.state)
  BY <1>0 DEF WindowOK
<1>11. Default.phase = "idle"
  BY DEF Default
<1> QED BY <1>9, <1>10, <1>11 DEF Agrees

(* A window that is up to date starts execution by an approval only while  *)
(* the shared state says planning (submit), however long the review took   *)
(* and whoever toggled meanwhile, for any number of windows.               *)
THEOREM ApprovalAlwaysRespectsToggle == Spec => ApprovalRespectsToggle
<1>1. Spec => []PlannerInv
  BY PlannerInit, PlannerStep, PTL DEF Spec
<1>2. PlannerInv /\ [Next]_vars =>
        [\A w \in Windows :
           /\ UpToDate(w)
           /\ mem'[w].phase = "executing" /\ mem[w].phase # "executing" /\ mem'[w] # file.state
           => file.state.phase = "planning"]_vars
  BY ApprovalStep
<1> QED BY <1>1, <1>2, PTL DEF Spec, ApprovalRespectsToggle

-----------------------------------------------------------------------------
(***************************************************************************)
(* Ralph loops for any sessions, loops, limit and bounds: a loop that was  *)
(* started is kept, a record changes by the steps of its life, and no      *)
(* iteration is skipped or handed out twice.                               *)
(*                                                                         *)
(* RalphInv says of every operation what its kind and its stages left may  *)
(* be, and what the files still hold of what it read, unless another wrote *)
(* its loop (stale); and of every loop where its record and task are.      *)
(* StepInv adds where its prompts are: which iterations were handed out,   *)
(* and which one an operation holds back until its record is written.  A   *)
(* step that writes no record keeps StepInv by CalmKeeps, the one that     *)
(* does by SaveKeepsActors and SaveKeepsLoops.                             *)
(***************************************************************************)

Statuses == {"none", "active", "paused", "completed"}
Recs == [status : Statuses, it : Nat, owner : Sessions \cup {Nobody}, run : Nat]
Prompts == [loop : Loops, run : Nat, it : Nat]

Kinds == {"none", "start", "resume", "complete", "advance", "pause", "archive", "delete"}
OpStages == {"text", "save", "sync", "prompt", "fetch", "keep_text", "keep", "drop", "drop_text"}
Places == OpStages \cup Resting \cup {"dead"}
Ops == [kind : Kinds, loop : Loops \cup {NoLoop}, rec : Recs, text : Nat,
        rest : Seq(OpStages), back : Resting, stale : BOOLEAN]

FileTypes ==
  /\ live \in [Loops -> Recs] /\ arch \in [Loops -> Recs]
  /\ task \in [Loops -> Nat] /\ archTask \in [Loops -> Nat]
  /\ promised \in [Loops -> Nat]

AgentTypes ==
  /\ current \in [Sessions -> Loops \cup {NoLoop}]
  /\ queue \in [Sessions -> Seq(Prompts)]
  /\ worked \subseteq Prompts /\ lost \subseteq Prompts

LoopsTypeOK ==
  /\ FileTypes /\ AgentTypes
  /\ pc \in [Sessions -> Places]
  /\ op \in [Sessions -> Ops]
  /\ crossed \in [Loops -> BOOLEAN]
  /\ moves \in Nat /\ breaks \in Nat

\* What an operation is, by the stage it is at, and the stages it has left.
ShapeOf(o, p) ==
  /\ p \notin OpStages => o = NoOp
  /\ p \in OpStages => o.loop \in Loops
  /\ p = "text" => /\ o.kind = "start"
                   /\ o.back = "idle" => o.rest = <<"save", "sync", "prompt">>
                   /\ o.back # "idle" => o.rest = <<"save", "prompt">>
  /\ p = "save" => \/ o.kind = "start" /\ o.back = "idle" /\ o.rest = <<"sync", "prompt">>
                   \/ o.kind = "start" /\ o.back # "idle" /\ o.rest = <<"prompt">>
                   \/ o.kind = "resume" /\ o.back = "idle" /\ o.rest = <<"sync">>
                   \/ o.kind = "complete" /\ o.back = "idle" /\ o.rest = <<"sync">>
                   \/ o.kind = "complete" /\ o.back # "idle" /\ o.rest = <<>>
                   \/ o.kind = "advance" /\ o.back = "call" /\ o.rest = <<"prompt">>
                   \/ o.kind = "pause" /\ o.rest = <<>>
  /\ p = "sync" => \/ o.kind = "start" /\ o.back = "idle" /\ o.rest = <<"prompt">>
                   \/ o.kind \in {"resume", "complete", "archive", "delete"} /\ o.rest = <<>>
  /\ p = "prompt" => o.kind \in {"start", "advance"} /\ o.rest = <<>>
  /\ p = "fetch" => o.kind = "archive" /\ o.rest = <<"keep_text", "keep", "drop", "drop_text", "sync">>
  /\ p = "keep_text" => o.kind = "archive" /\ o.rest = <<"keep", "drop", "drop_text", "sync">>
  /\ p = "keep" => o.kind = "archive" /\ o.rest = <<"drop", "drop_text", "sync">>
  /\ p = "drop" => o.kind \in {"archive", "delete"} /\ o.rest = <<"drop_text", "sync">>
  /\ p = "drop_text" => o.kind \in {"archive", "delete"} /\ o.rest = <<"sync">>

\* A record that may be advanced has an iteration left.
HasIteration(rec) == rec.status \in {"active", "paused"} /\ Limit > 0 => rec.it <= Limit

\* What an operation is about to write instead of old.
Due(kind, old, new) ==
  \/ /\ kind = "start" /\ old.status \in {"none", "completed"}
     /\ new.run > old.run /\ new.status = "active" /\ new.it = 1
  \/ /\ kind = "resume" /\ old.status \in {"active", "paused"}
     /\ new = [old EXCEPT !.status = "active", !.owner = new.owner]
  \/ /\ kind = "complete" /\ old.status # "none"
     /\ new = [old EXCEPT !.status = "completed"]
  \/ /\ kind = "complete" /\ old.status = "active" /\ Limit > 0 /\ old.it = Limit
     /\ new = [old EXCEPT !.it = @ + 1, !.status = "completed"]
  \/ /\ kind = "advance" /\ old.status = "active" /\ (Limit = 0 \/ old.it < Limit)
     /\ new = [old EXCEPT !.it = @ + 1]
  \/ /\ kind = "pause" /\ old.status = "active"
     /\ new = [old EXCEPT !.status = "paused"]

\* What the files are to an operation whose loop nobody else has written.
Fresh(a) ==
  LET n == op[a].loop
      o == op[a]
  IN /\ pc[a] \in {"text", "save"} => Due(o.kind, live[n], o.rec)
     /\ pc[a] = "save" /\ o.kind = "start" => task[n] = o.rec.run
     /\ pc[a] = "prompt" \/ (pc[a] = "sync" /\ o.kind = "start") => live[n] = o.rec
     /\ pc[a] \in {"fetch", "keep_text", "keep", "drop"} => live[n] = o.rec /\ o.rec.status # "none"
     /\ pc[a] \in {"keep_text", "keep", "drop"} /\ o.kind = "archive" => task[n] = o.text
     /\ pc[a] \in {"keep", "drop", "drop_text"} /\ o.kind = "archive" => archTask[n] = o.text
     /\ pc[a] \in {"drop", "drop_text"} /\ o.kind = "archive" => arch[n] = o.rec
     /\ pc[a] = "drop_text" => live[n] = Absent
     /\ pc[a] = "drop_text" /\ o.kind = "delete" => promised[n] = 0

OpOK(a) ==
  /\ ShapeOf(op[a], pc[a])
  /\ HasIteration(op[a].rec) /\ op[a].rec.run <= moves + 1
  /\ op[a].kind \in {"start", "advance"} => op[a].rec.status = "active"
  /\ pc[a] \in OpStages /\ ~op[a].stale => Fresh(a)

LoopOK(n) ==
  /\ HasIteration(live[n]) /\ live[n].run <= moves + 1
  /\ promised[n] # 0 /\ ~crossed[n] =>
       /\ live[n].status # "none" => Whole(live[n], task[n], promised[n])
       /\ live[n].status = "none" => Whole(arch[n], archTask[n], promised[n])

RalphInv == LoopsTypeOK /\ (\A a \in Sessions : OpOK(a)) /\ (\A n \in Loops : LoopOK(n))

-----------------------------------------------------------------------------
(* The lists of stages.                                                    *)
LEMMA PairUp ==
  ASSUME NEW a, NEW b
  PROVE  <<a>> \o <<b>> = <<a, b>>
<1> DEFINE S == {a, b}
           u == <<a>>
           v == <<b>>
           t == <<a, b>>
<1>0. u \in Seq(S) /\ v \in Seq(S) /\ t \in Seq(S) /\ Len(u) = 1 /\ Len(v) = 1 /\ Len(t) = 2
  BY SMT
<1>1. u[1] = a /\ v[1] = b
  BY SMT
<1>2. t[1] = a /\ t[2] = b
  BY SMT
<1> HIDE DEF u, v, t, S
<1>3. /\ u \o v \in Seq(S) /\ Len(u \o v) = 2
      /\ \A i \in 1 .. 2 : (u \o v)[i] = IF i <= 1 THEN u[i] ELSE v[i - 1]
  <2>1. /\ u \o v \in Seq(S) /\ Len(u \o v) = Len(u) + Len(v)
        /\ \A i \in 1 .. Len(u) + Len(v) : (u \o v)[i] = IF i <= Len(u) THEN u[i] ELSE v[i - Len(u)]
    BY <1>0, ConcatProperties
  <2> QED BY <2>1, <1>0, SMT
<1>4. (u \o v)[1] = t[1]
  BY <1>1, <1>2, <1>3, SMT
<1>5. (u \o v)[2] = t[2]
  BY <1>1, <1>2, <1>3, SMT
<1>6. \A i \in 1 .. Len(u \o v) : (u \o v)[i] = t[i]
  <2>1. \A i \in 1 .. 2 : i = 1 \/ i = 2
    BY SMT
  <2> QED BY <2>1, <1>3, <1>4, <1>5
<1>7. u \o v = t
  BY <1>0, <1>3, <1>6, SeqEqual
<1> QED BY <1>7 DEF u, v, t

LEMMA TripleUp ==
  ASSUME NEW a, NEW b, NEW c
  PROVE  <<a, b>> \o <<c>> = <<a, b, c>>
<1> DEFINE S == {a, b, c}
           u == <<a, b>>
           v == <<c>>
           t == <<a, b, c>>
<1>0. u \in Seq(S) /\ v \in Seq(S) /\ t \in Seq(S) /\ Len(u) = 2 /\ Len(v) = 1 /\ Len(t) = 3
  BY SMT
<1>1. u[1] = a /\ u[2] = b /\ v[1] = c
  BY SMT
<1>2. t[1] = a /\ t[2] = b /\ t[3] = c
  BY SMT
<1> HIDE DEF u, v, t, S
<1>3. /\ u \o v \in Seq(S) /\ Len(u \o v) = 3
      /\ \A i \in 1 .. 3 : (u \o v)[i] = IF i <= 2 THEN u[i] ELSE v[i - 2]
  <2>1. /\ u \o v \in Seq(S) /\ Len(u \o v) = Len(u) + Len(v)
        /\ \A i \in 1 .. Len(u) + Len(v) : (u \o v)[i] = IF i <= Len(u) THEN u[i] ELSE v[i - Len(u)]
    BY <1>0, ConcatProperties
  <2> QED BY <2>1, <1>0, SMT
<1>4. (u \o v)[1] = t[1]
  BY <1>1, <1>2, <1>3, SMT
<1>5. (u \o v)[2] = t[2]
  BY <1>1, <1>2, <1>3, SMT
<1>6. (u \o v)[3] = t[3]
  BY <1>1, <1>2, <1>3, SMT
<1>7. \A i \in 1 .. Len(u \o v) : (u \o v)[i] = t[i]
  <2>1. \A i \in 1 .. 3 : i = 1 \/ i = 2 \/ i = 3
    BY SMT
  <2> QED BY <2>1, <1>3, <1>4, <1>5, <1>6
<1>8. u \o v = t
  BY <1>0, <1>3, <1>7, SeqEqual
<1> QED BY <1>8 DEF u, v, t

LEMMA FourUp ==
  ASSUME NEW a, NEW b, NEW c, NEW d
  PROVE  <<a, b, c>> \o <<d>> = <<a, b, c, d>>
<1> DEFINE S == {a, b, c, d}
           u == <<a, b, c>>
           v == <<d>>
           t == <<a, b, c, d>>
<1>0. u \in Seq(S) /\ v \in Seq(S) /\ t \in Seq(S) /\ Len(u) = 3 /\ Len(v) = 1 /\ Len(t) = 4
  BY SMT
<1>1. u[1] = a /\ u[2] = b /\ u[3] = c /\ v[1] = d
  BY SMT
<1>2. t[1] = a /\ t[2] = b /\ t[3] = c /\ t[4] = d
  BY SMT
<1> HIDE DEF u, v, t, S
<1>3. /\ u \o v \in Seq(S) /\ Len(u \o v) = 4
      /\ \A i \in 1 .. 4 : (u \o v)[i] = IF i <= 3 THEN u[i] ELSE v[i - 3]
  <2>1. /\ u \o v \in Seq(S) /\ Len(u \o v) = Len(u) + Len(v)
        /\ \A i \in 1 .. Len(u) + Len(v) : (u \o v)[i] = IF i <= Len(u) THEN u[i] ELSE v[i - Len(u)]
    BY <1>0, ConcatProperties
  <2> QED BY <2>1, <1>0, SMT
<1>4. (u \o v)[1] = t[1]
  BY <1>1, <1>2, <1>3, SMT
<1>5. (u \o v)[2] = t[2]
  BY <1>1, <1>2, <1>3, SMT
<1>6. (u \o v)[3] = t[3]
  BY <1>1, <1>2, <1>3, SMT
<1>7. (u \o v)[4] = t[4]
  BY <1>1, <1>2, <1>3, SMT
<1>8. \A i \in 1 .. Len(u \o v) : (u \o v)[i] = t[i]
  <2>1. \A i \in 1 .. 4 : i = 1 \/ i = 2 \/ i = 3 \/ i = 4
    BY SMT
  <2> QED BY <2>1, <1>3, <1>4, <1>5, <1>6, <1>7
<1>9. u \o v = t
  BY <1>0, <1>3, <1>8, SeqEqual
<1> QED BY <1>9 DEF u, v, t

LEMMA FiveUp ==
  ASSUME NEW a, NEW b, NEW c, NEW d, NEW e
  PROVE  <<a>> \o <<b, c, d, e>> = <<a, b, c, d, e>>
<1> DEFINE S == {a, b, c, d, e}
           u == <<a>>
           v == <<b, c, d, e>>
           t == <<a, b, c, d, e>>
<1>0. u \in Seq(S) /\ v \in Seq(S) /\ t \in Seq(S) /\ Len(u) = 1 /\ Len(v) = 4 /\ Len(t) = 5
  BY SMT
<1>1. u[1] = a /\ v[1] = b /\ v[2] = c /\ v[3] = d /\ v[4] = e
  BY SMT
<1>2. t[1] = a /\ t[2] = b /\ t[3] = c /\ t[4] = d /\ t[5] = e
  BY SMT
<1> HIDE DEF u, v, t, S
<1>3. /\ u \o v \in Seq(S) /\ Len(u \o v) = 5
      /\ \A i \in 1 .. 5 : (u \o v)[i] = IF i <= 1 THEN u[i] ELSE v[i - 1]
  <2>1. /\ u \o v \in Seq(S) /\ Len(u \o v) = Len(u) + Len(v)
        /\ \A i \in 1 .. Len(u) + Len(v) : (u \o v)[i] = IF i <= Len(u) THEN u[i] ELSE v[i - Len(u)]
    BY <1>0, ConcatProperties
  <2> QED BY <2>1, <1>0, SMT
<1>4. (u \o v)[1] = t[1]
  BY <1>1, <1>2, <1>3, SMT
<1>5. (u \o v)[2] = t[2]
  BY <1>1, <1>2, <1>3, SMT
<1>6. (u \o v)[3] = t[3]
  BY <1>1, <1>2, <1>3, SMT
<1>7. (u \o v)[4] = t[4]
  BY <1>1, <1>2, <1>3, SMT
<1>8. (u \o v)[5] = t[5]
  BY <1>1, <1>2, <1>3, SMT
<1>9. \A i \in 1 .. Len(u \o v) : (u \o v)[i] = t[i]
  <2>1. \A i \in 1 .. 5 : i = 1 \/ i = 2 \/ i = 3 \/ i = 4 \/ i = 5
    BY SMT
  <2> QED BY <2>1, <1>3, <1>4, <1>5, <1>6, <1>7, <1>8
<1>10. u \o v = t
  BY <1>0, <1>3, <1>9, SeqEqual
<1> QED BY <1>10 DEF u, v, t

LEMMA SixUp ==
  ASSUME NEW a, NEW b, NEW c, NEW d, NEW e, NEW f
  PROVE  <<a, b, c, d, e>> \o <<f>> = <<a, b, c, d, e, f>>
<1> DEFINE S == {a, b, c, d, e, f}
           u == <<a, b, c, d, e>>
           v == <<f>>
           t == <<a, b, c, d, e, f>>
<1>0. u \in Seq(S) /\ v \in Seq(S) /\ t \in Seq(S) /\ Len(u) = 5 /\ Len(v) = 1 /\ Len(t) = 6
  BY SMT
<1>1. u[1] = a /\ u[2] = b /\ u[3] = c /\ u[4] = d /\ u[5] = e /\ v[1] = f
  BY SMT
<1>2. t[1] = a /\ t[2] = b /\ t[3] = c /\ t[4] = d /\ t[5] = e /\ t[6] = f
  BY SMT
<1> HIDE DEF u, v, t, S
<1>3. /\ u \o v \in Seq(S) /\ Len(u \o v) = 6
      /\ \A i \in 1 .. 6 : (u \o v)[i] = IF i <= 5 THEN u[i] ELSE v[i - 5]
  <2>1. /\ u \o v \in Seq(S) /\ Len(u \o v) = Len(u) + Len(v)
        /\ \A i \in 1 .. Len(u) + Len(v) : (u \o v)[i] = IF i <= Len(u) THEN u[i] ELSE v[i - Len(u)]
    BY <1>0, ConcatProperties
  <2> QED BY <2>1, <1>0, SMT
<1>4. (u \o v)[1] = t[1]
  BY <1>1, <1>2, <1>3, SMT
<1>5. (u \o v)[2] = t[2]
  BY <1>1, <1>2, <1>3, SMT
<1>6. (u \o v)[3] = t[3]
  BY <1>1, <1>2, <1>3, SMT
<1>7. (u \o v)[4] = t[4]
  BY <1>1, <1>2, <1>3, SMT
<1>8. (u \o v)[5] = t[5]
  BY <1>1, <1>2, <1>3, SMT
<1>9. (u \o v)[6] = t[6]
  BY <1>1, <1>2, <1>3, SMT
<1>10. \A i \in 1 .. Len(u \o v) : (u \o v)[i] = t[i]
  <2>1. \A i \in 1 .. 6 : i = 1 \/ i = 2 \/ i = 3 \/ i = 4 \/ i = 5 \/ i = 6
    BY SMT
  <2> QED BY <2>1, <1>3, <1>4, <1>5, <1>6, <1>7, <1>8, <1>9
<1>11. u \o v = t
  BY <1>0, <1>3, <1>10, SeqEqual
<1> QED BY <1>11 DEF u, v, t

LEMMA StageTypes ==
  /\ {"text", "save", "sync", "prompt", "fetch", "keep_text", "keep", "drop", "drop_text"} = OpStages
  /\ Resting = {"idle", "call", "after"}
  /\ \A p \in Resting : p \notin OpStages /\ p \in Places
  /\ "dead" \in Places /\ "dead" \notin OpStages /\ "dead" \notin Resting
  /\ OpStages \subseteq Places
PROOF BY DEF OpStages, Places, Resting

LEMMA StageLists ==
  /\ <<"text", "save">> \o Synced("idle") \o <<"prompt">> = <<"text", "save", "sync", "prompt">>
  /\ \A back \in {"call", "after"} :
       <<"text", "save">> \o Synced(back) \o <<"prompt">> = <<"text", "save", "prompt">>
  /\ <<"save">> \o Synced("idle") = <<"save", "sync">>
  /\ \A back \in {"call", "after"} : <<"save">> \o Synced(back) = <<"save">>
  /\ <<"fetch">> \o ArchiveStages \o <<"sync">>
       = <<"fetch", "keep_text", "keep", "drop", "drop_text", "sync">>
<1>1. Synced("idle") = <<"sync">> /\ \A back \in {"call", "after"} : Synced(back) = <<>>
  BY DEF Synced
<1>2. <<"text", "save">> \o <<"sync">> = <<"text", "save", "sync">>
  BY TripleUp
<1>3. <<"text", "save", "sync">> \o <<"prompt">> = <<"text", "save", "sync", "prompt">>
  BY FourUp
<1>4. <<"text", "save">> \o <<"prompt">> = <<"text", "save", "prompt">>
  BY TripleUp
<1>5. <<"save">> \o <<"sync">> = <<"save", "sync">>
  BY PairUp
<1>6. <<"text", "save">> \o <<>> = <<"text", "save">> /\ <<"save">> \o <<>> = <<"save">>
  BY SMT
<1>7. <<"fetch">> \o <<"keep_text", "keep", "drop", "drop_text">> \o <<"sync">>
       = <<"fetch", "keep_text", "keep", "drop", "drop_text", "sync">>
  <2>1. <<"fetch">> \o <<"keep_text", "keep", "drop", "drop_text">>
          = <<"fetch", "keep_text", "keep", "drop", "drop_text">>
    BY FiveUp
  <2>2. <<"fetch", "keep_text", "keep", "drop", "drop_text">> \o <<"sync">>
          = <<"fetch", "keep_text", "keep", "drop", "drop_text", "sync">>
    BY SixUp
  <2> QED BY <2>1, <2>2
<1>8. <<"text", "save">> \o Synced("idle") \o <<"prompt">> = <<"text", "save", "sync", "prompt">>
  BY <1>1, <1>2, <1>3
<1>9. \A back \in {"call", "after"} :
       <<"text", "save">> \o Synced(back) \o <<"prompt">> = <<"text", "save", "prompt">>
  BY <1>1, <1>4, <1>6
<1>10. /\ <<"save">> \o Synced("idle") = <<"save", "sync">>
       /\ \A back \in {"call", "after"} : <<"save">> \o Synced(back) = <<"save">>
  BY <1>1, <1>5, <1>6
<1> QED BY <1>7, <1>8, <1>9, <1>10 DEF ArchiveStages

-----------------------------------------------------------------------------
(* Operations as records.                                                  *)
SameOp(o, q) == /\ q.kind = o.kind /\ q.loop = o.loop /\ q.rec = o.rec
                /\ q.text = o.text /\ q.back = o.back

LEMMA OpParts ==
  ASSUME NEW o \in Ops
  PROVE  /\ o.kind \in Kinds /\ o.loop \in Loops \cup {NoLoop} /\ o.rec \in Recs
         /\ o.text \in Nat /\ o.rest \in Seq(OpStages) /\ o.back \in Resting
         /\ o.stale \in BOOLEAN
PROOF BY SMT DEF Ops

LEMMA OpRest ==
  ASSUME NEW o \in Ops, NEW r \in Seq(OpStages)
  PROVE  LET q == [o EXCEPT !.rest = r] IN
           q \in Ops /\ SameOp(o, q) /\ q.rest = r /\ q.stale = o.stale
PROOF BY SMT DEF Ops, SameOp

LEMMA OpStale ==
  ASSUME NEW o \in Ops, NEW b \in BOOLEAN
  PROVE  LET q == [o EXCEPT !.stale = b] IN
           q \in Ops /\ SameOp(o, q) /\ q.rest = o.rest /\ q.stale = b
PROOF BY SMT DEF Ops, SameOp

\* What a change of the record alone keeps.
SameFields(o, q) == /\ q.kind = o.kind /\ q.loop = o.loop /\ q.rest = o.rest
                    /\ q.back = o.back /\ q.stale = o.stale

LEMMA OpRec ==
  ASSUME NEW o \in Ops, NEW r \in Recs
  PROVE  LET q == [o EXCEPT !.rec = r] IN
           q \in Ops /\ SameFields(o, q) /\ q.rec = r
PROOF BY SMT DEF Ops, SameFields

LEMMA AbsentType == Absent \in Recs /\ Absent.run = 0 /\ Absent.status = "none"
PROOF BY SMT DEF Absent, Recs, Statuses

LEMMA NoOpType == NoOp \in Ops /\ NoOp.loop = NoLoop /\ NoOp.rec = Absent /\ NoOp.stale = FALSE
<1>1. /\ Absent \in Recs /\ NoText \in Nat /\ <<>> \in Seq(OpStages)
      /\ "idle" \in Resting /\ "none" \in Kinds
  BY AbsentType, SMT DEF NoText, Resting, Kinds
<1> QED BY <1>1, SMT DEF NoOp, Ops

(* The way through the stages.                                             *)

LEMMA EmptyRest ==
  ASSUME NEW o \in Ops, o.rest = <<>>
  PROVE  NextPlace(o) = o.back /\ Pop(o) = NoOp
<1>1. Head(Append(<<>>, o.back)) = o.back
  BY SMT
<1> QED BY <1>1 DEF NextPlace, Pop

LEMMA FullRest ==
  ASSUME NEW o \in Ops, NEW x \in OpStages, NEW r \in Seq(OpStages),
         o.rest # <<>>, Head(o.rest) = x, Tail(o.rest) = r
  PROVE  /\ NextPlace(o) = x /\ Pop(o) \in Ops
         /\ SameOp(o, Pop(o)) /\ Pop(o).rest = r /\ Pop(o).stale = o.stale
<1>1. o.rest \in Seq(OpStages) /\ o.back \in Resting
  BY OpParts
<1>2. Head(Append(o.rest, o.back)) = Head(o.rest)
  BY <1>1, SMT
<1>3. Pop(o) = [o EXCEPT !.rest = r]
  BY DEF Pop
<1> QED BY <1>2, <1>3, OpRest DEF NextPlace

LEMMA StageHeads ==
  /\ LET s == <<"save", "sync", "prompt">> IN
       s # <<>> /\ Head(s) = "save" /\ Tail(s) = <<"sync", "prompt">> /\ Tail(s) \in Seq(OpStages)
  /\ LET s == <<"save", "prompt">> IN
       s # <<>> /\ Head(s) = "save" /\ Tail(s) = <<"prompt">> /\ Tail(s) \in Seq(OpStages)
  /\ LET s == <<"sync", "prompt">> IN
       s # <<>> /\ Head(s) = "sync" /\ Tail(s) = <<"prompt">> /\ Tail(s) \in Seq(OpStages)
  /\ LET s == <<"prompt">> IN
       s # <<>> /\ Head(s) = "prompt" /\ Tail(s) = <<>> /\ Tail(s) \in Seq(OpStages)
  /\ LET s == <<"sync">> IN
       s # <<>> /\ Head(s) = "sync" /\ Tail(s) = <<>> /\ Tail(s) \in Seq(OpStages)
  /\ LET s == <<"keep_text", "keep", "drop", "drop_text", "sync">> IN
       s # <<>> /\ Head(s) = "keep_text" /\ Tail(s) = <<"keep", "drop", "drop_text", "sync">>
       /\ Tail(s) \in Seq(OpStages)
  /\ LET s == <<"keep", "drop", "drop_text", "sync">> IN
       s # <<>> /\ Head(s) = "keep" /\ Tail(s) = <<"drop", "drop_text", "sync">>
       /\ Tail(s) \in Seq(OpStages)
  /\ LET s == <<"drop", "drop_text", "sync">> IN
       s # <<>> /\ Head(s) = "drop" /\ Tail(s) = <<"drop_text", "sync">> /\ Tail(s) \in Seq(OpStages)
  /\ LET s == <<"drop_text", "sync">> IN
       s # <<>> /\ Head(s) = "drop_text" /\ Tail(s) = <<"sync">> /\ Tail(s) \in Seq(OpStages)
<1>0. {"text", "save", "sync", "prompt", "fetch", "keep_text", "keep", "drop", "drop_text"} \subseteq OpStages
  BY StageTypes
<1> QED BY <1>0, SMT

LEMMA ShapeGoes ==
  ASSUME NEW o \in Ops, NEW p \in OpStages, ShapeOf(o, p)
  PROVE  LET q == NextPlace(o) IN
         /\ q \in Places /\ Pop(o) \in Ops /\ ShapeOf(Pop(o), q)
         /\ q \in OpStages => SameOp(o, Pop(o)) /\ Pop(o).stale = o.stale
         /\ q \notin OpStages => q = o.back /\ Pop(o) = NoOp
         /\ p = "text" => q = "save"
         /\ p = "save" => q \in {"sync", "prompt"} \cup Resting
         /\ p = "save" /\ q = "prompt" => o.kind \in {"start", "advance"}
         /\ p = "sync" => q = "prompt" \/ q \in Resting
         /\ p = "sync" /\ q = "prompt" => o.kind = "start"
         /\ p = "prompt" => q \in Resting
         /\ p = "fetch" => q = "keep_text"
         /\ p = "keep_text" => q = "keep"
         /\ p = "keep" => q = "drop"
         /\ p = "drop" => q = "drop_text"
         /\ p = "drop_text" => q = "sync"
<1> DEFINE q == NextPlace(o)
           OnItsWay == q \in OpStages /\ q \in Places /\ Pop(o) \in Ops /\ ShapeOf(Pop(o), q)
                   /\ SameOp(o, Pop(o)) /\ Pop(o).stale = o.stale
<1>0. o.back \in Resting /\ NoOp \in Ops /\ (\A r \in Resting : r \notin OpStages /\ r \in Places)
  BY OpParts, NoOpType, StageTypes
<1>e. ASSUME o.rest = <<>>
      PROVE  q = o.back /\ Pop(o) = NoOp /\ q \notin OpStages /\ q \in Resting /\ q \in Places
             /\ Pop(o) \in Ops /\ ShapeOf(Pop(o), q)
  <2>1. q = o.back /\ Pop(o) = NoOp
    BY <1>e, EmptyRest
  <2>2. ShapeOf(NoOp, o.back)
    BY <1>0, SMT DEF ShapeOf, OpStages
  <2> QED BY <1>0, <2>1, <2>2
<1>f. ASSUME NEW x \in OpStages, NEW r \in Seq(OpStages), o.rest # <<>>, Head(o.rest) = x, Tail(o.rest) = r
      PROVE  /\ q = x /\ Pop(o) \in Ops /\ q \in Places
             /\ SameOp(o, Pop(o)) /\ Pop(o).rest = r /\ Pop(o).stale = o.stale
  BY <1>f, FullRest, StageTypes
<1>l. o.loop \in Loops
  BY DEF ShapeOf
<1>s. \A x \in {"text", "save", "sync", "prompt", "fetch", "keep_text", "keep", "drop", "drop_text"} : x \in OpStages
  BY StageTypes
<1> HIDE DEF q
<1>1. ASSUME p = "text"
      PROVE  OnItsWay /\ q = "save"
  <2>1. CASE o.back = "idle"
    <3>0. o.rest = <<"save", "sync", "prompt">>
      BY <1>1, <2>1 DEF ShapeOf
    <3>1. q = "save" /\ Pop(o) \in Ops /\ q \in Places /\ SameOp(o, Pop(o))
          /\ Pop(o).rest = <<"sync", "prompt">> /\ Pop(o).stale = o.stale
      BY <1>f, <1>s, <3>0, StageHeads
    <3>2. ShapeOf(Pop(o), "save")
      BY <1>l, <1>s, <1>1, <2>1, <3>1, SMT DEF ShapeOf, SameOp
    <3> QED BY <1>s, <3>1, <3>2
  <2>2. CASE o.back # "idle"
    <3>0. o.rest = <<"save", "prompt">>
      BY <1>1, <2>2 DEF ShapeOf
    <3>1. q = "save" /\ Pop(o) \in Ops /\ q \in Places /\ SameOp(o, Pop(o))
          /\ Pop(o).rest = <<"prompt">> /\ Pop(o).stale = o.stale
      BY <1>f, <1>s, <3>0, StageHeads
    <3>2. ShapeOf(Pop(o), "save")
      BY <1>l, <1>s, <1>1, <2>2, <3>1, SMT DEF ShapeOf, SameOp
    <3> QED BY <1>s, <3>1, <3>2
  <2> QED BY <2>1, <2>2
<1>2. ASSUME p = "save"
      PROVE  \/ OnItsWay /\ q = "sync"
             \/ OnItsWay /\ q = "prompt" /\ o.kind \in {"start", "advance"}
             \/ o.rest = <<>>
  <2>1. CASE o.rest = <<"sync", "prompt">> /\ o.kind = "start" /\ o.back = "idle"
    <3>1. q = "sync" /\ Pop(o) \in Ops /\ q \in Places /\ SameOp(o, Pop(o))
          /\ Pop(o).rest = <<"prompt">> /\ Pop(o).stale = o.stale
      BY <1>f, <1>s, <2>1, StageHeads
    <3>2. ShapeOf(Pop(o), "sync")
      BY <1>l, <1>s, <2>1, <3>1, SMT DEF ShapeOf, SameOp
    <3> QED BY <1>s, <3>1, <3>2
  <2>2. CASE o.rest = <<"prompt">> /\ o.kind \in {"start", "advance"}
    <3>1. q = "prompt" /\ Pop(o) \in Ops /\ q \in Places /\ SameOp(o, Pop(o))
          /\ Pop(o).rest = <<>> /\ Pop(o).stale = o.stale
      BY <1>f, <1>s, <2>2, StageHeads
    <3>2. ShapeOf(Pop(o), "prompt")
      BY <1>l, <1>s, <2>2, <3>1, SMT DEF ShapeOf, SameOp
    <3> QED BY <1>s, <2>2, <3>1, <3>2
  <2>3. CASE o.rest = <<"sync">> /\ o.kind \in {"resume", "complete"}
    <3>1. q = "sync" /\ Pop(o) \in Ops /\ q \in Places /\ SameOp(o, Pop(o))
          /\ Pop(o).rest = <<>> /\ Pop(o).stale = o.stale
      BY <1>f, <1>s, <2>3, StageHeads
    <3>2. ShapeOf(Pop(o), "sync")
      BY <1>l, <1>s, <2>3, <3>1, SMT DEF ShapeOf, SameOp
    <3> QED BY <1>s, <3>1, <3>2
  <2>4. \/ o.rest = <<"sync", "prompt">> /\ o.kind = "start" /\ o.back = "idle"
        \/ o.rest = <<"prompt">> /\ o.kind \in {"start", "advance"}
        \/ o.rest = <<"sync">> /\ o.kind \in {"resume", "complete"}
        \/ o.rest = <<>>
    BY <1>2 DEF ShapeOf
  <2> QED BY <2>1, <2>2, <2>3, <2>4
<1>3. ASSUME p = "sync"
      PROVE  \/ OnItsWay /\ q = "prompt" /\ o.kind = "start"
             \/ o.rest = <<>>
  <2>1. CASE o.rest = <<"prompt">> /\ o.kind = "start"
    <3>1. q = "prompt" /\ Pop(o) \in Ops /\ q \in Places /\ SameOp(o, Pop(o))
          /\ Pop(o).rest = <<>> /\ Pop(o).stale = o.stale
      BY <1>f, <1>s, <2>1, StageHeads
    <3>2. ShapeOf(Pop(o), "prompt")
      BY <1>l, <1>s, <2>1, <3>1, SMT DEF ShapeOf, SameOp
    <3> QED BY <1>s, <2>1, <3>1, <3>2
  <2>2. \/ o.rest = <<"prompt">> /\ o.kind = "start"
        \/ o.rest = <<>>
    BY <1>3 DEF ShapeOf
  <2> QED BY <2>1, <2>2
<1>4. ASSUME p = "prompt"
      PROVE  o.rest = <<>>
  BY <1>4 DEF ShapeOf
<1>5. ASSUME p = "fetch"
      PROVE  OnItsWay /\ q = "keep_text"
  <2>0. o.rest = <<"keep_text", "keep", "drop", "drop_text", "sync">>
    BY <1>5 DEF ShapeOf
  <2>1. q = "keep_text" /\ Pop(o) \in Ops /\ q \in Places /\ SameOp(o, Pop(o))
        /\ Pop(o).rest = <<"keep", "drop", "drop_text", "sync">> /\ Pop(o).stale = o.stale
    BY <1>f, <1>s, <2>0, StageHeads
  <2>2. ShapeOf(Pop(o), "keep_text")
    BY <1>l, <1>s, <1>5, <2>1, SMT DEF ShapeOf, SameOp
  <2> QED BY <1>s, <2>1, <2>2
<1>6. ASSUME p = "keep_text"
      PROVE  OnItsWay /\ q = "keep"
  <2>0. o.rest = <<"keep", "drop", "drop_text", "sync">>
    BY <1>6 DEF ShapeOf
  <2>1. q = "keep" /\ Pop(o) \in Ops /\ q \in Places /\ SameOp(o, Pop(o))
        /\ Pop(o).rest = <<"drop", "drop_text", "sync">> /\ Pop(o).stale = o.stale
    BY <1>f, <1>s, <2>0, StageHeads
  <2>2. ShapeOf(Pop(o), "keep")
    BY <1>l, <1>s, <1>6, <2>1, SMT DEF ShapeOf, SameOp
  <2> QED BY <1>s, <2>1, <2>2
<1>7. ASSUME p = "keep"
      PROVE  OnItsWay /\ q = "drop"
  <2>0. o.rest = <<"drop", "drop_text", "sync">>
    BY <1>7 DEF ShapeOf
  <2>1. q = "drop" /\ Pop(o) \in Ops /\ q \in Places /\ SameOp(o, Pop(o))
        /\ Pop(o).rest = <<"drop_text", "sync">> /\ Pop(o).stale = o.stale
    BY <1>f, <1>s, <2>0, StageHeads
  <2>2. ShapeOf(Pop(o), "drop")
    BY <1>l, <1>s, <1>7, <2>1, SMT DEF ShapeOf, SameOp
  <2> QED BY <1>s, <2>1, <2>2
<1>8. ASSUME p = "drop"
      PROVE  OnItsWay /\ q = "drop_text"
  <2>0. o.rest = <<"drop_text", "sync">>
    BY <1>8 DEF ShapeOf
  <2>1. q = "drop_text" /\ Pop(o) \in Ops /\ q \in Places /\ SameOp(o, Pop(o))
        /\ Pop(o).rest = <<"sync">> /\ Pop(o).stale = o.stale
    BY <1>f, <1>s, <2>0, StageHeads
  <2>2. ShapeOf(Pop(o), "drop_text")
    BY <1>l, <1>s, <1>8, <2>1, SMT DEF ShapeOf, SameOp
  <2> QED BY <1>s, <2>1, <2>2
<1>9. ASSUME p = "drop_text"
      PROVE  OnItsWay /\ q = "sync"
  <2>0. o.rest = <<"sync">>
    BY <1>9 DEF ShapeOf
  <2>1. q = "sync" /\ Pop(o) \in Ops /\ q \in Places /\ SameOp(o, Pop(o))
        /\ Pop(o).rest = <<>> /\ Pop(o).stale = o.stale
    BY <1>f, <1>s, <2>0, StageHeads
  <2>2. ShapeOf(Pop(o), "sync")
    BY <1>l, <1>s, <1>9, <2>1, SMT DEF ShapeOf, SameOp
  <2> QED BY <1>s, <2>1, <2>2
<1>10. \/ p \in {"text", "save", "sync", "prompt"}
       \/ p \in {"fetch", "keep_text", "keep", "drop", "drop_text"}
  BY DEF OpStages
<1>11. OnItsWay \/ o.rest = <<>>
  BY <1>1, <1>2, <1>3, <1>4, <1>5, <1>6, <1>7, <1>8, <1>9, <1>10
<1>12. o.rest = <<>> => p \in {"save", "sync", "prompt"}
  BY <1>1, <1>5, <1>6, <1>7, <1>8, <1>9, <1>10, <1>e
<1>13. /\ q \in Places /\ Pop(o) \in Ops /\ ShapeOf(Pop(o), q)
       /\ q \in OpStages => SameOp(o, Pop(o)) /\ Pop(o).stale = o.stale
       /\ q \notin OpStages => q = o.back /\ Pop(o) = NoOp
  BY <1>11, <1>e
<1>14. /\ p = "text" => q = "save"
       /\ p = "save" => q \in {"sync", "prompt"} \cup Resting
       /\ p = "save" /\ q = "prompt" => o.kind \in {"start", "advance"}
       /\ p = "sync" => q = "prompt" \/ q \in Resting
       /\ p = "sync" /\ q = "prompt" => o.kind = "start"
       /\ p = "prompt" => q \in Resting
  BY <1>1, <1>2, <1>3, <1>4, <1>e, <1>s
<1>15. /\ p = "fetch" => q = "keep_text"
       /\ p = "keep_text" => q = "keep"
       /\ p = "keep" => q = "drop"
       /\ p = "drop" => q = "drop_text"
       /\ p = "drop_text" => q = "sync"
  BY <1>5, <1>6, <1>7, <1>8, <1>9
<1> QED BY <1>13, <1>14, <1>15 DEF q

-----------------------------------------------------------------------------
(* What a step leaves alone.                                               *)
LEMMA ActorTypes ==
  ASSUME LoopsTypeOK, NEW a \in Sessions
  PROVE  /\ op[a] \in Ops /\ pc[a] \in Places /\ queue[a] \in Seq(Prompts)
         /\ current[a] \in Loops \cup {NoLoop}
PROOF BY DEF LoopsTypeOK, FileTypes, AgentTypes

LEMMA LoopTypes ==
  ASSUME LoopsTypeOK, NEW n \in Loops
  PROVE  /\ live[n] \in Recs /\ arch[n] \in Recs /\ task[n] \in Nat /\ archTask[n] \in Nat
         /\ promised[n] \in Nat /\ crossed[n] \in BOOLEAN
PROOF BY DEF LoopsTypeOK, FileTypes, AgentTypes

LEMMA LoopNames == NoLoop \notin Loops /\ Loops \subseteq Nat /\ Limit \in Nat
PROOF BY LoopsAssumption, LoopBoundsAssumption, SMT DEF NoLoop

FilesKept(n) ==
  /\ live'[n] = live[n] /\ task'[n] = task[n] /\ arch'[n] = arch[n] /\ archTask'[n] = archTask[n]
  /\ promised'[n] = promised[n]

MovesGrow == moves \in Nat /\ moves' \in Nat /\ moves <= moves'

\* An actor that is not at work, or whose files nobody touched.
LEMMA SameKeeps ==
  ASSUME MovesGrow, NEW b \in Sessions, op[b] \in Ops, OpOK(b), op'[b] = op[b], pc'[b] = pc[b],
         pc[b] \in OpStages => FilesKept(op[b].loop)
  PROVE  OpOK(b)'
<1>1. op[b].rec.run \in Nat
  BY SMT DEF Ops, Recs
<1>2. op[b].rec.run <= moves' + 1
  BY <1>1, SMT DEF MovesGrow, OpOK
<1>3. ShapeOf(op[b], pc[b]) /\ HasIteration(op[b].rec)
      /\ (op[b].kind \in {"start", "advance"} => op[b].rec.status = "active")
  BY DEF OpOK
<1>4. ShapeOf(op'[b], pc'[b])
  BY <1>3
<1>5. pc[b] \in OpStages /\ ~op[b].stale => Fresh(b)'
  <2> SUFFICES ASSUME pc[b] \in OpStages, ~op[b].stale
               PROVE  Fresh(b)'
    OBVIOUS
  <2>1. Fresh(b) /\ FilesKept(op[b].loop)
    BY DEF OpOK
  <2> QED BY <2>1 DEF Fresh, FilesKept
<1>6. OpOK(b)' <=> /\ ShapeOf(op'[b], pc'[b]) /\ HasIteration(op'[b].rec) /\ op'[b].rec.run <= moves' + 1
                   /\ op'[b].kind \in {"start", "advance"} => op'[b].rec.status = "active"
                   /\ pc'[b] \in OpStages /\ ~op'[b].stale => Fresh(b)'
  BY DEF OpOK, ShapeOf, HasIteration
<1> QED BY <1>2, <1>3, <1>4, <1>5, <1>6

\* One that falls behind has nothing left to be right about.
LEMMA BehindKeeps ==
  ASSUME MovesGrow, NEW b \in Sessions, op[b] \in Ops, OpOK(b), op[b].loop # NoLoop,
         pc'[b] = pc[b], op'[b] = [op[b] EXCEPT !.stale = TRUE]
  PROVE  OpOK(b)'
<1>0. SameOp(op[b], op'[b]) /\ op'[b].rest = op[b].rest /\ op'[b].stale = TRUE
  BY OpStale
<1>1. op[b].rec.run \in Nat
  BY SMT DEF Ops, Recs
<1>2. op[b].rec.run <= moves' + 1
  BY <1>1, SMT DEF MovesGrow, OpOK
<1>3. ShapeOf(op[b], pc[b]) /\ HasIteration(op[b].rec)
      /\ (op[b].kind \in {"start", "advance"} => op[b].rec.status = "active")
  BY DEF OpOK
<1>4. pc[b] \in OpStages
  <2>1. NoOp.loop = NoLoop
    BY NoOpType
  <2> QED BY <1>3, <2>1 DEF ShapeOf
<1>5. ShapeOf(op'[b], pc'[b])
  <2>1. ASSUME NEW o, NEW q, NEW p \in OpStages, ShapeOf(o, p),
               q.kind = o.kind, q.loop = o.loop, q.back = o.back, q.rest = o.rest
        PROVE  ShapeOf(q, p)
    BY <2>1, SMT DEF ShapeOf
  <2> QED BY <1>0, <1>3, <1>4, <2>1 DEF SameOp
<1>6. OpOK(b)' <=> /\ ShapeOf(op'[b], pc'[b]) /\ HasIteration(op'[b].rec) /\ op'[b].rec.run <= moves' + 1
                   /\ op'[b].kind \in {"start", "advance"} => op'[b].rec.status = "active"
                   /\ pc'[b] \in OpStages /\ ~op'[b].stale => Fresh(b)'
  BY DEF OpOK, ShapeOf, HasIteration
<1> QED BY <1>0, <1>2, <1>3, <1>5, <1>6 DEF SameOp

LEMMA LoopKeeps ==
  ASSUME LoopsTypeOK, MovesGrow, NEW n \in Loops, LoopOK(n), FilesKept(n), crossed[n] => crossed'[n]
  PROVE  LoopOK(n)'
<1>1. live[n].run \in Nat
  BY LoopTypes, SMT DEF Recs
<1>2. live[n].run <= moves' + 1
  BY <1>1, SMT DEF MovesGrow, LoopOK
<1> QED BY <1>2 DEF LoopOK, FilesKept, HasIteration, Whole

\* A step that touches no file.
OthersStay(a) == \A b \in Sessions : b # a => op'[b] = op[b] /\ pc'[b] = pc[b]

LEMMA PassiveKeeps ==
  ASSUME RalphInv, NEW a \in Sessions, MovesGrow, breaks' \in Nat,
         UNCHANGED <<files, promised, crossed>>, AgentTypes',
         pc' \in [Sessions -> Places], op' \in [Sessions -> Ops], OthersStay(a), OpOK(a)'
  PROVE  RalphInv'
<1>0. LoopsTypeOK
  BY DEF RalphInv
<1>1. \A n : FilesKept(n)
  BY DEF files, FilesKept
<1>2. LoopsTypeOK'
  <2>1. FileTypes'
    BY <1>0 DEF LoopsTypeOK, FileTypes, files
  <2>2. crossed' \in [Loops -> BOOLEAN]
    BY <1>0 DEF LoopsTypeOK
  <2> QED BY <2>1, <2>2 DEF LoopsTypeOK, MovesGrow
<1>3. \A b \in Sessions : OpOK(b)'
  <2> TAKE b \in Sessions
  <2>1. CASE b = a
    BY <2>1
  <2>2. CASE b # a
    <3>1. op[b] \in Ops /\ OpOK(b) /\ op'[b] = op[b] /\ pc'[b] = pc[b]
      BY <1>0, <2>2, ActorTypes DEF RalphInv, OthersStay
    <3> QED BY <3>1, <1>1, SameKeeps
  <2> QED BY <2>1, <2>2
<1>4. \A n \in Loops : LoopOK(n)'
  BY <1>0, <1>1, LoopKeeps DEF RalphInv
<1> QED BY <1>2, <1>3, <1>4 DEF RalphInv

\* An actor between two operations.
LEMMA AtRest ==
  ASSUME MovesGrow, NEW a \in Sessions, op'[a] = NoOp, pc'[a] \notin OpStages
  PROVE  OpOK(a)'
<1>1. NoOp.rec.run <= moves' + 1 /\ HasIteration(NoOp.rec) /\ NoOp.kind = "none"
  BY NoOpType, AbsentType, SMT DEF MovesGrow, HasIteration, NoOp
<1>2. ShapeOf(NoOp, pc'[a])
  BY StageTypes DEF ShapeOf
<1>3. OpOK(a)' <=> /\ ShapeOf(op'[a], pc'[a]) /\ HasIteration(op'[a].rec) /\ op'[a].rec.run <= moves' + 1
                   /\ op'[a].kind \in {"start", "advance"} => op'[a].rec.status = "active"
                   /\ pc'[a] \in OpStages /\ ~op'[a].stale => Fresh(a)'
  BY DEF OpOK, ShapeOf, HasIteration
<1> QED BY <1>1, <1>2, <1>3

\* An operation that goes on.
LEMMA GoneOn ==
  ASSUME MovesGrow, NEW a \in Sessions, op[a] \in Ops, OpOK(a), pc[a] \in OpStages,
         op'[a] = Pop(op[a]), pc'[a] = NextPlace(op[a]),
         pc'[a] \in OpStages /\ SameOp(op[a], op'[a]) /\ ~op[a].stale => Fresh(a)'
  PROVE  OpOK(a)' /\ op'[a] \in Ops /\ pc'[a] \in Places
<1> DEFINE q == NextPlace(op[a])
<1>0. /\ ShapeOf(op[a], pc[a]) /\ HasIteration(op[a].rec) /\ op[a].rec.run <= moves + 1
      /\ op[a].kind \in {"start", "advance"} => op[a].rec.status = "active"
  BY DEF OpOK
<1>1. /\ q \in Places /\ Pop(op[a]) \in Ops /\ ShapeOf(Pop(op[a]), q)
      /\ q \in OpStages => SameOp(op[a], Pop(op[a])) /\ Pop(op[a]).stale = op[a].stale
      /\ q \notin OpStages => Pop(op[a]) = NoOp
  BY <1>0, ShapeGoes
<1>2. CASE q \notin OpStages
  BY <1>1, <1>2, AtRest
<1>3. CASE q \in OpStages
  <2>1. SameOp(op[a], op'[a]) /\ op'[a].stale = op[a].stale
    BY <1>1, <1>3
  <2>2. op[a].rec.run \in Nat
    BY SMT DEF Ops, Recs
  <2>3. op[a].rec.run <= moves' + 1
    BY <1>0, <2>2, SMT DEF MovesGrow
  <2>4. OpOK(a)' <=> /\ ShapeOf(op'[a], pc'[a]) /\ HasIteration(op'[a].rec) /\ op'[a].rec.run <= moves' + 1
                     /\ op'[a].kind \in {"start", "advance"} => op'[a].rec.status = "active"
                     /\ pc'[a] \in OpStages /\ ~op'[a].stale => Fresh(a)'
    BY DEF OpOK, ShapeOf, HasIteration
  <2>5. ShapeOf(op'[a], pc'[a])
    BY <1>1
  <2>6. HasIteration(op'[a].rec) /\ op'[a].rec.run <= moves' + 1
        /\ (op'[a].kind \in {"start", "advance"} => op'[a].rec.status = "active")
    BY <1>0, <2>1, <2>3, Zenon DEF SameOp
  <2>7. pc'[a] \in OpStages /\ ~op'[a].stale => Fresh(a)'
    BY <2>1
  <2> QED BY <1>1, <2>4, <2>5, <2>6, <2>7
<1> QED BY <1>2, <1>3

\* A step that writes files of one loop.
LEMMA OvertakesKeeps ==
  ASSUME RalphInv, NEW a \in Sessions, NEW n \in Loops, op[a].loop = n,
         NEW o \in Ops, NEW to \in Places, Overtakes(a, o, to),
         MovesGrow, breaks' \in Nat, FileTypes', AgentTypes',
         \A m \in Loops : m # n => FilesKept(m),
         op'[a] = o /\ pc'[a] = to => OpOK(a)', LoopOK(n)'
  PROVE  RalphInv'
<1>0. LoopsTypeOK /\ pc[a] \in Places
  BY ActorTypes DEF RalphInv
<1>n. n # NoLoop
  BY LoopNames
<1>m. MovesGrow
  OBVIOUS
<1>1. /\ pc' = [pc EXCEPT ![a] = to]
      /\ op' = [b \in Sessions |-> IF b = a THEN o
                                   ELSE [op[b] EXCEPT !.stale = op[b].stale \/ op[b].loop = n]]
      /\ crossed' = [crossed EXCEPT ![n] = crossed[n] \/ op[a].stale]
  BY DEF Overtakes
<1>2. pc \in [Sessions -> Places] /\ op \in [Sessions -> Ops] /\ crossed \in [Loops -> BOOLEAN]
  BY <1>0 DEF LoopsTypeOK
<1>3. pc'[a] = to /\ op'[a] = o
  BY <1>1, <1>2
<1>4. OpOK(a)' /\ op'[a] \in Ops /\ pc'[a] \in Places
  BY <1>3
<1>5. ASSUME NEW b \in Sessions, b # a
      PROVE  OpOK(b)' /\ op'[b] \in Ops
  <2>0. op[b] \in Ops /\ OpOK(b) /\ pc'[b] = pc[b] /\ op[b].stale \in BOOLEAN
    BY <1>0, <1>1, <1>2, <1>5, ActorTypes, OpParts DEF RalphInv
  <2>1. op'[b] = [op[b] EXCEPT !.stale = op[b].stale \/ op[b].loop = n]
    BY <1>1, <1>5
  <2>2. CASE op[b].loop = n
    <3>1. op'[b] = [op[b] EXCEPT !.stale = TRUE]
      BY <2>1, <2>2
    <3> QED BY <1>m, <1>n, <2>0, <2>2, <3>1, BehindKeeps, OpStale
  <2>3. CASE op[b].loop # n
    <3>1. op'[b] = op[b]
      <4>1. op'[b] = [op[b] EXCEPT !.stale = op[b].stale]
        BY <2>0, <2>1, <2>3
      <4>2. [op[b] EXCEPT !.stale = op[b].stale] = op[b]
        BY <2>0, SMT DEF Ops
      <4> QED BY <4>1, <4>2
    <3>2. pc[b] \in OpStages => FilesKept(op[b].loop)
      BY <2>0, <2>3 DEF OpOK, ShapeOf
    <3> QED BY <1>m, <2>0, <3>1, <3>2, SameKeeps
  <2> QED BY <2>2, <2>3
<1>6. LoopsTypeOK'
  <2>1. pc' \in [Sessions -> Places]
    BY <1>1, <1>2, <1>3, <1>4
  <2>2. op' \in [Sessions -> Ops]
    <3>1. \A b \in Sessions : op'[b] \in Ops
      BY <1>4, <1>5
    <3>2. op' = [b \in Sessions |-> op'[b]]
      BY <1>1
    <3> QED BY <3>1, <3>2
  <2>3. crossed' \in [Loops -> BOOLEAN]
    BY <1>1, <1>2, <1>n
  <2>4. moves' \in Nat /\ breaks' \in Nat
    BY DEF MovesGrow
  <2> QED BY <2>1, <2>2, <2>3, <2>4 DEF LoopsTypeOK
<1>7. ASSUME NEW m \in Loops
      PROVE  LoopOK(m)'
  <2>1. CASE m = n
    BY <2>1
  <2>2. CASE m # n
    <3>1. crossed'[m] = crossed[m] /\ FilesKept(m) /\ LoopOK(m)
      BY <1>1, <1>2, <2>2, <1>n DEF RalphInv
    <3> QED BY <1>0, <1>m, <3>1, LoopKeeps
  <2> QED BY <2>1, <2>2
<1> QED BY <1>4, <1>5, <1>6, <1>7 DEF RalphInv

LEMMA WroteKeeps ==
  ASSUME RalphInv, NEW a \in Sessions, NEW n \in Loops, op[a].loop = n, pc[a] \in OpStages, Wrote(a), UNCHANGED counts,
         FileTypes', AgentTypes',
         \A m \in Loops : m # n => FilesKept(m),
         pc'[a] \in OpStages /\ SameOp(op[a], op'[a]) /\ ~op[a].stale => Fresh(a)',
         LoopOK(n)'
  PROVE  RalphInv'
<1>0. LoopsTypeOK /\ op[a] \in Ops /\ pc \in [Sessions -> Places] /\ OpOK(a)
  BY ActorTypes DEF RalphInv, LoopsTypeOK
<1>1. MovesGrow /\ breaks' \in Nat
  BY <1>0, SMT DEF LoopsTypeOK, counts, MovesGrow
<1>2. Overtakes(a, Pop(op[a]), NextPlace(op[a]))
  BY DEF Wrote
<1>3. pc'[a] = NextPlace(op[a]) /\ op'[a] = Pop(op[a])
  BY <1>0, <1>2 DEF Overtakes
<1>4. OpOK(a)' /\ Pop(op[a]) \in Ops /\ NextPlace(op[a]) \in Places
  BY <1>0, <1>1, <1>3, GoneOn
<1> QED BY <1>1, <1>2, <1>4, OvertakesKeeps

-----------------------------------------------------------------------------
(* Operations that begin.                                                  *)
NewOp(kind, n, rec, r, back) ==
  [kind |-> kind, loop |-> n, rec |-> rec, text |-> NoText, rest |-> r, back |-> back, stale |-> FALSE]

LEMMA NoTextType == NoText \in Nat
PROOF BY DEF NoText

LEMMA BegunKeeps ==
  ASSUME RalphInv, NEW a \in Sessions, MovesGrow, breaks' \in Nat,
         UNCHANGED <<files, promised>>, AgentTypes',
         NEW kind \in Kinds \ {"none"}, NEW n \in Loops, NEW rec \in Recs, NEW back \in Resting,
         NEW x \in {"text", "save", "fetch", "drop"}, NEW r \in Seq(OpStages), NEW stages,
         Head(stages) = x, Tail(stages) = r,
         BeginOp(a, kind, n, rec, stages, back),
         ShapeOf(NewOp(kind, n, rec, r, back), x),
         HasIteration(rec), rec.run <= moves' + 1,
         kind \in {"start", "advance"} => rec.status = "active",
         x \in {"text", "save"} => Due(kind, live[n], rec),
         x = "save" => kind # "start", x = "drop" => kind # "archive",
         x \in {"fetch", "drop"} => rec = live[n] /\ rec.status # "none"
  PROVE  RalphInv'
<1> DEFINE o == NewOp(kind, n, rec, r, back)
<1>0. LoopsTypeOK /\ pc \in [Sessions -> Places] /\ op \in [Sessions -> Ops]
  BY DEF RalphInv, LoopsTypeOK
<1>1. pc' = [pc EXCEPT ![a] = x] /\ op' = [op EXCEPT ![a] = o] /\ UNCHANGED crossed
  BY DEF BeginOp, NewOp
<1>2. /\ o \in Ops /\ o.kind = kind /\ o.loop = n /\ o.rec = rec /\ o.stale = FALSE
  <2>1. kind \in Kinds
    OBVIOUS
  <2>2. o \in Ops
    BY <2>1, NoTextType, SMT DEF NewOp, Ops
  <2>3. o.kind = kind /\ o.loop = n /\ o.rec = rec /\ o.stale = FALSE
    BY DEF NewOp
  <2> QED BY <2>2, <2>3
<1>3. x \in OpStages /\ x \in Places
  BY DEF OpStages, Places
<1>4. pc' \in [Sessions -> Places] /\ op' \in [Sessions -> Ops] /\ OthersStay(a)
      /\ pc'[a] = x /\ op'[a] = o
  <2> HIDE DEF o
  <2> QED BY <1>0, <1>1, <1>2, <1>3 DEF OthersStay
<1>5. OpOK(a)'
  <2> HIDE DEF o
  <2>1. OpOK(a)' <=> /\ ShapeOf(op'[a], pc'[a]) /\ HasIteration(op'[a].rec) /\ op'[a].rec.run <= moves' + 1
                     /\ op'[a].kind \in {"start", "advance"} => op'[a].rec.status = "active"
                     /\ pc'[a] \in OpStages /\ ~op'[a].stale => Fresh(a)'
    BY DEF OpOK, ShapeOf, HasIteration
  <2>2. ShapeOf(op'[a], pc'[a])
    BY <1>4 DEF o
  <2>3. live'[n] = live[n]
    BY DEF files
  <2>4. Fresh(a)'
    BY <1>2, <1>4, <2>3 DEF Fresh, Due
  <2> QED BY <1>2, <1>4, <2>1, <2>2, <2>4
<1> QED BY <1>1, <1>4, <1>5, PassiveKeeps

(* Records that are changed.                                               *)
LEMMA RecParts ==
  ASSUME NEW rec \in Recs
  PROVE  rec.status \in Statuses /\ rec.it \in Nat /\ rec.owner \in Sessions \cup {Nobody} /\ rec.run \in Nat
PROOF BY SMT DEF Recs

LEMMA NewRecord ==
  ASSUME NEW a \in Sessions, NEW r \in Nat
  PROVE  LET rec == [status |-> "active", it |-> 1, owner |-> a, run |-> r] IN
         rec \in Recs /\ rec.status = "active" /\ rec.it = 1 /\ rec.run = r
<1>1. "active" \in Statuses /\ 1 \in Nat
  BY DEF Statuses
<1> QED BY <1>1, SMT DEF Recs

LEMMA WithStatus ==
  ASSUME NEW rec \in Recs, NEW st \in Statuses
  PROVE  LET q == [rec EXCEPT !.status = st] IN
         q \in Recs /\ q.status = st /\ q.it = rec.it /\ q.owner = rec.owner /\ q.run = rec.run
PROOF BY SMT DEF Recs

Adopted(rec, a) == [rec EXCEPT !.status = "active", !.owner = a]

LEMMA WithOwner ==
  ASSUME NEW rec \in Recs, NEW a \in Sessions
  PROVE  LET q == Adopted(rec, a) IN
         q \in Recs /\ q.status = "active" /\ q.it = rec.it /\ q.owner = a /\ q.run = rec.run
<1> DEFINE s == [rec EXCEPT !.status = "active"]
<1>1. s \in Recs /\ s.status = "active" /\ s.it = rec.it /\ s.run = rec.run
  <2>1. "active" \in Statuses
    BY DEF Statuses
  <2> QED BY <2>1, WithStatus
<1>2. ASSUME NEW y \in Recs
      PROVE  LET q == [y EXCEPT !.owner = a] IN
             q \in Recs /\ q.status = y.status /\ q.it = y.it /\ q.owner = a /\ q.run = y.run
  BY SMT DEF Recs
<1>3. Adopted(rec, a) = [s EXCEPT !.owner = a]
  BY DEF Adopted
<1> HIDE DEF s
<1> QED BY <1>1, <1>2, <1>3, Zenon

LEMMA WithNext ==
  ASSUME NEW rec \in Recs
  PROVE  LET q == [rec EXCEPT !.it = @ + 1] IN
         q \in Recs /\ q.status = rec.status /\ q.it = rec.it + 1 /\ q.owner = rec.owner /\ q.run = rec.run
<1>1. rec.it + 1 \in Nat
  BY RecParts, SMT
<1> QED BY <1>1, SMT DEF Recs

LEMMA WithLast ==
  ASSUME NEW rec \in Recs
  PROVE  [[rec EXCEPT !.it = @ + 1] EXCEPT !.status = "completed"]
           = [rec EXCEPT !.it = @ + 1, !.status = "completed"]
<1>1. ASSUME NEW k, NEW st
      PROVE  [[rec EXCEPT !.it = k] EXCEPT !.status = st] = [rec EXCEPT !.it = k, !.status = st]
  BY SMT DEF Recs
<1>2. [[rec EXCEPT !.it = rec.it + 1] EXCEPT !.status = "completed"]
        = [rec EXCEPT !.it = rec.it + 1, !.status = "completed"]
  BY <1>1, Zenon
<1> QED BY <1>2, Zenon

LEMMA StageStarts ==
  /\ LET s == <<"text", "save", "sync", "prompt">> IN
       Head(s) = "text" /\ Tail(s) = <<"save", "sync", "prompt">> /\ Tail(s) \in Seq(OpStages)
  /\ LET s == <<"text", "save", "prompt">> IN
       Head(s) = "text" /\ Tail(s) = <<"save", "prompt">> /\ Tail(s) \in Seq(OpStages)
  /\ LET s == <<"save", "sync">> IN
       Head(s) = "save" /\ Tail(s) = <<"sync">> /\ Tail(s) \in Seq(OpStages)
  /\ LET s == <<"save">> IN
       Head(s) = "save" /\ Tail(s) = <<>> /\ Tail(s) \in Seq(OpStages)
  /\ LET s == <<"save", "prompt">> IN
       Head(s) = "save" /\ Tail(s) = <<"prompt">> /\ Tail(s) \in Seq(OpStages)
  /\ LET s == <<"fetch", "keep_text", "keep", "drop", "drop_text", "sync">> IN
       Head(s) = "fetch" /\ Tail(s) = <<"keep_text", "keep", "drop", "drop_text", "sync">>
       /\ Tail(s) \in Seq(OpStages)
  /\ LET s == <<"drop", "drop_text", "sync">> IN
       Head(s) = "drop" /\ Tail(s) = <<"drop_text", "sync">> /\ Tail(s) \in Seq(OpStages)
<1>0. {"text", "save", "sync", "prompt", "fetch", "keep_text", "keep", "drop", "drop_text"} \subseteq OpStages
  BY StageTypes
<1> QED BY <1>0, SMT

\* The first of a set of loops is one of them.
LEMMA FirstOf ==
  ASSUME NEW S, S \subseteq Nat, S # {}
  PROVE  Min(S) \in S /\ \A y \in S : Min(S) <= y
<1>1. PICK m \in S : \A y \in S : <<y, m>> \notin OpToRel(<, Nat)
  BY WFMin, NatLessThanWellFounded, Zenon
<1>2. ASSUME NEW y \in S
      PROVE  m <= y
  <2>1. y \in Nat /\ m \in Nat
    OBVIOUS
  <2>2. ~(y < m)
    BY <1>1, <2>1, Zenon DEF OpToRel
  <2> QED BY <2>1, <2>2, SMT
<1>3. \E x \in S : \A y \in S : x <= y
  BY <1>2
<1> QED BY <1>3, Zenon DEF Min

LEMMA CurrentFacts ==
  ASSUME LoopsTypeOK, NEW a \in Sessions
  PROVE  /\ CurrentOf(a) \in Loops \cup {NoLoop}
         /\ CurrentOf(a) # NoLoop => CurrentOf(a) \in Loops /\ Mine(a, CurrentOf(a))
<1> DEFINE S == {n \in Loops : Mine(a, n)}
<1>1. S \subseteq Nat /\ S \subseteq Loops
  BY LoopNames
<1>2. current[a] \in Loops \cup {NoLoop}
  BY ActorTypes
<1>3. CASE current[a] # NoLoop /\ Mine(a, current[a])
  BY <1>2, <1>3, Zenon DEF CurrentOf
<1>4. CASE ~(current[a] # NoLoop /\ Mine(a, current[a])) /\ \E n \in Loops : Mine(a, n)
  <2>1. CurrentOf(a) = Min(S)
    BY <1>4, Zenon DEF CurrentOf
  <2>2. S # {}
    BY <1>4
  <2>3. Min(S) \in S
    BY <1>1, <2>2, FirstOf, Zenon
  <2> QED BY <2>1, <2>3
<1>5. CASE ~(current[a] # NoLoop /\ Mine(a, current[a])) /\ ~\E n \in Loops : Mine(a, n)
  BY <1>5, Zenon DEF CurrentOf
<1> QED BY <1>3, <1>4, <1>5, Zenon

LEMMA PointsType ==
  ASSUME AgentTypes, NEW a \in Sessions, NEW n \in Loops \cup {NoLoop}, Points(a, n),
         UNCHANGED <<queue, ghosts>>
  PROVE  AgentTypes'
PROOF BY DEF AgentTypes, Points, ghosts

LEMMA PlacesOf ==
  ASSUME RalphInv, NEW a \in Sessions
  PROVE  /\ pc[a] \in Resting \cup {"dead"} => op[a] = NoOp
         /\ pc[a] \in OpStages => op[a].loop \in Loops
<1>1. ShapeOf(op[a], pc[a])
  BY DEF RalphInv, OpOK
<1> QED BY <1>1, StageTypes DEF ShapeOf

LEMMA MoveGrows ==
  ASSUME LoopsTypeOK, Move
  PROVE  MovesGrow /\ moves' = moves + 1 /\ breaks' \in Nat
PROOF BY SMT DEF LoopsTypeOK, Move, MovesGrow

LEMMA CountsStay ==
  ASSUME LoopsTypeOK, UNCHANGED counts
  PROVE  MovesGrow /\ breaks' \in Nat /\ moves' = moves
PROOF BY SMT DEF LoopsTypeOK, counts, MovesGrow

LEMMA StartLoadKeeps ==
  ASSUME RalphInv, NEW a \in Sessions, NEW n \in Loops, StartLoad(a, n)
  PROVE  RalphInv'
<1> DEFINE rec == [status |-> "active", it |-> 1, owner |-> a, run |-> moves + 2]
<1>0. LoopsTypeOK /\ AgentTypes /\ moves \in Nat
  BY DEF RalphInv, LoopsTypeOK
<1>1. /\ pc[a] \in {"idle", "call"} /\ live[n].status \in {"none", "completed"}
      /\ BeginOp(a, "start", n, rec, <<"text", "save">> \o Synced(pc[a]) \o <<"prompt">>, pc[a])
  BY DEF StartLoad
<1>2. MovesGrow /\ moves' = moves + 1 /\ breaks' \in Nat
  BY <1>0, MoveGrows DEF StartLoad
<1>3. UNCHANGED <<files, promised>> /\ AgentTypes'
  BY <1>0 DEF StartLoad, Untouched, AgentTypes, ghosts
<1>4. rec \in Recs /\ rec.status = "active" /\ rec.it = 1 /\ rec.run = moves + 2
  <2>1. moves + 2 \in Nat
    BY <1>0, SMT
  <2> QED BY <2>1, NewRecord
<1>5. HasIteration(rec) /\ rec.run <= moves' + 1 /\ Due("start", live[n], rec)
  <2>0. live[n].run \in Nat /\ live[n].run <= moves + 1
    BY <1>0, LoopTypes, RecParts DEF RalphInv, LoopOK
  <2>1. Limit > 0 => 1 <= Limit
    BY LoopNames, SMT
  <2>2. HasIteration(rec)
    BY <1>4, <2>1 DEF HasIteration
  <2>3. rec.run <= moves' + 1 /\ rec.run > live[n].run
    <3> HIDE DEF rec
    <3> QED BY <1>0, <1>2, <1>4, <2>0, SMT
  <2>4. Due("start", live[n], rec)
    BY <1>1, <1>4, <2>3 DEF Due
  <2> QED BY <2>2, <2>3, <2>4
<1>6. "start" \in Kinds /\ "start" # "none" /\ pc[a] \in Resting
  BY <1>1 DEF Kinds, Resting
<1> HIDE DEF rec
<1>7. CASE pc[a] = "idle"
  <2>1. BeginOp(a, "start", n, rec, <<"text", "save", "sync", "prompt">>, pc[a])
    BY <1>1, <1>7, StageLists
  <2>2. ShapeOf(NewOp("start", n, rec, <<"save", "sync", "prompt">>, pc[a]), "text")
    BY <1>7 DEF ShapeOf, NewOp, OpStages
  <2> QED BY <1>0, <1>2, <1>3, <1>4, <1>5, <1>6, <2>1, <2>2, BegunKeeps, StageStarts
<1>8. CASE pc[a] = "call"
  <2>1. BeginOp(a, "start", n, rec, <<"text", "save", "prompt">>, pc[a])
    BY <1>1, <1>8, StageLists
  <2>2. ShapeOf(NewOp("start", n, rec, <<"save", "prompt">>, pc[a]), "text")
    BY <1>8 DEF ShapeOf, NewOp, OpStages
  <2> QED BY <1>0, <1>2, <1>3, <1>4, <1>5, <1>6, <2>1, <2>2, BegunKeeps, StageStarts
<1> QED BY <1>1, <1>7, <1>8

LEMMA CompletesKeeps ==
  ASSUME RalphInv, NEW a \in Sessions, NEW n \in Loops, NEW back \in Resting,
         live[n].status # "none", Completes(a, n, back),
         MovesGrow, breaks' \in Nat, UNCHANGED <<files, promised>>, AgentTypes'
  PROVE  RalphInv'
<1> DEFINE rec == [live[n] EXCEPT !.status = "completed"]
<1>0. LoopsTypeOK /\ moves \in Nat /\ moves' \in Nat /\ moves <= moves' /\ live[n] \in Recs
  BY LoopTypes DEF RalphInv, LoopsTypeOK, MovesGrow
<1>1. BeginOp(a, "complete", n, rec, <<"save">> \o Synced(back), back)
  BY DEF Completes
<1>2. rec \in Recs /\ rec.status = "completed" /\ rec.run = live[n].run
  <2>1. "completed" \in Statuses
    BY DEF Statuses
  <2> QED BY <1>0, <2>1, WithStatus
<1>3. Due("complete", live[n], rec)
  BY DEF Due
<1> HIDE DEF rec
<1>4. HasIteration(rec)
  BY <1>2 DEF HasIteration
<1>5. rec.run <= moves' + 1
  <2>1. live[n].run \in Nat /\ live[n].run <= moves + 1
    BY <1>0, RecParts DEF RalphInv, LoopOK
  <2> QED BY <1>0, <1>2, <2>1, SMT
<1>6. "complete" \in Kinds \ {"none"} /\ "complete" \notin {"start", "advance"}
  BY DEF Kinds
<1>7. CASE back = "idle"
  <2>1. BeginOp(a, "complete", n, rec, <<"save", "sync">>, back)
    BY <1>1, <1>7, StageLists
  <2>2. ShapeOf(NewOp("complete", n, rec, <<"sync">>, back), "save")
    BY <1>7 DEF ShapeOf, NewOp, OpStages
  <2> QED BY <1>2, <1>3, <1>4, <1>5, <1>6, <2>1, <2>2, BegunKeeps, StageStarts
<1>8. CASE back # "idle"
  <2>0. back \in {"call", "after"}
    BY <1>8 DEF Resting
  <2>1. BeginOp(a, "complete", n, rec, <<"save">>, back)
    BY <1>1, <2>0, StageLists
  <2>2. ShapeOf(NewOp("complete", n, rec, <<>>, back), "save")
    BY <1>8 DEF ShapeOf, NewOp, OpStages
  <2> QED BY <1>2, <1>3, <1>4, <1>5, <1>6, <2>1, <2>2, BegunKeeps, StageStarts
<1> QED BY <1>7, <1>8

LEMMA ResumeLoadKeeps ==
  ASSUME RalphInv, NEW a \in Sessions, NEW n \in Loops, ResumeLoad(a, n)
  PROVE  RalphInv'
<1> DEFINE rec == [live[n] EXCEPT !.status = "active", !.owner = a]
<1>0. LoopsTypeOK /\ AgentTypes /\ moves \in Nat /\ live[n] \in Recs
  BY LoopTypes DEF RalphInv, LoopsTypeOK
<1>1. /\ live[n].status \in {"active", "paused"}
      /\ BeginOp(a, "resume", n, rec, <<"save", "sync">>, "idle")
  BY DEF ResumeLoad, CanResume
<1>2. MovesGrow /\ moves' = moves + 1 /\ breaks' \in Nat
  BY <1>0, MoveGrows DEF ResumeLoad
<1>3. UNCHANGED <<files, promised>> /\ AgentTypes'
  BY <1>0 DEF ResumeLoad, Untouched, AgentTypes, ghosts
<1>4. rec \in Recs /\ rec.status = "active" /\ rec.it = live[n].it /\ rec.owner = a /\ rec.run = live[n].run
  <2>1. rec = Adopted(live[n], a)
    BY DEF Adopted
  <2> HIDE DEF rec
  <2> QED BY <1>0, <2>1, WithOwner
<1>5. Due("resume", live[n], rec)
  <2>1. rec = [live[n] EXCEPT !.status = "active", !.owner = rec.owner]
    <3>1. rec.owner = a
      BY <1>4
    <3> QED BY <3>1, Zenon
  <2> HIDE DEF rec
  <2> QED BY <1>1, <2>1 DEF Due
<1> HIDE DEF rec
<1>6. HasIteration(rec) /\ rec.run <= moves' + 1
  <2>1. live[n].run \in Nat /\ live[n].run <= moves + 1 /\ HasIteration(live[n])
    BY <1>0, RecParts DEF RalphInv, LoopOK
  <2>2. HasIteration(rec)
    BY <1>1, <1>4, <2>1 DEF HasIteration
  <2>3. rec.run <= moves' + 1
    BY <1>0, <1>2, <1>4, <2>1, SMT
  <2> QED BY <2>2, <2>3
<1>7. "resume" \in Kinds \ {"none"} /\ "resume" # "start" /\ "idle" \in Resting
  BY DEF Kinds, Resting
<1>8. ShapeOf(NewOp("resume", n, rec, <<"sync">>, "idle"), "save")
  BY DEF ShapeOf, NewOp, OpStages
<1> QED BY <1>1, <1>2, <1>3, <1>4, <1>5, <1>6, <1>7, <1>8, BegunKeeps, StageStarts

LEMMA StopsKeep ==
  ASSUME RalphInv, NEW a \in Sessions,
         (\E n \in Loops : StopLoad(a, n)) \/ StopCurrent(a)
  PROVE  RalphInv'
<1>0. LoopsTypeOK /\ AgentTypes /\ "idle" \in Resting
  BY DEF RalphInv, LoopsTypeOK, Resting
<1>1. ASSUME NEW n \in Loops, StopLoad(a, n)
      PROVE  RalphInv'
  <2>1. UNCHANGED <<files, promised>> /\ AgentTypes'
    BY <1>0, <1>1 DEF StopLoad, Untouched, AgentTypes, ghosts
  <2>2. MovesGrow /\ breaks' \in Nat
    BY <1>0, <1>1, MoveGrows DEF StopLoad
  <2>3. live[n].status # "none" /\ Completes(a, n, "idle")
    BY <1>1 DEF StopLoad
  <2> QED BY <1>0, <2>1, <2>2, <2>3, CompletesKeeps
<1>2. ASSUME StopCurrent(a)
      PROVE  RalphInv'
  <2> DEFINE n == CurrentOf(a)
  <2>0. n \in Loops /\ live[n].status = "active" /\ n \in Loops \cup {NoLoop}
    BY <1>0, <1>2, CurrentFacts DEF StopCurrent, Mine
  <2>1. UNCHANGED <<files, promised>> /\ AgentTypes'
    BY <1>0, <1>2, <2>0, PointsType DEF StopCurrent, Untouched
  <2>2. MovesGrow /\ breaks' \in Nat
    BY <1>0, <1>2, MoveGrows DEF StopCurrent
  <2>3. Completes(a, n, "idle")
    BY <1>2 DEF StopCurrent
  <2> HIDE DEF n
  <2> QED BY <1>0, <2>0, <2>1, <2>2, <2>3, CompletesKeeps
<1> QED BY <1>1, <1>2

LEMMA ArchiveLoadKeeps ==
  ASSUME RalphInv, NEW a \in Sessions, NEW n \in Loops, ArchiveLoad(a, n) \/ DeleteLoad(a, n)
  PROVE  RalphInv'
<1> DEFINE rec == live[n]
<1>0. LoopsTypeOK /\ AgentTypes /\ moves \in Nat /\ rec \in Recs
  BY LoopTypes DEF RalphInv, LoopsTypeOK
<1>1. rec.status # "none" /\ Move
  BY DEF ArchiveLoad, DeleteLoad
<1>2. MovesGrow /\ moves' = moves + 1 /\ breaks' \in Nat
  BY <1>0, <1>1, MoveGrows
<1>3. UNCHANGED <<files, promised>> /\ AgentTypes'
  BY <1>0 DEF ArchiveLoad, DeleteLoad, Untouched, AgentTypes, ghosts
<1>4. HasIteration(rec) /\ rec.run <= moves' + 1
  <2>1. rec.run \in Nat /\ rec.run <= moves + 1 /\ HasIteration(rec)
    BY <1>0, RecParts DEF RalphInv, LoopOK
  <2> HIDE DEF rec
  <2> QED BY <1>0, <1>2, <2>1, SMT
<1>5. "idle" \in Resting /\ "archive" \in Kinds \ {"none"} /\ "delete" \in Kinds \ {"none"}
      /\ "archive" \notin {"start", "advance"} /\ "delete" \notin {"start", "advance", "archive"}
  BY DEF Kinds, Resting
<1>6. CASE ArchiveLoad(a, n)
  <2>1. BeginOp(a, "archive", n, rec, <<"fetch", "keep_text", "keep", "drop", "drop_text", "sync">>, "idle")
    BY <1>6, StageLists DEF ArchiveLoad
  <2>2. ShapeOf(NewOp("archive", n, rec, <<"keep_text", "keep", "drop", "drop_text", "sync">>, "idle"), "fetch")
    BY DEF ShapeOf, NewOp, OpStages
  <2> HIDE DEF rec
  <2>3. rec = live[n]
    BY DEF rec
  <2>4. "fetch" \in {"text", "save", "fetch", "drop"} /\ "fetch" \notin {"text", "save", "drop"}
    OBVIOUS
  <2>5. /\ <<"keep_text", "keep", "drop", "drop_text", "sync">> \in Seq(OpStages)
        /\ Head(<<"fetch", "keep_text", "keep", "drop", "drop_text", "sync">>) = "fetch"
        /\ Tail(<<"fetch", "keep_text", "keep", "drop", "drop_text", "sync">>)
             = <<"keep_text", "keep", "drop", "drop_text", "sync">>
    BY StageStarts, Zenon
  <2> QED BY <1>0, <1>1, <1>2, <1>3, <1>4, <1>5, <2>1, <2>2, <2>3, <2>4, <2>5, BegunKeeps
<1>7. CASE DeleteLoad(a, n)
  <2>1. BeginOp(a, "delete", n, rec, <<"drop", "drop_text", "sync">>, "idle")
    BY <1>7 DEF DeleteLoad
  <2>2. ShapeOf(NewOp("delete", n, rec, <<"drop_text", "sync">>, "idle"), "drop")
    BY DEF ShapeOf, NewOp, OpStages
  <2> HIDE DEF rec
  <2>3. rec = live[n]
    BY DEF rec
  <2> QED BY <1>0, <1>1, <1>2, <1>3, <1>4, <1>5, <2>1, <2>2, <2>3, BegunKeeps, StageStarts
<1> QED BY <1>6, <1>7

LEMMA IterateKeeps ==
  ASSUME RalphInv, NEW a \in Sessions, NEW n \in Loops, live[n].status = "active", Iterate(a, n),
         MovesGrow, breaks' \in Nat, UNCHANGED <<files, promised>>, AgentTypes'
  PROVE  RalphInv'
<1> DEFINE next == [live[n] EXCEPT !.it = @ + 1]
           last == [next EXCEPT !.status = "completed"]
<1>0. LoopsTypeOK /\ moves \in Nat /\ moves' \in Nat /\ moves <= moves' /\ live[n] \in Recs /\ Limit \in Nat
  BY LoopTypes, LoopNames DEF RalphInv, LoopsTypeOK, MovesGrow
<1>1. next \in Recs /\ next.status = "active" /\ next.it = live[n].it + 1 /\ next.run = live[n].run
  BY <1>0, WithNext
<1>2. live[n].run \in Nat /\ live[n].it \in Nat /\ live[n].run <= moves + 1 /\ (Limit > 0 => live[n].it <= Limit)
  BY <1>0, RecParts DEF RalphInv, LoopOK, HasIteration
<1>3. "call" \in Resting /\ "complete" \in Kinds \ {"none"} /\ "advance" \in Kinds \ {"none"}
      /\ "complete" \notin {"start", "advance"} /\ "advance" # "start"
  BY DEF Kinds, Resting
<1>4. CASE Limit > 0 /\ next.it > Limit
  <2>1. BeginOp(a, "complete", n, last, <<"save">>, "call")
    BY <1>4, Zenon DEF Iterate
  <2>2. last = [live[n] EXCEPT !.it = @ + 1, !.status = "completed"]
    BY <1>0, WithLast
  <2>3. last \in Recs /\ last.status = "completed" /\ last.run = live[n].run
    <3>1. "completed" \in Statuses
      BY DEF Statuses
    <3> HIDE DEF next
    <3> QED BY <1>1, <3>1, WithStatus
  <2>4. live[n].it = Limit
    <3> HIDE DEF next
    <3> QED BY <1>0, <1>1, <1>2, <1>4, SMT
  <2>5. Due("complete", live[n], last)
    <3> HIDE DEF last
    <3> QED BY <1>4, <2>2, <2>4, Zenon DEF Due
  <2> HIDE DEF last, next
  <2>6. HasIteration(last) /\ last.run <= moves' + 1
    <3>1. HasIteration(last)
      BY <2>3 DEF HasIteration
    <3> QED BY <1>0, <1>2, <2>3, <3>1, SMT
  <2>7. ShapeOf(NewOp("complete", n, last, <<>>, "call"), "save")
    BY DEF ShapeOf, NewOp, OpStages
  <2> QED BY <1>3, <2>1, <2>3, <2>5, <2>6, <2>7, BegunKeeps, StageStarts
<1>5. CASE ~(Limit > 0 /\ next.it > Limit)
  <2>1. BeginOp(a, "advance", n, next, <<"save", "prompt">>, "call")
    BY <1>5, Zenon DEF Iterate
  <2>2. Limit = 0 \/ live[n].it < Limit
    <3> HIDE DEF next
    <3> QED BY <1>0, <1>1, <1>2, <1>5, SMT
  <2>3. Due("advance", live[n], next)
    BY <2>2, Zenon DEF Due
  <2> HIDE DEF next
  <2>4. HasIteration(next) /\ next.run <= moves' + 1
    <3>1. HasIteration(next)
      BY <1>0, <1>1, <1>2, <1>5, <2>2, SMT DEF HasIteration
    <3> QED BY <1>0, <1>1, <1>2, <3>1, SMT
  <2>5. ShapeOf(NewOp("advance", n, next, <<"prompt">>, "call"), "save")
    BY DEF ShapeOf, NewOp, OpStages
  <2> QED BY <1>1, <1>3, <2>1, <2>3, <2>4, <2>5, BegunKeeps, StageStarts
<1> QED BY <1>4, <1>5

\* Nobody is in an operation more or less; a place, a queue or the history may change.
LEMMA QuietKeeps ==
  ASSUME RalphInv, NEW a \in Sessions, MovesGrow, breaks' \in Nat,
         UNCHANGED <<files, promised, crossed, op>>, AgentTypes',
         \/ pc' = pc
         \/ \E to \in Resting \cup {"dead"} : pc[a] \in Resting /\ pc' = [pc EXCEPT ![a] = to]
  PROVE  RalphInv'
<1>0. LoopsTypeOK /\ pc \in [Sessions -> Places] /\ op \in [Sessions -> Ops]
  BY DEF RalphInv, LoopsTypeOK
<1>1. CASE pc' = pc
  <2>1. OpOK(a)'
    <3>1. pc[a] \in OpStages => FilesKept(op[a].loop)
      BY DEF files, FilesKept
    <3>2. op[a] \in Ops /\ OpOK(a) /\ op'[a] = op[a] /\ pc'[a] = pc[a]
      BY <1>0, <1>1 DEF RalphInv
    <3> QED BY <3>1, <3>2, SameKeeps
  <2>2. OthersStay(a)
    BY <1>1 DEF OthersStay
  <2> QED BY <1>0, <1>1, <2>1, <2>2, PassiveKeeps
<1>2. ASSUME NEW to \in Resting \cup {"dead"}, pc[a] \in Resting, pc' = [pc EXCEPT ![a] = to]
      PROVE  RalphInv'
  <2>1. to \in Places /\ to \notin OpStages
    BY StageTypes
  <2>2. op'[a] = NoOp /\ pc'[a] = to
    BY <1>0, <1>2, PlacesOf
  <2>3. OpOK(a)'
    BY <2>1, <2>2, AtRest
  <2>4. OthersStay(a) /\ pc' \in [Sessions -> Places]
    BY <1>0, <1>2, <2>1 DEF OthersStay
  <2> QED BY <1>0, <2>3, <2>4, PassiveKeeps
<1> QED BY <1>1, <1>2

\* An operation that is over.
LEMMA LeaveKeeps ==
  ASSUME RalphInv, NEW a \in Sessions, MovesGrow, breaks' \in Nat,
         UNCHANGED <<files, promised, crossed>>, AgentTypes',
         NEW to \in Resting \cup {"dead"}, LeaveOp(a, to)
  PROVE  RalphInv'
<1>0. LoopsTypeOK /\ pc \in [Sessions -> Places] /\ op \in [Sessions -> Ops]
  BY DEF RalphInv, LoopsTypeOK
<1>1. to \in Places /\ to \notin OpStages /\ NoOp \in Ops
  BY StageTypes, NoOpType
<1>2. op'[a] = NoOp /\ pc'[a] = to /\ pc' \in [Sessions -> Places] /\ op' \in [Sessions -> Ops]
      /\ OthersStay(a)
  BY <1>0, <1>1 DEF LeaveOp, OthersStay
<1>3. OpOK(a)'
  BY <1>1, <1>2, AtRest
<1> QED BY <1>2, <1>3, PassiveKeeps

\* One that goes on without a file written.
LEMMA NextKeeps ==
  ASSUME RalphInv, NEW a \in Sessions, MovesGrow, breaks' \in Nat,
         UNCHANGED <<files, promised, crossed>>, AgentTypes',
         pc[a] \in {"sync", "prompt"}, NextStage(a)
  PROVE  RalphInv'
<1>0. LoopsTypeOK /\ pc \in [Sessions -> Places] /\ op \in [Sessions -> Ops] /\ op[a] \in Ops /\ OpOK(a)
  BY DEF RalphInv, LoopsTypeOK
<1>1. pc[a] \in OpStages
  BY DEF OpStages
<1>2. pc' = [pc EXCEPT ![a] = NextPlace(op[a])] /\ op' = [op EXCEPT ![a] = Pop(op[a])]
  BY DEF NextStage
<1>3. pc'[a] = NextPlace(op[a]) /\ op'[a] = Pop(op[a])
  BY <1>0, <1>2
<1>4. pc'[a] \in OpStages => pc[a] = "sync" /\ op[a].kind = "start" /\ pc'[a] = "prompt"
  <2>1. ShapeOf(op[a], pc[a])
    BY <1>0 DEF OpOK
  <2>2. LET q == NextPlace(op[a]) IN
        /\ pc[a] = "sync" => q = "prompt" \/ q \in Resting
        /\ pc[a] = "sync" /\ q = "prompt" => op[a].kind = "start"
        /\ pc[a] = "prompt" => q \in Resting
    BY <1>0, <1>1, <2>1, ShapeGoes
  <2> QED BY <1>3, <2>2, StageTypes
<1>5. pc'[a] \in OpStages /\ SameOp(op[a], op'[a]) /\ ~op[a].stale => Fresh(a)'
  <2> SUFFICES ASSUME pc'[a] \in OpStages, SameOp(op[a], op'[a]), ~op[a].stale
               PROVE  Fresh(a)'
    OBVIOUS
  <2>1. Fresh(a)
    BY <1>0, <1>1 DEF OpOK
  <2>2. live[op[a].loop] = op[a].rec
    BY <1>4, <2>1 DEF Fresh
  <2>3. live'[op'[a].loop] = op'[a].rec
    BY <2>2 DEF SameOp, files
  <2> QED BY <1>4, <2>3 DEF Fresh
<1>6. OpOK(a)' /\ op'[a] \in Ops /\ pc'[a] \in Places
  BY <1>0, <1>1, <1>3, <1>5, GoneOn
<1>7. OthersStay(a) /\ pc' \in [Sessions -> Places] /\ op' \in [Sessions -> Ops]
  BY <1>0, <1>2, <1>3, <1>6 DEF OthersStay
<1> QED BY <1>6, <1>7, PassiveKeeps

-----------------------------------------------------------------------------
(* The agent's steps.                                                      *)
LEMMA PromptType ==
  ASSUME NEW n \in Loops, NEW rec \in Recs
  PROVE  PromptOf(n, rec) \in Prompts
<1>1. rec.run \in Nat /\ rec.it \in Nat
  BY RecParts
<1> QED BY <1>1, SMT DEF PromptOf, Prompts

LEMMA QueuedType ==
  ASSUME NEW q \in Seq(Prompts)
  PROVE  /\ ToSet(q) \subseteq Prompts /\ <<>> \in Seq(Prompts)
         /\ q # <<>> => Head(q) \in Prompts /\ Tail(q) \in Seq(Prompts)
         /\ \A p \in Prompts : Append(q, p) \in Seq(Prompts)
<1>1. ToSet(q) \subseteq Prompts
  <2>1. \A i \in DOMAIN q : q[i] \in Prompts
    BY SMT
  <2> QED BY <2>1, Zenon DEF ToSet
<1>2. <<>> \in Seq(Prompts) /\ (q # <<>> => Head(q) \in Prompts /\ Tail(q) \in Seq(Prompts))
      /\ \A p \in Prompts : Append(q, p) \in Seq(Prompts)
  BY SMT
<1> QED BY <1>1, <1>2

LEMMA QueueType ==
  ASSUME AgentTypes, NEW a \in Sessions, NEW q \in Seq(Prompts),
         queue' = [queue EXCEPT ![a] = q], worked' \subseteq Prompts, lost' \subseteq Prompts,
         current' = current \/ current' = [current EXCEPT ![a] = NoLoop]
  PROVE  AgentTypes'
PROOF BY DEF AgentTypes

LEMMA UserPromptKeeps ==
  ASSUME RalphInv, NEW s \in Sessions, UserPrompt(s)
  PROVE  RalphInv'
<1>0. LoopsTypeOK /\ AgentTypes
  BY DEF RalphInv, LoopsTypeOK
<1>1. MovesGrow /\ breaks' \in Nat
  BY <1>0, MoveGrows DEF UserPrompt
<1>2. UNCHANGED <<files, promised, crossed, op>> /\ pc[s] \in Resting /\ pc' = [pc EXCEPT ![s] = "call"]
      /\ "call" \in Resting \cup {"dead"}
  BY DEF UserPrompt, Goes, Untouched, Resting
<1>3. AgentTypes'
  BY <1>0, CurrentFacts, PointsType DEF UserPrompt, Untouched
<1> QED BY <1>1, <1>2, <1>3, QuietKeeps

LEMMA DeliverKeeps ==
  ASSUME RalphInv, NEW s \in Sessions, Deliver(s)
  PROVE  RalphInv'
<1>0. LoopsTypeOK /\ AgentTypes /\ queue[s] \in Seq(Prompts)
  BY DEF RalphInv, LoopsTypeOK, AgentTypes
<1>1. MovesGrow /\ breaks' \in Nat
  BY <1>0, MoveGrows DEF Deliver
<1>2. UNCHANGED <<files, promised, crossed, op>> /\ pc[s] \in Resting /\ pc' = [pc EXCEPT ![s] = "call"]
      /\ "call" \in Resting \cup {"dead"}
  BY DEF Deliver, Goes, Resting
<1>3. AgentTypes'
  <2>1. Head(queue[s]) \in Prompts /\ Tail(queue[s]) \in Seq(Prompts)
    BY <1>0, QueuedType DEF Deliver
  <2>2. queue' = [queue EXCEPT ![s] = Tail(queue[s])] /\ current' = current
    BY DEF Deliver
  <2>3. worked' \subseteq Prompts /\ lost' \subseteq Prompts
    BY <1>0, <2>1 DEF Deliver, AgentTypes
  <2> QED BY <1>0, <2>1, <2>2, <2>3, QueueType
<1> QED BY <1>1, <1>2, <1>3, QuietKeeps

LEMMA TurnKeeps ==
  ASSUME RalphInv, NEW s \in Sessions, Continue(s) \/ RunStops(s) \/ TurnFails(s)
  PROVE  RalphInv'
<1>0. LoopsTypeOK /\ AgentTypes
  BY DEF RalphInv, LoopsTypeOK
<1>1. MovesGrow /\ breaks' \in Nat
  BY <1>0, MoveGrows, CountsStay DEF Continue, RunStops, TurnFails
<1>2. UNCHANGED <<files, promised, crossed, op, current, queue, worked, lost>> /\ pc[s] \in Resting
      /\ \E to \in {"call", "idle"} : pc' = [pc EXCEPT ![s] = to]
  BY DEF Continue, RunStops, TurnFails, Goes, Untouched, Resting, ghosts
<1>3. AgentTypes' /\ {"call", "idle"} \subseteq Resting \cup {"dead"}
  BY <1>0, <1>2 DEF AgentTypes, Resting
<1> QED BY <1>1, <1>2, <1>3, QuietKeeps

LEMMA QueueClearedKeeps ==
  ASSUME RalphInv, NEW s \in Sessions, QueueCleared(s)
  PROVE  RalphInv'
<1>0. LoopsTypeOK /\ AgentTypes /\ queue[s] \in Seq(Prompts)
  BY DEF RalphInv, LoopsTypeOK, AgentTypes
<1>1. MovesGrow /\ breaks' \in Nat
  BY <1>0, MoveGrows DEF QueueCleared
<1>2. UNCHANGED <<files, promised, crossed, op>> /\ pc' = pc
  BY DEF QueueCleared
<1>3. AgentTypes'
  <2>1. <<>> \in Seq(Prompts) /\ ToSet(queue[s]) \subseteq Prompts
    BY <1>0, QueuedType
  <2>2. queue' = [queue EXCEPT ![s] = <<>>] /\ current' = current
    BY DEF QueueCleared
  <2>3. worked' \subseteq Prompts /\ lost' \subseteq Prompts
    BY <1>0, <2>1 DEF QueueCleared, AgentTypes
  <2> QED BY <1>0, <2>1, <2>2, <2>3, QueueType
<1> QED BY <1>1, <1>2, <1>3, QuietKeeps

LEMMA RalphDoneKeeps ==
  ASSUME RalphInv, NEW s \in Sessions, RalphDone(s)
  PROVE  RalphInv'
<1> DEFINE n == CurrentOf(s)
<1>0. LoopsTypeOK /\ AgentTypes
  BY DEF RalphInv, LoopsTypeOK
<1>1. MovesGrow /\ breaks' \in Nat
  BY <1>0, MoveGrows DEF RalphDone
<1>2. n \in Loops \cup {NoLoop} /\ (n # NoLoop => n \in Loops /\ live[n].status = "active")
  BY <1>0, CurrentFacts DEF Mine
<1>3. UNCHANGED <<files, promised>> /\ AgentTypes'
  BY <1>0, <1>2, PointsType DEF RalphDone, Untouched
<1>4. \/ UNCHANGED <<pc, op, crossed>>
      \/ n # NoLoop /\ Iterate(s, n)
  BY DEF RalphDone
<1> HIDE DEF n
<1>5. CASE UNCHANGED <<pc, op, crossed>>
  BY <1>1, <1>3, <1>5, QuietKeeps
<1>6. CASE n # NoLoop /\ Iterate(s, n)
  BY <1>1, <1>2, <1>3, <1>6, IterateKeeps
<1> QED BY <1>4, <1>5, <1>6

LEMMA TurnEndsKeeps ==
  ASSUME RalphInv, NEW s \in Sessions, TurnEnds(s)
  PROVE  RalphInv'
<1> DEFINE n == CurrentOf(s)
<1>0. LoopsTypeOK /\ AgentTypes /\ "after" \in Resting
  BY DEF RalphInv, LoopsTypeOK, Resting
<1>1. MovesGrow /\ breaks' \in Nat
  BY <1>0, CountsStay DEF TurnEnds
<1>2. n \in Loops \cup {NoLoop} /\ (n # NoLoop => n \in Loops /\ live[n].status = "active")
  BY <1>0, CurrentFacts DEF Mine
<1>3. UNCHANGED <<files, promised>> /\ AgentTypes'
  BY <1>0, <1>2, PointsType DEF TurnEnds, Untouched
<1>4. \/ Goes(s, "after") /\ UNCHANGED crossed
      \/ n # NoLoop /\ Completes(s, n, "after")
  BY DEF TurnEnds
<1> HIDE DEF n
<1>5. CASE Goes(s, "after") /\ UNCHANGED crossed
  <2>1. pc[s] \in Resting /\ UNCHANGED op /\ pc' = [pc EXCEPT ![s] = "after"] /\ UNCHANGED crossed
    BY <1>5 DEF TurnEnds, Goes, Resting
  <2> QED BY <1>0, <1>1, <1>3, <2>1, QuietKeeps
<1>6. CASE n # NoLoop /\ Completes(s, n, "after")
  BY <1>0, <1>1, <1>2, <1>3, <1>6, CompletesKeeps
<1> QED BY <1>4, <1>5, <1>6

LEMMA DiesKeeps ==
  ASSUME RalphInv, NEW a \in Sessions, Dies(a) \/ StageFails(a)
  PROVE  RalphInv'
<1>0. LoopsTypeOK /\ AgentTypes /\ queue[a] \in Seq(Prompts) /\ op[a] \in Ops
  BY DEF RalphInv, LoopsTypeOK, AgentTypes
<1>1. MovesGrow /\ breaks' \in Nat
  BY <1>0, SMT DEF LoopsTypeOK, Dies, StageFails, Break, MovesGrow
<1>2. UNCHANGED <<files, promised, crossed>>
      /\ \E to \in Resting \cup {"dead"} : LeaveOp(a, to)
  BY <1>0, OpParts DEF Dies, StageFails
<1>3. AgentTypes'
  <2>1. CASE Dies(a)
    <3>1. <<>> \in Seq(Prompts) /\ ToSet(queue[a]) \subseteq Prompts
      BY <1>0, QueuedType
    <3>2. queue' = [queue EXCEPT ![a] = <<>>] /\ current' = [current EXCEPT ![a] = NoLoop]
      BY <2>1 DEF Dies, Points
    <3>3. worked' \subseteq Prompts /\ lost' \subseteq Prompts
      BY <1>0, <2>1, <3>1 DEF Dies, AgentTypes
    <3> QED BY <1>0, <3>1, <3>2, <3>3, QueueType
  <2>2. CASE StageFails(a)
    BY <1>0, <2>2 DEF StageFails, AgentTypes, ghosts
  <2> QED BY <2>1, <2>2
<1> QED BY <1>1, <1>2, <1>3, LeaveKeeps

LEMMA SyncAgentKeeps ==
  ASSUME RalphInv, NEW a \in Sessions, SyncAgent(a)
  PROVE  RalphInv'
<1>0. LoopsTypeOK /\ AgentTypes
  BY DEF RalphInv, LoopsTypeOK
<1>1. MovesGrow /\ breaks' \in Nat
  BY <1>0, CountsStay DEF SyncAgent
<1>2. UNCHANGED <<files, promised, crossed>> /\ AgentTypes'
  BY <1>0, CurrentFacts, PointsType DEF SyncAgent, Untouched
<1> QED BY <1>1, <1>2, NextKeeps DEF SyncAgent

LEMMA HandOverKeeps ==
  ASSUME RalphInv, NEW a \in Sessions, HandOver(a)
  PROVE  RalphInv'
<1> DEFINE p == PromptOf(op[a].loop, op[a].rec)
<1>0. LoopsTypeOK /\ AgentTypes /\ queue[a] \in Seq(Prompts) /\ op[a] \in Ops
  BY DEF RalphInv, LoopsTypeOK, AgentTypes
<1>1. MovesGrow /\ breaks' \in Nat /\ UNCHANGED <<files, promised, crossed>>
  BY <1>0, CountsStay DEF HandOver
<1>2. pc[a] = "prompt" /\ pc[a] \in OpStages
  BY DEF HandOver, OpStages
<1>3. p \in Prompts
  <2>1. op[a].loop \in Loops /\ op[a].rec \in Recs
    BY <1>0, <1>2, PlacesOf, OpParts
  <2> QED BY <2>1, PromptType
<1>4. CASE op[a].back = "idle"
  <2>1. LeaveOp(a, "call") /\ worked' = worked \cup {p} /\ UNCHANGED <<queue, current, lost>>
    BY <1>4 DEF HandOver
  <2>2. AgentTypes' /\ "call" \in Resting \cup {"dead"}
    BY <1>0, <1>3, <2>1 DEF AgentTypes, Resting
  <2> QED BY <1>1, <2>1, <2>2, LeaveKeeps
<1>5. CASE op[a].back # "idle"
  <2>1. NextStage(a) /\ queue' = [queue EXCEPT ![a] = Append(queue[a], p)] /\ UNCHANGED <<worked, current, lost>>
    BY <1>5 DEF HandOver
  <2>2. AgentTypes'
    <3>1. Append(queue[a], p) \in Seq(Prompts)
      BY <1>0, <1>3, QueuedType
    <3>2. worked' \subseteq Prompts /\ lost' \subseteq Prompts /\ current' = current
      BY <1>0, <2>1 DEF AgentTypes
    <3> QED BY <1>0, <2>1, <3>1, <3>2, QueueType
  <2> QED BY <1>1, <1>2, <2>1, <2>2, NextKeeps
<1> QED BY <1>4, <1>5

\* The operation that pauses a loop whose task cannot be read.
Pausing(o) == [[o EXCEPT !.kind = "pause"] EXCEPT !.rec = [o.rec EXCEPT !.status = "paused"]]

LEMMA PausingType ==
  ASSUME NEW o \in Ops
  PROVE  /\ Pausing(o) \in Ops /\ Pausing(o).kind = "pause"
         /\ Pausing(o).rec = [o.rec EXCEPT !.status = "paused"]
         /\ Pausing(o).loop = o.loop /\ Pausing(o).rest = o.rest /\ Pausing(o).stale = o.stale
         /\ Pausing(o).rec \in Recs /\ Pausing(o).rec.status = "paused"
         /\ Pausing(o).rec.it = o.rec.it /\ Pausing(o).rec.run = o.rec.run
<1> DEFINE k == [o EXCEPT !.kind = "pause"]
           rec == [o.rec EXCEPT !.status = "paused"]
<1>1. "pause" \in Kinds /\ "paused" \in Statuses
  BY DEF Kinds, Statuses
<1>2. k \in Ops /\ k.kind = "pause" /\ k.loop = o.loop /\ k.rest = o.rest /\ k.stale = o.stale
  BY <1>1, SMT DEF Ops
<1>3. /\ rec \in Recs /\ rec.status = "paused" /\ rec.it = o.rec.it /\ rec.run = o.rec.run
  <2>1. o.rec \in Recs
    BY OpParts
  <2> QED BY <1>1, <2>1, WithStatus
<1>5. Pausing(o) = [k EXCEPT !.rec = rec]
  BY Zenon DEF Pausing
<1>6. rec = [o.rec EXCEPT !.status = "paused"]
  OBVIOUS
<1> HIDE DEF k, rec
<1>7. k \in Ops /\ rec \in Recs
  BY <1>2, <1>3
<1>8. LET q == [k EXCEPT !.rec = rec] IN
      /\ q \in Ops /\ q.rec = rec /\ q.kind = k.kind /\ q.loop = k.loop /\ q.rest = k.rest
      /\ q.stale = k.stale
  BY <1>7, OpRec DEF SameFields
<1> QED BY <1>2, <1>3, <1>5, <1>6, <1>8, Zenon

LEMMA NoTaskKeeps ==
  ASSUME RalphInv, NEW a \in Sessions, NoTask(a)
  PROVE  RalphInv'
<1> DEFINE o == Pausing(op[a])
<1>0. /\ LoopsTypeOK /\ AgentTypes /\ op[a] \in Ops /\ op[a].rec \in Recs /\ OpOK(a) /\ moves \in Nat
      /\ op \in [Sessions -> Ops] /\ pc \in [Sessions -> Places]
  BY OpParts DEF RalphInv, LoopsTypeOK
<1>1. MovesGrow /\ breaks' \in Nat /\ moves' = moves /\ UNCHANGED <<files, promised, crossed>> /\ AgentTypes'
  BY <1>0, CountsStay DEF NoTask, AgentTypes, ghosts
<1>2. pc[a] = "prompt" /\ pc[a] \in OpStages
  BY DEF NoTask, OpStages
<1>3. CASE op[a].kind = "start"
  <2>1. LeaveOp(a, "idle") /\ "idle" \in Resting \cup {"dead"}
    BY <1>3 DEF NoTask, Resting
  <2> QED BY <1>1, <2>1, LeaveKeeps
<1>4. CASE op[a].kind # "start"
  <2>1. pc' = [pc EXCEPT ![a] = "save"] /\ op' = [op EXCEPT ![a] = o]
    <3>1. op' = [op EXCEPT ![a].kind = "pause", ![a].rec.status = "paused"]
      BY <1>4 DEF NoTask
    <3>2. op' = [op EXCEPT ![a] = o]
      BY <1>0, <3>1 DEF Pausing
    <3> QED BY <1>4, <3>2 DEF NoTask
  <2>2. /\ o \in Ops /\ o.kind = "pause" /\ o.loop = op[a].loop /\ o.rest = op[a].rest /\ o.stale = op[a].stale
        /\ o.rec \in Recs /\ o.rec.status = "paused" /\ o.rec.it = op[a].rec.it /\ o.rec.run = op[a].rec.run
        /\ o.rec = [op[a].rec EXCEPT !.status = "paused"]
    BY <1>0, PausingType
  <2> HIDE DEF o
  <2>3. pc'[a] = "save" /\ op'[a] = o /\ OthersStay(a)
    BY <1>0, <2>1 DEF OthersStay
  <2>4. pc' \in [Sessions -> Places] /\ op' \in [Sessions -> Ops]
    <3>1. "save" \in Places
      BY DEF Places, OpStages
    <3> QED BY <1>0, <2>1, <2>2, <3>1
  <2>5. op[a].rest = <<>> /\ op[a].kind = "advance" /\ op[a].rec.status = "active"
        /\ op[a].loop \in Loops /\ HasIteration(op[a].rec) /\ op[a].rec.run <= moves + 1
    BY <1>0, <1>2, <1>4 DEF OpOK, ShapeOf
  <2>6. ShapeOf(op'[a], pc'[a])
    BY <2>2, <2>3, <2>5 DEF ShapeOf, OpStages
  <2>7. HasIteration(op'[a].rec) /\ op'[a].rec.run <= moves' + 1
    <3>1. HasIteration(o.rec)
      BY <2>2, <2>5 DEF HasIteration
    <3> QED BY <1>1, <2>2, <2>3, <2>5, <3>1
  <2>8. ~op'[a].stale => Fresh(a)'
    <3> SUFFICES ASSUME ~op'[a].stale
                 PROVE  Fresh(a)'
      OBVIOUS
    <3>1. live[op[a].loop] = op[a].rec
      BY <1>0, <1>2, <2>2, <2>3 DEF OpOK, Fresh
    <3>2. Due("pause", op[a].rec, o.rec)
      BY <2>2, <2>5 DEF Due
    <3>3. live'[op'[a].loop] = op[a].rec
      BY <1>1, <2>2, <2>3, <3>1 DEF files
    <3>4. Due(op'[a].kind, live'[op'[a].loop], op'[a].rec)
      BY <2>2, <2>3, <3>2, <3>3
    <3> QED BY <2>2, <2>3, <3>4 DEF Fresh, Due
  <2>9. OpOK(a)' <=> /\ ShapeOf(op'[a], pc'[a]) /\ HasIteration(op'[a].rec) /\ op'[a].rec.run <= moves' + 1
                     /\ op'[a].kind \in {"start", "advance"} => op'[a].rec.status = "active"
                     /\ pc'[a] \in OpStages /\ ~op'[a].stale => Fresh(a)'
    BY DEF OpOK, ShapeOf, HasIteration
  <2>10. OpOK(a)'
    BY <2>2, <2>3, <2>6, <2>7, <2>8, <2>9
  <2> QED BY <1>1, <2>3, <2>4, <2>10, PassiveKeeps
<1> QED BY <1>3, <1>4

LEMMA ArchiveReadKeeps ==
  ASSUME RalphInv, NEW a \in Sessions, ArchiveRead(a)
  PROVE  RalphInv'
<1>0. /\ LoopsTypeOK /\ AgentTypes /\ op[a] \in Ops /\ OpOK(a) /\ moves \in Nat
      /\ op \in [Sessions -> Ops] /\ pc \in [Sessions -> Places]
  BY DEF RalphInv, LoopsTypeOK
<1>1. MovesGrow /\ breaks' \in Nat /\ moves' = moves /\ UNCHANGED <<files, promised, crossed>> /\ AgentTypes'
  BY <1>0, CountsStay DEF ArchiveRead, Untouched, AgentTypes, ghosts
<1>2. pc[a] = "fetch" /\ pc[a] \in OpStages
  BY DEF ArchiveRead, OpStages
<1> DEFINE n == op[a].loop
<1>n. n \in Loops /\ task[n] \in Nat
  BY <1>0, <1>2, PlacesOf, LoopTypes
<1>3. CASE task[n] = NoText
  <2>1. LeaveOp(a, "idle") /\ "idle" \in Resting \cup {"dead"}
    BY <1>3 DEF ArchiveRead, Resting
  <2> QED BY <1>1, <2>1, LeaveKeeps
<1>4. CASE task[n] # NoText
  <2> DEFINE r == <<"keep", "drop", "drop_text", "sync">>
             k == [op[a] EXCEPT !.rest = r]
             o == [k EXCEPT !.text = task[n]]
  <2>0. op[a].kind = "archive" /\ op[a].rest = <<"keep_text", "keep", "drop", "drop_text", "sync">>
    BY <1>0, <1>2 DEF OpOK, ShapeOf
  <2>1. Head(op[a].rest) = "keep_text" /\ Tail(op[a].rest) = r /\ r \in Seq(OpStages)
    BY <2>0, StageHeads
  <2>2. pc' = [pc EXCEPT ![a] = "keep_text"] /\ op' = [op EXCEPT ![a] = o]
    <3>1. /\ pc' = [pc EXCEPT ![a] = Head(op[a].rest)]
          /\ op' = [op EXCEPT ![a].rest = Tail(op[a].rest), ![a].text = task[n]]
      BY <1>0, <1>4 DEF ArchiveRead
    <3> HIDE DEF r
    <3>2. op' = [op EXCEPT ![a].rest = r, ![a].text = task[n]]
      BY <2>1, <3>1
    <3>3. op' = [op EXCEPT ![a] = o]
      BY <1>0, <3>2
    <3> QED BY <2>1, <3>1, <3>3
  <2>3. /\ o \in Ops /\ o.kind = op[a].kind /\ o.loop = n /\ o.rest = r /\ o.stale = op[a].stale
        /\ o.rec = op[a].rec /\ o.text = task[n]
    <3>1. k \in Ops /\ k.kind = op[a].kind /\ k.loop = n /\ k.rest = r /\ k.stale = op[a].stale
          /\ k.rec = op[a].rec
      BY <1>0, <2>1, OpRest DEF SameOp
    <3>2. ASSUME NEW x \in Ops, NEW t \in Nat
          PROVE  LET q == [x EXCEPT !.text = t] IN
                 /\ q \in Ops /\ q.rec = x.rec /\ q.kind = x.kind /\ q.loop = x.loop /\ q.rest = x.rest
                 /\ q.stale = x.stale /\ q.text = t
      BY SMT DEF Ops
    <3> HIDE DEF k, r, n
    <3> QED BY <1>n, <3>1, <3>2
  <2> HIDE DEF o
  <2>4. pc'[a] = "keep_text" /\ op'[a] = o /\ OthersStay(a)
    BY <1>0, <2>2 DEF OthersStay
  <2>5. pc' \in [Sessions -> Places] /\ op' \in [Sessions -> Ops]
    <3>1. "keep_text" \in Places
      BY DEF Places, OpStages
    <3> QED BY <1>0, <2>2, <2>3, <3>1
  <2>6. ShapeOf(op'[a], pc'[a])
    BY <1>n, <2>0, <2>3, <2>4 DEF ShapeOf, OpStages
  <2>7. ~op'[a].stale => Fresh(a)'
    <3> SUFFICES ASSUME ~op'[a].stale
                 PROVE  Fresh(a)'
      OBVIOUS
    <3>1. live[n] = op[a].rec /\ op[a].rec.status # "none"
      BY <1>0, <1>2, <2>3, <2>4 DEF OpOK, Fresh
    <3>2. live'[n] = live[n] /\ task'[n] = task[n]
      BY <1>1 DEF files
    <3> QED BY <2>3, <2>4, <3>1, <3>2 DEF Fresh
  <2>8. OpOK(a)' <=> /\ ShapeOf(op'[a], pc'[a]) /\ HasIteration(op'[a].rec) /\ op'[a].rec.run <= moves' + 1
                     /\ op'[a].kind \in {"start", "advance"} => op'[a].rec.status = "active"
                     /\ pc'[a] \in OpStages /\ ~op'[a].stale => Fresh(a)'
    BY DEF OpOK, ShapeOf, HasIteration
  <2>9. OpOK(a)'
    BY <1>0, <1>1, <2>0, <2>3, <2>4, <2>6, <2>7, <2>8 DEF OpOK
  <2> QED BY <1>1, <2>4, <2>5, <2>9, PassiveKeeps
<1> QED BY <1>3, <1>4

-----------------------------------------------------------------------------
(* The steps that write.                                                   *)
LEMMA WroteMoves ==
  ASSUME RalphInv, NEW a \in Sessions, pc[a] \in OpStages, Wrote(a)
  PROVE  LET q == pc'[a] IN
         /\ op[a].loop \in Loops /\ crossed'[op[a].loop] = (crossed[op[a].loop] \/ op[a].stale)
         /\ pc[a] = "text" => q = "save"
         /\ pc[a] = "save" => q \in {"sync", "prompt"} \cup Resting
         /\ pc[a] = "keep_text" => q = "keep"
         /\ pc[a] = "keep" => q = "drop"
         /\ pc[a] = "drop" => q = "drop_text"
         /\ pc[a] = "drop_text" => q = "sync"
<1>0. /\ LoopsTypeOK /\ op[a] \in Ops /\ OpOK(a) /\ pc \in [Sessions -> Places] /\ crossed \in [Loops -> BOOLEAN]
      /\ op[a].loop \in Loops
  BY PlacesOf DEF RalphInv, LoopsTypeOK
<1>1. pc'[a] = NextPlace(op[a]) /\ crossed'[op[a].loop] = (crossed[op[a].loop] \/ op[a].stale)
  BY <1>0 DEF Wrote, Overtakes
<1>2. ShapeOf(op[a], pc[a])
  BY <1>0 DEF OpOK
<1>3. LET q == NextPlace(op[a]) IN
      /\ pc[a] = "text" => q = "save"
      /\ pc[a] = "save" => q \in {"sync", "prompt"} \cup Resting
      /\ pc[a] = "keep_text" => q = "keep"
      /\ pc[a] = "keep" => q = "drop"
      /\ pc[a] = "drop" => q = "drop_text"
      /\ pc[a] = "drop_text" => q = "sync"
  BY <1>0, <1>2, ShapeGoes
<1> QED BY <1>0, <1>1, <1>3

LEMMA WriteTaskKeeps ==
  ASSUME RalphInv, NEW a \in Sessions, WriteTask(a)
  PROVE  RalphInv'
<1> DEFINE o == op[a]
<1>0. LoopsTypeOK /\ FileTypes /\ AgentTypes /\ o \in Ops /\ o.rec \in Recs /\ OpOK(a) /\ moves \in Nat
  BY OpParts DEF RalphInv, LoopsTypeOK
<1>1. pc[a] = "text" /\ pc[a] \in OpStages /\ Wrote(a)
  BY DEF WriteTask, OpStages
<1>n. PICK n \in Loops : op[a].loop = n
  BY <1>1, WroteMoves
<1>2. n \in Loops /\ pc'[a] = "save" /\ crossed'[n] = (crossed[n] \/ o.stale)
  BY <1>1, <1>n, WroteMoves
<1>3. /\ task' = [task EXCEPT ![n] = o.rec.run] /\ promised' = [promised EXCEPT ![n] = 0]
      /\ UNCHANGED <<live, arch, archTask, current, queue, ghosts, counts>>
  BY <1>n DEF WriteTask
<1>r. o.rec.run \in Nat
  BY <1>0, RecParts
<1>4. FileTypes' /\ AgentTypes'
  BY <1>0, <1>2, <1>3, <1>r DEF FileTypes, AgentTypes, ghosts
<1>5. \A m \in Loops : m # n => FilesKept(m)
  BY <1>0, <1>2, <1>3 DEF FilesKept, FileTypes
<1>6. live'[n] = live[n] /\ task'[n] = o.rec.run /\ promised'[n] = 0 /\ moves' = moves
  BY <1>0, <1>2, <1>3 DEF FileTypes, counts
<1>7. SameOp(op[a], op'[a]) /\ ~op[a].stale => Fresh(a)'
  <2> SUFFICES ASSUME SameOp(op[a], op'[a]), ~op[a].stale
               PROVE  Fresh(a)'
    OBVIOUS
  <2>1. Due(o.kind, live[n], o.rec)
    BY <1>0, <1>1, <1>n DEF OpOK, Fresh
  <2>2. op'[a].kind = o.kind /\ op'[a].rec = o.rec /\ op'[a].loop = n
    BY <1>n DEF SameOp
  <2>3. Due(op'[a].kind, live'[op'[a].loop], op'[a].rec) /\ task'[op'[a].loop] = op'[a].rec.run
    BY <1>6, <2>1, <2>2
  <2> QED BY <1>2, <2>3 DEF Fresh, Due
<1>8. LoopOK(n)
  BY <1>2 DEF RalphInv
<1>9. n \in Loops /\ op[a].loop = n /\ UNCHANGED counts
  BY <1>2, <1>3, <1>n
<1>10. LoopOK(n)'
  BY <1>6, <1>8 DEF LoopOK, HasIteration
<1> QED BY <1>1, <1>4, <1>5, <1>7, <1>9, <1>10, WroteKeeps

LEMMA ArchiveTextKeeps ==
  ASSUME RalphInv, NEW a \in Sessions, ArchiveText(a)
  PROVE  RalphInv'
<1> DEFINE o == op[a]
<1>0. LoopsTypeOK /\ FileTypes /\ AgentTypes /\ o \in Ops /\ o.text \in Nat /\ OpOK(a) /\ moves \in Nat
  BY OpParts DEF RalphInv, LoopsTypeOK
<1>1. pc[a] = "keep_text" /\ pc[a] \in OpStages /\ Wrote(a)
  BY DEF ArchiveText, OpStages
<1>n. PICK n \in Loops : op[a].loop = n
  BY <1>1, WroteMoves
<1>2. n \in Loops /\ pc'[a] = "keep" /\ crossed'[n] = (crossed[n] \/ o.stale)
  BY <1>1, <1>n, WroteMoves
<1>3. /\ archTask' = [archTask EXCEPT ![n] = o.text]
      /\ UNCHANGED <<live, task, arch, current, queue, ghosts, promised, counts>>
  BY <1>n DEF ArchiveText
<1>4. FileTypes' /\ AgentTypes'
  BY <1>0, <1>2, <1>3 DEF FileTypes, AgentTypes, ghosts
<1>5. \A m \in Loops : m # n => FilesKept(m)
  BY <1>0, <1>2, <1>3 DEF FilesKept, FileTypes
<1>6. live'[n] = live[n] /\ task'[n] = task[n] /\ promised'[n] = promised[n] /\ archTask'[n] = o.text
      /\ moves' = moves
  BY <1>0, <1>2, <1>3 DEF FileTypes, counts
<1>s. ~op[a].stale => live[n] = o.rec /\ o.rec.status # "none" /\ (o.kind = "archive" => task[n] = o.text)
  BY <1>0, <1>1, <1>n DEF OpOK, Fresh
<1>7. SameOp(op[a], op'[a]) /\ ~op[a].stale => Fresh(a)'
  BY <1>2, <1>6, <1>n, <1>s DEF Fresh, SameOp
<1>8. LoopOK(n)
  BY <1>2 DEF RalphInv
<1>9. n \in Loops /\ op[a].loop = n /\ UNCHANGED counts
  BY <1>2, <1>3, <1>n
<1>10. LoopOK(n)'
  BY <1>2, <1>6, <1>8, <1>s DEF LoopOK, HasIteration, Whole
<1> QED BY <1>1, <1>4, <1>5, <1>7, <1>9, <1>10, WroteKeeps

LEMMA ArchiveRecordKeeps ==
  ASSUME RalphInv, NEW a \in Sessions, ArchiveRecord(a)
  PROVE  RalphInv'
<1> DEFINE o == op[a]
<1>0. LoopsTypeOK /\ FileTypes /\ AgentTypes /\ o \in Ops /\ o.rec \in Recs /\ OpOK(a) /\ moves \in Nat
  BY OpParts DEF RalphInv, LoopsTypeOK
<1>1. pc[a] = "keep" /\ pc[a] \in OpStages /\ Wrote(a)
  BY DEF ArchiveRecord, OpStages
<1>n. PICK n \in Loops : op[a].loop = n
  BY <1>1, WroteMoves
<1>2. n \in Loops /\ pc'[a] = "drop" /\ crossed'[n] = (crossed[n] \/ o.stale)
  BY <1>1, <1>n, WroteMoves
<1>3. /\ arch' = [arch EXCEPT ![n] = o.rec]
      /\ UNCHANGED <<live, task, archTask, current, queue, ghosts, promised, counts>>
  BY <1>n DEF ArchiveRecord
<1>4. FileTypes' /\ AgentTypes'
  BY <1>0, <1>2, <1>3 DEF FileTypes, AgentTypes, ghosts
<1>5. \A m \in Loops : m # n => FilesKept(m)
  BY <1>0, <1>2, <1>3 DEF FilesKept, FileTypes
<1>6. live'[n] = live[n] /\ task'[n] = task[n] /\ promised'[n] = promised[n] /\ archTask'[n] = archTask[n]
      /\ arch'[n] = o.rec /\ moves' = moves
  BY <1>0, <1>2, <1>3 DEF FileTypes, counts
<1>s. ~op[a].stale => /\ live[n] = o.rec /\ o.rec.status # "none"
                      /\ o.kind = "archive" => task[n] = o.text /\ archTask[n] = o.text
  BY <1>0, <1>1, <1>n DEF OpOK, Fresh
<1>7. SameOp(op[a], op'[a]) /\ ~op[a].stale => Fresh(a)'
  BY <1>2, <1>6, <1>n, <1>s DEF Fresh, SameOp
<1>8. LoopOK(n)
  BY <1>2 DEF RalphInv
<1>9. n \in Loops /\ op[a].loop = n /\ UNCHANGED counts
  BY <1>2, <1>3, <1>n
<1>10. LoopOK(n)'
  BY <1>2, <1>6, <1>8, <1>s DEF LoopOK, HasIteration, Whole
<1> QED BY <1>1, <1>4, <1>5, <1>7, <1>9, <1>10, WroteKeeps

\* A record that is changed, not started, keeps its run.
LEMMA DueFollows ==
  ASSUME NEW old \in Recs, NEW new \in Recs, NEW kind, kind # "start", Due(kind, old, new)
  PROVE  new.run = old.run /\ old.status # "none" /\ new.status # "none"
<1>1. CASE kind = "resume"
  <2>1. new = [old EXCEPT !.status = "active", !.owner = new.owner] /\ old.status \in {"active", "paused"}
    BY <1>1 DEF Due
  <2>2. ASSUME NEW w
        PROVE  LET q == [old EXCEPT !.status = "active", !.owner = w] IN q.run = old.run /\ q.status = "active"
    BY SMT DEF Recs
  <2> QED BY <2>1, <2>2
<1>2. CASE kind = "complete"
  <2>1. ASSUME new = [old EXCEPT !.status = "completed"]
        PROVE  new.run = old.run /\ new.status = "completed"
    BY <2>1, SMT DEF Recs
  <2>2. ASSUME NEW k, new = [old EXCEPT !.it = k, !.status = "completed"]
        PROVE  new.run = old.run /\ new.status = "completed"
    BY <2>2, SMT DEF Recs
  <2>3. /\ old.status # "none"
        /\ \/ new = [old EXCEPT !.status = "completed"]
           \/ \E k : new = [old EXCEPT !.it = k, !.status = "completed"]
    BY <1>2 DEF Due
  <2> QED BY <2>1, <2>2, <2>3
<1>3. CASE kind = "advance"
  <2>1. ASSUME NEW k, new = [old EXCEPT !.it = k]
        PROVE  new.run = old.run /\ new.status = old.status
    BY <2>1, SMT DEF Recs
  <2>2. old.status = "active" /\ \E k : new = [old EXCEPT !.it = k]
    BY <1>3 DEF Due
  <2> QED BY <2>1, <2>2
<1>4. CASE kind = "pause"
  <2>1. old.status = "active" /\ new = [old EXCEPT !.status = "paused"]
    BY <1>4 DEF Due
  <2>2. new.run = old.run /\ new.status = "paused"
    BY <2>1, SMT DEF Recs
  <2> QED BY <2>1, <2>2
<1> QED BY <1>1, <1>2, <1>3, <1>4 DEF Due

\* What the record written, whole or stale, does to its loop.
LEMMA RecordReplaced ==
  ASSUME RalphInv, NEW a \in Sessions, NEW n \in Loops, op[a].loop = n, ReplaceRecord(a),
         crossed'[n] = (crossed[n] \/ op[a].stale), moves' = moves
  PROVE  /\ FileTypes' /\ LoopOK(n)' /\ live'[n] = op[a].rec
         /\ \A m \in Loops : m # n => FilesKept(m)
         /\ op[a].rec \in Recs /\ PromptOf(n, op[a].rec) \in Prompts
<1> DEFINE o == op[a]
<1>0. LoopsTypeOK /\ FileTypes /\ AgentTypes /\ o \in Ops /\ o.rec \in Recs /\ OpOK(a) /\ moves \in Nat
  BY OpParts DEF RalphInv, LoopsTypeOK
<1>1. pc[a] = "save" /\ pc[a] \in OpStages
  BY DEF ReplaceRecord, OpStages
<1>2. /\ crossed'[n] = (crossed[n] \/ o.stale) /\ crossed[n] \in BOOLEAN /\ o.stale \in BOOLEAN
      /\ live[n] \in Recs
  BY <1>0, OpParts, LoopTypes
<1>3. /\ live' = [live EXCEPT ![n] = o.rec]
      /\ promised' = IF o.kind = "start" THEN [promised EXCEPT ![n] = o.rec.run] ELSE promised
      /\ UNCHANGED <<task, arch, archTask, queue>>
  BY DEF ReplaceRecord
<1>r. o.rec.run \in Nat /\ PromptOf(n, o.rec) \in Prompts
  BY <1>0, RecParts, PromptType
<1>4. FileTypes'
  <2>1. promised' \in [Loops -> Nat]
    BY <1>0, <1>3, <1>r DEF FileTypes
  <2> QED BY <1>0, <1>3, <2>1 DEF FileTypes
<1>6. \A m \in Loops : m # n => FilesKept(m)
  <2>1. \A m \in Loops : m # n => promised'[m] = promised[m]
    BY <1>0, <1>3 DEF FileTypes
  <2> QED BY <1>0, <1>3, <2>1 DEF FilesKept, FileTypes
<1>7. /\ live'[n] = o.rec /\ task'[n] = task[n] /\ arch'[n] = arch[n] /\ archTask'[n] = archTask[n]
      /\ promised'[n] = (IF o.kind = "start" THEN o.rec.run ELSE promised[n]) /\ moves' = moves
  <2>1. promised'[n] = (IF o.kind = "start" THEN o.rec.run ELSE promised[n])
    BY <1>0, <1>3 DEF FileTypes
  <2> QED BY <1>0, <1>3, <2>1 DEF FileTypes
<1>9. LoopOK(n) /\ HasIteration(o.rec) /\ o.rec.run <= moves + 1
  BY <1>0, <1>2, <1>3 DEF RalphInv, OpOK
<1>10. ~o.stale => Due(o.kind, live[n], o.rec) /\ (o.kind = "start" => task[n] = o.rec.run)
  BY <1>0, <1>1 DEF OpOK, Fresh
<1>11. promised'[n] # 0 /\ ~crossed'[n] =>
         o.rec.status # "none" /\ Whole(o.rec, task[n], promised'[n])
  <2> SUFFICES ASSUME promised'[n] # 0, ~crossed'[n]
               PROVE  o.rec.status # "none" /\ Whole(o.rec, task[n], promised'[n])
    OBVIOUS
  <2>1. ~crossed[n] /\ ~o.stale /\ Due(o.kind, live[n], o.rec)
    BY <1>2, <1>10
  <2>2. CASE o.kind = "start"
    <3>1. o.rec.status = "active"
      BY <1>0, <2>2 DEF OpOK
    <3> QED BY <1>7, <1>10, <2>1, <2>2, <3>1 DEF Whole
  <2>3. CASE o.kind # "start"
    <3>1. o.rec.run = live[n].run /\ live[n].status # "none" /\ o.rec.status # "none"
      BY <1>0, <1>2, <2>1, <2>3, DueFollows
    <3>2. promised'[n] = promised[n]
      BY <1>7, <2>3
    <3> QED BY <1>9, <2>1, <3>1, <3>2 DEF LoopOK, Whole
  <2> QED BY <2>2, <2>3
<1>12. LoopOK(n)'
  <2> HIDE DEF o
  <2> QED BY <1>7, <1>9, <1>11, <1>r DEF LoopOK, HasIteration, Whole
<1> QED BY <1>0, <1>4, <1>6, <1>7, <1>12, <1>r

LEMMA SaveRecordKeeps ==
  ASSUME RalphInv, NEW a \in Sessions, SaveRecord(a)
  PROVE  RalphInv'
<1> DEFINE o == op[a]
<1>0. LoopsTypeOK /\ AgentTypes /\ o \in Ops /\ OpOK(a)
  BY DEF RalphInv, LoopsTypeOK
<1>1. pc[a] = "save" /\ pc[a] \in OpStages /\ Wrote(a) /\ ReplaceRecord(a) /\ UNCHANGED counts
  BY DEF SaveRecord, ReplaceRecord, OpStages
<1>n. PICK n \in Loops : op[a].loop = n
  BY <1>1, WroteMoves
<1>2. /\ crossed'[n] = (crossed[n] \/ o.stale) /\ pc'[a] \in {"sync", "prompt"} \cup Resting
  BY <1>1, <1>n, WroteMoves
<1>3. /\ FileTypes' /\ LoopOK(n)' /\ live'[n] = o.rec
      /\ \A m \in Loops : m # n => FilesKept(m)
      /\ PromptOf(n, o.rec) \in Prompts
  BY <1>1, <1>2, <1>n, RecordReplaced DEF counts
<1>4. AgentTypes'
  <2>1. current' \in [Sessions -> Loops \cup {NoLoop}]
    <3>1. current' = current \/ \E k \in Loops \cup {NoLoop} : current' = [current EXCEPT ![a] = k]
      BY <1>0, <1>n, ActorTypes DEF SaveRecord, AfterSave, ClearIf, Points
    <3> QED BY <1>0, <3>1 DEF AgentTypes
  <2>2. worked' \subseteq Prompts /\ queue' = queue /\ lost' = lost
    BY <1>0, <1>n, <1>3 DEF SaveRecord, ReplaceRecord, AgentTypes
  <2> QED BY <1>0, <2>1, <2>2 DEF AgentTypes
<1>5. pc'[a] \in OpStages /\ SameOp(op[a], op'[a]) /\ ~op[a].stale => Fresh(a)'
  <2> SUFFICES ASSUME pc'[a] \in OpStages, SameOp(op[a], op'[a])
               PROVE  Fresh(a)'
    OBVIOUS
  <2>1. live'[op'[a].loop] = op'[a].rec
    BY <1>3, <1>n DEF SameOp
  <2>2. pc'[a] \in {"sync", "prompt"}
    BY <1>2, StageTypes
  <2> QED BY <2>1, <2>2 DEF Fresh
<1> QED BY <1>1, <1>n, <1>3, <1>4, <1>5, WroteKeeps

LEMMA SaveUnsyncedKeeps ==
  ASSUME RalphInv, NEW a \in Sessions, SaveUnsynced(a)
  PROVE  RalphInv'
<1>0. LoopsTypeOK /\ AgentTypes /\ op[a] \in Ops /\ op[a].back \in Resting
      /\ op \in [Sessions -> Ops] /\ pc \in [Sessions -> Places] /\ crossed \in [Loops -> BOOLEAN]
  BY OpParts DEF RalphInv, LoopsTypeOK
<1>1. pc[a] \in OpStages /\ ReplaceRecord(a) /\ Overtakes(a, NoOp, op[a].back)
  BY DEF SaveUnsynced, ReplaceRecord, OpStages
<1>2. MovesGrow /\ breaks' \in Nat /\ moves' = moves
  BY <1>0, SMT DEF LoopsTypeOK, SaveUnsynced, Break, MovesGrow
<1>n. PICK n \in Loops : op[a].loop = n
  BY <1>1, PlacesOf
<1>3. crossed'[n] = (crossed[n] \/ op[a].stale)
  BY <1>0, <1>1, <1>n DEF Overtakes
<1>4. /\ FileTypes' /\ LoopOK(n)' /\ PromptOf(n, op[a].rec) \in Prompts
      /\ \A m \in Loops : m # n => FilesKept(m)
  BY <1>1, <1>2, <1>3, <1>n, RecordReplaced
<1>5. AgentTypes'
  <2>1. lost' \subseteq Prompts /\ queue' = queue /\ worked' = worked /\ current' = current
    BY <1>0, <1>n, <1>4 DEF SaveUnsynced, ReplaceRecord, AgentTypes
  <2> QED BY <1>0, <2>1 DEF AgentTypes
<1>6. NoOp \in Ops /\ op[a].back \in Places /\ op[a].back \notin OpStages
  BY <1>0, NoOpType, StageTypes
<1>7. op'[a] = NoOp /\ pc'[a] = op[a].back => OpOK(a)'
  BY <1>2, <1>6, AtRest
<1> QED BY <1>1, <1>2, <1>n, <1>4, <1>5, <1>6, <1>7, OvertakesKeeps

LEMMA DropRecordKeeps ==
  ASSUME RalphInv, NEW a \in Sessions, DropRecord(a)
  PROVE  RalphInv'
<1> DEFINE o == op[a]
<1>0. LoopsTypeOK /\ FileTypes /\ AgentTypes /\ o \in Ops /\ o.rec \in Recs /\ OpOK(a) /\ moves \in Nat
  BY OpParts DEF RalphInv, LoopsTypeOK
<1>1. pc[a] = "drop" /\ pc[a] \in OpStages /\ Wrote(a)
  BY DEF DropRecord, OpStages
<1>n. PICK n \in Loops : op[a].loop = n
  BY <1>1, WroteMoves
<1>2. n \in Loops /\ crossed'[n] = (crossed[n] \/ o.stale) /\ pc'[a] = "drop_text"
  BY <1>1, <1>n, WroteMoves
<1>3. /\ live' = [live EXCEPT ![n] = Absent]
      /\ promised' = IF o.kind = "delete" THEN [promised EXCEPT ![n] = 0] ELSE promised
      /\ UNCHANGED <<task, arch, archTask, current, queue, ghosts, counts>>
  BY <1>n DEF DropRecord
<1>4. FileTypes' /\ AgentTypes'
  <2>1. promised' \in [Loops -> Nat]
    BY <1>0, <1>3 DEF FileTypes
  <2> QED BY <1>0, <1>3, <2>1, AbsentType DEF FileTypes, AgentTypes, ghosts
<1>5. \A m \in Loops : m # n => FilesKept(m)
  <2>1. \A m \in Loops : m # n => promised'[m] = promised[m]
    BY <1>0, <1>3 DEF FileTypes
  <2> QED BY <1>0, <1>3, <2>1 DEF FilesKept, FileTypes
<1>6. /\ live'[n] = Absent /\ task'[n] = task[n] /\ arch'[n] = arch[n] /\ archTask'[n] = archTask[n]
      /\ promised'[n] = (IF o.kind = "delete" THEN 0 ELSE promised[n]) /\ moves' = moves
  <2>1. promised'[n] = (IF o.kind = "delete" THEN 0 ELSE promised[n])
    BY <1>0, <1>3 DEF FileTypes
  <2> QED BY <1>0, <1>3, <2>1 DEF FileTypes, counts
<1>s. ~o.stale => /\ live[n] = o.rec /\ o.rec.status # "none"
                  /\ o.kind = "archive" => task[n] = o.text /\ archTask[n] = o.text /\ arch[n] = o.rec
  BY <1>0, <1>1, <1>n DEF OpOK, Fresh
<1>7. SameOp(op[a], op'[a]) /\ ~op[a].stale => Fresh(a)'
  BY <1>2, <1>6, <1>n, <1>s DEF Fresh, SameOp
<1>8. LoopOK(n) /\ UNCHANGED counts
  BY <1>2, <1>3 DEF RalphInv
<1>9. o.kind \in {"archive", "delete"}
  BY <1>0, <1>1 DEF OpOK, ShapeOf
<1>10. promised'[n] # 0 /\ ~crossed'[n] => Whole(arch[n], archTask[n], promised'[n])
  <2> SUFFICES ASSUME promised'[n] # 0, ~crossed'[n]
               PROVE  Whole(arch[n], archTask[n], promised'[n])
    OBVIOUS
  <2>1. o.kind = "archive" /\ promised'[n] = promised[n]
    BY <1>6, <1>9
  <2>2. ~crossed[n] /\ ~o.stale
    BY <1>2
  <2>3. Whole(live[n], task[n], promised[n])
    BY <1>8, <1>s, <2>1, <2>2 DEF LoopOK
  <2> QED BY <1>s, <2>1, <2>2, <2>3 DEF Whole
<1>11. LoopOK(n)'
  <2>1. HasIteration(Absent) /\ Absent.run <= moves' + 1 /\ Absent.status = "none"
    BY <1>0, <1>6, AbsentType, SMT DEF HasIteration
  <2> HIDE DEF o
  <2> QED BY <1>6, <1>10, <2>1 DEF LoopOK, HasIteration, Whole
<1> QED BY <1>1, <1>n, <1>4, <1>5, <1>7, <1>8, <1>11, WroteKeeps

LEMMA DropTaskKeeps ==
  ASSUME RalphInv, NEW a \in Sessions, DropTask(a)
  PROVE  RalphInv'
<1> DEFINE o == op[a]
<1>0. LoopsTypeOK /\ FileTypes /\ AgentTypes /\ o \in Ops /\ o.rec \in Recs /\ OpOK(a) /\ moves \in Nat
  BY OpParts DEF RalphInv, LoopsTypeOK
<1>1. pc[a] = "drop_text" /\ pc[a] \in OpStages /\ Wrote(a)
  BY DEF DropTask, OpStages
<1>n. PICK n \in Loops : op[a].loop = n
  BY <1>1, WroteMoves
<1>2. n \in Loops /\ crossed'[n] = (crossed[n] \/ o.stale) /\ pc'[a] = "sync"
  BY <1>1, <1>n, WroteMoves
<1>3. /\ task' = [task EXCEPT ![n] = NoText]
      /\ UNCHANGED <<live, arch, archTask, queue, ghosts, promised, counts>>
      /\ \E k \in Loops \cup {NoLoop} : current' = [current EXCEPT ![a] = k]
  BY <1>0, <1>n, ActorTypes DEF DropTask, ClearIf, Points
<1>4. FileTypes' /\ AgentTypes'
  BY <1>0, <1>3, NoTextType DEF FileTypes, AgentTypes, ghosts
<1>5. \A m \in Loops : m # n => FilesKept(m)
  BY <1>0, <1>3 DEF FilesKept, FileTypes
<1>6. /\ live'[n] = live[n] /\ arch'[n] = arch[n] /\ archTask'[n] = archTask[n]
      /\ promised'[n] = promised[n] /\ moves' = moves
  BY <1>0, <1>3 DEF FileTypes, counts
<1>s. ~o.stale => live[n] = Absent
  BY <1>0, <1>1, <1>n DEF OpOK, Fresh
<1>k. op[a].kind # "start"
  BY <1>0, <1>1 DEF OpOK, ShapeOf
<1>7. SameOp(op[a], op'[a]) /\ ~op[a].stale => Fresh(a)'
  BY <1>2, <1>k DEF Fresh, SameOp
<1>8. LoopOK(n) /\ UNCHANGED counts
  BY <1>2, <1>3 DEF RalphInv
<1>9. LoopOK(n)'
  <2>1. ~o.stale => live[n].status = "none"
    BY <1>s, AbsentType
  <2> QED BY <1>2, <1>6, <1>8, <2>1 DEF LoopOK, HasIteration, Whole
<1> QED BY <1>1, <1>n, <1>4, <1>5, <1>7, <1>8, <1>9, WroteKeeps

-----------------------------------------------------------------------------
(* A loop that was started is kept.                                        *)
LEMMA RalphStarts == LoopsInit => RalphInv
<1> SUFFICES ASSUME LoopsInit
             PROVE  RalphInv
  OBVIOUS
<1>1. PICK old \in {Absent, Legacy}, n \in Loops :
        /\ live = [k \in Loops |-> IF k = n THEN old ELSE Absent]
        /\ task = [k \in Loops |-> IF k = n THEN old.run ELSE NoText]
        /\ promised = [k \in Loops |-> IF k = n THEN old.run ELSE 0]
        /\ worked = IF old = Absent THEN {} ELSE {PromptOf(n, old)}
  BY DEF LoopsInit
<1>2. Legacy \in Recs /\ Legacy.run = 1 /\ Legacy.it = (IF Limit = 1 THEN 1 ELSE 2) /\ Legacy.status = "active"
  BY SMT DEF Legacy, Recs, Statuses
<1>3. old \in Recs /\ old.run \in Nat /\ old.run <= 1 /\ HasIteration(old)
      /\ (old.run # 0 => old.status = "active")
  <2>1. HasIteration(Absent) /\ HasIteration(Legacy)
    BY <1>2, AbsentType, LoopNames, SMT DEF HasIteration
  <2>2. CASE old = Absent
    BY <2>1, <2>2, AbsentType
  <2>3. CASE old = Legacy
    BY <1>2, <2>1, <2>3
  <2> QED BY <2>2, <2>3
<1>4. FileTypes
  <2>1. live \in [Loops -> Recs] /\ arch \in [Loops -> Recs]
    BY <1>1, <1>3, AbsentType DEF LoopsInit
  <2>2. task \in [Loops -> Nat] /\ archTask \in [Loops -> Nat] /\ promised \in [Loops -> Nat]
    BY <1>1, <1>3, NoTextType DEF LoopsInit
  <2> QED BY <2>1, <2>2 DEF FileTypes
<1>5. AgentTypes
  <2>1. worked \subseteq Prompts
    BY <1>1, <1>3, PromptType
  <2>2. <<>> \in Seq(Prompts)
    BY SMT
  <2> QED BY <2>1, <2>2 DEF AgentTypes, LoopsInit
<1>6. LoopsTypeOK
  <2>1. "idle" \in Places
    BY StageTypes
  <2> QED BY <1>4, <1>5, <2>1, NoOpType DEF LoopsTypeOK, LoopsInit
<1>7. ASSUME NEW a \in Sessions
      PROVE  OpOK(a)
  <2>1. op[a] = NoOp /\ pc[a] = "idle" /\ moves = 0
    BY DEF LoopsInit
  <2>2. ShapeOf(NoOp, "idle") /\ "idle" \notin OpStages
    BY StageTypes DEF ShapeOf
  <2>3. HasIteration(NoOp.rec) /\ NoOp.rec.run <= 1 /\ NoOp.kind = "none"
    BY AbsentType, NoOpType, SMT DEF HasIteration, NoOp
  <2> QED BY <2>1, <2>2, <2>3, SMT DEF OpOK
<1>8. ASSUME NEW k \in Loops
      PROVE  LoopOK(k)
  <2>0. moves = 0
    BY DEF LoopsInit
  <2>1. CASE k = n
    <3>1. live[k] = old /\ task[k] = old.run /\ promised[k] = old.run
      BY <1>1, <2>1
    <3>2. old.run <= moves + 1
      BY <1>3, <2>0, SMT
    <3>3. old.run # 0 => old.status # "none"
      BY <1>3
    <3> QED BY <1>3, <3>1, <3>2, <3>3 DEF LoopOK, Whole, HasIteration
  <2>2. CASE k # n
    <3>1. live[k] = Absent /\ promised[k] = 0
      BY <1>1, <2>2
    <3>2. Absent.run <= moves + 1 /\ HasIteration(Absent)
      BY <2>0, AbsentType, SMT DEF HasIteration
    <3> QED BY <3>1, <3>2 DEF LoopOK, HasIteration
  <2> QED BY <2>1, <2>2
<1> QED BY <1>6, <1>7, <1>8 DEF RalphInv

LEMMA RalphSteps == RalphInv /\ [LoopsNext]_loopVars => RalphInv'
<1> SUFFICES ASSUME RalphInv, [LoopsNext]_loopVars
             PROVE  RalphInv'
  OBVIOUS
<1>1. CASE UNCHANGED loopVars
  <2>0. UNCHANGED <<files, promised, crossed, op, pc, current, queue, worked, lost, counts>>
    BY <1>1 DEF loopVars, ghosts
  <2>1. LoopsTypeOK /\ LoopsTypeOK' /\ MovesGrow
    <3>1. LoopsTypeOK /\ MovesGrow
      BY <2>0, CountsStay DEF RalphInv
    <3> QED BY <2>0, <3>1 DEF LoopsTypeOK, FileTypes, AgentTypes, files, counts
  <2>2. \A n : FilesKept(n)
    BY <2>0 DEF files, FilesKept
  <2>3. \A b \in Sessions : op[b] \in Ops /\ OpOK(b) /\ op'[b] = op[b] /\ pc'[b] = pc[b]
    BY <2>0, <2>1, ActorTypes DEF RalphInv
  <2>4. \A b \in Sessions : OpOK(b)'
    BY <2>1, <2>2, <2>3, SameKeeps
  <2>5. \A n \in Loops : LoopOK(n)'
    BY <2>0, <2>1, <2>2, LoopKeeps DEF RalphInv
  <2> QED BY <2>1, <2>4, <2>5 DEF RalphInv
<1>2. ASSUME NEW s \in Sessions,
             Loads(s) \/ StopCurrent(s) \/ Writing(s) \/ Agent(s)
             \/ Dies(s) \/ StageFails(s) \/ SaveUnsynced(s)
      PROVE  RalphInv'
  <2>1. CASE Loads(s) \/ StopCurrent(s)
    BY <2>1, StartLoadKeeps, ResumeLoadKeeps, StopsKeep, ArchiveLoadKeeps DEF Loads
  <2>2. CASE Writing(s)
    BY <2>2, WriteTaskKeeps, SaveRecordKeeps, ArchiveReadKeeps, ArchiveTextKeeps, ArchiveRecordKeeps,
       DropRecordKeeps, DropTaskKeeps, SyncAgentKeeps DEF Writing
  <2>3. CASE Agent(s)
    BY <2>3, UserPromptKeeps, DeliverKeeps, TurnKeeps, RalphDoneKeeps, TurnEndsKeeps, QueueClearedKeeps,
       HandOverKeeps, NoTaskKeeps DEF Agent
  <2>4. CASE Dies(s) \/ StageFails(s) \/ SaveUnsynced(s)
    BY <2>4, DiesKeeps, SaveUnsyncedKeeps
  <2> QED BY <1>2, <2>1, <2>2, <2>3, <2>4
<1> QED BY <1>1, <1>2 DEF LoopsNext

LEMMA RalphHolds == LoopsSpec => []RalphInv
<1> QED BY RalphStarts, RalphSteps, PTL DEF LoopsSpec

(* A loop that was started and not deleted is there with its task, live or *)
(* in the archive, whichever process dies and whichever write fails, as    *)
(* long as nobody wrote it from a copy that was overtaken.                 *)
THEOREM StartedLoopsAreKept == LoopsSpec => []LoopKept
<1>1. RalphInv => LoopKept
  BY DEF RalphInv, LoopOK, LoopKept
<1> QED BY <1>1, RalphHolds, PTL

-----------------------------------------------------------------------------
(* A record changes by the steps of its life.                              *)
LEMMA DueIsNext ==
  ASSUME LoopsTypeOK, NEW n \in Loops, NEW kind, NEW rec \in Recs, Due(kind, live[n], rec), live'[n] = rec
  PROVE  live'[n] = live[n] \/ Record(n)!Next
<1>0. live[n] \in Recs /\ live[n].status \in Statuses
  BY LoopTypes, RecParts
<1>1. CASE kind = "start"
  BY <1>1 DEF Due, Record!Next, Record!Begun
<1>2. CASE kind = "resume"
  <2>1. Record(n)!Resumed
    BY <1>2 DEF Due, Record!Resumed
  <2> QED BY <2>1 DEF Record!Next
<1>3. CASE kind = "complete"
  <2>1. CASE live[n].status # "none" /\ rec = [live[n] EXCEPT !.status = "completed"]
    <3>1. CASE live[n].status = "completed"
      <4>1. [live[n] EXCEPT !.status = live[n].status] = live[n]
        BY <1>0, SMT DEF Recs
      <4> QED BY <2>1, <3>1, <4>1
    <3>2. CASE live[n].status \in {"active", "paused"}
      BY <2>1, <3>2 DEF Record!Next, Record!Stopped
    <3> QED BY <1>0, <2>1, <3>1, <3>2 DEF Statuses
  <2>2. CASE /\ live[n].status = "active" /\ Limit > 0 /\ live[n].it = Limit
             /\ rec = [live[n] EXCEPT !.it = @ + 1, !.status = "completed"]
    BY <2>2, Zenon DEF Record!Next, Record!Exhausted
  <2> QED BY <1>3, <2>1, <2>2 DEF Due
<1>4. CASE kind = "advance"
  BY <1>4, Zenon DEF Due, Record!Next, Record!Advanced
<1>5. CASE kind = "pause"
  BY <1>5 DEF Due, Record!Next, Record!Paused
<1> QED BY <1>1, <1>2, <1>3, <1>4, <1>5 DEF Due

LEMMA StepFollows ==
  ASSUME RalphInv, LoopsNext, NEW n \in Loops, ~Overtaken(n)
  PROVE  live'[n] = live[n] \/ Record(n)!Next
<1>0. LoopsTypeOK /\ live \in [Loops -> Recs]
  BY DEF RalphInv, LoopsTypeOK, FileTypes
<1>1. ASSUME NEW s \in Sessions, SaveRecord(s) \/ SaveUnsynced(s)
      PROVE  live'[n] = live[n] \/ Record(n)!Next
  <2>0. op[s] \in Ops /\ op[s].rec \in Recs /\ OpOK(s)
    BY <1>0, ActorTypes, OpParts DEF RalphInv
  <2>1. pc[s] = "save" /\ pc[s] \in OpStages /\ ReplaceRecord(s)
    BY <1>1 DEF SaveRecord, SaveUnsynced, ReplaceRecord, OpStages
  <2>2. pc'[s] # pc[s]
    <3>1. CASE SaveRecord(s)
      <4>1. pc'[s] \in {"sync", "prompt"} \cup Resting
        BY <2>1, <3>1, WroteMoves DEF SaveRecord
      <4> QED BY <2>1, <4>1 DEF Resting
    <3>2. CASE SaveUnsynced(s)
      <4>1. pc'[s] = op[s].back /\ op[s].back \in Resting
        BY <1>0, <2>0, <3>2, OpParts DEF SaveUnsynced, Overtakes, LoopsTypeOK
      <4> QED BY <2>1, <4>1 DEF Resting
    <3> QED BY <1>1, <3>1, <3>2
  <2>3. live' = [live EXCEPT ![op[s].loop] = op[s].rec]
    BY <2>1 DEF ReplaceRecord
  <2>4. CASE op[s].loop = n
    <3>1. ~op[s].stale
      BY <2>2, <2>4 DEF Overtaken
    <3>2. Due(op[s].kind, live[n], op[s].rec)
      BY <2>0, <2>1, <2>4, <3>1 DEF OpOK, Fresh
    <3>3. live'[n] = op[s].rec
      BY <1>0, <2>3, <2>4
    <3> QED BY <1>0, <2>0, <3>2, <3>3, DueIsNext
  <2>5. CASE op[s].loop # n
    BY <1>0, <2>3, <2>5
  <2> QED BY <2>4, <2>5
<1>2. ASSUME NEW s \in Sessions, DropRecord(s)
      PROVE  live'[n] = live[n] \/ Record(n)!Next
  <2>1. live' = [live EXCEPT ![op[s].loop] = Absent]
    BY <1>2 DEF DropRecord
  <2>2. CASE op[s].loop = n
    <3>1. live'[n] = Absent
      BY <1>0, <2>1, <2>2
    <3> QED BY <3>1 DEF Record!Next, Record!Removed, Record!Absent, Absent, Nobody
  <2>3. CASE op[s].loop # n
    BY <1>0, <2>1, <2>3
  <2> QED BY <2>2, <2>3
<1>3. ASSUME NEW s \in Sessions, Loads(s) \/ StopCurrent(s) \/ Agent(s) \/ Dies(s) \/ StageFails(s)
      PROVE  UNCHANGED live
  BY <1>3 DEF Loads, StartLoad, ResumeLoad, StopLoad, ArchiveLoad, DeleteLoad, StopCurrent, Agent,
              UserPrompt, Deliver, Continue, RunStops, RalphDone, TurnEnds, TurnFails, QueueCleared,
              HandOver, NoTask, Dies, StageFails, Untouched, files
<1>4. ASSUME NEW s \in Sessions,
             \/ WriteTask(s) \/ ArchiveRead(s) \/ ArchiveText(s)
             \/ ArchiveRecord(s) \/ DropTask(s) \/ SyncAgent(s)
      PROVE  UNCHANGED live
  BY <1>4 DEF WriteTask, ArchiveRead, ArchiveText, ArchiveRecord, DropTask, SyncAgent, Untouched, files
<1> QED BY <1>1, <1>2, <1>3, <1>4 DEF LoopsNext, Writing

(* Whoever reads and writes it, a record changes only by the steps of its  *)
(* life: a completed loop comes back by a start, its iterations are counted *)
(* one at a time and end at the limit.  Only a write based on a record that *)
(* another overwrote meanwhile may do otherwise.                           *)
THEOREM RecordsFollowTheirLife == LoopsSpec => RecordFollows
<1>1. RalphInv /\ [LoopsNext]_loopVars =>
        [\A n \in Loops : ~Overtaken(n) => live'[n] = live[n] \/ Record(n)!Next]_loopVars
  BY StepFollows
<1> QED BY <1>1, RalphHolds, PTL DEF RecordFollows, LoopsSpec

-----------------------------------------------------------------------------
(* Iterations in step.                                                     *)

\* An operation that holds a prompt back until its record is written.
Pending(a) == pc[a] \in {"sync", "prompt"} /\ op[a].kind \in {"start", "advance"}
PromptIn(a) == PromptOf(op[a].loop, op[a].rec)

Told(p) == Known(p) \/ \E b \in Sessions : Pending(b) /\ PromptIn(b) = p
ToldBeside(a, p) == Known(p) \/ \E b \in Sessions : b # a /\ Pending(b) /\ PromptIn(b) = p

\* A run that is started is nobody else's.
Unborn(a) == pc[a] \in {"text", "save"} /\ op[a].kind = "start"

Newborn(a) ==
  Unborn(a) => /\ \A n \in Loops : live[n].run # op[a].rec.run
               /\ \A b \in Sessions : b # a => op[b].rec.run # op[a].rec.run
               /\ \A p \in Prompts : Known(p) => p.run # op[a].rec.run

Owners(a) ==
  /\ op[a].kind \in {"start", "resume"} => op[a].rec.owner = a
  /\ op[a].kind = "advance" => op[a].rec.owner \in {Nobody, a}
  /\ op[a].kind = "start" => op[a].rec.run # 0 /\ op[a].rec.it = 1

\* What is about to be handed out is ahead of everything handed out.
Ahead(a) ==
  Pending(a) /\ ~op[a].stale /\ ~crossed[op[a].loop] =>
    \A p \in Prompts : p.loop = op[a].loop /\ p.run = op[a].rec.run /\ ToldBeside(a, p)
                         => p.it < op[a].rec.it

\* And the iteration before it was worked on, or its prompt went away.
Behind(a) ==
  /\ pc[a] \in {"save", "prompt"} /\ op[a].kind = "advance"
  /\ ~op[a].stale /\ ~crossed[op[a].loop] /\ op[a].rec.owner # Nobody
  => Before(PromptIn(a)) \in worked \cup lost

Counted(n) ==
  ~crossed[n] /\ live[n].status # "none" =>
    \A p \in Prompts : p.loop = n /\ p.run = live[n].run /\ Told(p) => p.it <= live[n].it

Promised(n) ==
  ~crossed[n] /\ live[n].status \in {"active", "paused"} => promised[n] = live[n].run /\ live[n].run # 0

\* Who owns a loop was handed its iteration, or is about to be.
Handed(n) ==
  ~crossed[n] /\ live[n].status = "active" =>
    \A s \in Sessions \ {Nobody} : live[n].owner = s /\ pc[s] # "dead" =>
      \/ PromptOf(n, live[n]) \in worked \cup lost \cup ToSet(queue[s])
      \/ Pending(s) /\ PromptIn(s) = PromptOf(n, live[n])

StepInv ==
  /\ \A p \in Prompts : Known(p) => p.run <= moves + 1
  /\ \A a \in Sessions : Newborn(a) /\ Owners(a) /\ Ahead(a) /\ Behind(a)
  /\ \A n \in Loops : Counted(n) /\ Promised(n) /\ Handed(n)

\* What all steps but the writing of a record are to these.
FilesCalm ==
  \A n \in Loops :
    /\ crossed[n] => crossed'[n]
    /\ live'[n] = live[n] \/ live'[n] = Absent
    /\ live'[n] # Absent /\ ~crossed'[n] /\ live[n].status \in {"active", "paused"}
         => promised'[n] = promised[n]

Fallen(b) == pc'[b] = pc[b] /\ SameOp(op[b], op'[b]) /\ (op[b].stale => op'[b].stale)
OthersFall(a) == \A b \in Sessions : b # a => Fallen(b)

ToldCalm(a) ==
  /\ worked \cup lost \subseteq worked' \cup lost'
  /\ \A s \in Sessions : ToSet(queue[s]) \subseteq ToSet(queue'[s]) \cup worked' \cup lost'
  /\ \A p \in Prompts : Known(p)' => Known(p) \/ (Pending(a) /\ PromptIn(a) = p /\ ~Pending(a)')
  /\ Pending(a)' => Pending(a) /\ SameOp(op[a], op'[a]) /\ (op[a].stale => op'[a].stale)
  /\ Pending(a) /\ ~Pending(a)' =>
       \/ PromptIn(a) \in worked' \cup lost' \cup ToSet(queue'[a])
       \/ pc'[a] = "dead"
       \/ \A n \in Loops : ~crossed[n] /\ live[n].status = "active" => PromptIn(a) # PromptOf(n, live[n])

OpCalm(a) ==
  /\ pc[a] # "dead"
  /\ \/ op'[a].rec.run \in {op[a].rec.run, 0, moves + 2}
     \/ \E n \in Loops : op'[a].rec.run = live[n].run
  /\ Unborn(a)' => \/ Unborn(a) /\ op'[a].rec.run = op[a].rec.run
                   \/ op'[a].rec.run = moves + 2
  /\ Owners(a)' /\ Behind(a)'

LEMMA RunsBounded ==
  ASSUME RalphInv
  PROVE  /\ \A b \in Sessions : op[b].rec.run \in Nat /\ op[b].rec.run <= moves + 1
         /\ \A n \in Loops : live[n].run \in Nat /\ live[n].run <= moves + 1
         /\ moves \in Nat
<1>1. LoopsTypeOK /\ moves \in Nat
  BY DEF RalphInv, LoopsTypeOK
<1>2. ASSUME NEW b \in Sessions
      PROVE  op[b].rec.run \in Nat /\ op[b].rec.run <= moves + 1
  BY <1>1, ActorTypes, OpParts, RecParts DEF RalphInv, OpOK
<1>3. ASSUME NEW n \in Loops
      PROVE  live[n].run \in Nat /\ live[n].run <= moves + 1
  BY <1>1, LoopTypes, RecParts DEF RalphInv, LoopOK
<1> QED BY <1>1, <1>2, <1>3

LEMMA PromptParts ==
  ASSUME NEW n, NEW rec
  PROVE  /\ PromptOf(n, rec).loop = n /\ PromptOf(n, rec).run = rec.run /\ PromptOf(n, rec).it = rec.it
PROOF BY DEF PromptOf

LEMMA ToldOnce ==
  ASSUME NEW a \in Sessions, OthersFall(a), ToldCalm(a), NEW p \in Prompts
  PROVE  /\ Told(p)' => Told(p)
         /\ \A b \in Sessions : Pending(b)' /\ ToldBeside(b, p)' => ToldBeside(b, p)
<1>1. Known(p)' => Known(p) \/ (Pending(a) /\ PromptIn(a) = p /\ ~Pending(a)')
  BY DEF ToldCalm
<1>2. ASSUME NEW c \in Sessions, Pending(c)'
      PROVE  Pending(c) /\ PromptIn(c)' = PromptIn(c)
  <2>1. Pending(c) /\ SameOp(op[c], op'[c])
    <3>1. CASE c = a
      BY <1>2, <3>1 DEF ToldCalm
    <3>2. CASE c # a
      BY <1>2, <3>2 DEF OthersFall, Fallen, Pending, SameOp
    <3> QED BY <3>1, <3>2
  <2>2. PromptIn(c)' = PromptOf(op'[c].loop, op'[c].rec)
    BY DEF PromptIn, PromptOf
  <2> QED BY <2>1, <2>2 DEF SameOp, PromptIn
<1>3. Told(p)' => Known(p)' \/ \E b \in Sessions : Pending(b)' /\ PromptIn(b)' = p
  BY DEF Told
<1>4. Told(p)' => Told(p)
  BY <1>1, <1>2, <1>3 DEF Told
<1>5. ASSUME NEW b \in Sessions, Pending(b)', ToldBeside(b, p)'
      PROVE  ToldBeside(b, p)
  <2>1. Known(p)' \/ \E c \in Sessions : c # b /\ Pending(c)' /\ PromptIn(c)' = p
    BY <1>5 DEF ToldBeside
  <2> QED BY <1>1, <1>2, <1>5, <2>1 DEF ToldBeside
<1> QED BY <1>4, <1>5

LEMMA CalmKeepsActors ==
  ASSUME RalphInv, StepInv, MovesGrow, NEW a \in Sessions,
         FilesCalm, OthersFall(a), ToldCalm(a), OpCalm(a), NEW b \in Sessions
  PROVE  (Newborn(b) /\ Owners(b) /\ Ahead(b) /\ Behind(b))'
<1>0. /\ Newborn(b) /\ Owners(b) /\ Ahead(b) /\ Behind(b) /\ Newborn(a) /\ Owners(a)
      /\ \A p \in Prompts : Known(p) => p.run <= moves + 1
  BY DEF StepInv
<1>1. /\ \A c \in Sessions : op[c].rec.run \in Nat /\ op[c].rec.run <= moves + 1
      /\ \A n \in Loops : live[n].run \in Nat /\ live[n].run <= moves + 1
      /\ moves \in Nat
  BY RunsBounded
<1>2. \A n \in Loops : live'[n].run \in {live[n].run, 0}
  BY AbsentType DEF FilesCalm
<1>3. \A c \in Sessions : c # a => op'[c].rec = op[c].rec /\ op'[c].kind = op[c].kind /\ op'[c].loop = op[c].loop
                                   /\ pc'[c] = pc[c] /\ (op[c].stale => op'[c].stale)
  BY DEF OthersFall, Fallen, SameOp
<1>4. \A p \in Prompts : Known(p)' => Known(p) \/ (Pending(a) /\ p.run = op[a].rec.run)
  BY PromptParts DEF ToldCalm, PromptIn
<1>5. Newborn(b)'
  <2> SUFFICES ASSUME Unborn(b)'
               PROVE  /\ \A n \in Loops : live'[n].run # op'[b].rec.run
                      /\ \A c \in Sessions : c # b => op'[c].rec.run # op'[b].rec.run
                      /\ \A p \in Prompts : Known(p)' => p.run # op'[b].rec.run
    BY DEF Newborn
  <2> DEFINE r == op'[b].rec.run
  <2>0. Owners(b)' /\ r # 0
    <3>1. Owners(b)'
      BY <1>0, <1>3 DEF Owners, OpCalm
    <3> QED BY <3>1 DEF Owners, Unborn
  <2>1. CASE b # a
    <3>1. Unborn(b) /\ r = op[b].rec.run
      BY <1>3, <2>1 DEF Unborn
    <3>2. /\ \A n \in Loops : live[n].run # r
          /\ \A c \in Sessions : c # b => op[c].rec.run # r
          /\ \A p \in Prompts : Known(p) => p.run # r
      BY <1>0, <3>1 DEF Newborn
    <3>3. r \in Nat /\ r <= moves + 1
      BY <1>1, <3>1
    <3> HIDE DEF r
    <3>4. r # moves + 2
      BY <1>1, <3>3, SMT
    <3>5. op'[a].rec.run # r
      BY <2>0, <2>1, <3>2, <3>4 DEF OpCalm
    <3>6. \A c \in Sessions : c # b => op'[c].rec.run # r
      BY <1>3, <3>2, <3>5
    <3>7. \A n \in Loops : live'[n].run # r
      BY <1>2, <2>0, <3>2
    <3>8. \A p \in Prompts : Known(p)' => p.run # r
      BY <1>4, <2>1, <3>2
    <3> QED BY <3>6, <3>7, <3>8 DEF r
  <2>2. CASE b = a /\ Unborn(a) /\ op'[a].rec.run = op[a].rec.run
    <3>1. /\ \A n \in Loops : live[n].run # r
          /\ \A c \in Sessions : c # b => op[c].rec.run # r
          /\ \A p \in Prompts : Known(p) => p.run # r
      BY <1>0, <2>2 DEF Newborn
    <3>2. ~Pending(a)
      BY <2>2 DEF Pending, Unborn
    <3>3. \A c \in Sessions : c # b => op'[c].rec.run # r
      BY <1>3, <2>2, <3>1
    <3>4. \A n \in Loops : live'[n].run # r
      BY <1>2, <2>0, <3>1
    <3>5. \A p \in Prompts : Known(p)' => p.run # r
      BY <1>4, <3>1, <3>2
    <3> QED BY <3>3, <3>4, <3>5
  <2>3. CASE b = a /\ op'[a].rec.run = moves + 2
    <3>1. r = moves + 2
      BY <2>3
    <3> HIDE DEF r
    <3>2. \A c \in Sessions : c # b => op'[c].rec.run # r
      <4> TAKE c \in Sessions
      <4> HAVE c # b
      <4>1. op'[c].rec.run = op[c].rec.run
        BY <1>3, <2>3
      <4> QED BY <1>1, <3>1, <4>1, SMT
    <3>3. \A n \in Loops : live'[n].run # r
      <4> TAKE n \in Loops
      <4>1. live'[n].run = live[n].run \/ live'[n].run = 0
        BY <1>2
      <4> QED BY <1>1, <3>1, <4>1, SMT
    <3>4. \A p \in Prompts : Known(p)' => p.run # r
      <4> TAKE p \in Prompts
      <4> HAVE Known(p)'
      <4>1. p.run <= moves + 1
        BY <1>0, <1>1, <1>4
      <4>2. p.run \in Nat
        BY SMT DEF Prompts
      <4> QED BY <1>1, <3>1, <4>1, <4>2, SMT
    <3> QED BY <3>2, <3>3, <3>4 DEF r
  <2>4. \/ b # a
        \/ b = a /\ Unborn(a) /\ op'[a].rec.run = op[a].rec.run
        \/ b = a /\ op'[a].rec.run = moves + 2
    BY DEF OpCalm
  <2> QED BY <2>1, <2>2, <2>3, <2>4
<1>6. Owners(b)'
  BY <1>0, <1>3 DEF Owners, OpCalm
<1>7. Ahead(b)'
  <2> SUFFICES ASSUME Pending(b)', ~op'[b].stale, ~crossed'[op'[b].loop],
                      NEW p \in Prompts, p.loop = op'[b].loop, p.run = op'[b].rec.run, ToldBeside(b, p)'
               PROVE  p.it < op'[b].rec.it
    BY DEF Ahead
  <2>1. Pending(b) /\ SameOp(op[b], op'[b]) /\ (op[b].stale => op'[b].stale)
    <3>1. CASE b = a
      BY <3>1 DEF ToldCalm
    <3>2. CASE b # a
      BY <1>3, <3>2 DEF OthersFall, Fallen, Pending
    <3> QED BY <3>1, <3>2
  <2>2. op[b].loop \in Loops
    <3>1. pc[b] \in OpStages
      BY <2>1 DEF Pending, OpStages
    <3> QED BY <3>1, PlacesOf
  <2>3. ~op[b].stale /\ ~crossed[op[b].loop]
    BY <2>1, <2>2 DEF FilesCalm, SameOp
  <2>4. ToldBeside(b, p)
    BY ToldOnce
  <2> QED BY <1>0, <2>1, <2>3, <2>4 DEF Ahead, SameOp
<1>8. Behind(b)'
  <2>1. CASE b = a
    BY <2>1 DEF OpCalm
  <2>2. CASE b # a
    <3> SUFFICES ASSUME pc'[b] \in {"save", "prompt"}, op'[b].kind = "advance", ~op'[b].stale,
                        ~crossed'[op'[b].loop], op'[b].rec.owner # Nobody
                 PROVE  Before(PromptIn(b)') \in worked' \cup lost'
      BY DEF Behind, Before
    <3>1. op[b].loop \in Loops
      <4>1. pc[b] \in OpStages
        BY <1>3, <2>2 DEF OpStages
      <4> QED BY <4>1, PlacesOf
    <3>2. ~op[b].stale /\ ~crossed[op[b].loop]
      BY <1>3, <2>2, <3>1 DEF FilesCalm
    <3>3. Before(PromptIn(b)) \in worked \cup lost
      BY <1>0, <1>3, <2>2, <3>2 DEF Behind
    <3>4. PromptIn(b)' = PromptIn(b)
      BY <1>3, <2>2 DEF PromptIn, PromptOf
    <3> QED BY <3>3, <3>4 DEF ToldCalm
  <2> QED BY <2>1, <2>2
<1> QED BY <1>5, <1>6, <1>7, <1>8

LEMMA CalmKeeps ==
  ASSUME RalphInv, StepInv, MovesGrow, NEW a \in Sessions,
         FilesCalm, OthersFall(a), ToldCalm(a), OpCalm(a)
  PROVE  StepInv'
<1>1. \A b \in Sessions : (Newborn(b) /\ Owners(b) /\ Ahead(b) /\ Behind(b))'
  BY CalmKeepsActors
<1>2. \A p \in Prompts : Known(p)' => p.run <= moves' + 1
  <2> TAKE p \in Prompts
  <2> HAVE Known(p)'
  <2>1. Known(p) \/ p.run = op[a].rec.run
    BY PromptParts DEF ToldCalm, PromptIn
  <2>2. p.run <= moves + 1
    BY <2>1, RunsBounded DEF StepInv
  <2>3. p.run \in Nat
    BY SMT DEF Prompts
  <2> QED BY <2>2, <2>3, SMT DEF MovesGrow
<1>3. ASSUME NEW n \in Loops
      PROVE  Counted(n)' /\ Promised(n)' /\ Handed(n)'
  <2>0. /\ Counted(n) /\ Promised(n) /\ Handed(n) /\ (crossed[n] => crossed'[n])
        /\ live'[n] = live[n] \/ live'[n] = Absent
        /\ live'[n] # Absent /\ ~crossed'[n] /\ live[n].status \in {"active", "paused"}
             => promised'[n] = promised[n]
    BY DEF StepInv, FilesCalm
  <2>1. CASE live'[n] = Absent
    <3>1. live'[n].status = "none"
      BY <2>1, AbsentType
    <3> QED BY <3>1 DEF Counted, Promised, Handed
  <2>2. CASE live'[n] # Absent /\ live'[n] = live[n]
    <3>1. Counted(n)'
      <4> SUFFICES ASSUME ~crossed'[n], live[n].status # "none",
                          NEW p \in Prompts, p.loop = n, p.run = live[n].run, Told(p)'
                   PROVE  p.it <= live[n].it
        BY <2>2 DEF Counted
      <4>1. Told(p)
        BY ToldOnce
      <4> QED BY <2>0, <4>1 DEF Counted
    <3>2. Promised(n)'
      BY <2>0, <2>2 DEF Promised
    <3>3. Handed(n)'
      <4> DEFINE q == PromptOf(n, live[n])
      <4> SUFFICES ASSUME ~crossed'[n], live[n].status = "active", NEW s \in Sessions, s # Nobody,
                          live[n].owner = s, pc'[s] # "dead"
                   PROVE  \/ q \in worked' \cup lost' \cup ToSet(queue'[s])
                          \/ Pending(s)' /\ PromptIn(s)' = q
        BY <2>2 DEF Handed, PromptOf
      <4>1. pc[s] # "dead"
        BY DEF OpCalm, OthersFall, Fallen
      <4>2. q \in worked \cup lost \cup ToSet(queue[s]) \/ (Pending(s) /\ PromptIn(s) = q)
        BY <2>0, <4>1 DEF Handed
      <4>3. CASE q \in worked \cup lost \cup ToSet(queue[s])
        <5> HIDE DEF q
        <5> QED BY <4>3 DEF ToldCalm
      <4>4. CASE Pending(s) /\ PromptIn(s) = q
        <5> HIDE DEF q
        <5>1. Pending(s)' /\ SameOp(op[s], op'[s]) => PromptIn(s)' = q
          BY <4>4 DEF PromptIn, PromptOf, SameOp
        <5>2. CASE s # a
          BY <4>4, <5>1, <5>2 DEF OthersFall, Fallen, Pending, SameOp
        <5>3. CASE s = a /\ Pending(a)'
          BY <5>1, <5>3 DEF ToldCalm
        <5>4. CASE s = a /\ ~Pending(a)'
          <6>1. \/ PromptIn(a) \in worked' \cup lost' \cup ToSet(queue'[a])
                \/ pc'[a] = "dead"
                \/ \A m \in Loops : ~crossed[m] /\ live[m].status = "active"
                                      => PromptIn(a) # PromptOf(m, live[m])
            BY <4>4, <5>4 DEF ToldCalm
          <6>2. ~crossed[n]
            BY <2>0
          <6> QED BY <4>4, <5>4, <6>1, <6>2 DEF q
        <5> QED BY <5>2, <5>3, <5>4
      <4> QED BY <4>2, <4>3, <4>4
    <3> QED BY <3>1, <3>2, <3>3
  <2> QED BY <2>0, <2>1, <2>2
<1> QED BY <1>1, <1>2, <1>3 DEF StepInv

-----------------------------------------------------------------------------
(* Steps that leave the prompts alone.                                     *)
LEMMA QuietFiles ==
  ASSUME UNCHANGED <<live, promised, crossed>>
  PROVE  FilesCalm
PROOF BY DEF FilesCalm

LEMMA QuietOthers ==
  ASSUME NEW a \in Sessions, OthersStay(a)
  PROVE  OthersFall(a)
PROOF BY DEF OthersStay, OthersFall, Fallen, SameOp

LEMMA QuietTold ==
  ASSUME NEW a \in Sessions, UNCHANGED <<worked, lost, queue>>,
         Pending(a)' => Pending(a) /\ SameOp(op[a], op'[a]) /\ (op[a].stale => op'[a].stale),
         Pending(a) => Pending(a)'
  PROVE  ToldCalm(a)
<1>1. \A p \in Prompts : Known(p)' <=> Known(p)
  BY DEF Known
<1> QED BY <1>1 DEF ToldCalm

\* The prompts a session holds in its queue move on or go away.
LEMMA MovedTold ==
  ASSUME NEW a \in Sessions, queue \in [Sessions -> Seq(Prompts)], NEW q,
         queue' = [queue EXCEPT ![a] = q], ToSet(q) \subseteq ToSet(queue[a]),
         worked \cup lost \subseteq worked' \cup lost',
         worked' \cup lost' \subseteq worked \cup lost \cup ToSet(queue[a]),
         ToSet(queue[a]) \subseteq ToSet(q) \cup worked' \cup lost',
         ~Pending(a)', Pending(a) => pc'[a] = "dead"
  PROVE  ToldCalm(a)
<1>1. queue'[a] = q /\ \A s \in Sessions : s # a => queue'[s] = queue[s]
  OBVIOUS
<1>2. ASSUME NEW p \in Prompts, Known(p)'
      PROVE  Known(p)
  <2>1. CASE p \in worked' \cup lost'
    BY <2>1 DEF Known
  <2>2. CASE \E s \in Sessions : p \in ToSet(queue'[s])
    BY <1>1, <2>2 DEF Known
  <2> QED BY <1>2, <2>1, <2>2 DEF Known
<1>3. \A s \in Sessions : ToSet(queue[s]) \subseteq ToSet(queue'[s]) \cup worked' \cup lost'
  BY <1>1
<1> QED BY <1>2, <1>3 DEF ToldCalm

LEMMA OpRests ==
  ASSUME NEW a \in Sessions, op'[a] = NoOp, pc[a] # "dead"
  PROVE  OpCalm(a) /\ ~Pending(a)'
<1>1. NoOp.kind = "none" /\ NoOp.rec.run = 0
  BY NoOpType, AbsentType DEF NoOp
<1> QED BY <1>1 DEF OpCalm, Unborn, Owners, Behind, Pending

LEMMA RestsQuietly ==
  ASSUME RalphInv, NEW a \in Sessions, pc[a] \notin OpStages
  PROVE  op[a] = NoOp /\ ~Pending(a) /\ ~Unborn(a)
<1>1. op[a] = NoOp
  BY DEF RalphInv, OpOK, ShapeOf
<1> QED BY <1>1 DEF Pending, Unborn, NoOp

LEMMA OpGoesOn ==
  ASSUME RalphInv, StepInv, NEW a \in Sessions, pc[a] \in OpStages,
         op'[a] = Pop(op[a]), pc'[a] = NextPlace(op[a]),
         worked \cup lost \subseteq worked' \cup lost',
         \A n \in Loops : crossed[n] => crossed'[n]
  PROVE  /\ OpCalm(a)
         /\ Pending(a)' => pc[a] \in {"save", "sync"} /\ SameOp(op[a], op'[a]) /\ op'[a].stale = op[a].stale
         /\ pc[a] = "sync" /\ Pending(a)' => Pending(a)
         /\ pc[a] = "sync" /\ Pending(a) => Pending(a)'
<1> DEFINE q == NextPlace(op[a])
<1>0. op[a] \in Ops /\ ShapeOf(op[a], pc[a]) /\ pc[a] # "dead" /\ Owners(a) /\ Behind(a) /\ op[a].loop \in Loops
  BY ActorTypes, PlacesOf, StageTypes DEF RalphInv, OpOK, StepInv
<1>1. /\ q \in OpStages => SameOp(op[a], Pop(op[a])) /\ Pop(op[a]).stale = op[a].stale
      /\ q \notin OpStages => Pop(op[a]) = NoOp
      /\ pc[a] = "text" => q = "save"
      /\ pc[a] = "save" => q \in {"sync", "prompt"} \cup Resting
      /\ pc[a] = "sync" => q = "prompt" \/ q \in Resting
      /\ pc[a] = "sync" /\ q = "prompt" => op[a].kind = "start"
      /\ pc[a] = "prompt" => q \in Resting
      /\ pc[a] = "fetch" => q = "keep_text"
      /\ pc[a] = "keep_text" => q = "keep"
      /\ pc[a] = "keep" => q = "drop"
      /\ pc[a] = "drop" => q = "drop_text"
      /\ pc[a] = "drop_text" => q = "sync"
  BY <1>0, ShapeGoes
<1>2. CASE q \notin OpStages
  <2>1. OpCalm(a) /\ ~Pending(a)'
    BY <1>0, <1>1, <1>2, OpRests
  <2>2. ~(pc[a] = "sync" /\ Pending(a))
    <3> SUFFICES ASSUME pc[a] = "sync", op[a].kind \in {"start", "advance"}
                 PROVE  FALSE
      BY DEF Pending
    <3>1. op[a].rest = <<"prompt">>
      BY <1>0 DEF ShapeOf
    <3>2. q = "prompt"
      BY <1>0, <3>1, FullRest, StageHeads, StageTypes
    <3> QED BY <1>2, <3>2 DEF OpStages
  <2> QED BY <2>1, <2>2
<1>3. CASE q \in OpStages
  <2> HIDE DEF q
  <2>0. pc'[a] = q
    BY DEF q
  <2>1. SameOp(op[a], op'[a]) /\ op'[a].stale = op[a].stale
    BY <1>1, <1>3
  <2>2. q \notin Resting
    BY <1>3, StageTypes
  <2>3. Unborn(a)' => Unborn(a) /\ op'[a].rec.run = op[a].rec.run
    <3>1. Unborn(a)' => pc[a] = "text"
      BY <1>0, <1>1, <2>0, <2>2 DEF Unborn, OpStages
    <3> QED BY <2>1, <3>1 DEF Unborn, SameOp
  <2>4. Behind(a)'
    <3> SUFFICES ASSUME q \in {"save", "prompt"}, op'[a].kind = "advance", ~op'[a].stale,
                        ~crossed'[op'[a].loop], op'[a].rec.owner # Nobody
                 PROVE  Before(PromptIn(a)') \in worked' \cup lost'
      BY <2>0 DEF Behind, Before
    <3>1. pc[a] = "save"
      <4>1. pc[a] = "text" => op[a].kind = "start"
        BY <1>0 DEF ShapeOf
      <4>2. pc[a] # "text" /\ ~(pc[a] = "sync" /\ q = "prompt")
        BY <1>1, <2>1, <4>1 DEF SameOp
      <4> QED BY <1>0, <1>1, <2>2, <4>2 DEF OpStages
    <3>2. ~op[a].stale /\ ~crossed[op[a].loop] /\ op[a].kind = "advance" /\ op[a].rec.owner # Nobody
      BY <1>0, <2>1 DEF SameOp
    <3>3. Before(PromptIn(a)) \in worked \cup lost
      BY <1>0, <3>1, <3>2 DEF Behind
    <3>4. PromptIn(a)' = PromptIn(a)
      BY <2>1 DEF PromptIn, PromptOf, SameOp
    <3> QED BY <3>3, <3>4
  <2>5. Owners(a)'
    BY <1>0, <2>1 DEF Owners, SameOp
  <2>6. OpCalm(a)
    BY <1>0, <2>1, <2>3, <2>4, <2>5 DEF OpCalm, SameOp
  <2>7. Pending(a)' => pc[a] \in {"save", "sync"}
    <3> SUFFICES ASSUME q \in {"sync", "prompt"}, op'[a].kind \in {"start", "advance"}
                 PROVE  pc[a] \in {"save", "sync"}
      BY <2>0 DEF Pending
    <3>1. pc[a] = "drop_text" => op[a].kind \in {"archive", "delete"}
      BY <1>0 DEF ShapeOf
    <3>2. pc[a] # "drop_text"
      BY <2>1, <3>1 DEF SameOp
    <3> QED BY <1>0, <1>1, <2>2, <3>2 DEF OpStages
  <2>8. pc[a] = "sync" => (Pending(a)' <=> Pending(a))
    <3> SUFFICES ASSUME pc[a] = "sync"
                 PROVE  Pending(a)' <=> Pending(a)
      OBVIOUS
    <3>1. q = "prompt"
      BY <1>1, <2>2
    <3> QED BY <2>0, <2>1, <3>1 DEF Pending, SameOp
  <2> QED BY <2>1, <2>6, <2>7, <2>8
<1> QED BY <1>2, <1>3

\* Operations that begin.
LEMMA BegunCalm ==
  ASSUME RalphInv, StepInv, MovesGrow, NEW a \in Sessions, pc[a] \in Resting,
         UNCHANGED <<live, promised, worked, lost, queue>>,
         NEW kind \in Kinds, NEW n \in Loops, NEW rec \in Recs, NEW back,
         NEW x \in {"text", "save", "fetch", "drop"}, NEW stages, Head(stages) = x,
         BeginOp(a, kind, n, rec, stages, back),
         kind = "start" => rec.run = moves + 2 /\ rec.it = 1,
         kind # "start" => rec.run = live[n].run,
         kind \in {"start", "resume"} => rec.owner = a,
         kind = "advance" => /\ rec.owner \in {Nobody, a}
                             /\ ~crossed[n] /\ rec.owner # Nobody
                                  => Before(PromptOf(n, rec)) \in worked \cup lost
  PROVE  StepInv'
<1> DEFINE o == NewOp(kind, n, rec, Tail(stages), back)
<1>0. pc \in [Sessions -> Places] /\ op \in [Sessions -> Ops] /\ moves \in Nat
  BY DEF RalphInv, LoopsTypeOK
<1>1. pc' = [pc EXCEPT ![a] = x] /\ op' = [op EXCEPT ![a] = o] /\ UNCHANGED crossed
  BY DEF BeginOp, NewOp
<1>2. o.kind = kind /\ o.loop = n /\ o.rec = rec
  BY DEF NewOp
<1> HIDE DEF o
<1>3. pc'[a] = x /\ op'[a] = o /\ OthersStay(a)
  BY <1>0, <1>1 DEF OthersStay
<1>4. pc[a] \notin OpStages /\ pc[a] # "dead"
  BY StageTypes
<1>5. op[a] = NoOp /\ ~Pending(a) /\ ~Unborn(a)
  BY <1>4, RestsQuietly
<1>6. ~Pending(a)'
  BY <1>3 DEF Pending
<1>7. FilesCalm /\ OthersFall(a) /\ ToldCalm(a)
  BY <1>1, <1>3, <1>5, <1>6, QuietFiles, QuietOthers, QuietTold
<1>8. Owners(a)'
  <2>1. moves + 2 # 0
    BY <1>0, SMT
  <2> QED BY <1>2, <1>3, <2>1 DEF Owners
<1>9. Behind(a)'
  <2> SUFFICES ASSUME kind = "advance", ~crossed[n], rec.owner # Nobody
               PROVE  Before(PromptIn(a)') \in worked' \cup lost'
    BY <1>1, <1>2, <1>3 DEF Behind, Before
  <2>1. PromptIn(a)' = PromptOf(n, rec)
    BY <1>2, <1>3 DEF PromptIn, PromptOf
  <2> QED BY <2>1
<1>10. OpCalm(a)
  BY <1>2, <1>3, <1>4, <1>8, <1>9 DEF OpCalm, Unborn
<1> QED BY <1>7, <1>10, CalmKeeps

LEMMA StartLoadSteps ==
  ASSUME RalphInv, StepInv, NEW a \in Sessions, NEW n \in Loops, StartLoad(a, n)
  PROVE  StepInv'
<1> DEFINE rec == [status |-> "active", it |-> 1, owner |-> a, run |-> moves + 2]
<1>0. LoopsTypeOK /\ moves \in Nat
  BY DEF RalphInv, LoopsTypeOK
<1>1. /\ pc[a] \in {"idle", "call"}
      /\ BeginOp(a, "start", n, rec, <<"text", "save">> \o Synced(pc[a]) \o <<"prompt">>, pc[a])
      /\ UNCHANGED <<live, promised, worked, lost, queue>>
  BY DEF StartLoad, Untouched, files, ghosts
<1>2. MovesGrow
  BY <1>0, MoveGrows DEF StartLoad
<1>3. rec \in Recs /\ rec.it = 1 /\ rec.run = moves + 2
  <2>1. moves + 2 \in Nat
    BY <1>0, SMT
  <2> QED BY <2>1, NewRecord
<1>4. rec.owner = a
  OBVIOUS
<1>5. "start" \in Kinds /\ pc[a] \in Resting
  BY <1>1 DEF Kinds, Resting
<1> HIDE DEF rec
<1>6. Head(<<"text", "save">> \o Synced(pc[a]) \o <<"prompt">>) = "text"
  BY <1>1, StageLists, StageStarts
<1> QED BY <1>1, <1>2, <1>3, <1>4, <1>5, <1>6, BegunCalm

LEMMA CompletesSteps ==
  ASSUME RalphInv, StepInv, MovesGrow, NEW a \in Sessions, NEW n \in Loops, NEW back \in Resting,
         pc[a] \in Resting, Completes(a, n, back), UNCHANGED <<live, promised, worked, lost, queue>>
  PROVE  StepInv'
<1> DEFINE rec == [live[n] EXCEPT !.status = "completed"]
<1>0. LoopsTypeOK /\ live[n] \in Recs /\ "completed" \in Statuses
  BY LoopTypes DEF RalphInv, Statuses
<1>1. BeginOp(a, "complete", n, rec, <<"save">> \o Synced(back), back)
  BY DEF Completes
<1>2. rec \in Recs /\ rec.run = live[n].run
  BY <1>0, WithStatus
<1> HIDE DEF rec
<1>3. Head(<<"save">> \o Synced(back)) = "save"
  BY StageLists, StageStarts DEF Resting
<1>4. "complete" \in Kinds /\ "complete" \notin {"start", "resume", "advance"}
  BY DEF Kinds
<1> QED BY <1>1, <1>2, <1>3, <1>4, BegunCalm

LEMMA ResumeLoadSteps ==
  ASSUME RalphInv, StepInv, NEW a \in Sessions, NEW n \in Loops, ResumeLoad(a, n)
  PROVE  StepInv'
<1> DEFINE rec == [live[n] EXCEPT !.status = "active", !.owner = a]
<1>0. LoopsTypeOK /\ live[n] \in Recs
  BY LoopTypes DEF RalphInv
<1>1. /\ pc[a] = "idle" /\ BeginOp(a, "resume", n, rec, <<"save", "sync">>, "idle")
      /\ UNCHANGED <<live, promised, worked, lost, queue>>
  BY DEF ResumeLoad, Untouched, files, ghosts
<1>2. MovesGrow
  BY <1>0, MoveGrows DEF ResumeLoad
<1>3. rec \in Recs /\ rec.owner = a /\ rec.run = live[n].run
  <2>1. rec = Adopted(live[n], a)
    BY DEF Adopted
  <2> HIDE DEF rec
  <2> QED BY <1>0, <2>1, WithOwner
<1> HIDE DEF rec
<1>4. "resume" \in Kinds /\ "resume" \notin {"start", "advance"} /\ pc[a] \in Resting
  BY <1>1 DEF Kinds, Resting
<1> QED BY <1>1, <1>2, <1>3, <1>4, BegunCalm, StageStarts

LEMMA StopsStep ==
  ASSUME RalphInv, StepInv, NEW a \in Sessions,
         (\E n \in Loops : StopLoad(a, n)) \/ StopCurrent(a)
  PROVE  StepInv'
<1>0. LoopsTypeOK
  BY DEF RalphInv
<1>1. MovesGrow /\ UNCHANGED <<live, promised, worked, lost, queue>> /\ pc[a] = "idle"
  BY <1>0, MoveGrows DEF StopLoad, StopCurrent, Untouched, files, ghosts
<1>2. \E n \in Loops : Completes(a, n, "idle")
  BY <1>0, CurrentFacts DEF StopLoad, StopCurrent
<1>3. "idle" \in Resting
  BY DEF Resting
<1> QED BY <1>1, <1>2, <1>3, CompletesSteps

LEMMA ArchiveLoadSteps ==
  ASSUME RalphInv, StepInv, NEW a \in Sessions, NEW n \in Loops, ArchiveLoad(a, n) \/ DeleteLoad(a, n)
  PROVE  StepInv'
<1>0. LoopsTypeOK /\ live[n] \in Recs
  BY LoopTypes DEF RalphInv
<1>1. MovesGrow /\ UNCHANGED <<live, promised, worked, lost, queue>> /\ pc[a] \in Resting
  BY <1>0, MoveGrows DEF ArchiveLoad, DeleteLoad, Untouched, files, ghosts, Resting
<1>2. /\ "archive" \in Kinds /\ "archive" \notin {"start", "resume", "advance"}
      /\ "delete" \in Kinds /\ "delete" \notin {"start", "resume", "advance"}
  BY DEF Kinds
<1>3. CASE ArchiveLoad(a, n)
  <2>1. BeginOp(a, "archive", n, live[n], <<"fetch", "keep_text", "keep", "drop", "drop_text", "sync">>, "idle")
    BY <1>3, StageLists DEF ArchiveLoad
  <2>2. Head(<<"fetch", "keep_text", "keep", "drop", "drop_text", "sync">>) = "fetch"
    BY StageStarts, Zenon
  <2>3. "fetch" \in {"text", "save", "fetch", "drop"}
    OBVIOUS
  <2> QED BY <1>0, <1>1, <1>2, <2>1, <2>2, <2>3, BegunCalm
<1>4. CASE DeleteLoad(a, n)
  <2>1. BeginOp(a, "delete", n, live[n], <<"drop", "drop_text", "sync">>, "idle")
    BY <1>4 DEF DeleteLoad
  <2> QED BY <1>0, <1>1, <1>2, <2>1, BegunCalm, StageStarts
<1> QED BY <1>3, <1>4

LEMMA IterateSteps ==
  ASSUME RalphInv, StepInv, MovesGrow, NEW a \in Sessions, NEW n \in Loops, Mine(a, n), pc[a] = "call",
         queue[a] = <<>>, Iterate(a, n), UNCHANGED <<live, promised, worked, lost, queue>>
  PROVE  StepInv'
<1> DEFINE next == [live[n] EXCEPT !.it = @ + 1]
           last == [next EXCEPT !.status = "completed"]
<1>0. LoopsTypeOK /\ live[n] \in Recs
  BY LoopTypes DEF RalphInv
<1>1. next \in Recs /\ next.run = live[n].run /\ next.owner = live[n].owner /\ next.it = live[n].it + 1
      /\ live[n].it \in Nat
  BY <1>0, WithNext, RecParts
<1>2. "complete" \in Kinds /\ "complete" \notin {"start", "resume", "advance"}
      /\ "advance" \in Kinds /\ "advance" \notin {"start", "resume"} /\ pc[a] \in Resting
  BY DEF Kinds, Resting
<1>3. CASE Limit > 0 /\ next.it > Limit
  <2>1. BeginOp(a, "complete", n, last, <<"save">>, "call")
    BY <1>3, Zenon DEF Iterate
  <2>2. last \in Recs /\ last.run = live[n].run
    <3>1. "completed" \in Statuses
      BY DEF Statuses
    <3> HIDE DEF next
    <3> QED BY <1>1, <3>1, WithStatus
  <2> HIDE DEF last
  <2> QED BY <1>2, <2>1, <2>2, BegunCalm, StageStarts
<1>4. CASE ~(Limit > 0 /\ next.it > Limit)
  <2>1. BeginOp(a, "advance", n, next, <<"save", "prompt">>, "call")
    BY <1>4, Zenon DEF Iterate
  <2> HIDE DEF next
  <2>2. live[n].status = "active" /\ live[n].owner \in {Nobody, a}
    BY DEF Mine, OwnedBy
  <2>3. ASSUME ~crossed[n], live[n].owner # Nobody
        PROVE  Before(PromptOf(n, next)) \in worked \cup lost
    <3>1. PromptOf(n, live[n]) \in worked \cup lost \cup ToSet(queue[a])
      <4>1. ~Pending(a) /\ pc[a] # "dead"
        BY DEF Pending
      <4> QED BY <2>2, <2>3, <4>1 DEF StepInv, Handed
    <3>2. ToSet(queue[a]) = {}
      <4>1. DOMAIN queue[a] = {}
        BY SMT
      <4> QED BY <4>1 DEF ToSet
    <3>3. Before(PromptOf(n, next)) = PromptOf(n, live[n])
      <4>1. \A r, i, k : [[loop |-> n, run |-> r, it |-> i] EXCEPT !.it = k] = [loop |-> n, run |-> r, it |-> k]
        BY SMT
      <4>2. Before(PromptOf(n, next)) = [PromptOf(n, next) EXCEPT !.it = PromptOf(n, next).it - 1]
        BY DEF Before
      <4>3. PromptOf(n, next).it = live[n].it + 1
        BY <1>1 DEF PromptOf
      <4>4. PromptOf(n, next).it - 1 = live[n].it
        BY <1>1, <4>3, SMT
      <4>5. PromptOf(n, next) = [loop |-> n, run |-> live[n].run, it |-> next.it]
            /\ PromptOf(n, live[n]) = [loop |-> n, run |-> live[n].run, it |-> live[n].it]
        BY <1>1 DEF PromptOf
      <4> QED BY <4>1, <4>2, <4>4, <4>5
    <3> QED BY <3>1, <3>2, <3>3
  <2> QED BY <1>1, <1>2, <2>1, <2>2, <2>3, BegunCalm, StageStarts
<1> QED BY <1>3, <1>4

-----------------------------------------------------------------------------
(* The agent's steps.                                                      *)
LEMMA RestCalm ==
  ASSUME RalphInv, StepInv, MovesGrow, NEW a \in Sessions, pc[a] \notin OpStages, pc[a] # "dead",
         UNCHANGED <<live, promised, crossed, op>>, \A b \in Sessions : b # a => pc'[b] = pc[b],
         ToldCalm(a)
  PROVE  StepInv'
<1>1. op'[a] = NoOp
  BY RestsQuietly
<1>2. OpCalm(a)
  BY <1>1, OpRests
<1>3. OthersFall(a)
  BY DEF OthersFall, Fallen, SameOp
<1> QED BY <1>2, <1>3, QuietFiles, CalmKeeps

LEMMA TurnsStep ==
  ASSUME RalphInv, StepInv, MovesGrow, NEW a \in Sessions, pc[a] \in Resting,
         UNCHANGED <<live, promised, crossed, op, worked, lost, queue>>,
         pc' = pc \/ \E to \in Resting : pc' = [pc EXCEPT ![a] = to]
  PROVE  StepInv'
<1>0. pc \in [Sessions -> Places] /\ pc[a] \notin OpStages /\ pc[a] # "dead"
  BY StageTypes DEF RalphInv, LoopsTypeOK
<1>1. op'[a] = NoOp /\ ~Pending(a)
  BY <1>0, RestsQuietly
<1>2. ~Pending(a)'
  BY <1>0, <1>1, OpRests
<1>3. ToldCalm(a)
  BY <1>1, <1>2, QuietTold
<1> QED BY <1>0, <1>3, RestCalm

LEMMA PlainTurnsStep ==
  ASSUME RalphInv, StepInv, NEW s \in Sessions, UserPrompt(s) \/ Continue(s) \/ RunStops(s) \/ TurnFails(s)
  PROVE  StepInv'
<1>0. LoopsTypeOK
  BY DEF RalphInv
<1>1. MovesGrow
  BY <1>0, MoveGrows, CountsStay DEF UserPrompt, Continue, RunStops, TurnFails
<1>2. pc[s] \in Resting /\ UNCHANGED <<live, promised, crossed, op, worked, lost, queue>>
  BY DEF UserPrompt, Continue, RunStops, TurnFails, Goes, Untouched, Resting, ghosts, files
<1>3. \E to \in Resting : pc' = [pc EXCEPT ![s] = to]
  BY DEF UserPrompt, Continue, RunStops, TurnFails, Goes, Resting
<1> QED BY <1>1, <1>2, <1>3, TurnsStep

LEMMA RalphDoneSteps ==
  ASSUME RalphInv, StepInv, NEW s \in Sessions, RalphDone(s)
  PROVE  StepInv'
<1> DEFINE n == CurrentOf(s)
<1>0. LoopsTypeOK /\ pc[s] = "call" /\ pc[s] \in Resting
  BY DEF RalphInv, RalphDone, Resting
<1>1. MovesGrow
  BY <1>0, MoveGrows DEF RalphDone
<1>2. n \in Loops \cup {NoLoop} /\ (n # NoLoop => n \in Loops /\ Mine(s, n))
  BY <1>0, CurrentFacts
<1>3. UNCHANGED <<live, promised, worked, lost, queue>>
  BY DEF RalphDone, Untouched, files, ghosts
<1>4. \/ UNCHANGED <<pc, op, crossed>>
      \/ n # NoLoop /\ queue[s] = <<>> /\ Iterate(s, n)
  BY DEF RalphDone, HasQueued
<1> HIDE DEF n
<1>5. CASE UNCHANGED <<pc, op, crossed>>
  BY <1>0, <1>1, <1>3, <1>5, TurnsStep
<1>6. CASE n # NoLoop /\ queue[s] = <<>> /\ Iterate(s, n)
  BY <1>0, <1>1, <1>2, <1>3, <1>6, IterateSteps
<1> QED BY <1>4, <1>5, <1>6

LEMMA TurnEndsSteps ==
  ASSUME RalphInv, StepInv, NEW s \in Sessions, TurnEnds(s)
  PROVE  StepInv'
<1> DEFINE n == CurrentOf(s)
<1>0. LoopsTypeOK /\ "after" \in Resting /\ pc[s] \in Resting
  BY DEF RalphInv, TurnEnds, Resting
<1>1. MovesGrow
  BY <1>0, CountsStay DEF TurnEnds
<1>2. n # NoLoop => n \in Loops
  BY <1>0, CurrentFacts
<1>3. UNCHANGED <<live, promised, worked, lost, queue>>
  BY DEF TurnEnds, Untouched, files, ghosts
<1>4. \/ Goes(s, "after") /\ UNCHANGED crossed
      \/ n # NoLoop /\ Completes(s, n, "after")
  BY DEF TurnEnds
<1> HIDE DEF n
<1>5. CASE Goes(s, "after") /\ UNCHANGED crossed
  BY <1>0, <1>1, <1>3, <1>5, TurnsStep DEF Goes
<1>6. CASE n # NoLoop /\ Completes(s, n, "after")
  BY <1>0, <1>1, <1>2, <1>3, <1>6, CompletesSteps
<1> QED BY <1>4, <1>5, <1>6

\* What a queue holds before and after a prompt goes in or out.
LEMMA QueueHolds ==
  ASSUME NEW S, NEW q \in Seq(S)
  PROVE  /\ q # <<>> => /\ Head(q) \in ToSet(q) /\ ToSet(Tail(q)) \subseteq ToSet(q)
                        /\ ToSet(q) \subseteq ToSet(Tail(q)) \cup {Head(q)}
         /\ ToSet(<<>>) = {}
         /\ \A p \in S : ToSet(Append(q, p)) = ToSet(q) \cup {p}
<1>1. ASSUME q # <<>>
      PROVE  /\ Head(q) \in ToSet(q) /\ ToSet(Tail(q)) \subseteq ToSet(q)
             /\ ToSet(q) \subseteq ToSet(Tail(q)) \cup {Head(q)}
  <2>1. 1 \in DOMAIN q /\ q[1] = Head(q)
    BY <1>1, SMT
  <2>2. \A i \in DOMAIN Tail(q) : i + 1 \in DOMAIN q /\ Tail(q)[i] = q[i + 1]
    BY <1>1, SMT
  <2>3. \A i \in DOMAIN q : i = 1 \/ (i - 1 \in DOMAIN Tail(q) /\ q[i] = Tail(q)[i - 1])
    BY <1>1, SMT
  <2>4. ASSUME NEW y
        PROVE  /\ y \in ToSet(q) <=> \E i \in DOMAIN q : q[i] = y
               /\ y \in ToSet(Tail(q)) <=> \E i \in DOMAIN Tail(q) : Tail(q)[i] = y
    BY Zenon DEF ToSet
  <2>5. Head(q) \in ToSet(q)
    BY <2>1, <2>4
  <2>6. ASSUME NEW y \in ToSet(Tail(q))
        PROVE  y \in ToSet(q)
    BY <2>2, <2>4, <2>6, Zenon
  <2>7. ASSUME NEW y \in ToSet(q), y # Head(q)
        PROVE  y \in ToSet(Tail(q))
    BY <2>1, <2>3, <2>4, <2>7, Zenon
  <2> QED BY <2>5, <2>6, <2>7
<1>2. ToSet(<<>>) = {}
  <2>1. DOMAIN <<>> = {}
    BY SMT
  <2> QED BY <2>1 DEF ToSet
<1>3. ASSUME NEW p \in S
      PROVE  ToSet(Append(q, p)) = ToSet(q) \cup {p}
  <2>1. \A i \in DOMAIN Append(q, p) : Append(q, p)[i] = p \/ (i \in DOMAIN q /\ Append(q, p)[i] = q[i])
    BY SMT
  <2>2. \A i \in DOMAIN q : i \in DOMAIN Append(q, p) /\ Append(q, p)[i] = q[i]
    BY SMT
  <2>3. \E i \in DOMAIN Append(q, p) : Append(q, p)[i] = p
    <3>1. Len(q) + 1 \in DOMAIN Append(q, p) /\ Append(q, p)[Len(q) + 1] = p
      BY SMT
    <3> QED BY <3>1, Zenon
  <2> QED BY <2>1, <2>2, <2>3, Zenon DEF ToSet
<1> QED BY <1>1, <1>2, <1>3

LEMMA DeliverSteps ==
  ASSUME RalphInv, StepInv, NEW s \in Sessions, Deliver(s)
  PROVE  StepInv'
<1>0. LoopsTypeOK /\ queue \in [Sessions -> Seq(Prompts)] /\ pc \in [Sessions -> Places]
      /\ pc[s] \notin OpStages /\ pc[s] # "dead"
  BY StageTypes DEF RalphInv, LoopsTypeOK, AgentTypes, Deliver, Resting
<1>1. MovesGrow
  BY <1>0, MoveGrows DEF Deliver
<1>2. /\ UNCHANGED <<live, promised, crossed, op>> /\ pc' = [pc EXCEPT ![s] = "call"]
      /\ queue[s] # <<>> /\ queue' = [queue EXCEPT ![s] = Tail(queue[s])]
      /\ worked' = worked \cup {Head(queue[s])} /\ lost' = lost
  BY DEF Deliver, Goes, files
<1>3. /\ Head(queue[s]) \in ToSet(queue[s]) /\ ToSet(Tail(queue[s])) \subseteq ToSet(queue[s])
      /\ ToSet(queue[s]) \subseteq ToSet(Tail(queue[s])) \cup {Head(queue[s])}
  BY <1>0, <1>2, QueueHolds
<1>4. ~Pending(s) /\ ~Pending(s)'
  BY <1>0, <1>2, RestsQuietly, OpRests
<1>5. ToldCalm(s)
  BY <1>0, <1>2, <1>3, <1>4, MovedTold
<1> QED BY <1>0, <1>1, <1>2, <1>5, RestCalm

LEMMA QueueClearedSteps ==
  ASSUME RalphInv, StepInv, NEW s \in Sessions, QueueCleared(s)
  PROVE  StepInv'
<1>0. LoopsTypeOK /\ queue \in [Sessions -> Seq(Prompts)] /\ pc[s] \notin OpStages /\ pc[s] # "dead"
  BY StageTypes DEF RalphInv, LoopsTypeOK, AgentTypes, QueueCleared
<1>1. MovesGrow
  BY <1>0, MoveGrows DEF QueueCleared
<1>2. /\ UNCHANGED <<live, promised, crossed, op, pc>>
      /\ queue' = [queue EXCEPT ![s] = <<>>] /\ worked' = worked /\ lost' = lost \cup ToSet(queue[s])
  BY DEF QueueCleared, files
<1>3. ToSet(<<>>) = {}
  BY <1>0, QueueHolds
<1>4. ~Pending(s) /\ ~Pending(s)'
  BY <1>0, <1>2, RestsQuietly, OpRests
<1>5. ToldCalm(s)
  BY <1>0, <1>2, <1>3, <1>4, MovedTold
<1> QED BY <1>0, <1>1, <1>2, <1>5, RestCalm

-----------------------------------------------------------------------------
(* Steps of an operation.                                                  *)
LEMMA DiesSteps ==
  ASSUME RalphInv, StepInv, NEW a \in Sessions, Dies(a)
  PROVE  StepInv'
<1>0. /\ LoopsTypeOK /\ queue \in [Sessions -> Seq(Prompts)] /\ pc \in [Sessions -> Places]
      /\ op \in [Sessions -> Ops]
  BY DEF RalphInv, LoopsTypeOK, AgentTypes
<1>1. MovesGrow
  BY <1>0, SMT DEF LoopsTypeOK, Dies, Break, MovesGrow
<1>2. /\ pc[a] # "dead" /\ pc' = [pc EXCEPT ![a] = "dead"] /\ op' = [op EXCEPT ![a] = NoOp]
      /\ UNCHANGED <<live, promised, crossed, worked>>
      /\ queue' = [queue EXCEPT ![a] = <<>>] /\ lost' = lost \cup ToSet(queue[a])
  BY DEF Dies, LeaveOp, files
<1>3. pc'[a] = "dead" /\ op'[a] = NoOp /\ OthersStay(a)
  BY <1>0, <1>2 DEF OthersStay
<1>4. OpCalm(a) /\ ~Pending(a)'
  BY <1>2, <1>3, OpRests
<1>5. ToSet(<<>>) = {}
  BY <1>0, QueueHolds
<1>6. ToldCalm(a)
  BY <1>0, <1>2, <1>3, <1>4, <1>5, MovedTold
<1> QED BY <1>1, <1>2, <1>3, <1>4, <1>6, QuietFiles, QuietOthers, CalmKeeps

\* An operation that ends before it hands anything out.
LEMMA LeavesQuietly ==
  ASSUME RalphInv, StepInv, MovesGrow, NEW a \in Sessions, pc[a] # "dead",
         UNCHANGED <<live, promised, crossed, worked, lost, queue>>,
         NEW to \in Resting, LeaveOp(a, to),
         Pending(a) => \A n \in Loops : ~crossed[n] /\ live[n].status = "active"
                                          => PromptIn(a) # PromptOf(n, live[n])
  PROVE  StepInv'
<1>0. pc \in [Sessions -> Places] /\ op \in [Sessions -> Ops]
  BY DEF RalphInv, LoopsTypeOK
<1>1. op'[a] = NoOp /\ OthersStay(a)
  BY <1>0 DEF LeaveOp, OthersStay
<1>2. OpCalm(a) /\ ~Pending(a)'
  BY <1>1, OpRests
<1>3. \A p \in Prompts : Known(p)' <=> Known(p)
  BY DEF Known
<1>4. ToldCalm(a)
  BY <1>2, <1>3 DEF ToldCalm
<1> QED BY <1>1, <1>2, <1>4, QuietFiles, QuietOthers, CalmKeeps

LEMMA StageFailsSteps ==
  ASSUME RalphInv, StepInv, NEW a \in Sessions, StageFails(a)
  PROVE  StepInv'
<1>0. LoopsTypeOK /\ op[a] \in Ops
  BY ActorTypes DEF RalphInv
<1>1. MovesGrow
  BY <1>0, SMT DEF LoopsTypeOK, StageFails, Break, MovesGrow
<1>2. /\ pc[a] # "dead" /\ ~Pending(a) /\ op[a].back \in Resting /\ LeaveOp(a, op[a].back)
      /\ UNCHANGED <<live, promised, crossed, worked, lost, queue>>
  BY <1>0, OpParts DEF StageFails, Pending, files, ghosts
<1> QED BY <1>1, <1>2, LeavesQuietly

LEMMA ArchiveReadSteps ==
  ASSUME RalphInv, StepInv, NEW a \in Sessions, ArchiveRead(a)
  PROVE  StepInv'
<1>0. LoopsTypeOK /\ op[a] \in Ops /\ pc \in [Sessions -> Places] /\ op \in [Sessions -> Ops]
  BY ActorTypes DEF RalphInv, LoopsTypeOK
<1>1. MovesGrow
  BY <1>0, CountsStay DEF ArchiveRead
<1>2. /\ pc[a] = "fetch" /\ pc[a] \in OpStages /\ pc[a] # "dead" /\ ~Pending(a)
      /\ UNCHANGED <<live, promised, crossed, worked, lost, queue>>
  BY DEF ArchiveRead, Untouched, Pending, OpStages, files, ghosts
<1>3. CASE task[op[a].loop] = NoText
  <2>1. LeaveOp(a, "idle") /\ "idle" \in Resting
    BY <1>3 DEF ArchiveRead, Resting
  <2> QED BY <1>1, <1>2, <2>1, LeavesQuietly
<1>4. CASE task[op[a].loop] # NoText
  <2>0. op[a].kind = "archive"
    BY <1>2 DEF RalphInv, OpOK, ShapeOf
  <2>1. /\ pc' = [pc EXCEPT ![a] = Head(op[a].rest)]
        /\ op' = [op EXCEPT ![a].rest = Tail(op[a].rest), ![a].text = task[op[a].loop]]
    BY <1>0, <1>4 DEF ArchiveRead
  <2>2. op'[a].kind = "archive" /\ op'[a].rec = op[a].rec /\ OthersStay(a)
    <3>1. ASSUME NEW x \in Ops, NEW r, NEW t
          PROVE  LET q == [x EXCEPT !.rest = r, !.text = t] IN q.kind = x.kind /\ q.rec = x.rec
      BY SMT DEF Ops
    <3>2. op'[a] = [op[a] EXCEPT !.rest = Tail(op[a].rest), !.text = task[op[a].loop]]
      BY <1>0, <2>1
    <3>3. op'[a].kind = op[a].kind /\ op'[a].rec = op[a].rec
      BY <1>0, <3>1, <3>2
    <3> QED BY <1>0, <2>0, <2>1, <3>3 DEF OthersStay
  <2>3. OpCalm(a) /\ ~Pending(a)'
    BY <1>2, <2>2 DEF OpCalm, Unborn, Owners, Behind, Pending
  <2>4. ToldCalm(a)
    BY <1>2, <2>3, QuietTold
  <2> QED BY <1>1, <1>2, <2>2, <2>3, <2>4, QuietFiles, QuietOthers, CalmKeeps
<1> QED BY <1>3, <1>4

LEMMA SyncAgentSteps ==
  ASSUME RalphInv, StepInv, NEW a \in Sessions, SyncAgent(a)
  PROVE  StepInv'
<1>0. LoopsTypeOK /\ pc \in [Sessions -> Places] /\ op \in [Sessions -> Ops]
  BY DEF RalphInv, LoopsTypeOK
<1>1. MovesGrow
  BY <1>0, CountsStay DEF SyncAgent
<1>2. /\ pc[a] = "sync" /\ pc[a] \in OpStages /\ UNCHANGED <<live, promised, crossed, worked, lost, queue>>
      /\ pc' = [pc EXCEPT ![a] = NextPlace(op[a])] /\ op' = [op EXCEPT ![a] = Pop(op[a])]
  BY DEF SyncAgent, NextStage, Untouched, OpStages, files, ghosts
<1>3. pc'[a] = NextPlace(op[a]) /\ op'[a] = Pop(op[a]) /\ OthersStay(a)
  BY <1>0, <1>2 DEF OthersStay
<1>4. /\ OpCalm(a)
      /\ Pending(a)' => pc[a] \in {"save", "sync"} /\ SameOp(op[a], op'[a]) /\ op'[a].stale = op[a].stale
      /\ Pending(a)' <=> Pending(a)
  <2>1. worked \cup lost \subseteq worked' \cup lost' /\ \A n \in Loops : crossed[n] => crossed'[n]
    BY <1>2
  <2>2. /\ OpCalm(a)
        /\ Pending(a)' => pc[a] \in {"save", "sync"} /\ SameOp(op[a], op'[a]) /\ op'[a].stale = op[a].stale
        /\ pc[a] = "sync" => (Pending(a)' <=> Pending(a))
    BY <1>2, <1>3, <2>1, OpGoesOn
  <2> QED BY <1>2, <2>2
<1>5. ToldCalm(a)
  BY <1>2, <1>4, QuietTold
<1> QED BY <1>1, <1>2, <1>3, <1>4, <1>5, QuietFiles, QuietOthers, CalmKeeps

LEMMA HandOverSteps ==
  ASSUME RalphInv, StepInv, NEW a \in Sessions, HandOver(a)
  PROVE  StepInv'
<1> DEFINE p == PromptIn(a)
<1>0. /\ LoopsTypeOK /\ op[a] \in Ops /\ pc \in [Sessions -> Places] /\ op \in [Sessions -> Ops]
      /\ queue \in [Sessions -> Seq(Prompts)]
  BY ActorTypes DEF RalphInv, LoopsTypeOK, AgentTypes
<1>1. MovesGrow
  BY <1>0, CountsStay DEF HandOver
<1>2. pc[a] = "prompt" /\ pc[a] \in OpStages /\ pc[a] # "dead" /\ UNCHANGED <<live, promised, crossed, lost>>
  BY DEF HandOver, OpStages, files
<1>3. op[a].kind \in {"start", "advance"} /\ op[a].rest = <<>> /\ Pending(a)
  BY <1>2 DEF RalphInv, OpOK, ShapeOf, Pending
<1>4. p \in Prompts
  <2>1. op[a].loop \in Loops /\ op[a].rec \in Recs
    BY <1>0, <1>2, PlacesOf, OpParts
  <2> QED BY <2>1, PromptType DEF PromptIn
<1>5. op'[a] = NoOp /\ OthersStay(a)
  <2>1. Pop(op[a]) = NoOp
    BY <1>0, <1>3, EmptyRest
  <2>2. op' = [op EXCEPT ![a] = NoOp] /\ \E q : pc' = [pc EXCEPT ![a] = q]
    BY <2>1 DEF HandOver, LeaveOp, NextStage
  <2> QED BY <1>0, <2>2 DEF OthersStay
<1>6. OpCalm(a) /\ ~Pending(a)'
  BY <1>2, <1>5, OpRests
<1>7. \/ worked' = worked \cup {p} /\ queue' = queue
      \/ worked' = worked /\ queue' = [queue EXCEPT ![a] = Append(queue[a], p)]
  BY <1>0 DEF HandOver, PromptIn
<1> HIDE DEF p
<1>8. /\ worked \cup lost \subseteq worked' \cup lost' /\ worked' \cup lost' \subseteq worked \cup lost \cup {p}
      /\ \A s \in Sessions : ToSet(queue[s]) \subseteq ToSet(queue'[s])
      /\ \A s \in Sessions : ToSet(queue'[s]) \subseteq ToSet(queue[s]) \cup {p}
      /\ p \in worked' \cup lost' \cup ToSet(queue'[a])
  <2>1. CASE worked' = worked \cup {p} /\ queue' = queue
    BY <1>2, <2>1
  <2>2. CASE worked' = worked /\ queue' = [queue EXCEPT ![a] = Append(queue[a], p)]
    <3>1. ToSet(Append(queue[a], p)) = ToSet(queue[a]) \cup {p}
      BY <1>0, <1>4, QueueHolds
    <3>2. queue'[a] = Append(queue[a], p) /\ \A s \in Sessions : s # a => queue'[s] = queue[s]
      BY <1>0, <2>2
    <3> QED BY <1>2, <2>2, <3>1, <3>2
  <2> QED BY <1>7, <2>1, <2>2
<1>9. \A x \in Prompts : Known(x)' => Known(x) \/ x = p
  BY <1>8 DEF Known
<1>10. ToldCalm(a)
  BY <1>3, <1>6, <1>8, <1>9 DEF ToldCalm, p
<1> QED BY <1>1, <1>2, <1>5, <1>6, <1>10, QuietFiles, QuietOthers, CalmKeeps

LEMMA NoTaskSteps ==
  ASSUME RalphInv, StepInv, NEW a \in Sessions, NoTask(a)
  PROVE  StepInv'
<1>0. /\ LoopsTypeOK /\ op[a] \in Ops /\ pc \in [Sessions -> Places] /\ op \in [Sessions -> Ops]
  BY ActorTypes DEF RalphInv, LoopsTypeOK
<1>1. MovesGrow
  BY <1>0, CountsStay DEF NoTask
<1>2. /\ pc[a] = "prompt" /\ pc[a] # "dead" /\ UNCHANGED <<live, promised, crossed, worked, lost, queue>>
      /\ task[op[a].loop] = NoText
  BY DEF NoTask, CanPrompt, files, ghosts
<1>3. ASSUME NEW n \in Loops, ~crossed[n], live[n].status = "active"
      PROVE  PromptIn(a) # PromptOf(n, live[n])
  <2>1. promised[n] = live[n].run /\ live[n].run # 0
    BY <1>3 DEF StepInv, Promised
  <2>2. task[n] = promised[n]
    BY <1>3, <2>1 DEF RalphInv, LoopOK, Whole
  <2>3. task[n] # NoText
    BY <2>1, <2>2 DEF NoText
  <2> QED BY <1>2, <2>3, PromptParts DEF PromptIn
<1>4. CASE op[a].kind = "start"
  <2>1. LeaveOp(a, "idle") /\ "idle" \in Resting
    BY <1>4 DEF NoTask, Resting
  <2> QED BY <1>1, <1>2, <1>3, <2>1, LeavesQuietly
<1>5. CASE op[a].kind # "start"
  <2> DEFINE o == Pausing(op[a])
  <2>1. pc' = [pc EXCEPT ![a] = "save"] /\ op' = [op EXCEPT ![a] = o]
    <3>1. op' = [op EXCEPT ![a].kind = "pause", ![a].rec.status = "paused"]
      BY <1>5 DEF NoTask
    <3>2. op' = [op EXCEPT ![a] = o]
      BY <1>0, <3>1 DEF Pausing
    <3> QED BY <1>5, <3>2 DEF NoTask
  <2>2. o.kind = "pause" /\ o.rec.run = op[a].rec.run
    BY <1>0, PausingType
  <2> HIDE DEF o
  <2>3. pc'[a] = "save" /\ op'[a] = o /\ OthersStay(a)
    BY <1>0, <2>1 DEF OthersStay
  <2>4. OpCalm(a) /\ ~Pending(a)'
    BY <1>2, <2>2, <2>3 DEF OpCalm, Unborn, Owners, Behind, Pending
  <2>5. \A p \in Prompts : Known(p)' <=> Known(p)
    BY <1>2 DEF Known
  <2>6. ToldCalm(a)
    BY <1>2, <1>3, <2>4, <2>5 DEF ToldCalm
  <2> QED BY <1>1, <1>2, <2>3, <2>4, <2>6, QuietFiles, QuietOthers, CalmKeeps
<1> QED BY <1>4, <1>5

-----------------------------------------------------------------------------
(* The steps that write.                                                   *)
LEMMA OvertakesFalls ==
  ASSUME RalphInv, NEW a \in Sessions, pc[a] \in OpStages, NEW o, NEW to, Overtakes(a, o, to)
  PROVE  /\ OthersFall(a) /\ op'[a] = o /\ pc'[a] = to
         /\ \A n \in Loops : crossed[n] => crossed'[n]
         /\ crossed'[op[a].loop] = (crossed[op[a].loop] \/ op[a].stale)
         /\ \A n \in Loops : n # op[a].loop => crossed'[n] = crossed[n]
         /\ \A b \in Sessions : b # a /\ op[b].loop = op[a].loop => op'[b].stale
<1>0. /\ LoopsTypeOK /\ pc \in [Sessions -> Places] /\ op \in [Sessions -> Ops] /\ crossed \in [Loops -> BOOLEAN]
      /\ op[a].loop \in Loops
  BY PlacesOf DEF RalphInv, LoopsTypeOK
<1> DEFINE n == op[a].loop
<1>1. /\ pc' = [pc EXCEPT ![a] = to]
      /\ op' = [b \in Sessions |-> IF b = a THEN o
                                   ELSE [op[b] EXCEPT !.stale = op[b].stale \/ op[b].loop = n]]
      /\ crossed' = [crossed EXCEPT ![n] = crossed[n] \/ op[a].stale]
  BY DEF Overtakes
<1>2. ASSUME NEW b \in Sessions, b # a
      PROVE  Fallen(b) /\ (op[b].loop = n => op'[b].stale)
  <2>1. op[b] \in Ops /\ op[b].stale \in BOOLEAN
    BY <1>0, ActorTypes, OpParts
  <2>2. pc'[b] = pc[b] /\ op'[b] = [op[b] EXCEPT !.stale = op[b].stale \/ op[b].loop = n]
    BY <1>0, <1>1, <1>2
  <2> DEFINE v == op[b].stale \/ op[b].loop = n
  <2>3. v \in BOOLEAN
    BY <2>1
  <2>4. op'[b] = [op[b] EXCEPT !.stale = v]
    BY <2>2
  <2> HIDE DEF v
  <2>5. SameOp(op[b], op'[b]) /\ op'[b].stale = v
    BY <2>1, <2>3, <2>4, OpStale
  <2> QED BY <2>2, <2>5 DEF v, Fallen
<1>3. op'[a] = o /\ pc'[a] = to
  BY <1>0, <1>1
<1>4. /\ crossed'[n] = (crossed[n] \/ op[a].stale)
      /\ \A m \in Loops : m # n => crossed'[m] = crossed[m]
  BY <1>0, <1>1
<1> QED BY <1>2, <1>3, <1>4 DEF OthersFall

LEMMA WroteFalls ==
  ASSUME RalphInv, NEW a \in Sessions, pc[a] \in OpStages, Wrote(a)
  PROVE  /\ OthersFall(a) /\ op'[a] = Pop(op[a]) /\ pc'[a] = NextPlace(op[a])
         /\ \A n \in Loops : crossed[n] => crossed'[n]
         /\ crossed'[op[a].loop] = (crossed[op[a].loop] \/ op[a].stale)
         /\ \A n \in Loops : n # op[a].loop => crossed'[n] = crossed[n]
         /\ \A b \in Sessions : b # a /\ op[b].loop = op[a].loop => op'[b].stale
<1>1. Overtakes(a, Pop(op[a]), NextPlace(op[a]))
  BY DEF Wrote
<1> QED BY <1>1, OvertakesFalls

LEMMA WriteCalm ==
  ASSUME RalphInv, StepInv, NEW a \in Sessions, pc[a] \in {"text", "keep_text", "keep", "drop", "drop_text"},
         Wrote(a), UNCHANGED counts, UNCHANGED <<worked, lost, queue>>, FilesCalm
  PROVE  StepInv'
<1>0. pc[a] \in OpStages /\ ~Pending(a) /\ MovesGrow
  BY CountsStay DEF OpStages, Pending, RalphInv
<1>1. /\ OthersFall(a) /\ op'[a] = Pop(op[a]) /\ pc'[a] = NextPlace(op[a])
      /\ \A n \in Loops : crossed[n] => crossed'[n]
  BY <1>0, WroteFalls
<1>2. OpCalm(a) /\ (Pending(a)' => pc[a] \in {"save", "sync"})
  <2>1. worked \cup lost \subseteq worked' \cup lost'
    OBVIOUS
  <2> QED BY <1>0, <1>1, <2>1, OpGoesOn
<1>3. ToldCalm(a)
  BY <1>0, <1>2, QuietTold
<1> QED BY <1>0, <1>1, <1>2, <1>3, CalmKeeps

LEMMA WriteTaskSteps ==
  ASSUME RalphInv, StepInv, NEW a \in Sessions, WriteTask(a)
  PROVE  StepInv'
<1>0. LoopsTypeOK /\ pc[a] = "text" /\ pc[a] \in OpStages /\ Wrote(a) /\ promised \in [Loops -> Nat]
  BY DEF RalphInv, LoopsTypeOK, FileTypes, WriteTask, OpStages
<1>1. UNCHANGED counts /\ UNCHANGED <<live, worked, lost, queue>>
      /\ promised' = [promised EXCEPT ![op[a].loop] = 0]
  BY DEF WriteTask, ghosts
<1>2. ~op[a].stale => live[op[a].loop].status \notin {"active", "paused"}
  <2> SUFFICES ASSUME ~op[a].stale
               PROVE  live[op[a].loop].status \in {"none", "completed"}
    OBVIOUS
  <2>1. op[a].kind = "start"
    BY <1>0 DEF RalphInv, OpOK, ShapeOf
  <2>2. Due(op[a].kind, live[op[a].loop], op[a].rec)
    BY <1>0 DEF RalphInv, OpOK, Fresh
  <2> QED BY <2>1, <2>2 DEF Due
<1>3. FilesCalm
  <2> SUFFICES ASSUME NEW n \in Loops
               PROVE  /\ crossed[n] => crossed'[n]
                      /\ ~crossed'[n] /\ live[n].status \in {"active", "paused"} => promised'[n] = promised[n]
    BY <1>1 DEF FilesCalm
  <2>1. CASE n = op[a].loop
    BY <1>0, <1>2, <2>1, WroteFalls
  <2>2. CASE n # op[a].loop
    BY <1>0, <1>1, <2>2, WroteFalls
  <2> QED BY <2>1, <2>2
<1> QED BY <1>0, <1>1, <1>3, WriteCalm

LEMMA CopiesStep ==
  ASSUME RalphInv, StepInv, NEW a \in Sessions, ArchiveText(a) \/ ArchiveRecord(a) \/ DropTask(a)
  PROVE  StepInv'
<1>1. pc[a] \in {"keep_text", "keep", "drop_text"} /\ pc[a] \in OpStages /\ Wrote(a)
      /\ UNCHANGED counts /\ UNCHANGED <<live, promised, worked, lost, queue>>
  BY DEF ArchiveText, ArchiveRecord, DropTask, ghosts, OpStages
<1>2. FilesCalm
  BY <1>1, WroteFalls DEF FilesCalm
<1> QED BY <1>1, <1>2, WriteCalm

LEMMA DropRecordSteps ==
  ASSUME RalphInv, StepInv, NEW a \in Sessions, DropRecord(a)
  PROVE  StepInv'
<1>0. /\ pc[a] = "drop" /\ pc[a] \in OpStages /\ Wrote(a)
      /\ promised \in [Loops -> Nat] /\ live \in [Loops -> Recs]
  BY DEF RalphInv, LoopsTypeOK, FileTypes, DropRecord, OpStages
<1>1. /\ UNCHANGED counts /\ UNCHANGED <<worked, lost, queue>>
      /\ live' = [live EXCEPT ![op[a].loop] = Absent]
      /\ promised' = promised \/ promised' = [promised EXCEPT ![op[a].loop] = 0]
  BY DEF DropRecord, ghosts
<1>2. FilesCalm
  <2> SUFFICES ASSUME NEW n \in Loops
               PROVE  /\ crossed[n] => crossed'[n]
                      /\ live'[n] = Absent \/ (live'[n] = live[n] /\ promised'[n] = promised[n])
    BY DEF FilesCalm
  <2>1. CASE n = op[a].loop
    BY <1>0, <1>1, <2>1, WroteFalls
  <2>2. CASE n # op[a].loop
    BY <1>0, <1>1, <2>2, WroteFalls
  <2> QED BY <2>1, <2>2
<1> QED BY <1>0, <1>1, <1>2, WriteCalm

LEMMA DueCounts ==
  ASSUME NEW old \in Recs, NEW new \in Recs, NEW kind, kind # "start", Due(kind, old, new)
  PROVE  /\ new.it \in {old.it, old.it + 1} /\ (kind = "advance" => new.it = old.it + 1)
         /\ new.status \in {"active", "paused"} => old.status \in {"active", "paused"}
         /\ new.status = "active" => kind \in {"resume", "advance"}
<1>1. CASE kind = "resume"
  <2>1. new = [old EXCEPT !.status = "active", !.owner = new.owner] /\ old.status \in {"active", "paused"}
    BY <1>1 DEF Due
  <2>2. ASSUME NEW w
        PROVE  LET q == [old EXCEPT !.status = "active", !.owner = w] IN q.it = old.it
    BY SMT DEF Recs
  <2>3. new.it = old.it
    BY <2>1, <2>2
  <2> QED BY <1>1, <2>1, <2>3
<1>2. CASE kind = "complete"
  <2>1. ASSUME new = [old EXCEPT !.status = "completed"]
        PROVE  new.it = old.it /\ new.status = "completed"
    BY <2>1, SMT DEF Recs
  <2>2. ASSUME NEW k, new = [old EXCEPT !.it = k, !.status = "completed"]
        PROVE  new.it = k /\ new.status = "completed"
    BY <2>2, SMT DEF Recs
  <2>3. \/ new = [old EXCEPT !.status = "completed"]
        \/ new = [old EXCEPT !.it = old.it + 1, !.status = "completed"]
    BY <1>2 DEF Due
  <2>4. new.it \in {old.it, old.it + 1} /\ new.status = "completed"
    BY <2>1, <2>2, <2>3
  <2> QED BY <1>2, <2>4, Zenon
<1>3. CASE kind = "advance"
  <2>1. old.status = "active" /\ new = [old EXCEPT !.it = old.it + 1]
    BY <1>3, Zenon DEF Due
  <2>2. new.it = old.it + 1
    BY <2>1, WithNext
  <2> QED BY <1>3, <2>1, <2>2
<1>4. CASE kind = "pause"
  <2>1. old.status = "active" /\ new = [old EXCEPT !.status = "paused"]
    BY <1>4 DEF Due
  <2>2. new.it = old.it /\ new.status = "paused"
    BY <2>1, SMT DEF Recs
  <2> QED BY <1>4, <2>1, <2>2
<1> QED BY <1>1, <1>2, <1>3, <1>4 DEF Due

\* A record whose prompt is worked on at once, or never comes to be.
Shown(a) == op[a].kind = "resume" \/ (op[a].kind \in {"start", "advance"} /\ ~Pending(a)')

\* What the writing of a record does.
Saves(a, n) ==
  LET o == op[a] IN
  /\ pc[a] = "save" /\ ~Pending(a) /\ ~Unborn(a)' /\ o.rec \in Recs /\ live[n] \in Recs
  /\ live'[n] = o.rec
  /\ \A m \in Loops : m # n => live'[m] = live[m] /\ promised'[m] = promised[m] /\ crossed'[m] = crossed[m]
  /\ promised'[n] = (IF o.kind = "start" THEN o.rec.run ELSE promised[n])
  /\ crossed'[n] = (crossed[n] \/ o.stale)
  /\ queue' = queue /\ moves' = moves
  /\ worked' \cup lost' = worked \cup lost \cup (IF Shown(a) THEN {PromptOf(n, o.rec)} ELSE {})
  /\ OthersFall(a) /\ \A b \in Sessions : b # a /\ op[b].loop = n => op'[b].stale
  /\ OpCalm(a) /\ op'[a].rec.run \in {o.rec.run, 0}
  /\ Pending(a)' => SameOp(op[a], op'[a]) /\ op'[a].stale = op[a].stale
  /\ Pending(a)' => o.kind \in {"start", "advance"}
  /\ ~o.stale => Due(o.kind, live[n], o.rec)

LEMMA ReplacedFacts ==
  ASSUME RalphInv, NEW a \in Sessions, ReplaceRecord(a), NEW n \in Loops, op[a].loop = n
  PROVE  /\ pc[a] = "save" /\ pc[a] \in OpStages /\ ~Pending(a)
         /\ op[a].rec \in Recs /\ live[n] \in Recs
         /\ live'[n] = op[a].rec /\ queue' = queue
         /\ \A m \in Loops : m # n => live'[m] = live[m] /\ promised'[m] = promised[m]
         /\ promised'[n] = (IF op[a].kind = "start" THEN op[a].rec.run ELSE promised[n])
         /\ ~op[a].stale => Due(op[a].kind, live[n], op[a].rec)
<1> DEFINE o == op[a]
<1>0. LoopsTypeOK /\ FileTypes /\ o \in Ops /\ o.rec \in Recs /\ live[n] \in Recs
  BY ActorTypes, LoopTypes, OpParts DEF RalphInv, LoopsTypeOK
<1>1. pc[a] = "save" /\ pc[a] \in OpStages /\ ~Pending(a)
  BY DEF ReplaceRecord, OpStages, Pending
<1>2. /\ live' = [live EXCEPT ![n] = o.rec]
      /\ promised' = IF o.kind = "start" THEN [promised EXCEPT ![n] = o.rec.run] ELSE promised
      /\ queue' = queue
  BY DEF ReplaceRecord
<1>3. promised'[n] = (IF o.kind = "start" THEN o.rec.run ELSE promised[n])
  BY <1>0, <1>2 DEF FileTypes
<1>4. \A m \in Loops : m # n => promised'[m] = promised[m]
  BY <1>0, <1>2 DEF FileTypes
<1>5. live'[n] = o.rec /\ \A m \in Loops : m # n => live'[m] = live[m]
  BY <1>0, <1>2 DEF FileTypes
<1>6. ~o.stale => Due(o.kind, live[n], o.rec)
  BY <1>1 DEF RalphInv, OpOK, Fresh
<1> QED BY <1>0, <1>1, <1>2, <1>3, <1>4, <1>5, <1>6

LEMMA SaveFacts ==
  ASSUME RalphInv, StepInv, NEW a \in Sessions, SaveRecord(a), NEW n \in Loops, op[a].loop = n
  PROVE  Saves(a, n)
<1> DEFINE o == op[a]
<1>0. LoopsTypeOK /\ FileTypes /\ o \in Ops /\ o.rec \in Recs /\ live[n] \in Recs /\ ShapeOf(op[a], pc[a])
  BY ActorTypes, LoopTypes, OpParts DEF RalphInv, LoopsTypeOK, OpOK
<1>1. Wrote(a) /\ ReplaceRecord(a)
  BY DEF SaveRecord
<1>2. /\ worked' = IF o.kind = "resume" THEN worked \cup {PromptOf(n, o.rec)} ELSE worked
      /\ lost' = lost /\ moves' = moves
  BY DEF SaveRecord, counts
<1>f. /\ pc[a] = "save" /\ pc[a] \in OpStages /\ ~Pending(a)
      /\ live'[n] = o.rec /\ queue' = queue
      /\ \A m \in Loops : m # n => live'[m] = live[m] /\ promised'[m] = promised[m]
      /\ promised'[n] = (IF o.kind = "start" THEN o.rec.run ELSE promised[n])
      /\ ~o.stale => Due(o.kind, live[n], o.rec)
  BY <1>1, ReplacedFacts
<1>3. /\ OthersFall(a) /\ op'[a] = Pop(op[a]) /\ pc'[a] = NextPlace(op[a])
      /\ \A m \in Loops : crossed[m] => crossed'[m]
      /\ crossed'[n] = (crossed[n] \/ o.stale)
      /\ \A m \in Loops : m # n => crossed'[m] = crossed[m]
      /\ \A b \in Sessions : b # a /\ op[b].loop = n => op'[b].stale
  BY <1>1, <1>f, WroteFalls
<1>5. /\ OpCalm(a)
      /\ Pending(a)' => SameOp(op[a], op'[a]) /\ op'[a].stale = op[a].stale
  <2>1. worked \cup lost \subseteq worked' \cup lost'
    BY <1>2
  <2> QED BY <1>f, <1>3, <2>1, OpGoesOn
<1>6. pc'[a] \in {"sync", "prompt"} \cup Resting /\ ~Unborn(a)'
  <2>1. pc'[a] \in {"sync", "prompt"} \cup Resting
    BY <1>1, <1>f, WroteMoves
  <2> QED BY <2>1 DEF Unborn, Resting
<1>7. o.kind \in {"start", "advance"} => Pending(a)'
  <2> SUFFICES ASSUME o.kind \in {"start", "advance"}
               PROVE  Pending(a)'
    OBVIOUS
  <2>1. o.rest = <<"sync", "prompt">> \/ o.rest = <<"prompt">>
    BY <1>0, <1>f DEF ShapeOf
  <2>2. NextPlace(op[a]) \in {"sync", "prompt"} /\ SameOp(op[a], Pop(op[a]))
    <3>0. "sync" \in OpStages /\ "prompt" \in OpStages /\ op[a] \in Ops
      BY <1>0, StageTypes
    <3>1. CASE o.rest = <<"sync", "prompt">>
      BY <3>0, <3>1, FullRest, StageHeads
    <3>2. CASE o.rest = <<"prompt">>
      BY <3>0, <3>2, FullRest, StageHeads
    <3> QED BY <2>1, <3>1, <3>2
  <2>3. pc'[a] \in {"sync", "prompt"} /\ SameOp(op[a], op'[a])
    BY <1>3, <2>2
  <2> QED BY <2>3 DEF Pending, SameOp
<1>8. Pending(a)' => o.kind \in {"start", "advance"}
  BY <1>5 DEF Pending, SameOp
<1>9. worked' \cup lost' = worked \cup lost \cup (IF Shown(a) THEN {PromptOf(n, o.rec)} ELSE {})
  BY <1>2, <1>7 DEF Shown
<1>10. op'[a].rec.run \in {o.rec.run, 0}
  <2>1. Pop(op[a]) = NoOp \/ SameOp(op[a], Pop(op[a]))
    BY <1>0, <1>f, ShapeGoes
  <2> QED BY <1>3, <2>1, NoOpType, AbsentType DEF SameOp
<1> QED BY <1>0, <1>2, <1>f, <1>3, <1>5, <1>6, <1>7, <1>8, <1>9, <1>10 DEF Saves

LEMMA UnsyncedFacts ==
  ASSUME RalphInv, StepInv, NEW a \in Sessions, SaveUnsynced(a), NEW n \in Loops, op[a].loop = n
  PROVE  Saves(a, n)
<1> DEFINE o == op[a]
<1>0. LoopsTypeOK /\ o.rec \in Recs /\ live[n] \in Recs
  BY ActorTypes, LoopTypes, OpParts DEF RalphInv
<1>1. ReplaceRecord(a) /\ Overtakes(a, NoOp, o.back)
  BY DEF SaveUnsynced
<1>2. /\ lost' = IF o.kind \in {"start", "advance", "resume"} THEN lost \cup {PromptOf(n, o.rec)} ELSE lost
      /\ worked' = worked /\ moves' = moves
  BY DEF SaveUnsynced, Break
<1>f. /\ pc[a] = "save" /\ pc[a] \in OpStages /\ ~Pending(a)
      /\ live'[n] = o.rec /\ queue' = queue
      /\ \A m \in Loops : m # n => live'[m] = live[m] /\ promised'[m] = promised[m]
      /\ promised'[n] = (IF o.kind = "start" THEN o.rec.run ELSE promised[n])
      /\ ~o.stale => Due(o.kind, live[n], o.rec)
  BY <1>1, ReplacedFacts
<1>3. /\ OthersFall(a) /\ op'[a] = NoOp
      /\ crossed'[n] = (crossed[n] \/ o.stale)
      /\ \A m \in Loops : m # n => crossed'[m] = crossed[m]
      /\ \A b \in Sessions : b # a /\ op[b].loop = n => op'[b].stale
  BY <1>1, <1>f, OvertakesFalls
<1>4. OpCalm(a) /\ ~Pending(a)' /\ ~Unborn(a)' /\ op'[a].rec.run = 0
  <2>1. OpCalm(a) /\ ~Pending(a)'
    BY <1>3, <1>f, OpRests
  <2>2. NoOp.kind = "none" /\ NoOp.rec.run = 0
    BY NoOpType, AbsentType DEF NoOp
  <2> QED BY <1>3, <2>1, <2>2 DEF Unborn
<1>5. worked' \cup lost' = worked \cup lost \cup (IF Shown(a) THEN {PromptOf(n, o.rec)} ELSE {})
  BY <1>2, <1>4 DEF Shown
<1> QED BY <1>0, <1>2, <1>f, <1>3, <1>4, <1>5 DEF Saves

\* Which prompts it makes known.
LEMMA SaveTells ==
  ASSUME NEW a \in Sessions, NEW n \in Loops, op[a].loop = n, Saves(a, n), NEW p \in Prompts
  PROVE  /\ Known(p)' => Known(p) \/ (Shown(a) /\ p = PromptOf(n, op[a].rec))
         /\ Told(p)' => ToldBeside(a, p) \/ p = PromptOf(n, op[a].rec)
         /\ p.loop # n => \A b \in Sessions : ToldBeside(b, p)' => ToldBeside(b, p)
         /\ Pending(a)' /\ ToldBeside(a, p)' => ToldBeside(a, p)
<1>s. Pending(a)' => ~Shown(a)
  BY DEF Saves, Shown
<1>1. Known(p)' => Known(p) \/ (Shown(a) /\ p = PromptOf(n, op[a].rec))
  BY DEF Saves, Known
<1>2. \A b \in Sessions : b # a => (Pending(b)' <=> Pending(b)) /\ PromptIn(b)' = PromptIn(b)
  BY DEF Saves, OthersFall, Fallen, SameOp, Pending, PromptIn, PromptOf
<1>3. Pending(a)' => PromptIn(a)' = PromptOf(n, op[a].rec)
  BY DEF Saves, SameOp, PromptIn, PromptOf
<1>4. PromptOf(n, op[a].rec).loop = n
  BY PromptParts
<1>5. ToldBeside(a, p)' => ToldBeside(a, p) \/ (Shown(a) /\ p = PromptOf(n, op[a].rec))
  <2>1. ToldBeside(a, p)' => Known(p)' \/ \E c \in Sessions : c # a /\ Pending(c)' /\ PromptIn(c)' = p
    BY DEF ToldBeside
  <2> QED BY <1>1, <1>2, <2>1 DEF ToldBeside
<1>6. Told(p)' => ToldBeside(a, p) \/ p = PromptOf(n, op[a].rec)
  <2>1. Told(p)' => Known(p)' \/ \E c \in Sessions : Pending(c)' /\ PromptIn(c)' = p
    BY DEF Told
  <2> QED BY <1>1, <1>2, <1>3, <2>1 DEF ToldBeside
<1>7. ASSUME p.loop # n, NEW b \in Sessions, ToldBeside(b, p)'
      PROVE  ToldBeside(b, p)
  <2>1. Known(p)' \/ \E c \in Sessions : c # b /\ Pending(c)' /\ PromptIn(c)' = p
    BY <1>7 DEF ToldBeside
  <2> QED BY <1>1, <1>2, <1>3, <1>4, <1>7, <2>1 DEF ToldBeside
<1> QED BY <1>1, <1>5, <1>6, <1>7, <1>s

\* A prompt of a loop's present run is behind the record that is written.
LEMMA SaveIsAhead ==
  ASSUME RalphInv, StepInv, NEW a \in Sessions, NEW n \in Loops, op[a].loop = n, Saves(a, n),
         ~crossed[n], ~op[a].stale, NEW p \in Prompts, p.loop = n, p.run = op[a].rec.run, ToldBeside(a, p)
  PROVE  /\ op[a].kind # "start"
         /\ p.it <= live[n].it /\ live[n].it <= op[a].rec.it
         /\ op[a].kind = "advance" => live[n].it < op[a].rec.it
<1> DEFINE o == op[a]
<1>0. Due(o.kind, live[n], o.rec) /\ o.rec \in Recs /\ live[n] \in Recs
  BY DEF Saves
<1>1. o.kind # "start"
  <2> SUFFICES ASSUME o.kind = "start"
               PROVE  FALSE
    OBVIOUS
  <2>1. Unborn(a)
    BY DEF Unborn, Saves
  <2>2. /\ \A b \in Sessions : b # a => op[b].rec.run # o.rec.run
        /\ \A x \in Prompts : Known(x) => x.run # o.rec.run
    BY <2>1 DEF StepInv, Newborn
  <2>3. \A b \in Sessions : PromptIn(b) = p => op[b].rec.run = p.run
    BY PromptParts DEF PromptIn
  <2> QED BY <2>2, <2>3 DEF ToldBeside
<1>2. o.rec.run = live[n].run /\ live[n].status # "none"
  BY <1>0, <1>1, DueFollows
<1>3. Told(p)
  BY DEF ToldBeside, Told
<1>4. p.it <= live[n].it
  BY <1>2, <1>3 DEF StepInv, Counted
<1>5. o.rec.it \in {live[n].it, live[n].it + 1} /\ (o.kind = "advance" => o.rec.it = live[n].it + 1)
  BY <1>0, <1>1, DueCounts
<1>6. live[n].it \in Nat /\ o.rec.it \in Nat
  BY <1>0, RecParts
<1>7. live[n].it <= o.rec.it /\ (o.rec.it = live[n].it + 1 => live[n].it < o.rec.it)
  <2> DEFINE i == live[n].it
             k == o.rec.it
  <2>1. i \in Nat /\ k \in {i, i + 1}
    BY <1>5, <1>6
  <2> HIDE DEF i, k
  <2>2. i <= k /\ (k = i + 1 => i < k)
    BY <2>1, SMT
  <2> QED BY <2>2 DEF i, k
<1> QED BY <1>1, <1>4, <1>5, <1>7

LEMMA SaveKeepsActors ==
  ASSUME RalphInv, StepInv, NEW a \in Sessions, NEW n \in Loops, op[a].loop = n, Saves(a, n),
         NEW b \in Sessions
  PROVE  (Newborn(b) /\ Owners(b) /\ Ahead(b) /\ Behind(b))'
<1> DEFINE r == op[a].rec.run
<1>0. Newborn(b) /\ Owners(b) /\ Ahead(b) /\ Behind(b) /\ OpCalm(a)
  BY DEF StepInv, Saves
<1>1. b # a => pc'[b] = pc[b] /\ SameOp(op[b], op'[b]) /\ (op[b].stale => op'[b].stale)
               /\ (op[b].loop = n => op'[b].stale)
  BY DEF Saves, OthersFall, Fallen
<1>2. Owners(b)'
  BY <1>0, <1>1 DEF Owners, OpCalm, SameOp
<1>3. Newborn(b)'
  <2> SUFFICES ASSUME Unborn(b)'
               PROVE  /\ \A m \in Loops : live'[m].run # op'[b].rec.run
                      /\ \A c \in Sessions : c # b => op'[c].rec.run # op'[b].rec.run
                      /\ \A p \in Prompts : Known(p)' => p.run # op'[b].rec.run
    BY DEF Newborn
  <2> DEFINE x == op[b].rec.run
  <2>1. b # a /\ Unborn(b) /\ op'[b].rec.run = x /\ x # 0
    <3>1. b # a
      BY DEF Saves
    <3> QED BY <1>0, <1>1, <3>1 DEF Unborn, SameOp, Owners
  <2>2. /\ \A m \in Loops : live[m].run # x
        /\ \A c \in Sessions : c # b => op[c].rec.run # x
        /\ \A p \in Prompts : Known(p) => p.run # x
    BY <1>0, <2>1 DEF Newborn
  <2>3. r # x
    BY <2>1, <2>2
  <2> HIDE DEF x
  <2>4. \A m \in Loops : live'[m].run # x
    BY <2>2, <2>3 DEF Saves
  <2>5. ASSUME NEW c \in Sessions, c # b
        PROVE  op'[c].rec.run # x
    <3>1. c # a => op'[c].rec = op[c].rec
      BY DEF Saves, OthersFall, Fallen, SameOp
    <3>2. op'[a].rec.run \in {r, 0}
      BY DEF Saves
    <3> QED BY <2>1, <2>2, <2>3, <2>5, <3>1, <3>2
  <2>6. ASSUME NEW p \in Prompts, Known(p)'
        PROVE  p.run # x
    <3>1. Known(p) \/ p = PromptOf(n, op[a].rec)
      BY <2>6, SaveTells
    <3> QED BY <2>2, <2>3, <3>1, PromptParts
  <2> QED BY <2>1, <2>4, <2>5, <2>6
<1>4. Ahead(b)'
  <2> SUFFICES ASSUME Pending(b)', ~op'[b].stale, ~crossed'[op'[b].loop],
                      NEW p \in Prompts, p.loop = op'[b].loop, p.run = op'[b].rec.run, ToldBeside(b, p)'
               PROVE  p.it < op'[b].rec.it
    BY DEF Ahead
  <2>1. CASE b # a
    <3>1. Pending(b) /\ op[b].loop # n /\ ~op[b].stale /\ op'[b].loop = op[b].loop /\ op'[b].rec = op[b].rec
      BY <1>1, <2>1 DEF Pending, SameOp
    <3>2. op[b].loop \in Loops
      <4>1. pc[b] \in OpStages
        BY <3>1 DEF Pending, OpStages
      <4> QED BY <4>1, PlacesOf
    <3>3. ~crossed[op[b].loop]
      BY <3>1, <3>2 DEF Saves
    <3>4. ToldBeside(b, p)
      BY <3>1, SaveTells
    <3> QED BY <1>0, <3>1, <3>3, <3>4 DEF Ahead
  <2>2. CASE b = a
    <3>1. SameOp(op[a], op'[a]) /\ ~op[a].stale /\ op[a].kind \in {"start", "advance"}
      BY <2>2 DEF Saves
    <3>2. ~crossed[n] /\ p.loop = n /\ p.run = op[a].rec.run
      BY <2>2, <3>1 DEF Saves, SameOp
    <3>3. ToldBeside(a, p)
      BY <2>2, <3>1, SaveTells
    <3>4. op[a].kind = "advance" /\ p.it <= live[n].it /\ live[n].it < op[a].rec.it
      BY <3>1, <3>2, <3>3, SaveIsAhead
    <3>5. p.it \in Nat /\ live[n].it \in Nat /\ op[a].rec.it \in Nat
      <4>1. p.it \in Nat
        BY SMT DEF Prompts
      <4>2. live[n] \in Recs /\ op[a].rec \in Recs
        BY DEF Saves
      <4> QED BY <4>1, <4>2, RecParts
    <3>6. p.it < op[a].rec.it
      BY <3>4, <3>5, SMT
    <3> QED BY <2>2, <3>1, <3>6 DEF SameOp
  <2> QED BY <2>1, <2>2
<1>5. Behind(b)'
  <2>1. CASE b = a
    BY <1>0, <2>1 DEF OpCalm
  <2>2. CASE b # a
    <3> SUFFICES ASSUME pc'[b] \in {"save", "prompt"}, op'[b].kind = "advance", ~op'[b].stale,
                        ~crossed'[op'[b].loop], op'[b].rec.owner # Nobody
                 PROVE  Before(PromptIn(b)') \in worked' \cup lost'
      BY DEF Behind, Before
    <3>1. op[b].loop \in Loops /\ op[b].loop # n
      <4>1. pc[b] \in OpStages
        BY <1>1, <2>2 DEF OpStages
      <4> QED BY <1>1, <2>2, <4>1, PlacesOf
    <3>2. ~op[b].stale /\ ~crossed[op[b].loop]
      BY <1>1, <2>2, <3>1 DEF Saves, SameOp
    <3>3. Before(PromptIn(b)) \in worked \cup lost
      BY <1>0, <1>1, <2>2, <3>2 DEF Behind, SameOp
    <3>4. PromptIn(b)' = PromptIn(b)
      BY <1>1, <2>2 DEF PromptIn, PromptOf, SameOp
    <3>5. worked \cup lost \subseteq worked' \cup lost'
      BY DEF Saves
    <3> QED BY <3>3, <3>4, <3>5
  <2> QED BY <2>1, <2>2
<1> QED BY <1>2, <1>3, <1>4, <1>5

LEMMA SaveKeepsLoops ==
  ASSUME RalphInv, StepInv, NEW a \in Sessions, NEW n \in Loops, op[a].loop = n, Saves(a, n),
         NEW m \in Loops
  PROVE  Counted(m)' /\ Promised(m)' /\ Handed(m)'
<1> DEFINE rec == op[a].rec
           old == live[n]
<1>0. Counted(m) /\ Promised(m) /\ Handed(m) /\ Owners(a)
  BY DEF StepInv
<1>1. rec \in Recs /\ old \in Recs /\ pc[a] = "save" /\ ~Pending(a)
  BY DEF Saves
<1>2. /\ worked \cup lost \subseteq worked' \cup lost' /\ queue' = queue
      /\ \A b \in Sessions : pc'[b] # "dead" => pc[b] # "dead"
      /\ \A b \in Sessions : b # a => (Pending(b)' <=> Pending(b)) /\ PromptIn(b)' = PromptIn(b)
  BY DEF Saves, OthersFall, Fallen, SameOp, Pending, PromptIn, PromptOf
<1>3. CASE m # n
  <2>1. live'[m] = live[m] /\ promised'[m] = promised[m] /\ crossed'[m] = crossed[m]
    BY <1>3 DEF Saves
  <2>2. Counted(m)'
    <3> SUFFICES ASSUME ~crossed[m], live[m].status # "none",
                        NEW p \in Prompts, p.loop = m, p.run = live[m].run, Told(p)'
                 PROVE  p.it <= live[m].it
      BY <2>1 DEF Counted
    <3>1. Told(p)
      <4>1. ToldBeside(a, p) \/ p = PromptOf(n, rec)
        BY SaveTells
      <4> QED BY <1>3, <4>1, PromptParts DEF ToldBeside, Told
    <3> QED BY <1>0, <3>1 DEF Counted
  <2>3. Promised(m)'
    BY <1>0, <2>1 DEF Promised
  <2>4. Handed(m)'
    <3> DEFINE q == PromptOf(m, live[m])
    <3> SUFFICES ASSUME ~crossed[m], live[m].status = "active", NEW s \in Sessions, s # Nobody,
                        live[m].owner = s, pc'[s] # "dead"
                 PROVE  \/ q \in worked' \cup lost' \cup ToSet(queue'[s])
                        \/ Pending(s)' /\ PromptIn(s)' = q
      BY <2>1 DEF Handed, PromptOf
    <3>1. q \in worked \cup lost \cup ToSet(queue[s]) \/ (Pending(s) /\ PromptIn(s) = q)
      BY <1>0, <1>2 DEF Handed
    <3> HIDE DEF q
    <3> QED BY <1>1, <1>2, <3>1
  <2> QED BY <2>2, <2>3, <2>4
<1>4. CASE m = n /\ ~crossed'[n]
  <2>0. ~crossed[n] /\ ~op[a].stale /\ Due(op[a].kind, old, rec) /\ live'[n] = rec
    BY <1>4 DEF Saves
  <2>k. op[a].kind # "start" => rec.run = old.run /\ old.status # "none"
    BY <1>1, <2>0, DueFollows
  <2>d. op[a].kind # "start" =>
          /\ rec.status \in {"active", "paused"} => old.status \in {"active", "paused"}
          /\ rec.status = "active" => op[a].kind \in {"resume", "advance"}
    BY <1>1, <2>0, DueCounts
  <2>1. Counted(n)'
    <3> SUFFICES ASSUME NEW p \in Prompts, p.loop = n, p.run = rec.run, Told(p)'
                 PROVE  p.it <= rec.it
      BY <2>0 DEF Counted
    <3>0. p.it \in Nat /\ old.it \in Nat /\ rec.it \in Nat
      <4>1. p.it \in Nat
        BY SMT DEF Prompts
      <4> QED BY <1>1, <4>1, RecParts
    <3>1. CASE ToldBeside(a, p)
      <4>1. p.it <= old.it /\ old.it <= rec.it
        BY <2>0, <3>1, SaveIsAhead
      <4> QED BY <3>0, <4>1, SMT
    <3>2. CASE p = PromptOf(n, rec)
      <4>1. p.it = rec.it
        BY <3>2, PromptParts
      <4> QED BY <3>0, <4>1, SMT
    <3> QED BY <3>1, <3>2, SaveTells
  <2>2. Promised(n)'
    <3> SUFFICES ASSUME rec.status \in {"active", "paused"}
                 PROVE  promised'[n] = rec.run /\ rec.run # 0
      BY <2>0 DEF Promised
    <3>1. CASE op[a].kind = "start"
      BY <1>0, <3>1 DEF Saves, Owners
    <3>2. CASE op[a].kind # "start"
      <4>1. promised'[n] = promised[n]
        BY <3>2 DEF Saves
      <4>2. promised[n] = old.run /\ old.run # 0
        BY <1>0, <1>4, <2>0, <2>d, <3>2 DEF Promised
      <4> QED BY <2>k, <3>2, <4>1, <4>2
    <3> QED BY <3>1, <3>2
  <2>3. Handed(n)'
    <3> DEFINE q == PromptOf(n, rec)
    <3> SUFFICES ASSUME rec.status = "active", NEW s \in Sessions, s # Nobody, rec.owner = s
                 PROVE  \/ q \in worked' \cup lost' \cup ToSet(queue'[s])
                        \/ Pending(s)' /\ PromptIn(s)' = q
      BY <2>0 DEF Handed, PromptOf
    <3>1. CASE Shown(a)
      <4>1. q \in worked' \cup lost'
        BY <3>1 DEF Saves
      <4> QED BY <4>1
    <3>2. CASE op[a].kind \in {"start", "advance"} /\ ~Shown(a)
      <4>1. s = a
        BY <1>0, <3>2 DEF Owners
      <4>2. Pending(a)' /\ SameOp(op[a], op'[a])
        BY <3>2 DEF Saves, Shown
      <4>3. PromptIn(a)' = q
        BY <4>2 DEF SameOp, PromptIn, PromptOf
      <4> QED BY <4>1, <4>2, <4>3
    <3>3. Shown(a) \/ op[a].kind \in {"start", "advance"}
      BY <2>d DEF Shown
    <3> QED BY <3>1, <3>2, <3>3
  <2> QED BY <1>4, <2>1, <2>2, <2>3
<1>5. CASE m = n /\ crossed'[n]
  BY <1>5 DEF Counted, Promised, Handed
<1> QED BY <1>3, <1>4, <1>5

LEMMA SaveRecordSteps ==
  ASSUME RalphInv, StepInv, NEW a \in Sessions, SaveRecord(a) \/ SaveUnsynced(a)
  PROVE  StepInv'
<1>1. PICK n \in Loops : op[a].loop = n
  <2>1. pc[a] \in OpStages
    BY DEF SaveRecord, SaveUnsynced, ReplaceRecord, OpStages
  <2> QED BY <2>1, PlacesOf
<1>2. Saves(a, n)
  BY <1>1, SaveFacts, UnsyncedFacts
<1>3. \A b \in Sessions : (Newborn(b) /\ Owners(b) /\ Ahead(b) /\ Behind(b))'
  BY <1>1, <1>2, SaveKeepsActors
<1>4. \A m \in Loops : Counted(m)' /\ Promised(m)' /\ Handed(m)'
  BY <1>1, <1>2, SaveKeepsLoops
<1>5. \A p \in Prompts : Known(p)' => p.run <= moves' + 1
  <2> TAKE p \in Prompts
  <2> HAVE Known(p)'
  <2>1. Known(p) \/ p = PromptOf(n, op[a].rec)
    BY <1>1, <1>2, SaveTells
  <2>2. p.run <= moves + 1
    BY <2>1, RunsBounded, PromptParts DEF StepInv
  <2> QED BY <1>2, <2>2 DEF Saves
<1> QED BY <1>3, <1>4, <1>5 DEF StepInv

-----------------------------------------------------------------------------
(* No iteration is skipped and none handed out twice.                      *)
LEMMA StepStarts == LoopsInit => StepInv
<1> SUFFICES ASSUME LoopsInit
             PROVE  StepInv
  OBVIOUS
<1>0. RalphInv /\ \A a \in Sessions : op[a] = NoOp /\ pc[a] = "idle"
  BY RalphStarts DEF LoopsInit
<1>1. PICK old \in {Absent, Legacy} : \E k \in Loops :
        /\ live = [j \in Loops |-> IF j = k THEN old ELSE Absent]
        /\ promised = [j \in Loops |-> IF j = k THEN old.run ELSE 0]
        /\ worked = IF old = Absent THEN {} ELSE {PromptOf(k, old)}
  BY Zenon DEF LoopsInit
<1>2. PICK k \in Loops :
        /\ live = [j \in Loops |-> IF j = k THEN old ELSE Absent]
        /\ promised = [j \in Loops |-> IF j = k THEN old.run ELSE 0]
        /\ worked = IF old = Absent THEN {} ELSE {PromptOf(k, old)}
  BY <1>1
<1>3. /\ Legacy.run = 1 /\ Legacy.it \in {1, 2} /\ Legacy.owner = Nobody /\ Legacy.status = "active"
      /\ Absent.status = "none"
  BY SMT DEF Legacy, Absent
<1>4. \A p : Known(p) => old = Legacy /\ p = PromptOf(k, old)
  <2>1. \A s \in Sessions : ToSet(queue[s]) = {}
    <3>1. DOMAIN <<>> = {}
      BY SMT
    <3> QED BY <3>1 DEF LoopsInit, ToSet
  <2>2. lost = {}
    BY DEF LoopsInit
  <2> QED BY <1>2, <2>1, <2>2 DEF Known
<1>5. \A a \in Sessions : ~Pending(a) /\ ~Unborn(a)
  BY <1>0 DEF Pending, Unborn
<1>6. \A p \in Prompts : Known(p) => p.run <= moves + 1
  <2> TAKE p \in Prompts
  <2> HAVE Known(p)
  <2>1. p.run = 1
    BY <1>3, <1>4, PromptParts
  <2>2. moves = 0
    BY DEF LoopsInit
  <2> QED BY <2>1, <2>2, SMT
<1>7. \A a \in Sessions : Newborn(a) /\ Owners(a) /\ Ahead(a) /\ Behind(a)
  <2>1. NoOp.kind = "none"
    BY DEF NoOp
  <2> QED BY <1>0, <1>5, <2>1 DEF Newborn, Owners, Ahead, Behind
<1>8. ASSUME NEW n \in Loops
      PROVE  Counted(n) /\ Promised(n) /\ Handed(n)
  <2>1. live[n] = Absent \/ (n = k /\ live[n] = old /\ promised[n] = old.run)
    BY <1>2
  <2>2. CASE live[n] = Absent
    BY <1>3, <2>2 DEF Counted, Promised, Handed
  <2>3. CASE n = k /\ old = Legacy /\ live[n] = Legacy /\ promised[n] = Legacy.run
    <3>1. Counted(n)
      <4> SUFFICES ASSUME NEW p \in Prompts, Told(p)
                   PROVE  p.it <= live[n].it
        BY DEF Counted
      <4>1. p = PromptOf(k, old)
        BY <1>4, <1>5 DEF Told
      <4>2. p.it = live[n].it /\ live[n].it \in {1, 2}
        BY <1>3, <2>3, <4>1, PromptParts
      <4> QED BY <4>2, SMT
    <3>2. Promised(n) /\ Handed(n)
      BY <1>3, <2>3 DEF Promised, Handed
    <3> QED BY <3>1, <3>2
  <2> QED BY <2>1, <2>2, <2>3
<1> QED BY <1>6, <1>7, <1>8 DEF StepInv

LEMMA StepSteps == RalphInv /\ StepInv /\ [LoopsNext]_loopVars => StepInv'
<1> SUFFICES ASSUME RalphInv, StepInv, [LoopsNext]_loopVars
             PROVE  StepInv'
  OBVIOUS
<1>1. CASE UNCHANGED loopVars
  BY <1>1 DEF loopVars, files, ghosts, counts, StepInv, Newborn, Owners, Ahead, Behind, Counted, Promised, Handed,
              Known, Told, ToldBeside, Pending, PromptIn, PromptOf, Before, Unborn
<1>2. ASSUME NEW s \in Sessions,
             Loads(s) \/ StopCurrent(s) \/ Writing(s) \/ Agent(s)
             \/ Dies(s) \/ StageFails(s) \/ SaveUnsynced(s)
      PROVE  StepInv'
  <2>1. CASE Loads(s) \/ StopCurrent(s)
    BY <2>1, StartLoadSteps, ResumeLoadSteps, StopsStep, ArchiveLoadSteps DEF Loads
  <2>2. CASE Writing(s)
    BY <2>2, WriteTaskSteps, SaveRecordSteps, ArchiveReadSteps, CopiesStep, DropRecordSteps, SyncAgentSteps
       DEF Writing
  <2>3. CASE Agent(s)
    BY <2>3, PlainTurnsStep, DeliverSteps, RalphDoneSteps, TurnEndsSteps, QueueClearedSteps,
       HandOverSteps, NoTaskSteps DEF Agent
  <2>4. CASE Dies(s) \/ StageFails(s) \/ SaveUnsynced(s)
    BY <2>4, DiesSteps, StageFailsSteps, SaveRecordSteps
  <2> QED BY <1>2, <2>1, <2>2, <2>3, <2>4
<1> QED BY <1>1, <1>2 DEF LoopsNext

LEMMA StepHolds == LoopsSpec => [](RalphInv /\ StepInv)
<1>1. LoopsInit => RalphInv /\ StepInv
  BY RalphStarts, StepStarts
<1>2. RalphInv /\ StepInv /\ [LoopsNext]_loopVars => (RalphInv /\ StepInv)'
  BY RalphSteps, StepSteps
<1> QED BY <1>1, <1>2, PTL DEF LoopsSpec

LEMMA GrownQueue ==
  ASSUME RalphInv, LoopsNext, NEW s \in Sessions, Len(queue'[s]) > Len(queue[s])
  PROVE  HandOver(s) /\ queue'[s] = Append(queue[s], PromptIn(s))
<1>0. queue \in [Sessions -> Seq(Prompts)] /\ Len(queue[s]) \in Nat
  <2>1. queue \in [Sessions -> Seq(Prompts)]
    BY DEF RalphInv, LoopsTypeOK, AgentTypes
  <2>2. queue[s] \in Seq(Prompts)
    BY <2>1
  <2>3. \A q \in Seq(Prompts) : Len(q) \in Nat
    BY SMT
  <2> QED BY <2>1, <2>2, <2>3
<1>1. queue'[s] # queue[s]
  <2>1. ~(Len(queue[s]) > Len(queue[s]))
    BY <1>0, SMT
  <2> QED BY <2>1
<1>2. ASSUME NEW t \in Sessions, NEW q \in Seq(Prompts), queue' = [queue EXCEPT ![t] = q],
             Len(q) <= Len(queue[t])
      PROVE  FALSE
  <2>1. t = s /\ queue'[s] = q
    BY <1>0, <1>1, <1>2
  <2>2. Len(q) \in Nat
    BY SMT
  <2> QED BY <1>0, <1>2, <2>1, <2>2, SMT
<1>3. \A q \in Seq(Prompts) : /\ <<>> \in Seq(Prompts) /\ Len(<<>>) <= Len(q)
                              /\ q # <<>> => Tail(q) \in Seq(Prompts) /\ Len(Tail(q)) <= Len(q)
  BY SMT
<1>4. PICK t \in Sessions : Loads(t) \/ StopCurrent(t) \/ Writing(t) \/ Agent(t)
                          \/ Dies(t) \/ StageFails(t) \/ SaveUnsynced(t)
  BY DEF LoopsNext
<1>5. queue[t] \in Seq(Prompts)
  BY <1>0
<1>6. CASE Loads(t) \/ StopCurrent(t) \/ Writing(t) \/ StageFails(t) \/ SaveUnsynced(t)
  <2>1. queue' = queue
    BY <1>6, Zenon DEF Loads, StartLoad, ResumeLoad, StopLoad, ArchiveLoad, DeleteLoad, StopCurrent, Writing,
                       WriteTask, SaveRecord, ReplaceRecord, SaveUnsynced, ArchiveRead, ArchiveText, ArchiveRecord, DropRecord, DropTask,
                       SyncAgent, StageFails, Untouched
  <2> QED BY <1>1, <2>1
<1>7. CASE Dies(t) \/ QueueCleared(t) \/ Deliver(t)
  <2>1. queue' = [queue EXCEPT ![t] = <<>>] \/ (queue[t] # <<>> /\ queue' = [queue EXCEPT ![t] = Tail(queue[t])])
    BY <1>7 DEF Dies, QueueCleared, Deliver
  <2> QED BY <1>2, <1>3, <1>5, <2>1
<1>8. CASE \/ UserPrompt(t) \/ Continue(t) \/ RunStops(t) \/ RalphDone(t) \/ TurnEnds(t)
           \/ TurnFails(t) \/ NoTask(t)
  <2>1. queue' = queue
    BY <1>8 DEF UserPrompt, Continue, RunStops, RalphDone, TurnEnds, TurnFails, NoTask, Untouched
  <2> QED BY <1>1, <2>1
<1>9. CASE HandOver(t)
  <2>1. queue' = queue \/ queue' = [queue EXCEPT ![t] = Append(queue[t], PromptIn(t))]
    BY <1>0, <1>9 DEF HandOver, PromptIn
  <2>2. t = s /\ queue'[s] = Append(queue[s], PromptIn(s))
    BY <1>0, <1>1, <2>1
  <2> QED BY <1>9, <2>2
<1> QED BY <1>4, <1>6, <1>7, <1>8, <1>9 DEF Agent

LEMMA StepInStep ==
  ASSUME RalphInv, StepInv, LoopsNext, NEW s \in Sessions, Len(queue'[s]) > Len(queue[s])
  PROVE  LET p == Last(queue'[s]) IN
         ~op[s].stale /\ ~crossed[p.loop] /\ live[p.loop].owner # Nobody =>
           /\ ~Known(p)
           /\ p.it = 1 \/ Before(p) \in worked \cup lost
<1> DEFINE p == PromptIn(s)
           n == op[s].loop
<1>1. HandOver(s) /\ queue'[s] = Append(queue[s], p)
  BY GrownQueue
<1>2. pc[s] = "prompt" /\ pc[s] \in OpStages
  BY <1>1 DEF HandOver, OpStages
<1>3. op[s] \in Ops /\ op[s].rec \in Recs /\ n \in Loops /\ op[s].kind \in {"start", "advance"}
  <2>1. op[s].kind \in {"start", "advance"}
    BY <1>2 DEF RalphInv, OpOK, ShapeOf
  <2> QED BY <1>2, <2>1, ActorTypes, OpParts, PlacesOf DEF RalphInv
<1>4. p \in Prompts /\ p.loop = n /\ p.run = op[s].rec.run /\ p.it = op[s].rec.it
  BY <1>3, PromptType, PromptParts DEF PromptIn
<1> HIDE DEF p
<1>5. Last(queue'[s]) = p
  <2>1. queue[s] \in Seq(Prompts)
    BY ActorTypes DEF RalphInv
  <2>2. ASSUME NEW S, NEW q \in Seq(S), NEW e \in S
        PROVE  Append(q, e)[Len(Append(q, e))] = e
    BY SMT
  <2> QED BY <1>1, <1>4, <2>1, <2>2 DEF Last
<1>6. ASSUME ~op[s].stale, ~crossed[n], live[n].owner # Nobody
      PROVE  ~Known(p) /\ (p.it = 1 \/ Before(p) \in worked \cup lost)
  <2>1. live[n] = op[s].rec
    BY <1>2, <1>6 DEF RalphInv, OpOK, Fresh
  <2>2. Pending(s) /\ Ahead(s) /\ Behind(s) /\ Owners(s)
    BY <1>2, <1>3 DEF Pending, StepInv
  <2>3. ~Known(p)
    <3> SUFFICES ASSUME Known(p)
                 PROVE  FALSE
      OBVIOUS
    <3>1. p.it < op[s].rec.it
      BY <1>4, <1>6, <2>2 DEF Ahead, ToldBeside
    <3>2. p.it \in Nat
      BY <1>4, SMT DEF Prompts
    <3>3. p.it < p.it
      BY <1>4, <3>1
    <3> QED BY <3>2, <3>3, SMT
  <2>4. CASE op[s].kind = "start"
    BY <1>4, <2>2, <2>3, <2>4 DEF Owners
  <2>5. CASE op[s].kind = "advance"
    <3>1. op[s].rec.owner # Nobody
      BY <1>6, <2>1
    <3> QED BY <1>2, <1>6, <2>2, <2>3, <2>5, <3>1 DEF Behind, p
  <2> QED BY <1>3, <2>4, <2>5
<1> QED BY <1>4, <1>5, <1>6

(* A session that owns its loop, and whose copy nobody overtook, is handed *)
(* each iteration once, and only when the one before was worked on or its  *)
(* prompt went away: none is skipped and none worked on twice.  A prompt   *)
(* goes away with its queue or process, or never comes to be when the      *)
(* record is replaced and its directory cannot be synced (SaveUnsynced).   *)
THEOREM IterationsKeepInStep == LoopsSpec => InStep
<1>1. RalphInv /\ StepInv /\ [LoopsNext]_loopVars =>
        [\A s \in Sessions : Len(queue'[s]) > Len(queue[s]) =>
           LET p == Last(queue'[s]) IN
           ~op[s].stale /\ ~crossed[p.loop] /\ live[p.loop].owner # Nobody =>
             /\ ~Known(p)
             /\ p.it = 1 \/ Before(p) \in worked \cup lost]_loopVars
  BY StepInStep
<1> QED BY <1>1, StepHolds, PTL DEF InStep, LoopsSpec
===============================================================================
