------------------------- MODULE SessionRuntimeProofs -------------------------
(***************************************************************************)
(* What a session's file and its resumption come to, for any number of     *)
(* sessions, messages, faults and restarts.                                *)
(*                                                                         *)
(* A file is a tree of lines that hang from earlier ones (Trees).  The     *)
(* branch a line ends, what a branch restores to and the tip an entry is   *)
(* followed to are recursive functions of lines; what they compute is      *)
(* proved by least counterexamples (Smallest), lines being numbered in the *)
(* order they were written.  The invariant (SessionInv) types the log, the *)
(* turn and the move under way, and says that the write head is the newest *)
(* line of the file and what a move has read.  On it rest: the log only grows, and what  *)
(* resuming it finds after a message, a reset, a compaction and a move is  *)
(* what the runtime meant to leave there.                                  *)
(***************************************************************************)
EXTENDS SessionRuntimeProperties, SequenceTheorems, WellFoundedInduction, TLAPS

Kinds == UserKinds \cup {"reply", "failed", "reset"}
Said == [kind : Kinds, n : Nat]
LineKinds == {"message", "reset", "compaction", "branch"}
Lines == [kind : LineKinds, parent : Nat, msg : Said, kept : Nat]

\* A file whose every line hangs from an earlier one.
Trees == {es \in Seq(Lines) : \A i \in 1..Len(es) : es[i].parent < i}

-----------------------------------------------------------------------------
(* Smallest and largest numbers.                                           *)
LEMMA Smallest ==
  ASSUME NEW S, S \subseteq Nat, S # {}
  PROVE  \E m \in S : \A y \in S : m <= y
<1>1. PICK m \in S : \A y \in S : <<y, m>> \notin OpToRel(<, Nat)
  BY WFMin, NatLessThanWellFounded, Zenon
<1>2. ASSUME NEW y \in S
      PROVE  m <= y
  <2>1. y \in Nat /\ m \in Nat
    OBVIOUS
  <2>2. ~(y < m)
    BY <1>1, <2>1, Zenon DEF OpToRel
  <2> QED BY <2>1, <2>2, SMT
<1> QED BY <1>2

LEMMA MinOf ==
  ASSUME NEW S, S \subseteq Nat, S # {}
  PROVE  Min(S) \in S /\ \A y \in S : Min(S) <= y
<1>1. \E m \in S : \A y \in S : m <= y
  BY Smallest
<1> QED BY <1>1, Zenon DEF Min

LEMMA MaxOf ==
  ASSUME NEW S, S \subseteq Nat, S # {}, NEW b \in Nat, \A y \in S : y <= b
  PROVE  Max(S) \in S /\ \A y \in S : Max(S) >= y
<1> DEFINE B == {n \in Nat : \A y \in S : y <= n}
<1>1. PICK m \in B : \A n \in B : m <= n
  <2>1. B \subseteq Nat /\ B # {}
    OBVIOUS
  <2> HIDE DEF B
  <2> QED BY <2>1, Smallest
<1>2. m \in S
  <2> SUFFICES ASSUME m \notin S PROVE FALSE
    OBVIOUS
  <2>1. PICK y \in S : TRUE
    OBVIOUS
  <2>2. y < m
    BY <1>1, SMT
  <2>3. m - 1 \in B
    BY <1>1, <2>2, SMT
  <2> QED BY <1>1, <2>3, SMT
<1>3. \E x \in S : \A y \in S : x >= y
  BY <1>1, <1>2, SMT
<1> QED BY <1>3, Zenon DEF Max

-----------------------------------------------------------------------------
(* The path to a line, a recursive function of the line.                   *)
PathStep(g, es, i) == IF i = 0 THEN <<>> ELSE Append(g[es[i].parent], i)
PathFn(es) == CHOOSE path : path = [i \in 0..Len(es) |-> IF i = 0 THEN <<>> ELSE Append(path[es[i].parent], i)]

LEMMA PathIsFn == \A es, l : Path(es, l) = PathFn(es)[l]
PROOF BY DEF Path, PathFn

LEMMA PathUpTo ==
  ASSUME NEW es \in Trees, NEW n \in 0..Len(es)
  PROVE  \E g : g = [i \in 0..n |-> PathStep(g, es, i)]
<1> DEFINE There(k) == \E g : g = [i \in 0..k |-> PathStep(g, es, i)]
           S == {k \in 0..Len(es) : ~There(k)}
<1>0. Len(es) \in Nat /\ \A i \in 1..Len(es) : es[i].parent \in Nat /\ es[i].parent < i
  <2>1. es \in Seq(Lines)
    BY DEF Trees
  <2>2. Len(es) \in Nat /\ \A i \in 1..Len(es) : es[i] \in Lines
    BY <2>1, LenProperties, ElementOfSeq
  <2> QED BY <2>2 DEF Trees, Lines
<1>1. There(0)
  <2> DEFINE g == [i \in 0..0 |-> <<>>]
  <2>1. g = [i \in 0..0 |-> PathStep(g, es, i)]
    BY SMT DEF PathStep
  <2> QED BY <2>1
<1>2. ASSUME NEW k \in 1..Len(es), There(k - 1)
      PROVE  There(k)
  <2>1. PICK g : g = [i \in 0..k-1 |-> PathStep(g, es, i)]
    BY <1>2
  <2> DEFINE h == [i \in 0..k |-> IF i = k THEN Append(g[es[k].parent], k) ELSE g[i]]
  <2>2. ASSUME NEW i \in 0..k
        PROVE  h[i] = PathStep(h, es, i)
    <3>1. CASE i = 0
      BY <1>0, <2>1, <3>1, SMT DEF PathStep
    <3>2. CASE i \in 1..k-1
      <4>0. i \in 0..k-1 /\ i # 0
        BY <1>0, <3>2, SMT
      <4>1. g[i] = Append(g[es[i].parent], i)
        BY <2>1, <4>0, Zenon DEF PathStep
      <4>2. es[i].parent \in 0..k-1
        BY <1>0, <3>2, SMT
      <4>3. h[es[i].parent] = g[es[i].parent] /\ h[i] = g[i]
        <5>1. PICK p : p = es[i].parent
          OBVIOUS
        <5>2. p \in 0..k /\ p # k /\ i \in 0..k /\ i # k
          BY <1>0, <3>2, <4>2, <5>1, SMT
        <5>3. h[p] = g[p] /\ h[i] = g[i]
          BY <5>2
        <5> QED BY <5>1, <5>3
      <4> HIDE DEF h
      <4> QED BY <4>0, <4>1, <4>3 DEF PathStep
    <3>3. CASE i = k
      <4>1. es[k].parent \in 0..k-1
        BY <1>0, SMT
      <4>2. h[es[k].parent] = g[es[k].parent] /\ h[k] = Append(g[es[k].parent], k)
        <5>1. PICK p : p = es[k].parent
          OBVIOUS
        <5>2. p \in 0..k /\ p # k /\ k \in 0..k
          BY <1>0, <4>1, <5>1, SMT
        <5>3. h[p] = g[p] /\ h[k] = Append(g[es[k].parent], k)
          BY <5>2
        <5> QED BY <5>1, <5>3
      <4>3. k # 0
        BY <1>0, SMT
      <4> HIDE DEF h
      <4> QED BY <3>3, <4>2, <4>3 DEF PathStep
    <3> QED BY <3>1, <3>2, <3>3, SMT
  <2>3. h = [i \in 0..k |-> h[i]]
    OBVIOUS
  <2> HIDE DEF h
  <2>4. h = [i \in 0..k |-> PathStep(h, es, i)]
    BY <2>2, <2>3
  <2> QED BY <2>4
<1> HIDE DEF There
<1>3. S = {}
  <2> SUFFICES ASSUME S # {} PROVE FALSE
    OBVIOUS
  <2>1. PICK m \in S : \A y \in S : m <= y
    <3>1. S \subseteq Nat
      BY <1>0
    <3> QED BY <3>1, Smallest
  <2>2. m \in 1..Len(es)
    BY <1>0, <1>1, SMT
  <2>3. There(m - 1)
    BY <1>0, <2>1, <2>2, SMT
  <2> QED BY <1>2, <2>1, <2>2, <2>3
<1>4. There(n)
  BY <1>3
<1> QED BY <1>4 DEF There

\* The path to the root is empty, any other its parent's with the line added.
LEMMA PathGrows ==
  ASSUME NEW es \in Trees
  PROVE  /\ Path(es, 0) = <<>>
         /\ \A l \in 1..Len(es) : Path(es, l) = Append(Path(es, es[l].parent), l)
<1>0. Len(es) \in Nat
  <2>1. es \in Seq(Lines)
    BY DEF Trees
  <2> QED BY <2>1, LenProperties
<1>1. \E g : g = [i \in 0..Len(es) |-> PathStep(g, es, i)]
  BY <1>0, PathUpTo, SMT
<1>2. \E g : g = [i \in 0..Len(es) |-> IF i = 0 THEN <<>> ELSE Append(g[es[i].parent], i)]
  BY <1>1 DEF PathStep
<1>3. PathFn(es) = [i \in 0..Len(es) |-> IF i = 0 THEN <<>> ELSE Append(PathFn(es)[es[i].parent], i)]
  BY <1>2, Zenon DEF PathFn
<1> DEFINE P == PathFn(es)
<1>4. /\ P[0] = <<>>
      /\ \A l \in 1..Len(es) : P[l] = Append(P[es[l].parent], l)
  <2> HIDE DEF P
  <2>1. P = [i \in 0..Len(es) |-> IF i = 0 THEN <<>> ELSE Append(P[es[i].parent], i)]
    BY <1>3 DEF P
  <2>2. \A i \in 0..Len(es) : P[i] = IF i = 0 THEN <<>> ELSE Append(P[es[i].parent], i)
    BY <2>1, Zenon
  <2>3. 0 \in 0..Len(es) /\ \A l \in 1..Len(es) : l \in 0..Len(es) /\ l # 0
    BY <1>0, SMT
  <2> QED BY <2>2, <2>3, Zenon
<1> QED BY <1>4, PathIsFn

LEMMA TreeTypes ==
  ASSUME NEW es \in Trees
  PROVE  /\ es \in Seq(Lines) /\ Len(es) \in Nat /\ DOMAIN es = 1..Len(es)
         /\ \A i \in 1..Len(es) : es[i] \in Lines /\ es[i].parent \in Nat /\ es[i].parent < i
         /\ \A i \in 1..Len(es) : es[i].parent \in 0..Len(es) /\ es[i].msg \in Said
<1>1. es \in Seq(Lines)
  BY DEF Trees
<1>2. Len(es) \in Nat /\ DOMAIN es = 1..Len(es) /\ \A i \in 1..Len(es) : es[i] \in Lines
  BY <1>1, LenProperties, ElementOfSeq
<1>3. \A i \in 1..Len(es) : es[i].parent \in Nat /\ es[i].parent < i /\ es[i].msg \in Said
  BY <1>2 DEF Trees, Lines
<1> QED BY <1>1, <1>2, <1>3, SMT

\* A path goes through lines up to the one it leads to, which is its last.
LEMMA PathType ==
  ASSUME NEW es \in Trees, NEW l \in 0..Len(es)
  PROVE  /\ Path(es, l) \in Seq(1..l)
         /\ l > 0 => Len(Path(es, l)) > 0 /\ Path(es, l)[Len(Path(es, l))] = l
<1> DEFINE Typed(k) == Path(es, k) \in Seq(1..k)
           S == {k \in 0..Len(es) : ~Typed(k)}
<1>0. Len(es) \in Nat /\ \A i \in 1..Len(es) : es[i].parent \in Nat /\ es[i].parent < i
  BY TreeTypes
<1>1. Typed(0)
  BY PathGrows, EmptySeq
<1>2. ASSUME NEW k \in 1..Len(es), Typed(es[k].parent)
      PROVE  Typed(k)
  <2>1. Path(es, k) = Append(Path(es, es[k].parent), k)
    BY PathGrows
  <2>2. 1..es[k].parent \subseteq 1..k /\ k \in 1..k
    BY <1>0, SMT
  <2>3. Path(es, es[k].parent) \in Seq(1..k)
    BY <1>2, <2>2, SeqMonotonic
  <2> QED BY <2>1, <2>2, <2>3, AppendProperties
<1>3. ASSUME NEW k \in 1..Len(es), Typed(es[k].parent)
      PROVE  Len(Path(es, k)) > 0 /\ Path(es, k)[Len(Path(es, k))] = k
  <2>1. Path(es, k) = Append(Path(es, es[k].parent), k)
    BY PathGrows
  <2> DEFINE q == Path(es, es[k].parent)
  <2>2. q \in Seq(Nat) /\ k \in Nat
    <3>1. 1..es[k].parent \subseteq Nat
      BY <1>0, SMT
    <3> QED BY <1>0, <1>3, <3>1, SeqMonotonic, SMT
  <2>3. Len(Append(q, k)) = Len(q) + 1 /\ Len(q) \in Nat /\ Append(q, k)[Len(q) + 1] = k
    BY <2>2, AppendProperties, LenProperties
  <2> HIDE DEF q
  <2> QED BY <2>1, <2>3, SMT DEF q
<1> HIDE DEF Typed
<1>4. S = {}
  <2> SUFFICES ASSUME S # {} PROVE FALSE
    OBVIOUS
  <2>1. PICK m \in S : \A y \in S : m <= y
    <3>1. S \subseteq Nat
      BY <1>0
    <3> QED BY <3>1, Smallest
  <2>2. m \in 1..Len(es)
    BY <1>0, <1>1, SMT
  <2>3. es[m].parent \in 0..Len(es) /\ ~(m <= es[m].parent)
    BY <1>0, <2>2, SMT
  <2>4. Typed(es[m].parent)
    BY <2>1, <2>3
  <2> QED BY <1>2, <2>1, <2>2, <2>4
<1>5. \A k \in 0..Len(es) : Typed(k)
  BY <1>4
<1>6. l > 0 => l \in 1..Len(es) /\ es[l].parent \in 0..Len(es)
  BY <1>0, SMT
<1> QED BY <1>3, <1>5, <1>6 DEF Typed

\* Lines written later do not change a path.
LEMMA PathStays ==
  ASSUME NEW es \in Trees, NEW fs \in Trees, Len(es) <= Len(fs),
         \A i \in 1..Len(es) : fs[i] = es[i], NEW l \in 0..Len(es)
  PROVE  Path(fs, l) = Path(es, l)
<1> DEFINE Same(k) == Path(fs, k) = Path(es, k)
           S == {k \in 0..Len(es) : ~Same(k)}
<1>0. /\ Len(es) \in Nat /\ Len(fs) \in Nat
      /\ \A i \in 1..Len(es) : es[i].parent \in Nat /\ es[i].parent < i
  BY TreeTypes
<1>1. Same(0)
  BY PathGrows
<1>2. ASSUME NEW k \in 1..Len(es), Same(es[k].parent)
      PROVE  Same(k)
  <2>1. k \in 1..Len(fs) /\ fs[k].parent = es[k].parent
    BY <1>0, SMT
  <2>2. Path(es, k) = Append(Path(es, es[k].parent), k)
    BY PathGrows
  <2>3. Path(fs, k) = Append(Path(fs, fs[k].parent), k)
    BY <2>1, PathGrows
  <2> QED BY <1>2, <2>1, <2>2, <2>3
<1> HIDE DEF Same
<1>3. S = {}
  <2> SUFFICES ASSUME S # {} PROVE FALSE
    OBVIOUS
  <2>1. PICK m \in S : \A y \in S : m <= y
    <3>1. S \subseteq Nat
      BY <1>0
    <3> QED BY <3>1, Smallest
  <2>2. m \in 1..Len(es)
    BY <1>0, <1>1, SMT
  <2>3. es[m].parent \in 0..Len(es) /\ ~(m <= es[m].parent)
    BY <1>0, <2>2, SMT
  <2>4. Same(es[m].parent)
    BY <2>1, <2>3
  <2> QED BY <1>2, <2>1, <2>2, <2>4
<1> QED BY <1>3 DEF Same

-----------------------------------------------------------------------------
(* Filtering, a recursive function of the place.                           *)
HasStep(g, s, S, i) == IF i = 0 THEN <<>> ELSE IF s[i] \in S THEN Append(g[i - 1], s[i]) ELSE g[i - 1]
HasFn(s, S) == CHOOSE has : has = [i \in 0..Len(s) |-> IF i = 0 THEN <<>>
                                     ELSE IF s[i] \in S THEN Append(has[i - 1], s[i]) ELSE has[i - 1]]

LEMMA FilteredIsFn == \A s, S : Filtered(s, S) = HasFn(s, S)[Len(s)]
PROOF BY DEF Filtered, HasFn

LEMMA HasUpTo ==
  ASSUME NEW s, NEW S, NEW n \in Nat
  PROVE  \E g : g = [i \in 0..n |-> HasStep(g, s, S, i)]
<1> DEFINE There(k) == \E g : g = [i \in 0..k |-> HasStep(g, s, S, i)]
           B == {k \in Nat : ~There(k)}
<1>1. There(0)
  <2> DEFINE g == [i \in 0..0 |-> <<>>]
  <2>1. g = [i \in 0..0 |-> HasStep(g, s, S, i)]
    BY SMT DEF HasStep
  <2> QED BY <2>1
<1>2. ASSUME NEW k \in Nat \ {0}, There(k - 1)
      PROVE  There(k)
  <2>1. PICK g : g = [i \in 0..k-1 |-> HasStep(g, s, S, i)]
    BY <1>2
  <2> DEFINE h == [i \in 0..k |-> IF i = k THEN HasStep(g, s, S, k) ELSE g[i]]
  <2>2. ASSUME NEW i \in 0..k
        PROVE  h[i] = HasStep(h, s, S, i)
    <3>1. CASE i = 0
      <4>1. 0 \in 0..k-1 /\ 0 # k
        BY SMT
      <4>2. g[0] = <<>>
        BY <2>1, <4>1, Zenon DEF HasStep
      <4>3. h[0] = g[0]
        BY <4>1
      <4> HIDE DEF h
      <4> QED BY <3>1, <4>2, <4>3 DEF HasStep
    <3>2. CASE i \in 1..k-1
      <4>1. i \in 0..k-1 /\ i - 1 \in 0..k-1 /\ i # k /\ i - 1 # k /\ i - 1 \in 0..k
        BY <3>2, SMT
      <4>2. g[i] = HasStep(g, s, S, i)
        BY <2>1, <4>1, Zenon
      <4>3. h[i] = g[i] /\ h[i - 1] = g[i - 1]
        BY <4>1
      <4> HIDE DEF h
      <4> QED BY <4>2, <4>3 DEF HasStep
    <3>3. CASE i = k
      <4>1. k - 1 \in 0..k /\ k - 1 # k /\ k \in 0..k
        BY SMT
      <4>2. h[k - 1] = g[k - 1] /\ h[k] = HasStep(g, s, S, k)
        BY <4>1
      <4> HIDE DEF h
      <4> QED BY <3>3, <4>2 DEF HasStep
    <3> QED BY <3>1, <3>2, <3>3, SMT
  <2>3. h = [i \in 0..k |-> h[i]]
    OBVIOUS
  <2> HIDE DEF h
  <2>4. h = [i \in 0..k |-> HasStep(h, s, S, i)]
    BY <2>2, <2>3
  <2> QED BY <2>4
<1> HIDE DEF There
<1>3. B = {}
  <2> SUFFICES ASSUME B # {} PROVE FALSE
    OBVIOUS
  <2>1. PICK m \in B : \A y \in B : m <= y
    BY Smallest
  <2>2. m \in Nat \ {0}
    BY <1>1
  <2>3. m - 1 \in Nat /\ ~(m <= m - 1)
    BY <2>2, SMT
  <2> QED BY <1>2, <2>1, <2>2, <2>3
<1>4. There(n)
  BY <1>3
<1> QED BY <1>4 DEF There

LEMMA HasGrows ==
  ASSUME NEW s, NEW S, Len(s) \in Nat
  PROVE  /\ HasFn(s, S)[0] = <<>>
         /\ \A i \in 1..Len(s) : HasFn(s, S)[i] = IF s[i] \in S THEN Append(HasFn(s, S)[i - 1], s[i])
                                                  ELSE HasFn(s, S)[i - 1]
<1>1. \E g : g = [i \in 0..Len(s) |-> HasStep(g, s, S, i)]
  BY HasUpTo
<1>2. \E g : g = [i \in 0..Len(s) |-> IF i = 0 THEN <<>>
                    ELSE IF s[i] \in S THEN Append(g[i - 1], s[i]) ELSE g[i - 1]]
  BY <1>1 DEF HasStep
<1> DEFINE P == HasFn(s, S)
<1>3. P = [i \in 0..Len(s) |-> IF i = 0 THEN <<>>
             ELSE IF s[i] \in S THEN Append(P[i - 1], s[i]) ELSE P[i - 1]]
  BY <1>2, Zenon DEF HasFn
<1> HIDE DEF P
<1>4. \A i \in 0..Len(s) : P[i] = IF i = 0 THEN <<>>
             ELSE IF s[i] \in S THEN Append(P[i - 1], s[i]) ELSE P[i - 1]
  BY <1>3, Zenon
<1>5. 0 \in 0..Len(s) /\ \A i \in 1..Len(s) : i \in 0..Len(s) /\ i # 0
  BY SMT
<1>6. P[0] = <<>> /\ \A i \in 1..Len(s) : P[i] = IF s[i] \in S THEN Append(P[i - 1], s[i]) ELSE P[i - 1]
  BY <1>4, <1>5, Zenon
<1> QED BY <1>6 DEF P

LEMMA HasType ==
  ASSUME NEW T, NEW s \in Seq(T), NEW S
  PROVE  \A k \in 0..Len(s) : HasFn(s, S)[k] \in Seq(T \cap S)
<1> DEFINE H == HasFn(s, S)
           Typed(k) == H[k] \in Seq(T \cap S)
           B == {k \in 0..Len(s) : ~Typed(k)}
<1>0. Len(s) \in Nat /\ \A i \in 1..Len(s) : s[i] \in T
  BY LenProperties, ElementOfSeq
<1>1. Typed(0)
  <2>1. H[0] = <<>>
    BY <1>0, HasGrows
  <2>2. <<>> \in Seq(T \cap S)
    BY EmptySeq
  <2> QED BY <2>1, <2>2
<1>2. ASSUME NEW k \in 1..Len(s), Typed(k - 1)
      PROVE  Typed(k)
  <2>1. H[k] = IF s[k] \in S THEN Append(H[k - 1], s[k]) ELSE H[k - 1]
    BY <1>0, HasGrows
  <2>2. s[k] \in S => s[k] \in T \cap S
    BY <1>0
  <2> HIDE DEF H
  <2> QED BY <1>2, <2>1, <2>2, AppendProperties
<1> HIDE DEF Typed
<1>3. B = {}
  <2> SUFFICES ASSUME B # {} PROVE FALSE
    OBVIOUS
  <2>1. PICK m \in B : \A y \in B : m <= y
    <3>1. B \subseteq Nat
      BY <1>0
    <3> QED BY <3>1, Smallest
  <2>2. m \in 1..Len(s)
    BY <1>0, <1>1, SMT
  <2>3. m - 1 \in 0..Len(s) /\ ~(m <= m - 1)
    BY <1>0, <2>2, SMT
  <2> QED BY <1>2, <2>1, <2>2, <2>3
<1> QED BY <1>3 DEF Typed

LEMMA FilteredType ==
  ASSUME NEW T, NEW s \in Seq(T), NEW S
  PROVE  Filtered(s, S) \in Seq(T \cap S)
<1>1. Len(s) \in Nat
  BY LenProperties
<1>2. Len(s) \in 0..Len(s)
  BY <1>1, SMT
<1> QED BY <1>2, HasType, FilteredIsFn

\* Sequences that agree up to n have the same of two sets that agree on it.
Agree(s, t, S, U, n) ==
  /\ n \in Nat /\ Len(s) \in Nat /\ Len(t) \in Nat /\ n <= Len(s) /\ n <= Len(t)
  /\ \A i \in 1..n : s[i] = t[i] /\ (s[i] \in S <=> t[i] \in U)

LEMMA HasSame ==
  ASSUME NEW s, NEW t, NEW S, NEW U, NEW n, Agree(s, t, S, U, n)
  PROVE  HasFn(s, S)[n] = HasFn(t, U)[n]
<1> DEFINE Same(k) == HasFn(s, S)[k] = HasFn(t, U)[k]
           B == {k \in 0..n : ~Same(k)}
<1>0. /\ n \in Nat /\ Len(s) \in Nat /\ Len(t) \in Nat /\ n <= Len(s) /\ n <= Len(t)
      /\ \A i \in 1..n : s[i] = t[i] /\ (s[i] \in S <=> t[i] \in U)
  BY DEF Agree
<1>1. Same(0)
  BY <1>0, HasGrows
<1>2. ASSUME NEW k \in 1..n, Same(k - 1)
      PROVE  Same(k)
  <2>0. k \in 1..Len(s) /\ k \in 1..Len(t)
    BY <1>0, SMT
  <2>1. HasFn(s, S)[k] = IF s[k] \in S THEN Append(HasFn(s, S)[k - 1], s[k]) ELSE HasFn(s, S)[k - 1]
    BY <1>0, <2>0, HasGrows
  <2>2. HasFn(t, U)[k] = IF t[k] \in U THEN Append(HasFn(t, U)[k - 1], t[k]) ELSE HasFn(t, U)[k - 1]
    BY <1>0, <2>0, HasGrows
  <2> QED BY <1>0, <1>2, <2>1, <2>2
<1> HIDE DEF Same
<1>3. B = {}
  <2> SUFFICES ASSUME B # {} PROVE FALSE
    OBVIOUS
  <2>1. PICK m \in B : \A y \in B : m <= y
    <3>1. B \subseteq Nat
      BY <1>0, SMT
    <3> QED BY <3>1, Smallest
  <2>2. m \in 1..n
    BY <1>0, <1>1, SMT
  <2>3. m - 1 \in 0..n /\ ~(m <= m - 1)
    BY <1>0, <2>2, SMT
  <2> QED BY <1>2, <2>1, <2>2, <2>3
<1> QED BY <1>0, <1>3, SMT DEF Same

LEMMA FilteredEmpty == \A S : Filtered(<<>>, S) = <<>>
<1> SUFFICES ASSUME NEW S PROVE Filtered(<<>>, S) = <<>>
  OBVIOUS
<1>1. Len(<<>>) = 0
  BY EmptySeq
<1> QED BY <1>1, HasGrows, FilteredIsFn

(* Two sets that select the same elements of a list.                       *)
Alike(s, S, U) == \A i \in 1..Len(s) : s[i] \in S <=> s[i] \in U

LEMMA FilteredAppend ==
  ASSUME NEW s \in Seq(Nat), NEW x \in Nat, NEW S, NEW U, Alike(s, S, U)
  PROVE  Filtered(Append(s, x), U) = IF x \in U THEN Append(Filtered(s, S), x) ELSE Filtered(s, S)
<1> DEFINE t == Append(s, x)
           n == Len(s)
<1>1. n \in Nat /\ Len(t) = n + 1 /\ t[n + 1] = x /\ \A i \in 1..n : t[i] = s[i]
  BY AppendProperties, LenProperties
<1> HIDE DEF t, n
<1>2. Len(t) \in Nat /\ n + 1 \in 1..Len(t) /\ (n + 1) - 1 = n /\ n <= Len(t)
  BY <1>1, SMT
<1>3. HasFn(s, S)[n] = HasFn(t, U)[n]
  <2>1. Agree(s, t, S, U, n)
    BY <1>1, <1>2 DEF Agree, Alike, n
  <2> QED BY <2>1, HasSame
<1>4. HasFn(t, U)[n + 1] = IF t[n + 1] \in U THEN Append(HasFn(t, U)[(n + 1) - 1], t[n + 1])
                           ELSE HasFn(t, U)[(n + 1) - 1]
  BY <1>2, HasGrows
<1>5. Filtered(t, U) = IF x \in U THEN Append(HasFn(t, U)[n], x) ELSE HasFn(t, U)[n]
  BY <1>1, <1>2, <1>4, FilteredIsFn
<1>6. Filtered(s, S) = HasFn(s, S)[n]
  BY FilteredIsFn DEF n
<1> QED BY <1>3, <1>5, <1>6 DEF t

LEMMA FilteredAll ==
  ASSUME NEW T, NEW s \in Seq(T), NEW S, \A i \in 1..Len(s) : s[i] \in S
  PROVE  Filtered(s, S) = s
<1> DEFINE H == HasFn(s, S)
           Whole(k) == H[k] = SubSeq(s, 1, k)
           B == {k \in 0..Len(s) : ~Whole(k)}
<1>0. Len(s) \in Nat /\ \A i \in 1..Len(s) : s[i] \in T
  BY LenProperties, ElementOfSeq
<1>1. Whole(0)
  <2>1. SubSeq(s, 1, 0) = <<>>
    BY SubSeqEmpty, SMT
  <2> QED BY <1>0, <2>1, HasGrows
<1>2. ASSUME NEW k \in 1..Len(s), Whole(k - 1)
      PROVE  Whole(k)
  <2>1. H[k] = Append(H[k - 1], s[k])
    BY <1>0, HasGrows
  <2>2. SubSeq(s, 1, k) = SubSeq(s, 1, k - 1) \o <<s[k]>>
    <3>1. 1 \in 1..Len(s) /\ k \in 1..Len(s)
      BY <1>0, SMT
    <3> QED BY <3>1, SubSeqRecursiveSecond
  <2>3. SubSeq(s, 1, k - 1) \in Seq(T)
    <3>1. 1 \in Int /\ k - 1 \in Int /\ \A i \in 1..k-1 : s[i] \in T
      BY <1>0, SMT
    <3> QED BY <3>1, SubSeqProperties
  <2>4. Append(SubSeq(s, 1, k - 1), s[k]) = SubSeq(s, 1, k - 1) \o <<s[k]>>
    BY <1>0, <2>3, AppendIsConcat
  <2> HIDE DEF H
  <2> QED BY <1>2, <2>1, <2>2, <2>4
<1> HIDE DEF Whole
<1>3. B = {}
  <2> SUFFICES ASSUME B # {} PROVE FALSE
    OBVIOUS
  <2>1. PICK m \in B : \A y \in B : m <= y
    <3>1. B \subseteq Nat
      BY <1>0
    <3> QED BY <3>1, Smallest
  <2>2. m \in 1..Len(s)
    BY <1>0, <1>1, SMT
  <2>3. m - 1 \in 0..Len(s) /\ ~(m <= m - 1)
    BY <1>0, <2>2, SMT
  <2> QED BY <1>2, <2>1, <2>2, <2>3
<1>4. Whole(Len(s))
  BY <1>0, <1>3, SMT
<1>5. H[Len(s)] = SubSeq(s, 1, Len(s))
  BY <1>4 DEF Whole
<1> QED BY <1>5, FilteredIsFn, SubSeqFull

-----------------------------------------------------------------------------
(* What a branch restores to.                                              *)
LEMMA RangeTyped ==
  ASSUME NEW T, NEW p \in Seq(T), NEW m \in Nat \ {0}, NEW n \in 0..Len(p)
  PROVE  /\ SubSeq(p, m, n) \in Seq(T)
         /\ Len(SubSeq(p, m, n)) = IF m <= n THEN n - m + 1 ELSE 0
         /\ \A i \in 1 .. n - m + 1 : SubSeq(p, m, n)[i] = p[m + i - 1]
<1>0. Len(p) \in Nat /\ \A i \in 1..Len(p) : p[i] \in T
  BY LenProperties, ElementOfSeq
<1>1. m \in Int /\ n \in Int /\ \A i \in m..n : p[i] \in T
  BY <1>0, SMT
<1> QED BY <1>1, SubSeqProperties

LEMMA MarkersType ==
  ASSUME NEW T, NEW es, NEW p \in Seq(T)
  PROVE  /\ Markers(es, p) = {i \in 1..Len(p) : es[p[i]].kind \in {"reset", "compaction"}}
         /\ Markers(es, p) # {} => /\ Max(Markers(es, p)) \in Markers(es, p)
                                   /\ Max(Markers(es, p)) \in 1..Len(p)
                                   /\ \A i \in Markers(es, p) : i <= Max(Markers(es, p))
<1> DEFINE M == {i \in 1..Len(p) : es[p[i]].kind \in {"reset", "compaction"}}
<1>1. Markers(es, p) = M
  BY LenProperties DEF Markers
<1>2. Len(p) \in Nat
  BY LenProperties
<1>3. M \subseteq Nat /\ \A i \in M : i \in Nat /\ i \in 1..Len(p) /\ i <= Len(p)
  BY <1>2, SMT
<1>4. M # {} => Max(M) \in M /\ \A i \in M : Max(M) >= i
  <2> HIDE DEF M
  <2> QED BY <1>2, <1>3, MaxOf
<1>5. M # {} => Max(M) \in 1..Len(p) /\ \A i \in M : i <= Max(M)
  <2> DEFINE m == Max(M)
  <2>1. M # {} => m \in M /\ \A i \in M : m >= i
    BY <1>4
  <2> HIDE DEF m, M
  <2>2. M # {} => m \in 1..Len(p) /\ m \in Nat
    BY <1>3, <2>1, Zenon
  <2>3. ASSUME M # {}, NEW i \in M
        PROVE  i <= m
    <3>1. i \in Nat /\ m \in Nat /\ m >= i
      BY <1>3, <2>1, <2>2, <2>3, Zenon
    <3> QED BY <3>1, SMT
  <2> QED BY <2>2, <2>3 DEF m
<1> HIDE DEF M
<1> QED BY <1>1, <1>4, <1>5 DEF M

LEMMA RetainedType ==
  ASSUME NEW T, NEW es, NEW p \in Seq(T), NEW i \in 1..Len(p)
  PROVE  Retained(es, p, i) \in Seq(T)
<1> DEFINE from == {k \in 1..i-1 : p[k] = es[p[i]].kept}
<1>0. Len(p) \in Nat
  BY LenProperties
<1>1. from \subseteq Nat /\ from \subseteq Nat \ {0} /\ i - 1 \in 0..Len(p)
  BY <1>0, SMT
<1>2. from # {} => Min(from) \in Nat \ {0}
  BY <1>1, MinOf
<1>3. Retained(es, p, i) = IF from = {} THEN <<>> ELSE SubSeq(p, Min(from), i - 1)
  BY DEF Retained
<1> HIDE DEF from
<1> QED BY <1>1, <1>2, <1>3, RangeTyped, EmptySeq

LEMMA ContextType ==
  ASSUME NEW es \in Trees, NEW l \in 0..Len(es)
  PROVE  ContextPath(es, l) \in Seq(1..Len(es))
<1> DEFINE T == 1..Len(es)
           p == Path(es, l)
           M == Markers(es, p)
           i == Max(M)
<1>0. Len(es) \in Nat
  BY TreeTypes
<1>1. p \in Seq(T) /\ Len(p) \in Nat
  <2>1. p \in Seq(1..l)
    BY PathType
  <2>2. 1..l \subseteq T
    BY <1>0, SMT
  <2> QED BY <2>1, <2>2, SeqMonotonic, LenProperties
<1>2. M # {} => i \in 1..Len(p)
  BY <1>1, MarkersType
<1>3. ContextPath(es, l) = IF M = {} THEN p
                           ELSE IF es[p[i]].kind = "reset" THEN SubSeq(p, i + 1, Len(p))
                           ELSE <<p[i]>> \o Retained(es, p, i) \o SubSeq(p, i + 1, Len(p))
  BY DEF ContextPath
<1> HIDE DEF T, p, M, i
<1>4. ASSUME M # {}
      PROVE  /\ SubSeq(p, i + 1, Len(p)) \in Seq(T) /\ Retained(es, p, i) \in Seq(T)
             /\ <<p[i]>> \in Seq(T)
  <2>1. i + 1 \in Nat \ {0} /\ Len(p) \in 0..Len(p)
    BY <1>1, <1>2, <1>4, SMT
  <2>2. p[i] \in T
    BY <1>1, <1>2, <1>4, ElementOfSeq
  <2>3. <<p[i]>> \in Seq(T)
    BY <2>2, SMT
  <2> QED BY <1>1, <1>2, <1>4, <2>1, <2>3, RangeTyped, RetainedType
<1>5. ContextPath(es, l) \in Seq(T)
  <2>1. CASE M = {}
    BY <1>1, <1>3, <2>1
  <2>2. CASE M # {}
    <3>1. <<p[i]>> \o Retained(es, p, i) \in Seq(T)
      BY <1>4, <2>2, ConcatProperties
    <3>2. <<p[i]>> \o Retained(es, p, i) \o SubSeq(p, i + 1, Len(p)) \in Seq(T)
      BY <1>4, <2>2, <3>1, ConcatProperties
    <3> QED BY <1>3, <1>4, <2>2, <3>2
  <2> QED BY <2>1, <2>2
<1> QED BY <1>5 DEF T

Shown(es, l) == Filtered(ContextPath(es, l), DOMAIN es \ LinesOf(es, "reset"))

LEMMA ShownType ==
  ASSUME NEW es \in Trees, NEW l \in 0..Len(es)
  PROVE  /\ Shown(es, l) \in Seq(1..Len(es))
         /\ DOMAIN Shown(es, l) = 1..Len(Shown(es, l)) /\ Len(Shown(es, l)) \in Nat
<1> DEFINE S == DOMAIN es \ LinesOf(es, "reset")
<1>1. Filtered(ContextPath(es, l), S) \in Seq((1..Len(es)) \cap S)
  BY ContextType, FilteredType
<1>2. (1..Len(es)) \cap S \subseteq 1..Len(es)
  OBVIOUS
<1>3. Filtered(ContextPath(es, l), S) \in Seq(1..Len(es))
  BY <1>1, <1>2, SeqMonotonic
<1>4. Shown(es, l) \in Seq(1..Len(es))
  BY <1>3 DEF Shown
<1> QED BY <1>4, LenProperties

LEMMA RestoreType ==
  ASSUME NEW es \in Trees, NEW l \in 0..Len(es)
  PROVE  /\ Restore(es, l) \in Seq(Said)
         /\ Len(Restore(es, l)) = Len(Shown(es, l))
         /\ \A i \in 1..Len(Shown(es, l)) : Restore(es, l)[i] = es[Shown(es, l)[i]].msg
<1> DEFINE s == Shown(es, l)
<1>1. s \in Seq(1..Len(es)) /\ DOMAIN s = 1..Len(s) /\ Len(s) \in Nat
  BY ShownType
<1>2. Restore(es, l) = [i \in 1..Len(s) |-> es[s[i]].msg]
  BY <1>1 DEF Restore, Shown
<1> HIDE DEF s
<1>3. \A i \in 1..Len(s) : es[s[i]].msg \in Said
  <2>1. \A i \in 1..Len(s) : s[i] \in 1..Len(es)
    BY <1>1, ElementOfSeq
  <2> QED BY <2>1, TreeTypes
<1>4. [i \in 1..Len(s) |-> es[s[i]].msg] \in Seq(Said)
  BY <1>1, <1>3, SMT
<1>5. Len([i \in 1..Len(s) |-> es[s[i]].msg]) = Len(s)
  BY <1>1, SMT
<1> QED BY <1>2, <1>4, <1>5 DEF s

\* The line that the retained messages are taken to begin with, if any.
LEMMA TailType ==
  ASSUME NEW es \in Trees, NEW l \in 0..Len(es), NEW ms \in Seq(Said), ms # <<>>
  PROVE  RetainedTail(es, l, ms) \in Nat
<1> DEFINE told == Filtered(Path(es, l), LinesOf(es, "message"))
           skip == Len(told) - Len(ms)
<1>1. told \in Seq(Nat)
  <2>1. told \in Seq((1..l) \cap LinesOf(es, "message"))
    BY PathType, FilteredType
  <2>2. (1..l) \cap LinesOf(es, "message") \subseteq Nat
    OBVIOUS
  <2> HIDE DEF told
  <2> QED BY <2>1, <2>2, SeqMonotonic
<1>2. Len(ms) \in Nat \ {0} /\ Len(told) \in Nat
  BY <1>1, EmptySeq, LenProperties
<1>3. Len(told) >= Len(ms) => told[skip + 1] \in Nat
  <2> HIDE DEF told
  <2>1. Len(told) >= Len(ms) => skip + 1 \in 1..Len(told)
    BY <1>2, SMT
  <2> HIDE DEF skip
  <2> QED BY <1>1, <2>1, ElementOfSeq
<1>4. \/ RetainedTail(es, l, ms) = 0
      \/ Len(told) >= Len(ms) /\ RetainedTail(es, l, ms) = told[skip + 1]
  BY DEF RetainedTail
<1> HIDE DEF told, skip
<1> QED BY <1>3, <1>4, SMT

\* Lines that hang from the file or from one another can be added to it.
Hanging(es, lines) == lines \in Seq(Lines) /\ \A j \in 1..Len(lines) : lines[j].parent < Len(es) + j

\* A file that is another one with lines added.
Joined(es, lines, fs) ==
  /\ fs \in Trees /\ Len(fs) = Len(es) + Len(lines)
  /\ \A i \in 1..Len(es) : fs[i] = es[i]
  /\ \A j \in 1..Len(lines) : fs[Len(es) + j] = lines[j]

LEMMA TreeWith ==
  ASSUME NEW es \in Trees, NEW lines, Hanging(es, lines)
  PROVE  Joined(es, lines, es \o lines)
<1> DEFINE fs == es \o lines
<1>0. /\ es \in Seq(Lines) /\ Len(es) \in Nat
      /\ \A i \in 1..Len(es) : es[i].parent \in Nat /\ es[i].parent < i
  BY TreeTypes
<1>1. lines \in Seq(Lines) /\ Len(lines) \in Nat /\ \A j \in 1..Len(lines) : lines[j].parent < Len(es) + j
  BY LenProperties DEF Hanging
<1>2. /\ fs \in Seq(Lines) /\ Len(fs) = Len(es) + Len(lines)
      /\ \A i \in 1 .. Len(es) + Len(lines) : fs[i] = IF i <= Len(es) THEN es[i] ELSE lines[i - Len(es)]
  BY <1>0, <1>1, ConcatProperties
<1> HIDE DEF fs
<1>3. /\ \A i \in 1..Len(es) : fs[i] = es[i]
      /\ \A j \in 1..Len(lines) : fs[Len(es) + j] = lines[j]
  <2>1. \A i \in 1..Len(es) : i \in 1 .. Len(es) + Len(lines) /\ i <= Len(es)
    BY <1>0, <1>1, SMT
  <2>2. ASSUME NEW j \in 1..Len(lines)
        PROVE  fs[Len(es) + j] = lines[j]
    <3>1. /\ Len(es) + j \in 1 .. Len(es) + Len(lines) /\ ~(Len(es) + j <= Len(es))
          /\ (Len(es) + j) - Len(es) = j
      BY <1>0, <1>1, SMT
    <3> QED BY <1>2, <3>1
  <2> QED BY <1>2, <2>1, <2>2
<1>4. ASSUME NEW i \in 1..Len(fs)
      PROVE  fs[i].parent < i
  <2>1. CASE i <= Len(es)
    <3>1. i \in 1..Len(es)
      BY <1>0, <2>1, SMT
    <3> QED BY <1>0, <1>3, <3>1
  <2>2. CASE ~(i <= Len(es))
    <3>1. i - Len(es) \in 1..Len(lines) /\ Len(es) + (i - Len(es)) = i
      BY <1>0, <1>1, <1>2, <2>2, SMT
    <3> QED BY <1>1, <1>3, <3>1
  <2> QED BY <2>1, <2>2
<1>5. Joined(es, lines, fs)
  BY <1>2, <1>3, <1>4 DEF Trees, Joined
<1> QED BY <1>5 DEF fs

LEMMA HangingOne ==
  ASSUME NEW es \in Trees, NEW l \in 0..Len(es), NEW kind \in LineKinds, NEW msg \in Said, NEW kept \in Nat
  PROVE  /\ Hanging(es, <<Line(kind, l, msg, kept)>>)
         /\ Len(<<Line(kind, l, msg, kept)>>) = 1 /\ <<Line(kind, l, msg, kept)>>[1] = Line(kind, l, msg, kept)
<1> DEFINE x == Line(kind, l, msg, kept)
<1>0. Len(es) \in Nat
  BY TreeTypes
<1>1. x \in Lines /\ x.parent = l /\ l \in Nat
  BY <1>0, SMT DEF Line, Lines
<1> HIDE DEF x
<1>2. <<x>> \in Seq(Lines) /\ Len(<<x>>) = 1 /\ <<x>>[1] = x
  BY <1>1, SMT
<1>3. \A j \in 1..1 : <<x>>[j].parent < Len(es) + j
  BY <1>0, <1>1, <1>2, SMT
<1> QED BY <1>2, <1>3 DEF x, Hanging

LEMMA HangingPart ==
  ASSUME NEW es \in Trees, NEW lines, Hanging(es, lines), NEW k \in 0..Len(lines)
  PROVE  Hanging(es, SubSeq(lines, 1, k)) /\ Len(SubSeq(lines, 1, k)) = k
<1>1. lines \in Seq(Lines) /\ Len(lines) \in Nat
  BY LenProperties DEF Hanging
<1>2. /\ SubSeq(lines, 1, k) \in Seq(Lines)
      /\ Len(SubSeq(lines, 1, k)) = IF 1 <= k THEN k - 1 + 1 ELSE 0
      /\ \A i \in 1 .. k - 1 + 1 : SubSeq(lines, 1, k)[i] = lines[1 + i - 1]
  <2>1. 1 \in Nat \ {0}
    OBVIOUS
  <2> QED BY <1>1, <2>1, RangeTyped
<1>3. Len(SubSeq(lines, 1, k)) = k
  BY <1>1, <1>2, SMT
<1>4. ASSUME NEW j \in 1..k
      PROVE  SubSeq(lines, 1, k)[j] = lines[j] /\ j \in 1..Len(lines)
  <2>1. j \in 1 .. k - 1 + 1 /\ 1 + j - 1 = j /\ j \in 1..Len(lines)
    BY <1>1, SMT
  <2> QED BY <1>2, <2>1
<1> QED BY <1>2, <1>3, <1>4 DEF Hanging

\* A compaction's lines.
LEMMA CutLinesType ==
  ASSUME NEW es \in Trees, NEW l \in 0..Len(es), NEW summary \in Said, NEW ms \in Seq(Said), ms # <<>>
  PROVE  Hanging(es, CutLines(es, l, summary, ms))
<1> DEFINE tail == RetainedTail(es, l, ms)
           copy(i) == Line("message", IF i = 1 THEN l ELSE Len(es) + i - 1, ms[i], 0)
           copies == [i \in 1..Len(ms) |-> copy(i)]
           marker == Line("compaction", Len(es) + Len(ms), summary, Len(es) + 1)
<1>0. Len(es) \in Nat /\ l \in Nat /\ Len(ms) \in Nat /\ DOMAIN ms = 1..Len(ms) /\ \A i \in 1..Len(ms) : ms[i] \in Said
  BY TreeTypes, LenProperties, ElementOfSeq, SMT
<1>1. CASE tail # 0
  <2>1. CutLines(es, l, summary, ms) = <<Line("compaction", l, summary, tail)>>
    BY <1>1 DEF CutLines
  <2>2. tail \in Nat
    BY TailType
  <2> HIDE DEF tail
  <2>3. "compaction" \in LineKinds
    BY DEF LineKinds
  <2> QED BY <2>1, <2>2, <2>3, HangingOne
<1>2. CASE tail = 0
  <2>0. \A i \in 1..Len(ms) : copy(i) \in Lines /\ copy(i).parent < Len(es) + i
    <3> SUFFICES ASSUME NEW i \in 1..Len(ms)
                 PROVE  copy(i) \in Lines /\ copy(i).parent < Len(es) + i
      OBVIOUS
    <3>1. /\ (IF i = 1 THEN l ELSE Len(es) + i - 1) \in Nat
          /\ (IF i = 1 THEN l ELSE Len(es) + i - 1) < Len(es) + i
      BY <1>0, SMT
    <3> QED BY <1>0, <3>1 DEF Line, Lines, LineKinds
  <2>1. copies \in Seq(Lines) /\ Len(copies) = Len(ms) /\ \A i \in 1..Len(ms) : copies[i] = copy(i)
    <3> HIDE DEF copy
    <3> QED BY <1>0, <2>0, SMT
  <2>2. CutLines(es, l, summary, ms) = copies \o <<marker>>
    <3>1. copies = [i \in DOMAIN ms |-> Line("message", IF i = 1 THEN l ELSE Len(es) + i - 1, ms[i], 0)]
      BY <1>0
    <3> QED BY <1>2, <2>1, <3>1 DEF CutLines
  <2>3. marker \in Lines /\ marker.parent = Len(es) + Len(ms)
    <3>1. Len(es) + Len(ms) \in Nat /\ Len(es) + 1 \in Nat
      BY <1>0, SMT
    <3> QED BY <3>1 DEF Line, Lines, LineKinds
  <2> HIDE DEF copies, marker
  <2>4. <<marker>> \in Seq(Lines) /\ Len(<<marker>>) = 1 /\ <<marker>>[1] = marker
    BY <2>3, SMT
  <2>5. /\ copies \o <<marker>> \in Seq(Lines) /\ Len(copies \o <<marker>>) = Len(ms) + 1
        /\ \A i \in 1 .. Len(ms) + 1 : (copies \o <<marker>>)[i] = IF i <= Len(ms) THEN copies[i] ELSE <<marker>>[i - Len(ms)]
    BY <2>1, <2>4, ConcatProperties
  <2>6. ASSUME NEW j \in 1 .. Len(ms) + 1
        PROVE  (copies \o <<marker>>)[j].parent < Len(es) + j
    <3>1. CASE j <= Len(ms)
      <4>1. j \in 1..Len(ms)
        BY <1>0, <3>1, SMT
      <4> QED BY <2>0, <2>1, <2>5, <3>1, <4>1
    <3>2. CASE ~(j <= Len(ms))
      <4>1. j = Len(ms) + 1 /\ j - Len(ms) = 1 /\ Len(es) + Len(ms) < Len(es) + j
        BY <1>0, <3>2, SMT
      <4> QED BY <2>3, <2>4, <2>5, <3>2, <4>1
    <3> QED BY <3>1, <3>2
  <2> QED BY <2>2, <2>5, <2>6 DEF Hanging
<1> QED BY <1>1, <1>2

\* The tip of a branch is one of its lines.
ChildrenOf(es, i) == {j \in DOMAIN es : es[j].parent = i}
TipStep(g, es, i) == IF ChildrenOf(es, i) = {} THEN i ELSE g[Max(ChildrenOf(es, i))]
TipFn(es) == CHOOSE tip : tip = [i \in DOMAIN es |-> IF {j \in DOMAIN es : es[j].parent = i} = {} THEN i
                                                    ELSE tip[Max({j \in DOMAIN es : es[j].parent = i})]]

LEMMA ChildLater ==
  ASSUME NEW es \in Trees, NEW i \in 1..Len(es), ChildrenOf(es, i) # {}
  PROVE  Max(ChildrenOf(es, i)) \in i+1 .. Len(es) /\ Max(ChildrenOf(es, i)) \in ChildrenOf(es, i)
<1> DEFINE C == ChildrenOf(es, i)
<1>0. /\ Len(es) \in Nat /\ DOMAIN es = 1..Len(es)
      /\ \A j \in 1..Len(es) : es[j].parent \in Nat /\ es[j].parent < j
  BY TreeTypes
<1>1. \A j \in C : j \in 1..Len(es) /\ es[j].parent = i
  BY <1>0 DEF ChildrenOf
<1>2. \A j \in C : j \in i+1 .. Len(es) /\ j \in Nat /\ j <= Len(es)
  BY <1>0, <1>1, SMT
<1>3. C # {} /\ C \subseteq Nat
  BY <1>2
<1> HIDE DEF C
<1>4. Max(C) \in C
  BY <1>0, <1>2, <1>3, MaxOf
<1> QED BY <1>2, <1>4 DEF C

LEMMA TipFrom ==
  ASSUME NEW es \in Trees, NEW n \in 0..Len(es)
  PROVE  \E g : g = [i \in Len(es)-n+1 .. Len(es) |-> TipStep(g, es, i)]
<1> DEFINE L == Len(es)
           There(k) == \E g : g = [i \in L-k+1 .. L |-> TipStep(g, es, i)]
           S == {k \in 0..L : ~There(k)}
<1>0. L \in Nat
  BY TreeTypes
<1> HIDE DEF L
<1>1. There(0)
  <2> DEFINE g == [i \in L-0+1 .. L |-> 0]
  <2>1. L-0+1 .. L = {}
    BY <1>0, SMT
  <2>2. g = [i \in L-0+1 .. L |-> TipStep(g, es, i)]
    BY <2>1
  <2> QED BY <2>2
<1>2. ASSUME NEW k \in 1..L, There(k - 1)
      PROVE  There(k)
  <2> DEFINE f == L-k+1
             D == L-(k-1)+1 .. L
  <2>0. /\ f \in 1..L /\ f \notin D /\ \A i \in f+1 .. L : i \in D
        /\ \A i \in f..L : i # f => i \in D
        /\ \A i \in D : i \in 1..L /\ i \in f..L /\ i \in f+1 .. L /\ \A j \in i+1 .. L : j \in D
    BY <1>0, SMT
  <2>1. PICK g : g = [i \in D |-> TipStep(g, es, i)]
    BY <1>2
  <2> DEFINE h == [i \in f..L |-> IF i = f THEN TipStep(g, es, f) ELSE g[i]]
  <2> HIDE DEF f, D
  <2>2. ASSUME NEW i \in f..L
        PROVE  h[i] = TipStep(h, es, i)
    <3>1. h[i] = TipStep(g, es, i)
      <4>1. CASE i = f
        BY <4>1
      <4>2. CASE i # f
        <5>1. i \in D
          BY <2>0, <4>2
        <5>2. g[i] = TipStep(g, es, i)
          BY <2>1, <5>1, Zenon
        <5> QED BY <4>2, <5>2
      <4> QED BY <4>1, <4>2
    <3>2. ChildrenOf(es, i) # {} => h[Max(ChildrenOf(es, i))] = g[Max(ChildrenOf(es, i))]
      <4> SUFFICES ASSUME ChildrenOf(es, i) # {} PROVE h[Max(ChildrenOf(es, i))] = g[Max(ChildrenOf(es, i))]
        OBVIOUS
      <4>1. i \in 1..Len(es)
        BY <2>0 DEF L
      <4> DEFINE m == Max(ChildrenOf(es, i))
      <4>2. m \in i+1 .. L
        BY <4>1, ChildLater DEF L
      <4> HIDE DEF m
      <4>3. m \in D
        BY <2>0, <4>2
      <4>4. m \in f..L /\ m # f
        BY <2>0, <4>3
      <4> QED BY <4>4 DEF m
    <3> HIDE DEF h
    <3> QED BY <3>1, <3>2 DEF TipStep
  <2>3. h = [i \in f..L |-> h[i]]
    OBVIOUS
  <2> HIDE DEF h
  <2>4. h = [i \in f..L |-> TipStep(h, es, i)]
    BY <2>2, <2>3
  <2> QED BY <2>4 DEF f
<1> HIDE DEF There
<1>3. S = {}
  <2> SUFFICES ASSUME S # {} PROVE FALSE
    OBVIOUS
  <2>1. PICK m \in S : \A y \in S : m <= y
    <3>1. S \subseteq Nat
      BY <1>0
    <3> QED BY <3>1, Smallest
  <2>2. m \in 1..L
    BY <1>0, <1>1, SMT
  <2>3. m - 1 \in 0..L /\ ~(m <= m - 1)
    BY <1>0, <2>2, SMT
  <2> QED BY <1>2, <2>1, <2>2, <2>3
<1>4. There(n)
  BY <1>3 DEF L
<1> QED BY <1>4 DEF There, L

\* A line is on the branch that l ends.
OnPath(es, l, x) == \E k \in 1..Len(Path(es, l)) : Path(es, l)[k] = x

LEMMA OnLonger ==
  ASSUME NEW es \in Trees, NEW l \in 1..Len(es), NEW x
  PROVE  OnPath(es, l, x) <=> x = l \/ OnPath(es, es[l].parent, x)
<1> DEFINE q == Path(es, es[l].parent)
<1>1. Path(es, l) = Append(q, l)
  BY PathGrows
<1>2. es[l].parent \in 0..Len(es)
  BY TreeTypes
<1>3. q \in Seq(Nat) /\ l \in Nat
  <2>1. q \in Seq(1..es[l].parent) /\ 1..es[l].parent \subseteq Nat
    BY <1>2, PathType
  <2>2. q \in Seq(Nat)
    BY <2>1, SeqMonotonic
  <2>3. l \in Nat
    BY TreeTypes, SMT
  <2> QED BY <2>2, <2>3
<1> HIDE DEF q
<1>4. /\ Len(Append(q, l)) = Len(q) + 1 /\ Len(q) \in Nat
      /\ \A k \in 1..Len(q) : Append(q, l)[k] = q[k]
      /\ Append(q, l)[Len(q) + 1] = l
  BY <1>3, AppendProperties, LenProperties
<1>5. (\E k \in 1..Len(q)+1 : Append(q, l)[k] = x) <=> x = l \/ \E k \in 1..Len(q) : q[k] = x
  <2>1. \A k \in 1..Len(q)+1 : k = Len(q)+1 \/ k \in 1..Len(q)
    BY <1>4, SMT
  <2>2. Len(q)+1 \in 1..Len(q)+1 /\ \A k \in 1..Len(q) : k \in 1..Len(q)+1
    BY <1>4, SMT
  <2> QED BY <1>4, <2>1, <2>2
<1> QED BY <1>1, <1>4, <1>5 DEF OnPath, q

\* With a line, the one it hangs from.
LEMMA PathUp ==
  ASSUME NEW es \in Trees, NEW m \in 1..Len(es), es[m].parent \in 1..Len(es),
         NEW l \in 0..Len(es), OnPath(es, l, m)
  PROVE  OnPath(es, l, es[m].parent)
<1> DEFINE i == es[m].parent
           Good(k) == OnPath(es, k, m) => OnPath(es, k, i)
           S == {k \in 0..Len(es) : ~Good(k)}
<1>0. /\ Len(es) \in Nat
      /\ \A k \in 1..Len(es) : es[k].parent \in Nat /\ es[k].parent < k /\ es[k].parent \in 0..Len(es)
  BY TreeTypes
<1>1. Good(0)
  <2>1. Path(es, 0) = <<>> /\ Len(<<>>) = 0
    BY PathGrows, EmptySeq
  <2>2. 1..0 = {}
    BY SMT
  <2> QED BY <2>1, <2>2 DEF OnPath
<1>2. ASSUME NEW k \in 1..Len(es), Good(es[k].parent)
      PROVE  Good(k)
  <2> SUFFICES ASSUME OnPath(es, k, m) PROVE OnPath(es, k, i)
    OBVIOUS
  <2>1. CASE m = k
    <3>1. OnPath(es, i, i)
      BY OnLonger
    <3> QED BY <2>1, <3>1, OnLonger
  <2>2. CASE m # k
    BY <1>2, <2>2, OnLonger
  <2> QED BY <2>1, <2>2
<1> HIDE DEF Good
<1>3. S = {}
  <2> SUFFICES ASSUME S # {} PROVE FALSE
    OBVIOUS
  <2>1. PICK n \in S : \A y \in S : n <= y
    <3>1. S \subseteq Nat
      BY <1>0
    <3> QED BY <3>1, Smallest
  <2>2. n \in 1..Len(es)
    BY <1>0, <1>1, SMT
  <2>3. es[n].parent \in 0..Len(es) /\ ~(n <= es[n].parent)
    BY <1>0, <2>2, SMT
  <2>4. Good(es[n].parent)
    BY <2>1, <2>3
  <2> QED BY <1>2, <2>1, <2>2, <2>4
<1> QED BY <1>3 DEF Good

\* The tip that an entry is followed to ends a branch with the entry on it.
LEMMA TipType ==
  ASSUME NEW es \in Trees, NEW t \in 1..Len(es)
  PROVE  LatestTip(es, t) \in 1..Len(es) /\ OnPath(es, LatestTip(es, t), t)
<1> DEFINE L == Len(es)
           P == TipFn(es)
           Typed(k) == P[L-k+1] \in 1..L /\ OnPath(es, P[L-k+1], L-k+1)
           S == {k \in 1..L : ~Typed(k)}
<1>0. L \in Nat /\ DOMAIN es = 1..L
  BY TreeTypes
<1>1. \E g : g = [i \in DOMAIN es |-> IF {j \in DOMAIN es : es[j].parent = i} = {} THEN i
                                      ELSE g[Max({j \in DOMAIN es : es[j].parent = i})]]
  <2>1. \E g : g = [i \in L-L+1 .. L |-> TipStep(g, es, i)]
    <3>1. L \in 0..L
      BY <1>0, SMT
    <3> QED BY <3>1, TipFrom
  <2>2. L-L+1 .. L = DOMAIN es
    BY <1>0, SMT
  <2>3. \E g : g = [i \in DOMAIN es |-> TipStep(g, es, i)]
    BY <2>1, <2>2
  <2> QED BY <2>3 DEF TipStep, ChildrenOf
<1>2. P = [i \in DOMAIN es |-> IF {j \in DOMAIN es : es[j].parent = i} = {} THEN i
                               ELSE P[Max({j \in DOMAIN es : es[j].parent = i})]]
  BY <1>1, Zenon DEF TipFn
<1>3. LatestTip(es, t) = P[t]
  BY DEF LatestTip, TipFn
<1> HIDE DEF P
<1>4. \A i \in DOMAIN es : P[i] = TipStep(P, es, i)
  BY <1>2, Zenon DEF TipStep, ChildrenOf
<1>5. ASSUME NEW k \in 1..L, \A j \in 1..k-1 : Typed(j)
      PROVE  Typed(k)
  <2> DEFINE i == L-k+1
  <2>1. i \in 1..L /\ i \in 1..Len(es)
    BY <1>0, SMT
  <2>2. P[i] = TipStep(P, es, i)
    BY <1>0, <1>4, <2>1
  <2>3. CASE ChildrenOf(es, i) = {}
    <3>1. P[i] = i
      BY <2>2, <2>3 DEF TipStep
    <3>2. OnPath(es, i, i)
      BY <2>1, OnLonger
    <3> HIDE DEF i
    <3> QED BY <2>1, <3>1, <3>2 DEF i
  <2>4. CASE ChildrenOf(es, i) # {}
    <3> DEFINE m == Max(ChildrenOf(es, i))
    <3>1. m \in i+1 .. Len(es) /\ m \in ChildrenOf(es, i)
      BY <2>1, <2>4, ChildLater
    <3>2. P[i] = P[m]
      BY <2>2, <2>4 DEF TipStep
    <3>0. es[m].parent = i
      BY <3>1 DEF ChildrenOf
    <3> HIDE DEF m, i
    <3>3. L-m+1 \in 1..k-1 /\ L-(L-m+1)+1 = m
      BY <1>0, <2>1, <3>1, SMT DEF i
    <3>4. P[m] \in 1..L /\ OnPath(es, P[m], m)
      BY <1>5, <3>3
    <3>5. m \in 1..Len(es) /\ P[m] \in 0..Len(es)
      BY <1>0, <2>1, <3>1, <3>4, SMT
    <3>6. OnPath(es, P[m], i)
      BY <2>1, <3>0, <3>4, <3>5, PathUp
    <3> QED BY <3>2, <3>4, <3>6 DEF i
  <2> QED BY <2>3, <2>4
<1> HIDE DEF Typed
<1>6. S = {}
  <2> SUFFICES ASSUME S # {} PROVE FALSE
    OBVIOUS
  <2>1. PICK m \in S : \A y \in S : m <= y
    <3>1. S \subseteq Nat
      OBVIOUS
    <3> QED BY <3>1, Smallest
  <2>2. \A j \in 1..m-1 : j \in 1..L /\ ~(m <= j)
    BY <1>0, SMT
  <2>3. \A j \in 1..m-1 : Typed(j)
    BY <2>1, <2>2
  <2> QED BY <1>5, <2>3
<1>7. L-t+1 \in 1..L /\ L-(L-t+1)+1 = t
  BY <1>0, SMT
<1>8. Typed(L-t+1)
  BY <1>6, <1>7
<1> QED BY <1>3, <1>7, <1>8 DEF Typed

\* A copy of a branch is a tree.
LEMMA CopiedType ==
  ASSUME NEW es \in Trees, NEW l \in 0..Len(es)
  PROVE  Copied(es, l) \in Trees
<1> DEFINE p == Path(es, l)
           place(i) == Max({k \in DOMAIN p : p[k] = i} \cup {0})
           line(k) == Line(es[p[k]].kind, k - 1, es[p[k]].msg, place(es[p[k]].kept))
           fs == [k \in 1..Len(p) |-> line(k)]
<1>0. Len(es) \in Nat /\ \A i \in 1..Len(es) : es[i] \in Lines
  BY TreeTypes
<1>1. p \in Seq(1..Len(es)) /\ Len(p) \in Nat /\ DOMAIN p = 1..Len(p) /\ \A k \in 1..Len(p) : p[k] \in 1..Len(es)
  <2>1. p \in Seq(1..l)
    BY PathType
  <2>2. 1..l \subseteq 1..Len(es)
    BY <1>0, SMT
  <2>3. p \in Seq(1..Len(es))
    BY <2>1, <2>2, SeqMonotonic
  <2> HIDE DEF p
  <2> QED BY <2>3, LenProperties, ElementOfSeq
<1>2. Copied(es, l) = fs
  BY <1>1 DEF Copied
<1> HIDE DEF p
<1>3. ASSUME NEW i
      PROVE  place(i) \in Nat
  <2> DEFINE K == {k \in DOMAIN p : p[k] = i} \cup {0}
  <2>1. K \subseteq Nat /\ K # {} /\ \A y \in K : y <= Len(p)
    BY <1>1, SMT
  <2> HIDE DEF K
  <2>2. Max(K) \in K
    BY <1>1, <2>1, MaxOf
  <2>3. Max(K) \in Nat
    BY <2>1, <2>2
  <2> QED BY <2>3 DEF K
<1> HIDE DEF place
<1>4. ASSUME NEW k \in 1..Len(p)
      PROVE  line(k) \in Lines /\ line(k).parent < k
  <2>1. es[p[k]] \in Lines /\ k - 1 \in Nat /\ k - 1 < k
    BY <1>0, <1>1, SMT
  <2> DEFINE x == es[p[k]]
  <2>2. x.kind \in LineKinds /\ x.msg \in Said /\ place(x.kept) \in Nat
    BY <1>3, <2>1 DEF Lines
  <2> HIDE DEF x
  <2>3. /\ Line(x.kind, k - 1, x.msg, place(x.kept)) \in Lines
        /\ Line(x.kind, k - 1, x.msg, place(x.kept)).parent = k - 1
    BY <2>1, <2>2 DEF Line, Lines
  <2> QED BY <2>1, <2>3 DEF x
<1> HIDE DEF line
<1>5. fs \in Seq(Lines) /\ Len(fs) = Len(p) /\ \A k \in 1..Len(p) : fs[k] = line(k)
  BY <1>1, <1>4, SMT
<1> HIDE DEF fs
<1>6. \A k \in 1..Len(fs) : fs[k].parent < k
  BY <1>4, <1>5
<1> QED BY <1>2, <1>5, <1>6 DEF Trees

-----------------------------------------------------------------------------
(* The recorder's state.                                                   *)
Turns == [at : {"idle", "ready", "recording", "waiting", "ended", "backoff", "resuming",
                "shrinking", "summarising", "cut"},
          snap : Seq(Said), then : {"idle", "ready", "resuming"}]
Moves == [at : {"free", "rewind", "open", "planned", "moved", "restored", "opened", "swap"},
          session : Sessions, ms : Seq(Said), leaf : Nat, leaves : BOOLEAN]

\* While it records, the write head is the newest line.
FileInv ==
  /\ log \in [Sessions -> Trees] /\ files \subseteq Sessions /\ cur \in files
  /\ leaf \in 0..Len(log[cur])
  /\ keep \in BOOLEAN /\ stopped \in BOOLEAN
  /\ ~stopped => leaf = Len(log[cur])

TalkInv ==
  /\ context \in Seq(Said) /\ turn \in Turns /\ said \in Nat
  /\ turn.at = "recording" => turn.snap # <<>>
  /\ turn.at = "cut" => Len(turn.snap) > 1

\* A move knows where it goes: a rewind leaves something behind, what it read
\* back is what the file says until more is recorded, and the session that is
\* changed to is another one that nobody writes meanwhile.
MoveInv ==
  /\ ui \in Moves
  /\ ui.at = "planned" => ui.leaf \in 0..Len(log[cur]) /\ (~stopped => ui.leaves)
  /\ ui.at = "moved" => leaf = Len(log[cur])
  /\ ui.at = "restored" /\ ~apart => ui.ms = Resumed
  /\ ui.at \in {"opened", "swap"} => ui.session \in files \ {cur}
  /\ ui.at = "opened" => ui.ms = Restore(log[ui.session], Len(log[ui.session]))

SessionInv == FileInv /\ TalkInv /\ MoveInv

\* Later versions of a file.
Grown(es, fs) == Len(es) <= Len(fs) /\ \A i \in 1..Len(es) : fs[i] = es[i]

LEMMA GrownIsPrefix ==
  ASSUME NEW es \in Trees, NEW fs \in Trees, Grown(es, fs)
  PROVE  IsPrefix(es, fs)
<1>1. /\ es \in Seq(Lines) /\ Len(es) \in Nat /\ fs \in Seq(Lines) /\ Len(fs) \in Nat
      /\ \A i \in 1..Len(es) : es[i] \in Lines
      /\ \A i \in 1..Len(fs) : fs[i] \in Lines
  BY TreeTypes
<1>2. Len(es) \in 0..Len(es) /\ Len(es) \in 0..Len(fs) /\ 1 \in Nat \ {0}
  BY <1>1, SMT DEF Grown
<1> DEFINE a == SubSeq(es, 1, Len(es))
           b == SubSeq(fs, 1, Len(es))
<1>3. /\ a \in Seq(Lines) /\ Len(a) = IF 1 <= Len(es) THEN Len(es) - 1 + 1 ELSE 0
      /\ \A i \in 1 .. Len(es) - 1 + 1 : a[i] = es[1 + i - 1]
  BY <1>1, <1>2, RangeTyped
<1>4. /\ b \in Seq(Lines) /\ Len(b) = IF 1 <= Len(es) THEN Len(es) - 1 + 1 ELSE 0
      /\ \A i \in 1 .. Len(es) - 1 + 1 : b[i] = fs[1 + i - 1]
  BY <1>1, <1>2, RangeTyped
<1> HIDE DEF a, b
<1>5. Len(a) = Len(es)
  BY <1>1, <1>3, SMT
<1>6. Len(b) = Len(es)
  BY <1>1, <1>4, SMT
<1>7. ASSUME NEW i \in 1..Len(es)
      PROVE  a[i] = b[i]
  <2>1. i \in 1 .. Len(es) - 1 + 1 /\ 1 + i - 1 = i
    BY <1>1, SMT
  <2> QED BY <1>3, <1>4, <2>1 DEF Grown
<1>8. a = b
  BY <1>3, <1>4, <1>5, <1>6, <1>7, SeqEqual
<1> QED BY <1>8 DEF IsPrefix, Grown, a, b

LEMMA PutTypes ==
  ASSUME FileInv, ~stopped, NEW lines, Hanging(log[cur], lines), Put(lines)
  PROVE  /\ log' \in [Sessions -> Trees] /\ leaf' = Len(log'[cur]) /\ leaf' \in 0..Len(log'[cur])
         /\ log'[cur] = log[cur] \o lines
         /\ \A s \in Sessions : Grown(log[s], log'[s])
         /\ \A s \in Sessions : s # cur => log'[s] = log[s]
<1>1. log \in [Sessions -> Trees] /\ cur \in Sessions /\ leaf = Len(log[cur])
  BY DEF FileInv
<1> DEFINE es == log[cur]
<1>2. es \in Trees
  BY <1>1
<1>3. /\ es \o lines \in Trees /\ Len(es \o lines) = Len(es) + Len(lines)
      /\ \A i \in 1..Len(es) : (es \o lines)[i] = es[i]
  BY <1>2, TreeWith DEF Joined
<1>4. Len(lines) \in Nat /\ Len(es) \in Nat /\ (lines = <<>> => Len(lines) = 0)
  BY <1>2, TreeTypes, LenProperties, EmptySeq DEF Hanging
<1>5. log' = [log EXCEPT ![cur] = es \o lines]
  BY DEF Put
<1>6. log'[cur] = es \o lines /\ log' \in [Sessions -> Trees] /\ \A s \in Sessions : s # cur => log'[s] = log[s]
  BY <1>1, <1>3, <1>5
<1>7. leaf' = IF lines = <<>> THEN leaf ELSE Len(es) + Len(lines)
  BY DEF Put
<1>8. \A s \in Sessions : Len(log[s]) \in Nat
  BY <1>1, TreeTypes
<1> HIDE DEF es
<1>9. leaf' = Len(log'[cur]) /\ leaf' \in 0..Len(log'[cur])
  BY <1>1, <1>3, <1>4, <1>6, <1>7, SMT DEF es
<1>10. ASSUME NEW s \in Sessions
       PROVE  Grown(log[s], log'[s])
  <2>1. CASE s = cur
    <3>1. Len(es) <= Len(es) + Len(lines)
      BY <1>4, SMT
    <3> QED BY <1>3, <1>6, <2>1, <3>1 DEF Grown, es
  <2>2. CASE s # cur
    <3>1. Len(log[s]) <= Len(log[s])
      BY <1>8, SMT
    <3> QED BY <1>6, <2>2, <3>1 DEF Grown
  <2> QED BY <2>1, <2>2
<1> QED BY <1>6, <1>9, <1>10 DEF es

\* Whatever becomes of its lines, recording adds to the open file only.
Adds ==
  /\ UNCHANGED <<files, cur, keep>>
  /\ \A s \in Sessions : Grown(log[s], log'[s])
  /\ \A s \in Sessions : s # cur => log'[s] = log[s]
  /\ stopped => stopped'
  /\ leaf = Len(log[cur]) => leaf' = Len(log'[cur])

LEMMA RecordKeepsFile ==
  ASSUME FileInv, NEW lines, Hanging(log[cur], lines), RecordSpeech(lines) \/ Record(lines)
  PROVE  FileInv' /\ Adds
<1>0. UNCHANGED <<files, cur, keep>>
  BY DEF RecordSpeech, Record
<1>1. log \in [Sessions -> Trees] /\ cur \in Sessions
  BY DEF FileInv
<1>2. ASSUME NEW part, Hanging(log[cur], part), ~stopped, Put(part), stopped' \in BOOLEAN
      PROVE  FileInv' /\ Adds
  <2>1. /\ log' \in [Sessions -> Trees] /\ leaf' = Len(log'[cur]) /\ leaf' \in 0..Len(log'[cur])
        /\ \A s \in Sessions : Grown(log[s], log'[s])
        /\ \A s \in Sessions : s # cur => log'[s] = log[s]
    BY <1>2, PutTypes
  <2> QED BY <1>0, <1>2, <2>1 DEF FileInv, Adds
<1>3. CASE Written(lines)
  BY <1>0, <1>2, <1>3 DEF Written, FileInv
<1>4. CASE Stops(lines) \/ TooLarge(lines)
  <2>0. ~stopped /\ stopped' \in BOOLEAN
    BY <1>4 DEF Stops, TooLarge, Failing, FileInv
  <2>1. PICK k \in 0..Len(lines)-1 : Put(SubSeq(lines, 1, k))
    BY <1>4 DEF Stops, TooLarge, Failing
  <2>2. Len(lines) \in Nat
    BY LenProperties DEF Hanging
  <2>3. k \in 0..Len(lines)
    BY <2>2, SMT
  <2>4. Hanging(log[cur], SubSeq(lines, 1, k))
    BY <1>1, <2>3, HangingPart
  <2> QED BY <1>0, <1>2, <2>0, <2>1, <2>4
<1>5. CASE Unrecorded
  <2>1. \A s \in Sessions : Len(log[s]) \in Nat
    BY <1>1, TreeTypes
  <2>2. \A s \in Sessions : Len(log[s]) <= Len(log[s])
    BY <2>1, SMT
  <2> QED BY <1>0, <1>5, <2>2 DEF Unrecorded, FileInv, Grown, Adds
<1> QED BY <1>3, <1>4, <1>5 DEF RecordSpeech, Record

\* A step that leaves the move as it is, does not touch the branch that was
\* read back and adds at most to the open file.
LEMMA MoveStays ==
  ASSUME SessionInv, FileInv', UNCHANGED ui, UNCHANGED file \/ Adds,
         ui.at = "restored" /\ ~apart' => ~apart /\ UNCHANGED <<log, cur>>
  PROVE  MoveInv'
<1>1. /\ ui \in Moves /\ log \in [Sessions -> Trees] /\ cur \in Sessions
      /\ files \subseteq Sessions
  BY DEF SessionInv, MoveInv, FileInv
<1>2. UNCHANGED <<files, cur>> /\ (stopped => stopped')
  BY DEF file, Adds
<1>3. ui.at = "planned" => ui.leaf \in 0..Len(log'[cur])
  <2> SUFFICES ASSUME ui.at = "planned" PROVE ui.leaf \in 0..Len(log'[cur])
    OBVIOUS
  <2>1. ui.leaf \in 0..Len(log[cur])
    BY DEF SessionInv, MoveInv
  <2>2. CASE UNCHANGED file
    BY <2>1, <2>2 DEF file
  <2>3. CASE Adds
    <3>1. Grown(log[cur], log'[cur])
      BY <1>1, <2>3 DEF Adds
    <3>2. Len(log[cur]) <= Len(log'[cur])
      BY <3>1 DEF Grown
    <3>3. Len(log[cur]) \in Nat
      BY <1>1, TreeTypes
    <3>4. Len(log'[cur]) \in Nat
      BY <1>1, <1>2, TreeTypes DEF FileInv
    <3> QED BY <2>1, <3>2, <3>3, <3>4, SMT
  <2> QED BY <2>2, <2>3
<1>4. ui.at = "moved" => leaf' = Len(log'[cur])
  BY DEF SessionInv, MoveInv, file, Adds
<1>5. ui.at = "restored" /\ ~apart' => ui.ms = Resumed'
  BY DEF SessionInv, MoveInv, Resumed
<1>6. ui.at \in {"opened", "swap"} => ui.session \in Sessions /\ ui.session # cur /\ log'[ui.session] = log[ui.session]
  BY <1>1 DEF SessionInv, MoveInv, file, Adds
<1> QED BY <1>1, <1>2, <1>3, <1>4, <1>5, <1>6 DEF SessionInv, MoveInv

-----------------------------------------------------------------------------
(* The prompt thread.                                                      *)
LEMMA FrontSaid ==
  ASSUME NEW ms \in Seq(Said)
  PROVE  Front(ms) \in Seq(Said)
<1>1. Len(ms) \in Nat /\ \A i \in 1..Len(ms) : ms[i] \in Said
  BY LenProperties, ElementOfSeq
<1>2. 1 \in Int /\ Len(ms) - 1 \in Int /\ \A i \in 1..Len(ms)-1 : ms[i] \in Said
  BY <1>1, SMT
<1> QED BY <1>2, SubSeqProperties DEF Front

LEMMA RestingTurns ==
  /\ Idling \in Turns /\ Idling.at = "idle"
  /\ \A at \in {"idle", "ready", "waiting", "ended", "resuming"} :
       [Idling EXCEPT !.at = at] \in Turns /\ [Idling EXCEPT !.at = at].at = at
  /\ \A ms \in Seq(Said), at \in {"recording", "backoff"} :
       /\ [Idling EXCEPT !.at = at, !.snap = ms] \in Turns
       /\ [Idling EXCEPT !.at = at, !.snap = ms].at = at
       /\ [Idling EXCEPT !.at = at, !.snap = ms].snap = ms
<1>0. <<>> \in Seq(Said)
  BY EmptySeq
<1> QED BY <1>0 DEF Idling, Turns

LEMMA PassingKeeps ==
  ASSUME SessionInv, turn' \in Turns, turn'.at \notin {"recording", "cut"}, context' \in Seq(Said), said' \in Nat
  PROVE  TalkInv'
PROOF BY DEF TalkInv

LEMMA SayKeeps ==
  ASSUME SessionInv, Prompt \/ Reply
  PROVE  SessionInv' /\ UNCHANGED file
<1>1. PICK kind \in {"user", "reply", "failed"} : Say(kind)
  BY DEF Prompt, Reply
<1> DEFINE m == [kind |-> kind, n |-> said + 1]
<1>2. context \in Seq(Said) /\ said \in Nat /\ said' = said + 1 /\ turn \in Turns
  BY <1>1 DEF Say, SessionInv, TalkInv
<1>3. m \in Said
  BY <1>2, SMT DEF Said, Kinds, UserKinds
<1>4. context' = Append(context, m) /\ turn' = [Idling EXCEPT !.at = "recording", !.snap = <<m>>]
  BY <1>1 DEF Say
<1> HIDE DEF m
<1>5. context' \in Seq(Said)
  BY <1>2, <1>3, <1>4, AppendProperties
<1>6. <<m>> \in Seq(Said) /\ <<m>> # <<>>
  BY <1>3, SMT
<1>7. turn' \in Turns /\ turn'.at = "recording" /\ turn'.snap # <<>>
  <2>1. PICK ms \in Seq(Said) : ms = <<m>>
    BY <1>6
  <2> QED BY <1>4, <1>6, <2>1, RestingTurns
<1>8. said' \in Nat
  BY <1>2, SMT
<1>9. TalkInv'
  BY <1>5, <1>7, <1>8 DEF TalkInv
<1>10. UNCHANGED <<file, ui, apart>>
  BY <1>1 DEF Say
<1>11. FileInv'
  BY <1>10 DEF file, SessionInv, FileInv
<1>12. MoveInv'
  BY <1>10, <1>11, MoveStays DEF file
<1> QED BY <1>9, <1>10, <1>11, <1>12 DEF SessionInv

LEMMA HeadSaid ==
  ASSUME NEW ms \in Seq(Said), ms # <<>>
  PROVE  Head(ms) \in Said
<1>1. Len(ms) \in Nat \ {0}
  BY EmptySeq
<1>2. 1 \in 1..Len(ms)
  BY <1>1, SMT
<1> QED BY <1>2, ElementOfSeq, HeadTailProperties

\* Recording what the open file is told does not break a move.
LEMMA SpeechKeeps ==
  ASSUME SessionInv, NEW lines, Hanging(log[cur], lines), RecordSpeech(lines), UNCHANGED ui
  PROVE  FileInv' /\ Adds /\ MoveInv'
<1>1. FileInv' /\ Adds
  BY RecordKeepsFile DEF SessionInv
<1>2. ui.at = "restored" => apart'
  BY DEF RecordSpeech, Between
<1>3. MoveInv'
  BY <1>1, <1>2, MoveStays
<1> QED BY <1>1, <1>3

LEMMA RecordMessageKeeps ==
  ASSUME SessionInv, RecordMessage
  PROVE  /\ SessionInv' /\ Adds
         /\ Hanging(log[cur], <<Line("message", leaf, Head(turn.snap), 0)>>) /\ Head(turn.snap) \in Said
<1>0. context \in Seq(Said) /\ turn \in Turns /\ said \in Nat /\ turn.snap \in Seq(Said) /\ turn.snap # <<>>
  BY DEF RecordMessage, SessionInv, TalkInv, Turns
<1>1. Head(turn.snap) \in Said
  BY <1>0, HeadSaid
<1>2. Hanging(log[cur], <<Line("message", leaf, Head(turn.snap), 0)>>)
  <2>1. log[cur] \in Trees /\ leaf \in 0..Len(log[cur]) /\ "message" \in LineKinds /\ 0 \in Nat
    BY DEF SessionInv, FileInv, LineKinds
  <2> QED BY <1>1, <2>1, HangingOne
<1>3. FileInv' /\ Adds /\ MoveInv'
  <2>1. RecordSpeech(<<Line("message", leaf, Head(turn.snap), 0)>>) /\ UNCHANGED ui
    BY DEF RecordMessage
  <2> QED BY <1>2, <2>1, SpeechKeeps
<1>4. turn' \in Turns /\ turn'.at \notin {"recording", "cut"}
  BY RestingTurns DEF RecordMessage
<1>5. context' \in Seq(Said) /\ said' \in Nat
  BY <1>0 DEF RecordMessage
<1>6. TalkInv'
  BY <1>4, <1>5, PassingKeeps
<1> QED BY <1>1, <1>2, <1>3, <1>6 DEF SessionInv

\* The steps of the thread that record nothing.
Thinks ==
  \/ Submit \/ Conclude \/ Retry \/ CancelRetry \/ Resume \/ Overflow
  \/ Summarise \/ Compact \/ CompactionFails

LEMMA ThinkKeeps ==
  ASSUME SessionInv, Thinks
  PROVE  SessionInv' /\ UNCHANGED file
<1>0. context \in Seq(Said) /\ turn \in Turns /\ said \in Nat /\ turn.snap \in Seq(Said)
  BY DEF SessionInv, TalkInv, Turns
<1>1. UNCHANGED <<file, ui>> /\ said' \in Nat /\ (~apart' => ~apart)
  <2>1. CASE Retry \/ Overflow
    BY <1>0, <2>1 DEF Retry, Overflow, DropReply
  <2>2. CASE Submit \/ Conclude \/ CancelRetry \/ Resume
    BY <1>0, <2>2 DEF Submit, Conclude, CancelRetry, Resume
  <2>3. CASE Summarise \/ Compact \/ CompactionFails
    BY <1>0, <2>3 DEF Summarise, Compact, CompactionFails
  <2> QED BY <2>1, <2>2, <2>3 DEF Thinks
<1>2. context' \in Seq(Said)
  <2>1. Front(turn.snap) \in Seq(Said)
    BY <1>0, FrontSaid
  <2> QED BY <1>0, <2>1 DEF Thinks, Submit, Conclude, Retry, CancelRetry, Resume, Overflow, Summarise,
                            Compact, CompactionFails, DropReply
<1>3. turn' \in Turns /\ turn'.at \notin {"recording", "cut"}
  <2>1. CASE CancelRetry \/ CompactionFails
    BY <2>1, RestingTurns DEF CancelRetry, CompactionFails
  <2>6. CASE Submit
    BY <2>6, RestingTurns DEF Submit
  <2>7. CASE Retry
    BY <2>7, RestingTurns DEF Retry
  <2>8. CASE Overflow
    <3>1. turn' = [Idling EXCEPT !.at = "shrinking", !.then = "resuming"]
      BY <2>8 DEF Overflow
    <3>2. <<>> \in Seq(Said)
      BY EmptySeq
    <3>3. turn' = [at |-> "shrinking", snap |-> <<>>, then |-> "resuming"]
      BY <3>1 DEF Idling
    <3> QED BY <3>2, <3>3 DEF Turns
  <2>5. CASE Resume
    <3>1. PICK at \in {"waiting", "idle"} : turn' = [Idling EXCEPT !.at = at]
      BY <2>5 DEF Resume
    <3> QED BY <3>1, RestingTurns
  <2>2. CASE Conclude
    <3>1. turn' = Idling \/ turn' = [Idling EXCEPT !.at = "backoff", !.snap = context]
      BY <2>2 DEF Conclude
    <3>2. CASE turn' = [Idling EXCEPT !.at = "backoff", !.snap = context]
      BY <1>0, <3>2, RestingTurns, Zenon
    <3> QED BY <3>1, <3>2, RestingTurns
  <2>3. CASE Summarise
    <3>1. turn' = Idling \/ turn' = [turn EXCEPT !.at = "summarising", !.snap = context]
      BY <2>3 DEF Summarise
    <3>2. CASE turn' = [turn EXCEPT !.at = "summarising", !.snap = context]
      BY <1>0, <3>2 DEF Turns
    <3> QED BY <3>1, <3>2, RestingTurns
  <2>4. CASE Compact
    BY <1>0, <2>4 DEF Compact, Turns
  <2> QED BY <2>1, <2>2, <2>3, <2>4, <2>5, <2>6, <2>7, <2>8 DEF Thinks
<1>4. TalkInv'
  BY <1>1, <1>2, <1>3, PassingKeeps
<1>5. FileInv'
  BY <1>1 DEF file, SessionInv, FileInv
<1>6. MoveInv'
  BY <1>1, <1>5, MoveStays DEF file
<1> QED BY <1>1, <1>4, <1>5, <1>6 DEF SessionInv

LEMMA CutKeeps ==
  ASSUME SessionInv, Cut
  PROVE  SessionInv' /\ UNCHANGED file
<1>0. turn \in Turns /\ said \in Nat /\ turn.snap \in Seq(Said) /\ said' = said + 1
  BY DEF SessionInv, TalkInv, Turns, Cut
<1> DEFINE s == turn.snap
           m == [kind |-> "summary", n |-> said + 1]
<1>1. PICK i \in Cuts(s) : context' = <<m>> \o SubSeq(s, i, Len(s))
  BY DEF Cut
<1>2. Len(s) \in Nat /\ i \in 2..Len(s)
  BY <1>0, LenProperties DEF Cuts
<1>3. i \in Nat \ {0} /\ Len(s) \in 0..Len(s) /\ i <= Len(s)
  BY <1>2, SMT
<1>4. SubSeq(s, i, Len(s)) \in Seq(Said) /\ Len(SubSeq(s, i, Len(s))) = Len(s) - i + 1
  BY <1>0, <1>3, RangeTyped
<1>5. m \in Said
  BY <1>0, SMT DEF Said, Kinds, UserKinds
<1> HIDE DEF m
<1>6. <<m>> \in Seq(Said) /\ Len(<<m>>) = 1
  BY <1>5, SMT
<1>7. context' \in Seq(Said) /\ Len(context') = 1 + (Len(s) - i + 1)
  BY <1>1, <1>4, <1>6, ConcatProperties
<1>8. Len(context') > 1
  BY <1>2, <1>7, SMT
<1>9. turn' \in Turns /\ turn'.snap = context' /\ said' \in Nat
  <2>1. turn' = [turn EXCEPT !.at = "cut", !.snap = context']
    BY DEF Cut
  <2>2. said' \in Nat
    BY <1>0, SMT
  <2> QED BY <1>0, <1>7, <2>1, <2>2 DEF Turns
<1>10. TalkInv'
  <2>1. turn'.at = "cut"
    BY <1>0 DEF Cut, Turns
  <2> QED BY <1>7, <1>8, <1>9, <2>1 DEF TalkInv
<1>11. UNCHANGED <<file, ui>> /\ (~apart' => ~apart)
  BY DEF Cut
<1>12. FileInv'
  BY <1>11 DEF file, SessionInv, FileInv
<1>13. MoveInv'
  BY <1>11, <1>12, MoveStays DEF file
<1> QED BY <1>10, <1>11, <1>12, <1>13 DEF SessionInv

LEMMA CutTypes ==
  ASSUME SessionInv, turn.at = "cut"
  PROVE  /\ Head(turn.snap) \in Said /\ Tail(turn.snap) \in Seq(Said) /\ Tail(turn.snap) # <<>>
         /\ Len(Tail(turn.snap)) = Len(turn.snap) - 1
         /\ Hanging(log[cur], CutLines(log[cur], leaf, Head(turn.snap), Tail(turn.snap)))
<1> DEFINE s == turn.snap
<1>1. s \in Seq(Said) /\ Len(s) > 1 /\ Len(s) \in Nat
  BY LenProperties DEF SessionInv, TalkInv, Turns
<1> HIDE DEF s
<1>2. s # <<>>
  BY <1>1, EmptySeq, SMT
<1>3. Head(s) \in Said /\ Tail(s) \in Seq(Said) /\ Len(Tail(s)) = Len(s) - 1
  BY <1>1, <1>2, HeadTailProperties
<1>4. Tail(s) # <<>>
  <2>1. Len(Tail(s)) # 0
    BY <1>1, <1>3, SMT
  <2> QED BY <2>1, EmptySeq
<1>5. log[cur] \in Trees /\ leaf \in 0..Len(log[cur])
  BY DEF SessionInv, FileInv
<1>6. Hanging(log[cur], CutLines(log[cur], leaf, Head(s), Tail(s)))
  BY <1>3, <1>4, <1>5, CutLinesType
<1> QED BY <1>3, <1>4, <1>6 DEF s

LEMMA RecordCutKeeps ==
  ASSUME SessionInv, RecordCut
  PROVE  SessionInv' /\ Adds
<1> DEFINE lines == CutLines(log[cur], leaf, Head(turn.snap), Tail(turn.snap))
<1>1. Hanging(log[cur], lines)
  BY CutTypes DEF RecordCut
<1>2. RecordSpeech(lines) /\ UNCHANGED ui
  BY DEF RecordCut
<1> HIDE DEF lines
<1>3. FileInv' /\ Adds /\ MoveInv'
  BY <1>1, <1>2, SpeechKeeps
<1>4. turn' \in Turns /\ turn'.at \notin {"recording", "cut"}
  <2>1. turn.then \in {"idle", "ready", "resuming"}
    BY DEF SessionInv, TalkInv, Turns
  <2> QED BY <2>1, RestingTurns DEF RecordCut
<1>5. context' \in Seq(Said) /\ said' \in Nat
  BY DEF RecordCut, SessionInv, TalkInv
<1>6. TalkInv'
  BY <1>4, <1>5, PassingKeeps
<1> QED BY <1>3, <1>6 DEF SessionInv

-----------------------------------------------------------------------------
(* The interface.                                                          *)
LEMMA FreeType == Free \in Moves /\ Free.at = "free"
<1>1. <<>> \in Seq(Said)
  BY EmptySeq
<1> QED BY <1>1, FirstAssumption DEF Free, Moves

LEMMA ResetKeeps ==
  ASSUME SessionInv, Reset
  PROVE  /\ SessionInv' /\ Adds
         /\ Hanging(log[cur], <<Line("reset", leaf, Nothing, 0)>>) /\ Nothing \in Said
<1>0. Nothing \in Said
  BY DEF Nothing, Said, Kinds
<1>1. Hanging(log[cur], <<Line("reset", leaf, Nothing, 0)>>)
  <2>1. log[cur] \in Trees /\ leaf \in 0..Len(log[cur]) /\ "reset" \in LineKinds /\ 0 \in Nat
    BY DEF SessionInv, FileInv, LineKinds
  <2> QED BY <1>0, <2>1, HangingOne
<1>2. FileInv' /\ Adds
  <2>1. Record(<<Line("reset", leaf, Nothing, 0)>>) /\ FileInv
    BY DEF Reset, SessionInv
  <2> QED BY <1>1, <2>1, RecordKeepsFile
<1>3. TalkInv'
  <2>1. said' \in Nat /\ context' \in Seq(Said) /\ turn' = turn
    BY EmptySeq, SMT DEF Reset, SessionInv, TalkInv
  <2>2. turn \in Turns /\ turn.at \notin {"recording", "cut"}
    BY DEF Reset, Streaming, SessionInv, TalkInv
  <2> QED BY <2>1, <2>2, PassingKeeps
<1>4. MoveInv'
  BY <1>2, MoveStays DEF Reset
<1> QED BY <1>0, <1>1, <1>2, <1>3, <1>4 DEF SessionInv

LEMMA TargetType ==
  ASSUME FileInv, NEW t \in BranchPoints(log[cur])
  PROVE  Target(t) \in 0..Len(log[cur])
<1>1. log[cur] \in Trees
  BY DEF FileInv
<1> DEFINE es == log[cur]
<1>2. Len(es) \in Nat /\ t \in 1..Len(es)
  BY <1>1, TreeTypes DEF BranchPoints
<1>3. es[t].parent \in 0..Len(es) /\ LatestTip(es, t) \in 1..Len(es)
  BY <1>1, <1>2, TreeTypes, TipType
<1>4. Target(t) \in {es[t].parent, LatestTip(es, t)}
  BY DEF Target
<1> HIDE DEF es
<1>5. Target(t) \in 0..Len(es)
  BY <1>2, <1>3, <1>4, SMT
<1> QED BY <1>5 DEF es

\* A rewind that leaves nothing behind does not move.
LEMMA StaysAtHead ==
  ASSUME FileInv, ~stopped, NEW new \in 0..Len(log[cur]), ~Leaves(new)
  PROVE  new = leaf
<1> DEFINE es == log[cur]
           p == Path(es, leaf)
           q == Path(es, new)
<1>1. es \in Trees /\ leaf \in 0..Len(es) /\ leaf = Len(es) /\ Len(es) \in Nat
  BY TreeTypes DEF FileInv
<1>2. CASE leaf = 0
  BY <1>1, <1>2, SMT
<1>3. CASE leaf # 0
  <2>1. p \in Seq(1..leaf) /\ Len(p) > 0 /\ p[Len(p)] = leaf /\ q \in Seq(1..new)
    BY <1>1, <1>3, PathType, SMT
  <2>2. Len(p) <= Len(q) /\ SubSeq(p, 1, Len(p)) = SubSeq(q, 1, Len(p))
    BY DEF Leaves, IsPrefix
  <2> HIDE DEF p, q
  <2>3. Len(p) \in Nat /\ Len(q) \in Nat
    BY <2>1, LenProperties
  <2>4. /\ 1 \in Nat \ {0} /\ Len(p) \in 0..Len(p) /\ Len(p) \in 0..Len(q)
        /\ Len(p) \in 1 .. Len(p)-1+1 /\ 1 + Len(p) - 1 = Len(p) /\ Len(p) \in 1..Len(q)
    BY <2>1, <2>2, <2>3, SMT
  <2>5. SubSeq(p, 1, Len(p))[Len(p)] = p[Len(p)]
    BY <2>1, <2>4, RangeTyped
  <2>6. SubSeq(q, 1, Len(p))[Len(p)] = q[Len(p)]
    BY <2>1, <2>4, RangeTyped
  <2>7. q[Len(p)] \in 1..new
    BY <2>1, <2>4, ElementOfSeq
  <2>8. leaf \in 1..new
    BY <2>1, <2>2, <2>5, <2>6, <2>7
  <2> QED BY <1>1, <2>8, SMT
<1> QED BY <1>2, <1>3

\* So a rewind always leaves something behind.
LEMMA RewindLeaves ==
  ASSUME FileInv, ~stopped, NEW t \in BranchPoints(log[cur])
  PROVE  Leaves(Target(t))
<1> SUFFICES ASSUME ~Leaves(Target(t)) PROVE FALSE
  OBVIOUS
<1> DEFINE es == log[cur]
<1>1. es \in Trees /\ leaf \in 0..Len(es) /\ leaf = Len(es) /\ Len(es) \in Nat
  BY TreeTypes DEF FileInv
<1>2. Target(t) = leaf
  BY TargetType, StaysAtHead
<1>3. t \in 1..Len(es) /\ es[t].parent < t /\ es[t].parent \in Nat
  BY <1>1, TreeTypes DEF BranchPoints
<1>4. CASE Contains(Path(es, leaf), t)
  <2>1. es[t].parent = leaf
    BY <1>2, <1>4 DEF Target
  <2> HIDE DEF es
  <2> QED BY <1>1, <1>3, <2>1, SMT
<1>5. CASE ~Contains(Path(es, leaf), t)
  <2>1. LatestTip(es, t) = leaf
    BY <1>2, <1>5 DEF Target
  <2>2. OnPath(es, leaf, t)
    BY <1>1, <1>3, <2>1, TipType
  <2> QED BY <1>5, <2>2 DEF OnPath, Contains
<1> QED BY <1>4, <1>5

LEMMA SameGrown ==
  ASSUME NEW es \in Trees
  PROVE  Grown(es, es)
<1>1. Len(es) \in Nat
  BY TreeTypes
<1> QED BY <1>1, SMT DEF Grown

LEMMA EmptyTree == <<>> \in Trees
<1>1. <<>> \in Seq(Lines) /\ Len(<<>>) = 0
  BY EmptySeq
<1> QED BY <1>1, SMT DEF Trees

\* The steps of a move that change neither file nor transcript.
LEMMA PlanKeeps ==
  ASSUME SessionInv, BeginMove \/ GiveUp \/ \E t \in BranchPoints(log[cur]) : PlanFork(t)
  PROVE  SessionInv' /\ UNCHANGED file
<1>1. UNCHANGED <<file, context, turn, said>>
  BY DEF BeginMove, GiveUp, PlanFork
<1>2. FileInv' /\ TalkInv'
  BY <1>1 DEF file, SessionInv, FileInv, TalkInv
<1>3. MoveInv'
  <2>1. CASE BeginMove
    <3>1. PICK move \in {"rewind", "open"} : ui' = [ui EXCEPT !.at = move]
      BY <2>1 DEF BeginMove
    <3>2. ui' \in Moves /\ ui'.at = move
      BY <3>1 DEF SessionInv, MoveInv, Moves
    <3> QED BY <3>2 DEF MoveInv
  <2>2. CASE GiveUp
    BY <2>2, FreeType DEF GiveUp, MoveInv
  <2>3. ASSUME NEW t \in BranchPoints(log[cur]), PlanFork(t)
        PROVE  MoveInv'
    <3>1. Target(t) \in 0..Len(log[cur]) /\ Leaves(Target(t)) \in BOOLEAN
      BY TargetType DEF SessionInv, Leaves, IsPrefix
    <3>2. ~stopped => Leaves(Target(t))
      BY RewindLeaves DEF SessionInv
    <3>3. ui' = [ui EXCEPT !.at = "planned", !.leaf = Target(t), !.leaves = Leaves(Target(t))]
      BY <2>3 DEF PlanFork
    <3>4. PICK l \in 0..Len(log[cur]), b \in BOOLEAN : l = Target(t) /\ b = Leaves(Target(t))
      BY <3>1
    <3>5. ui \in Moves /\ l \in Nat
      BY SMT DEF SessionInv, MoveInv
    <3>6. ui' = [ui EXCEPT !.at = "planned", !.leaf = l, !.leaves = b]
      BY <3>3, <3>4
    <3>7. ui' \in Moves /\ ui'.at = "planned" /\ ui'.leaf = l /\ ui'.leaves = b
      BY <3>5, <3>6 DEF Moves
    <3>8. log' = log /\ cur' = cur /\ stopped' = stopped
      BY <1>1 DEF file
    <3> QED BY <3>2, <3>4, <3>7, <3>8 DEF MoveInv
  <2> QED BY <2>1, <2>2, <2>3
<1> QED BY <1>1, <1>2, <1>3 DEF SessionInv

\* The note that a rewind adds hangs from the line it went to.
LEMMA MovedType ==
  ASSUME SessionInv, ui.at = "planned"
  PROVE  Moved \in Trees /\ Grown(log[cur], Moved) /\ (~stopped => ui.leaves)
<1> DEFINE es == log[cur]
<1>1. es \in Trees /\ ui.leaf \in 0..Len(es) /\ (~stopped => ui.leaves)
  BY DEF SessionInv, FileInv, MoveInv
<1>2. es \in Seq(Lines) /\ Len(es) \in Nat
  BY <1>1, TreeTypes
<1>3. [kind |-> "branch", n |-> said + 1] \in Said /\ "branch" \in LineKinds /\ 0 \in Nat
  BY SMT DEF Said, Kinds, UserKinds, LineKinds, SessionInv, TalkInv
<1> HIDE DEF es
<1>4. Hanging(es, <<Note>>) /\ Len(<<Note>>) = 1
  BY <1>1, <1>3, HangingOne DEF Note
<1>5. Note \in Lines
  BY <1>1, <1>2, <1>3, SMT DEF Note, Line, Lines
<1>6. Append(es, Note) = es \o <<Note>>
  BY <1>2, <1>5, AppendIsConcat
<1>7. /\ es \o <<Note>> \in Trees /\ Len(es \o <<Note>>) = Len(es) + 1
      /\ \A i \in 1..Len(es) : (es \o <<Note>>)[i] = es[i]
  BY <1>1, <1>4, TreeWith DEF Joined
<1>8. Len(es) <= Len(es) + 1
  BY <1>2, SMT
<1>9. Append(es, Note) \in Trees /\ Grown(es, Append(es, Note))
  BY <1>6, <1>7, <1>8 DEF Grown
<1> QED BY <1>1, <1>9, SameGrown DEF Moved, es

\* Moving the write head adds at most the note.
LEMMA HeadMoves ==
  ASSUME SessionInv, ui.at = "planned", ~stopped, log' = [log EXCEPT ![cur] = Moved],
         leaf' = IF ui.leaves THEN Len(Moved) ELSE ui.leaf, UNCHANGED <<files, cur, keep>>,
         stopped' \in BOOLEAN
  PROVE  /\ FileInv' /\ leaf' = Len(log'[cur])
         /\ \A s \in Sessions : Grown(log[s], log'[s])
<1>1. Moved \in Trees /\ Grown(log[cur], Moved) /\ ui.leaves
  BY MovedType
<1>2. log \in [Sessions -> Trees] /\ cur \in Sessions
  BY DEF SessionInv, FileInv
<1>3. log' \in [Sessions -> Trees] /\ log'[cur] = Moved /\ \A s \in Sessions : s # cur => log'[s] = log[s]
  BY <1>1, <1>2
<1>4. Len(Moved) \in Nat
  BY <1>1, TreeTypes
<1>5. Len(Moved) \in 0..Len(Moved) /\ leaf' = Len(Moved)
  BY <1>1, <1>4, SMT
<1>6. FileInv'
  BY <1>3, <1>5 DEF SessionInv, FileInv
<1> QED BY <1>1, <1>2, <1>3, <1>5, <1>6, SameGrown

LEMMA MoveLeafKeeps ==
  ASSUME SessionInv, MoveLeaf
  PROVE  /\ SessionInv' /\ UNCHANGED files
         /\ \A s \in Sessions : Grown(log[s], log'[s])
<1>1. /\ FileInv' /\ leaf' = Len(log'[cur])
      /\ \A s \in Sessions : Grown(log[s], log'[s])
  BY HeadMoves DEF MoveLeaf, SessionInv, FileInv
<1>2. TalkInv'
  <2>1. said' \in Nat
    BY SMT DEF MoveLeaf, SessionInv, TalkInv
  <2> QED BY <2>1 DEF MoveLeaf, SessionInv, TalkInv
<1>3. MoveInv'
  <2>1. ui \in Moves /\ ui' = [ui EXCEPT !.at = "moved"] /\ cur' = cur
    BY DEF MoveLeaf, SessionInv, MoveInv
  <2>2. ui' \in Moves /\ ui'.at = "moved"
    BY <2>1 DEF Moves
  <2> QED BY <1>1, <2>1, <2>2 DEF MoveInv
<1> QED BY <1>1, <1>2, <1>3 DEF SessionInv, MoveLeaf

LEMMA MoveFailsKeeps ==
  ASSUME SessionInv, MoveFails
  PROVE  /\ SessionInv' /\ UNCHANGED files
         /\ \A s \in Sessions : Grown(log[s], log'[s])
<1>0. /\ log \in [Sessions -> Trees] /\ cur \in Sessions /\ ui.at = "planned" /\ stopped' = TRUE
      /\ UNCHANGED <<files, cur, keep, context, turn>> /\ ui' = Free
      /\ ui.leaf \in 0..Len(log[cur]) /\ said \in Nat
  BY DEF MoveFails, SessionInv, FileInv, MoveInv, TalkInv
<1>1. FileInv' /\ \A s \in Sessions : Grown(log[s], log'[s])
  <2>1. CASE UNCHANGED log /\ leaf' \in {leaf, ui.leaf}
    BY <1>0, <2>1, SameGrown DEF SessionInv, FileInv
  <2>2. CASE ~stopped /\ log' = [log EXCEPT ![cur] = Moved] /\ leaf' = IF ui.leaves THEN Len(Moved) ELSE ui.leaf
    BY <1>0, <2>2, HeadMoves
  <2> QED BY <2>1, <2>2 DEF MoveFails
<1>2. TalkInv'
  <2>1. said' \in Nat
    BY <1>0, SMT DEF MoveFails
  <2> QED BY <1>0, <2>1 DEF SessionInv, TalkInv
<1>3. MoveInv'
  BY <1>0, FreeType DEF MoveInv
<1> QED BY <1>0, <1>1, <1>2, <1>3 DEF SessionInv

LEMMA ReadKeeps ==
  ASSUME SessionInv, ReadBranch
  PROVE  SessionInv' /\ UNCHANGED file
<1>1. /\ UNCHANGED <<file, context, turn, said>> /\ log[cur] \in Trees /\ leaf = Len(log[cur])
      /\ leaf \in 0..Len(log[cur]) /\ ui \in Moves
      /\ ui' = [ui EXCEPT !.at = "restored", !.ms = Restore(log[cur], leaf)]
  BY DEF ReadBranch, SessionInv, FileInv, MoveInv
<1>2. FileInv' /\ TalkInv'
  BY <1>1 DEF file, SessionInv, FileInv, TalkInv
<1>3. PICK ms \in Seq(Said) : ms = Restore(log[cur], leaf)
  BY <1>1, RestoreType
<1>4. ui' = [ui EXCEPT !.at = "restored", !.ms = ms]
  BY <1>1, <1>3
<1>5. ui' \in Moves /\ ui'.at = "restored" /\ ui'.ms = ms
  BY <1>1, <1>4 DEF Moves
<1>6. ms = Resumed'
  BY <1>1, <1>3 DEF file, Resumed
<1> QED BY <1>1, <1>2, <1>5, <1>6 DEF SessionInv, MoveInv

LEMMA OpenKeeps ==
  ASSUME SessionInv, NEW s \in Sessions, NEW es \in Trees, Open(s, es), s # cur, s \in files => es = log[s]
  PROVE  SessionInv' /\ \A x \in files \cap files' : Grown(log[x], log'[x])
<1>0. /\ log \in [Sessions -> Trees] /\ cur \in files /\ files \subseteq Sessions /\ ui \in Moves
      /\ log' = [log EXCEPT ![s] = es] /\ files' = files \cup {s}
      /\ ui' = [ui EXCEPT !.at = "opened", !.session = s, !.ms = Restore(es, Len(es))]
      /\ UNCHANGED <<cur, leaf, keep, stopped, context, turn, said>>
  BY DEF Open, SessionInv, FileInv, MoveInv
<1>1. /\ log' \in [Sessions -> Trees] /\ log'[s] = es /\ log'[cur] = log[cur]
      /\ \A x \in files : log'[x] = log[x]
  BY <1>0
<1>2. FileInv' /\ TalkInv'
  BY <1>0, <1>1 DEF SessionInv, FileInv, TalkInv
<1>3. Len(es) \in 0..Len(es)
  <2>1. Len(es) \in Nat
    BY TreeTypes
  <2> QED BY <2>1, SMT
<1>4. PICK ms \in Seq(Said) : ms = Restore(es, Len(es))
  BY <1>3, RestoreType
<1>5. ui' = [ui EXCEPT !.at = "opened", !.session = s, !.ms = ms]
  BY <1>0, <1>4
<1>6. ui' \in Moves /\ ui'.at = "opened" /\ ui'.session = s /\ ui'.ms = ms
  BY <1>0, <1>5 DEF Moves
<1>7. MoveInv'
  BY <1>0, <1>1, <1>4, <1>6 DEF MoveInv
<1>8. \A x \in files \cap files' : Grown(log[x], log'[x])
  <2>1. \A x \in files : log[x] \in Trees
    BY <1>0
  <2> QED BY <1>1, <2>1, SameGrown
<1> QED BY <1>2, <1>7, <1>8 DEF SessionInv

LEMMA OpensKeep ==
  ASSUME SessionInv, NEW s \in Sessions,
         SwitchTo(s) \/ CloneSession(s) \/ \E from \in files : ImportSession(s, from)
  PROVE  SessionInv' /\ \A x \in files \cap files' : Grown(log[x], log'[x])
<1>0. log \in [Sessions -> Trees] /\ cur \in files /\ leaf \in 0..Len(log[cur]) /\ files \subseteq Sessions
  BY DEF SessionInv, FileInv
<1>1. CASE SwitchTo(s)
  <2>1. Open(s, log[s]) /\ log[s] \in Trees /\ s # cur
    BY <1>0, <1>1 DEF SwitchTo
  <2> QED BY <2>1, OpenKeeps
<1>2. ASSUME NEW es \in Trees, CopyInto(s, es)
      PROVE  SessionInv' /\ \A x \in files \cap files' : Grown(log[x], log'[x])
  <2>1. Open(s, es) /\ s \notin files /\ s # cur
    BY <1>0, <1>2 DEF CopyInto
  <2> QED BY <2>1, OpenKeeps
<1>3. CASE CloneSession(s)
  <2>1. Copied(log[cur], leaf) \in Trees
    BY <1>0, CopiedType
  <2> QED BY <1>2, <1>3, <2>1 DEF CloneSession
<1>4. CASE \E from \in files : ImportSession(s, from)
  <2>1. PICK from \in files : ImportSession(s, from)
    BY <1>4
  <2>2. log[from] \in Trees
    BY <1>0
  <2>3. Len(log[from]) \in Nat
    BY <2>2, TreeTypes
  <2>4. Len(log[from]) \in 0..Len(log[from])
    BY <2>3, SMT
  <2>5. Copied(log[from], Len(log[from])) \in Trees
    BY <2>2, <2>4, CopiedType
  <2> QED BY <1>2, <2>1, <2>5 DEF ImportSession
<1> QED BY <1>1, <1>3, <1>4

LEMMA SetContextKeeps ==
  ASSUME SessionInv, SetContext
  PROVE  SessionInv' /\ UNCHANGED file
<1>1. /\ UNCHANGED <<file, turn, said>> /\ ui \in Moves /\ context' = ui.ms
      /\ ui.at \in {"restored", "opened"}
      /\ ui' = IF ui.at = "restored" THEN Free ELSE [ui EXCEPT !.at = "swap"]
  BY DEF SetContext, SessionInv, MoveInv
<1>2. FileInv'
  BY <1>1 DEF file, SessionInv, FileInv
<1>3. context' \in Seq(Said)
  BY <1>1 DEF Moves
<1>4. TalkInv'
  BY <1>1, <1>3 DEF SessionInv, TalkInv
<1>5. MoveInv'
  <2>1. CASE ui.at = "restored"
    BY <1>1, <2>1, FreeType DEF MoveInv
  <2>2. CASE ui.at = "opened"
    <3>1. ui' \in Moves /\ ui'.at = "swap" /\ ui'.session = ui.session
      BY <1>1, <2>2 DEF Moves
    <3>2. ui.session \in files \ {cur} /\ UNCHANGED <<files, cur>>
      BY <1>1, <2>2 DEF SessionInv, MoveInv, file
    <3> QED BY <3>1, <3>2 DEF MoveInv
  <2> QED BY <1>1, <2>1, <2>2
<1> QED BY <1>1, <1>2, <1>4, <1>5 DEF SessionInv

LEMMA SwapKeeps ==
  ASSUME SessionInv, Swap
  PROVE  /\ SessionInv' /\ \A x \in files \cap files' : Grown(log[x], log'[x])
         /\ cur' = ui.session /\ log'[ui.session] = log[ui.session]
<1>0. /\ log \in [Sessions -> Trees] /\ cur \in files /\ files \subseteq Sessions
      /\ ui.session \in files \ {cur}
      /\ log' = [s \in Sessions |-> IF s \in Closed THEN log[s] ELSE <<>>]
      /\ files' = Closed /\ cur' = ui.session /\ leaf' = Len(log[ui.session])
      /\ keep' = TRUE /\ stopped' = FALSE /\ ui' = Free /\ UNCHANGED <<context, turn, said>>
  BY DEF Swap, WriteHead, SessionInv, FileInv, MoveInv
<1>1. Closed \subseteq files /\ files \ {cur} \subseteq Closed
  BY DEF Closed
<1>2. /\ log' \in [Sessions -> Trees] /\ log'[ui.session] = log[ui.session]
      /\ \A x \in Closed : log'[x] = log[x]
  BY <1>0, <1>1, EmptyTree
<1>3. log[ui.session] \in Trees
  BY <1>0
<1>4. Len(log[ui.session]) \in Nat
  BY <1>3, TreeTypes
<1>5. Len(log[ui.session]) \in 0..Len(log[ui.session])
  BY <1>4, SMT
<1>6. FileInv'
  BY <1>0, <1>1, <1>2, <1>5 DEF FileInv
<1>7. TalkInv' /\ MoveInv'
  BY <1>0, FreeType DEF SessionInv, TalkInv, MoveInv
<1>8. \A x \in files \cap files' : Grown(log[x], log'[x])
  <2>1. \A x \in Closed : log[x] \in Trees
    BY <1>0, <1>1
  <2> QED BY <1>0, <1>2, <2>1, SameGrown
<1> QED BY <1>0, <1>2, <1>6, <1>7, <1>8 DEF SessionInv

LEMMA RestartKeeps ==
  ASSUME SessionInv, NEW s \in Sessions, NEW kept, Restart(s, kept)
  PROVE  /\ SessionInv'
         /\ \A x \in files \cap files' : Grown(log[x], log'[x])
         /\ context' = Restore(log'[cur'], Len(log'[cur']))
<1>0. log \in [Sessions -> Trees] /\ files \subseteq Sessions
  BY DEF SessionInv, FileInv
<1>1. /\ kept \subseteq files /\ s \in kept
      /\ log' = [x \in Sessions |-> IF x \in kept THEN log[x] ELSE <<>>]
      /\ files' = kept /\ cur' = s /\ leaf' = Len(log[s]) /\ keep' = TRUE /\ stopped' = FALSE
      /\ context' = Restore(log[s], Len(log[s])) /\ turn' = Idling /\ said' = said + 1 /\ ui' = Free
  BY DEF Restart, WriteHead, Closed
<1>2. log[s] \in Trees /\ Len(log[s]) \in Nat
  BY <1>0, TreeTypes
<1>3. Len(log[s]) \in 0..Len(log[s])
  BY <1>2, SMT
<1>4. log' \in [Sessions -> Trees] /\ \A x \in kept : log'[x] = log[x]
  BY <1>0, <1>1, EmptyTree
<1>5. FileInv'
  BY <1>0, <1>1, <1>3, <1>4 DEF FileInv
<1>6. TalkInv'
  <2>1. context' \in Seq(Said)
    BY <1>1, <1>2, <1>3, RestoreType
  <2>3. said' \in Nat
    BY <1>1, SMT DEF SessionInv, TalkInv
  <2>2. turn' \in Turns /\ turn'.at \notin {"recording", "cut"}
    BY <1>1, RestingTurns
  <2> QED BY <2>1, <2>2, <2>3, PassingKeeps
<1>7. ASSUME NEW x \in files \cap files'
      PROVE  Grown(log[x], log'[x])
  <2>1. log[x] \in Trees /\ log'[x] = log[x]
    BY <1>0, <1>1, <1>4
  <2> QED BY <2>1, SameGrown
<1>8. MoveInv'
  BY <1>1, FreeType DEF MoveInv
<1> QED BY <1>1, <1>4, <1>5, <1>6, <1>7, <1>8 DEF SessionInv

-----------------------------------------------------------------------------
(* Every step.                                                             *)
LEMMA Starts == Init => SessionInv
<1> SUFFICES ASSUME Init PROVE SessionInv
  OBVIOUS
<1>1. /\ log = [s \in Sessions |-> <<>>] /\ files = {First} /\ cur = First /\ leaf = 0 /\ keep = FALSE
      /\ stopped = FALSE /\ context = <<>> /\ turn = Idling /\ ui = Free /\ said = 0
  BY DEF Init
<1>2. log \in [Sessions -> Trees] /\ log[cur] = <<>> /\ Len(<<>>) = 0 /\ cur \in Sessions
  BY <1>1, EmptyTree, EmptySeq, FirstAssumption
<1>3. 0 \in 0..0
  BY SMT
<1>4. FileInv
  BY <1>1, <1>2, <1>3, FirstAssumption DEF FileInv
<1>5. TalkInv
  BY <1>1, EmptySeq, RestingTurns DEF TalkInv
<1>6. MoveInv
  BY <1>1, FreeType DEF MoveInv
<1> QED BY <1>4, <1>5, <1>6 DEF SessionInv

LEMMA UnchangedFiles ==
  ASSUME SessionInv, UNCHANGED <<log, files>>
  PROVE  \A x \in files \cap files' : Grown(log[x], log'[x])
<1>1. log \in [Sessions -> Trees] /\ files \subseteq Sessions
  BY DEF SessionInv, FileInv
<1> QED BY <1>1, SameGrown

LEMMA PromptStepKeeps ==
  ASSUME SessionInv, PromptStep
  PROVE  SessionInv' /\ \A x \in files \cap files' : Grown(log[x], log'[x])
<1>0. files \subseteq Sessions
  BY DEF SessionInv, FileInv
<1>1. CASE Prompt \/ Reply \/ Thinks \/ Cut
  <2>1. SessionInv' /\ UNCHANGED file
    BY <1>1, SayKeeps, ThinkKeeps, CutKeeps
  <2>2. UNCHANGED <<log, files>>
    BY <2>1 DEF file
  <2> QED BY <2>1, <2>2, UnchangedFiles
<1>2. CASE RecordMessage
  BY <1>0, <1>2, RecordMessageKeeps DEF Adds
<1>3. CASE RecordCut
  BY <1>0, <1>3, RecordCutKeeps DEF Adds
<1> QED BY <1>1, <1>2, <1>3 DEF PromptStep, Thinks

LEMMA InterfaceStepKeeps ==
  ASSUME SessionInv, InterfaceStep
  PROVE  SessionInv' /\ \A x \in files \cap files' : Grown(log[x], log'[x])
<1>0. files \subseteq Sessions
  BY DEF SessionInv, FileInv
<1>1. CASE Reset
  BY <1>0, <1>1, ResetKeeps DEF Adds
<1>2. CASE \/ BeginMove \/ GiveUp \/ \E t \in BranchPoints(log[cur]) : PlanFork(t)
           \/ ReadBranch \/ SetContext
  <2>1. SessionInv' /\ UNCHANGED file
    BY <1>2, PlanKeeps, ReadKeeps, SetContextKeeps
  <2>2. UNCHANGED <<log, files>>
    BY <2>1 DEF file
  <2> QED BY <2>1, <2>2, UnchangedFiles
<1>3. CASE MoveLeaf \/ MoveFails
  BY <1>0, <1>3, MoveLeafKeeps, MoveFailsKeeps
<1>4. ASSUME NEW s \in Sessions, SwitchTo(s) \/ CloneSession(s) \/ \E from \in files : ImportSession(s, from)
      PROVE  SessionInv' /\ \A x \in files \cap files' : Grown(log[x], log'[x])
  BY <1>4, OpensKeep
<1>5. CASE Swap
  BY <1>5, SwapKeeps
<1> QED BY <1>1, <1>2, <1>3, <1>4, <1>5 DEF InterfaceStep

LEMMA StepKeeps ==
  ASSUME SessionInv, [Next]_vars
  PROVE  SessionInv' /\ \A x \in files \cap files' : Grown(log[x], log'[x])
<1>1. CASE PromptStep
  BY <1>1, PromptStepKeeps
<1>2. CASE InterfaceStep
  BY <1>2, InterfaceStepKeeps
<1>3. CASE \E s \in Sessions : Restart(s, files) \/ Restart(s, Closed)
  BY <1>3, RestartKeeps
<1>4. CASE UNCHANGED vars
  <2>1. SessionInv'
    BY <1>4 DEF vars, file, SessionInv, FileInv, TalkInv, MoveInv, Resumed
  <2>2. UNCHANGED <<log, files>>
    BY <1>4 DEF vars, file
  <2> QED BY <2>1, <2>2, UnchangedFiles
<1> QED BY <1>1, <1>2, <1>3, <1>4 DEF Next

(* The invariant: a file is a tree of lines, a turn keeps a transcript to  *)
(* work from, the write head is the newest line while it records, and a    *)
(* move holds what it read, whatever the prompt thread does meanwhile.     *)
THEOREM Invariant == Spec => []SessionInv
<1>1. SessionInv /\ [Next]_vars => SessionInv'
  BY StepKeeps
<1> QED BY <1>1, Starts, PTL DEF Spec

\* Resuming a session starts from its newest line (WriteHead, the reader of
\* sessionlog.rs), the running program writes at its write head: as long as it
\* records they are the same entry, also after a rewind.
HeadIsNewest == ~stopped => leaf = WriteHead(log[cur])

(* A resumed session goes on from the entry the running program had        *)
(* reached, whatever rewinds and switches came before: HeadIsNewest holds  *)
(* in every state.                                                         *)
THEOREM HeadNewest == Spec => []HeadIsNewest
<1>1. SessionInv => HeadIsNewest
  BY DEF SessionInv, FileInv, HeadIsNewest, WriteHead
<1> QED BY <1>1, Invariant, PTL

\* Of a file that exists before and after a step, no line is taken away or
\* changed: rewinds, resets, compactions and failed writes only add to it.
LinesStay == [][\A s \in files \cap files' : IsPrefix(log[s], log'[s])]_vars

(* The session log is append-only under every operation of the session     *)
(* runtime (Recorder, fork_to, reset, compaction, switch, clone, import),  *)
(* crashes and restarts included.                                          *)
THEOREM AppendOnly == Spec => LinesStay
<1> DEFINE Kept == \A s \in files \cap files' : IsPrefix(log[s], log'[s])
<1>1. ASSUME SessionInv, SessionInv', [Next]_vars
      PROVE  Kept
  <2>1. \A s \in files \cap files' : log[s] \in Trees /\ log'[s] \in Trees
    BY <1>1 DEF SessionInv, FileInv
  <2> QED BY <1>1, <2>1, StepKeeps, GrownIsPrefix
<1>2. SessionInv /\ SessionInv' /\ [Next]_vars => [Kept]_vars
  BY <1>1
<1> HIDE DEF Kept
<1>3. Spec => [][Kept]_vars
  BY <1>2, Invariant, PTL DEF Spec
<1> QED BY <1>3 DEF LinesStay, Kept

\* A rewind puts into the transcript what whoever resumes the open file finds,
\* unless something was recorded since it read the branch; a change of session
\* puts there what the other file restores to, and writes that file from then
\* on; so does a restart.
MovesAreResumed ==
  [][/\ SetContext /\ ui.at = "restored" /\ ~apart => context' = Resumed'
     /\ SetContext /\ ui.at = "opened" => context' = Restore(log[ui.session], Len(log[ui.session]))
     /\ Swap => cur' = ui.session /\ Resumed' = Restore(log[ui.session], Len(log[ui.session]))
     /\ \A s \in Sessions : Restart(s, files) \/ Restart(s, Closed) => context' = Resumed']_vars

(* fork_to, switch, clone and import, each a sequence of steps between     *)
(* which the prompt thread goes on, leave memory and file alike: the idle  *)
(* check is made once, so a retry may wake up at any point (session.rs).   *)
(* A message recorded between restored() and set_context is the exception  *)
(* that apart remembers.                                                   *)
THEOREM MovesResume == Spec => MovesAreResumed
<1> DEFINE Realigned ==
      /\ SetContext /\ ui.at = "restored" /\ ~apart => context' = Resumed'
      /\ SetContext /\ ui.at = "opened" => context' = Restore(log[ui.session], Len(log[ui.session]))
      /\ Swap => cur' = ui.session /\ Resumed' = Restore(log[ui.session], Len(log[ui.session]))
      /\ \A s \in Sessions : Restart(s, files) \/ Restart(s, Closed) => context' = Resumed'
<1>1. ASSUME SessionInv
      PROVE  Realigned
  <2>1. ASSUME SetContext, ui.at = "restored", ~apart
        PROVE  context' = Resumed'
    <3>1. context' = ui.ms /\ log' = log /\ cur' = cur
      BY <2>1 DEF SetContext, file
    <3> QED BY <1>1, <2>1, <3>1 DEF SessionInv, MoveInv, Resumed
  <2>2. ASSUME SetContext, ui.at = "opened"
        PROVE  context' = Restore(log[ui.session], Len(log[ui.session]))
    BY <1>1, <2>2 DEF SetContext, SessionInv, MoveInv
  <2>3. ASSUME Swap
        PROVE  cur' = ui.session /\ Resumed' = Restore(log[ui.session], Len(log[ui.session]))
    <3>1. cur' = ui.session /\ log'[ui.session] = log[ui.session]
      BY <1>1, <2>3, SwapKeeps
    <3> QED BY <3>1 DEF Resumed
  <2>4. ASSUME NEW s \in Sessions, NEW kept, Restart(s, kept)
        PROVE  context' = Resumed'
    BY <1>1, <2>4, RestartKeeps DEF Resumed
  <2> QED BY <2>1, <2>2, <2>3, <2>4
<1>2. SessionInv => [Realigned]_vars
  BY <1>1
<1> HIDE DEF Realigned
<1>3. Spec => [][Realigned]_vars
  BY <1>2, Invariant, PTL DEF Spec
<1> QED BY <1>3 DEF MovesAreResumed, Realigned

-----------------------------------------------------------------------------
(* What one more line does to what a file restores to.                     *)
LEMMA LongerPart ==
  ASSUME NEW T, NEW p \in Seq(T), NEW x \in T, NEW m \in 1 .. Len(p)+1
  PROVE  SubSeq(Append(p, x), m, Len(p) + 1) = Append(SubSeq(p, m, Len(p)), x)
<1> DEFINE n == Len(p)
           q == Append(p, x)
           a == SubSeq(q, m, n + 1)
           b == SubSeq(p, m, n)
           c == Append(b, x)
<1>1. n \in Nat /\ q \in Seq(T) /\ Len(q) = n + 1 /\ q[n + 1] = x /\ \A i \in 1..n : q[i] = p[i]
  BY AppendProperties, LenProperties
<1> HIDE DEF n, q
<1>2. m \in Nat \ {0} /\ m <= n + 1 /\ n \in 0..n /\ n + 1 \in 0..n+1
  BY <1>1, SMT DEF n
<1>3. a \in Seq(T) /\ Len(a) = (n + 1) - m + 1 /\ \A i \in 1 .. (n + 1) - m + 1 : a[i] = q[m + i - 1]
  BY <1>1, <1>2, RangeTyped
<1>4. b \in Seq(T) /\ Len(b) = (IF m <= n THEN n - m + 1 ELSE 0) /\ \A i \in 1 .. n - m + 1 : b[i] = p[m + i - 1]
  BY <1>2, RangeTyped DEF n
<1>5. Len(b) = n - m + 1 /\ Len(b) \in Nat
  BY <1>1, <1>2, <1>4, SMT
<1> HIDE DEF a, b
<1>6. c \in Seq(T) /\ Len(c) = Len(b) + 1 /\ c[Len(b) + 1] = x /\ \A i \in 1..Len(b) : c[i] = b[i]
  BY <1>4, AppendProperties
<1> HIDE DEF c
<1>7. Len(a) = Len(c)
  BY <1>1, <1>2, <1>3, <1>5, <1>6, SMT
<1>8. ASSUME NEW i \in 1..Len(a)
      PROVE  a[i] = c[i]
  <2>1. i \in 1 .. (n + 1) - m + 1
    BY <1>1, <1>2, <1>3, <1>8, SMT
  <2>2. a[i] = q[m + i - 1]
    BY <1>3, <2>1
  <2>3. CASE i = Len(b) + 1
    <3>1. m + i - 1 = n + 1
      BY <1>1, <1>2, <1>5, <2>3, SMT
    <3> QED BY <1>1, <1>6, <2>2, <2>3, <3>1
  <2>4. CASE i # Len(b) + 1
    <3>1. i \in 1..Len(b) /\ i \in 1 .. n - m + 1 /\ m + i - 1 \in 1..n
      BY <1>1, <1>2, <1>5, <2>1, <2>4, SMT
    <3> QED BY <1>1, <1>4, <1>6, <2>2, <3>1
  <2> QED BY <2>3, <2>4
<1>9. a = c
  BY <1>3, <1>6, <1>7, <1>8, SeqEqual
<1> QED BY <1>9 DEF a, b, c, q, n

LEMMA ConcatAppend ==
  ASSUME NEW T, NEW a \in Seq(T), NEW b \in Seq(T), NEW x \in T
  PROVE  a \o Append(b, x) = Append(a \o b, x)
<1>1. a \o b \in Seq(T) /\ Append(b, x) \in Seq(T) /\ Len(a) \in Nat /\ Len(b) \in Nat
  BY ConcatProperties, AppendProperties, LenProperties
<1>2. Append(a \o b, x) = (a \o b) \o <<x>> /\ Append(b, x) = b \o <<x>>
  BY <1>1, AppendIsConcat
<1>3. <<x>> \in Seq(T)
  BY SMT
<1>4. (a \o b) \o <<x>> = a \o (b \o <<x>>)
  BY <1>3, ConcatAssociative
<1> QED BY <1>2, <1>4

LEMMA EarlierPart ==
  ASSUME NEW T, NEW p \in Seq(T), NEW x \in T, NEW m \in Nat \ {0}, NEW n \in 0..Len(p)
  PROVE  SubSeq(Append(p, x), m, n) = SubSeq(p, m, n)
<1> DEFINE q == Append(p, x)
           a == SubSeq(q, m, n)
           b == SubSeq(p, m, n)
<1>0. Len(p) \in Nat
  BY LenProperties
<1>1. q \in Seq(T) /\ Len(q) = Len(p) + 1 /\ \A i \in 1..Len(p) : q[i] = p[i]
  BY AppendProperties
<1> HIDE DEF q
<1>2. n \in 0..Len(q) /\ n \in Nat
  BY <1>0, <1>1, SMT
<1>3. a \in Seq(T) /\ Len(a) = (IF m <= n THEN n - m + 1 ELSE 0) /\ \A i \in 1 .. n - m + 1 : a[i] = q[m + i - 1]
  BY <1>1, <1>2, RangeTyped
<1>4. b \in Seq(T) /\ Len(b) = (IF m <= n THEN n - m + 1 ELSE 0) /\ \A i \in 1 .. n - m + 1 : b[i] = p[m + i - 1]
  BY RangeTyped
<1> HIDE DEF a, b
<1>5. ASSUME NEW i \in 1..Len(a)
      PROVE  a[i] = b[i]
  <2>1. i \in 1 .. n - m + 1 /\ m + i - 1 \in 1..Len(p)
    BY <1>0, <1>2, <1>3, <1>5, SMT
  <2> QED BY <1>1, <1>3, <1>4, <2>1
<1>6. a = b
  BY <1>3, <1>4, <1>5, SeqEqual
<1> QED BY <1>6 DEF a, b, q

\* The newest line of fs hangs from the newest of es.
Follows(es, fs) ==
  es \in Trees /\ fs \in Trees /\ Len(fs) = Len(es) + 1 /\ Grown(es, fs) /\ fs[Len(fs)].parent = Len(es)

LEMMA LineFollows ==
  ASSUME NEW es, NEW fs, Follows(es, fs)
  PROVE  /\ Len(es) \in Nat /\ Len(fs) = Len(es) + 1 /\ Len(fs) \in Nat
         /\ Len(es) \in 0..Len(es) /\ Len(fs) \in 0..Len(fs)
         /\ Path(es, Len(es)) \in Seq(Nat) /\ \A i \in 1..Len(Path(es, Len(es))) : Path(es, Len(es))[i] \in 1..Len(es)
         /\ Path(fs, Len(fs)) = Append(Path(es, Len(es)), Len(fs))
<1> DEFINE p == Path(es, Len(es))
<1>1. Len(es) \in Nat /\ Len(fs) = Len(es) + 1 /\ es \in Trees /\ fs \in Trees
  BY TreeTypes DEF Follows
<1>2. /\ Len(fs) \in Nat /\ Len(es) \in 0..Len(es) /\ Len(fs) \in 0..Len(fs) /\ Len(fs) \in 1..Len(fs)
      /\ Len(es) <= Len(fs) /\ 1..Len(es) \subseteq Nat
  BY <1>1, SMT
<1>3. p \in Seq(1..Len(es))
  BY <1>1, <1>2, PathType
<1>4. p \in Seq(Nat) /\ \A i \in 1..Len(p) : p[i] \in 1..Len(es)
  BY <1>2, <1>3, SeqMonotonic, ElementOfSeq
<1>5. Path(fs, Len(fs)) = Append(Path(fs, Len(es)), Len(fs))
  <2>1. fs[Len(fs)].parent = Len(es)
    BY DEF Follows
  <2> QED BY <1>1, <1>2, <2>1, PathGrows
<1>6. Path(fs, Len(es)) = p
  BY <1>1, <1>2, PathStays DEF Follows, Grown
<1> QED BY <1>1, <1>2, <1>4, <1>5, <1>6

LEMMA RestoreEmpty ==
  ASSUME NEW es \in Trees, NEW l \in 0..Len(es), ContextPath(es, l) = <<>>
  PROVE  Restore(es, l) = <<>>
<1>1. Shown(es, l) = <<>>
  BY FilteredEmpty DEF Shown
<1>2. Restore(es, l) \in Seq(Said) /\ Len(Restore(es, l)) = 0
  BY <1>1, RestoreType, EmptySeq
<1> QED BY <1>2, EmptySeq

LEMMA ResetClears ==
  ASSUME NEW es, NEW fs, Follows(es, fs), fs[Len(fs)].kind = "reset"
  PROVE  Restore(fs, Len(fs)) = <<>>
<1> DEFINE p == Path(es, Len(es))
           q == Path(fs, Len(fs))
           n == Len(p)
           M == Markers(fs, q)
<1>1. /\ p \in Seq(Nat) /\ q = Append(p, Len(fs)) /\ Len(fs) \in Nat /\ Len(fs) \in 0..Len(fs) /\ fs \in Trees
  BY LineFollows DEF Follows
<1>2. n \in Nat /\ q \in Seq(Nat) /\ Len(q) = n + 1 /\ q[n + 1] = Len(fs)
  <2> HIDE DEF p, q
  <2> QED BY <1>1, AppendProperties, LenProperties
<1> HIDE DEF p, q, n
<1>3. n + 1 \in M
  <2>1. n + 1 \in 1..Len(q)
    BY <1>2, SMT
  <2>2. M = {i \in 1..Len(q) : fs[q[i]].kind \in {"reset", "compaction"}}
    BY <1>2, MarkersType
  <2> QED BY <1>2, <2>1, <2>2
<1>4. Max(M) \in 1..Len(q) /\ n + 1 <= Max(M)
  BY <1>2, <1>3, MarkersType
<1>5. Max(M) = n + 1
  BY <1>2, <1>4, SMT
<1>6. ContextPath(fs, Len(fs)) = SubSeq(q, n + 2, n + 1)
  <2>1. (n + 1) + 1 = n + 2
    BY <1>2, SMT
  <2>2. ContextPath(fs, Len(fs)) = SubSeq(q, Max(M) + 1, Len(q))
    BY <1>2, <1>3, <1>5 DEF ContextPath, q
  <2> QED BY <1>2, <1>5, <2>1, <2>2
<1>7. SubSeq(q, n + 2, n + 1) = <<>>
  <2>1. n + 2 \in Nat \ {0} /\ n + 1 \in 0..Len(q) /\ ~(n + 2 <= n + 1)
    BY <1>2, SMT
  <2>2. SubSeq(q, n + 2, n + 1) \in Seq(Nat) /\ Len(SubSeq(q, n + 2, n + 1)) = 0
    BY <1>2, <2>1, RangeTyped
  <2> QED BY <2>2, EmptySeq
<1> QED BY <1>1, <1>6, <1>7, RestoreEmpty

LEMMA SameMarkers ==
  ASSUME NEW es, NEW fs, Follows(es, fs), fs[Len(fs)].kind \notin {"reset", "compaction"}
  PROVE  Markers(fs, Path(fs, Len(fs))) = Markers(es, Path(es, Len(es)))
<1> DEFINE p == Path(es, Len(es))
           q == Path(fs, Len(fs))
           n == Len(p)
           K == {"reset", "compaction"}
<1>1. /\ p \in Seq(Nat) /\ \A i \in 1..n : p[i] \in 1..Len(es)
      /\ q = Append(p, Len(fs)) /\ Len(fs) \in Nat /\ \A i \in 1..Len(es) : fs[i] = es[i]
  BY LineFollows DEF Follows, Grown
<1>2. /\ n \in Nat /\ q \in Seq(Nat) /\ Len(q) = n + 1 /\ q[n + 1] = Len(fs)
      /\ \A i \in 1..n : q[i] = p[i]
  <2> HIDE DEF p, q
  <2> QED BY <1>1, AppendProperties, LenProperties
<1>3. /\ Markers(es, p) = {i \in 1..n : es[p[i]].kind \in K}
      /\ Markers(fs, q) = {i \in 1..Len(q) : fs[q[i]].kind \in K}
  <2>1. p \in Seq(Nat) /\ q \in Seq(Nat)
    BY <1>1, <1>2
  <2> HIDE DEF p, q
  <2>2. Markers(es, p) = {i \in 1..n : es[p[i]].kind \in K}
    BY <2>1, MarkersType
  <2>3. Markers(fs, q) = {i \in 1..Len(q) : fs[q[i]].kind \in K}
    BY <2>1, MarkersType
  <2> QED BY <2>2, <2>3
<1> HIDE DEF p, q, n, K
<1>4. \A i \in 1..n : fs[q[i]] = es[p[i]]
  BY <1>1, <1>2
<1>5. fs[q[n + 1]].kind \notin K
  BY <1>2 DEF K
<1>6. 1..Len(q) = 1..n \cup {n + 1}
  BY <1>2, SMT
<1>7. Markers(fs, q) = Markers(es, p)
  BY <1>3, <1>4, <1>5, <1>6, Zenon
<1> QED BY <1>7 DEF p, q

LEMMA ContextGrows ==
  ASSUME NEW es, NEW fs, Follows(es, fs), fs[Len(fs)].kind \notin {"reset", "compaction"}
  PROVE  /\ ContextPath(es, Len(es)) \in Seq(Nat)
         /\ ContextPath(fs, Len(fs)) = Append(ContextPath(es, Len(es)), Len(fs))
<1> DEFINE p == Path(es, Len(es))
           q == Path(fs, Len(fs))
           n == Len(p)
           x == Len(fs)
           M == Markers(es, p)
           i == Max(M)
<1>1. /\ p \in Seq(Nat) /\ \A k \in 1..n : p[k] \in 1..Len(es)
      /\ q = Append(p, x) /\ x \in Nat /\ \A k \in 1..Len(es) : fs[k] = es[k]
      /\ es \in Trees /\ Len(es) \in 0..Len(es)
  BY LineFollows DEF Follows, Grown
<1>2. Markers(fs, q) = M
  BY SameMarkers
<1>3. M # {} => i \in 1..n
  <2> HIDE DEF p
  <2> QED BY <1>1, MarkersType
<1>4. /\ ContextPath(es, Len(es)) = IF M = {} THEN p
           ELSE IF es[p[i]].kind = "reset" THEN SubSeq(p, i + 1, n)
           ELSE <<p[i]>> \o Retained(es, p, i) \o SubSeq(p, i + 1, n)
      /\ ContextPath(fs, Len(fs)) = IF M = {} THEN q
           ELSE IF fs[q[i]].kind = "reset" THEN SubSeq(q, i + 1, Len(q))
           ELSE <<q[i]>> \o Retained(fs, q, i) \o SubSeq(q, i + 1, Len(q))
  BY <1>2 DEF ContextPath
<1>5. ContextPath(es, Len(es)) \in Seq(Nat)
  <2>1. 1..Len(es) \subseteq Nat
    BY SMT
  <2> QED BY <1>1, <2>1, ContextType, SeqMonotonic
<1> HIDE DEF p, q, x, M, i
<1>6. n \in Nat /\ q \in Seq(Nat) /\ Len(q) = n + 1 /\ \A k \in 1..n : q[k] = p[k]
  BY <1>1, AppendProperties, LenProperties
<1>7. ASSUME M # {}
      PROVE  /\ i \in 1..n /\ fs[q[i]] = es[p[i]] /\ q[i] = p[i] /\ p[i] \in Nat
             /\ SubSeq(q, i + 1, Len(q)) = Append(SubSeq(p, i + 1, n), x)
             /\ SubSeq(p, i + 1, n) \in Seq(Nat)
             /\ Retained(fs, q, i) = Retained(es, p, i) /\ Retained(es, p, i) \in Seq(Nat)
  <2>1. i \in 1..n
    BY <1>3, <1>7
  <2>2. /\ i + 1 \in 1 .. n+1 /\ i - 1 \in 0..n /\ \A k \in 1..i-1 : k \in 1..n
        /\ i + 1 \in Nat \ {0} /\ n \in 0..n
    BY <1>6, <2>1, SMT
  <2>3. SubSeq(q, i + 1, Len(q)) = Append(SubSeq(p, i + 1, n), x) /\ SubSeq(p, i + 1, n) \in Seq(Nat)
    <3>1. SubSeq(q, i + 1, Len(q)) = Append(SubSeq(p, i + 1, n), x)
      BY <1>1, <1>6, <2>2, LongerPart
    <3>2. SubSeq(p, i + 1, n) \in Seq(Nat)
      BY <1>1, <2>2, RangeTyped
    <3> QED BY <3>1, <3>2
  <2>4. fs[q[i]] = es[p[i]] /\ q[i] = p[i] /\ p[i] \in Nat
    BY <1>1, <1>6, <2>1, SMT
  <2> DEFINE from == {k \in 1..i-1 : p[k] = es[p[i]].kept}
             from2 == {k \in 1..i-1 : q[k] = fs[q[i]].kept}
  <2>5. from2 = from
    BY <1>6, <2>2, <2>4, Zenon
  <2>6. /\ Retained(es, p, i) = IF from = {} THEN <<>> ELSE SubSeq(p, Min(from), i - 1)
        /\ Retained(fs, q, i) = IF from = {} THEN <<>> ELSE SubSeq(q, Min(from), i - 1)
    BY <2>5 DEF Retained
  <2>7. from # {} => Min(from) \in Nat \ {0}
    <3>1. from \subseteq Nat /\ from \subseteq Nat \ {0}
      BY <2>2, SMT
    <3> HIDE DEF from
    <3> QED BY <3>1, MinOf
  <2> HIDE DEF from
  <2>8. Retained(fs, q, i) = Retained(es, p, i)
    BY <1>1, <2>2, <2>6, <2>7, EarlierPart
  <2>9. Retained(es, p, i) \in Seq(Nat)
    BY <1>1, <2>1, RetainedType
  <2> QED BY <2>1, <2>3, <2>4, <2>8, <2>9
<1> DEFINE c == ContextPath(es, Len(es))
           d == ContextPath(fs, Len(fs))
<1>8. d = Append(c, x)
  <2>1. CASE M = {}
    BY <1>1, <1>4, <2>1
  <2>2. CASE M # {} /\ es[p[i]].kind = "reset"
    BY <1>4, <1>7, <2>2
  <2>3. CASE M # {} /\ es[p[i]].kind # "reset"
    <3> DEFINE a == <<p[i]>> \o Retained(es, p, i)
               b == SubSeq(p, i + 1, n)
    <3>1. c = a \o b /\ d = a \o Append(b, x)
      BY <1>4, <1>7, <2>3
    <3>2. <<p[i]>> \in Seq(Nat)
      <4>1. p[i] \in Nat
        BY <1>7, <2>3
      <4> QED BY <4>1, SMT
    <3>3. a \in Seq(Nat) /\ b \in Seq(Nat)
      BY <1>7, <2>3, <3>2, ConcatProperties
    <3> HIDE DEF a, b
    <3>4. a \o Append(b, x) = Append(a \o b, x)
      BY <1>1, <3>3, ConcatAppend
    <3> QED BY <3>1, <3>4
  <2> QED BY <2>1, <2>2, <2>3
<1> QED BY <1>5, <1>8 DEF x

\* A message or note is the next message of the transcript.
LEMMA MessageFollows ==
  ASSUME NEW es, NEW fs, Follows(es, fs), fs[Len(fs)].kind \notin {"reset", "compaction"}
  PROVE  Restore(fs, Len(fs)) = Append(Restore(es, Len(es)), fs[Len(fs)].msg)
<1> DEFINE c == ContextPath(es, Len(es))
           x == Len(fs)
           S == DOMAIN es \ LinesOf(es, "reset")
           U == DOMAIN fs \ LinesOf(fs, "reset")
           a == Shown(es, Len(es))
           b == Shown(fs, Len(fs))
<1>1. /\ es \in Trees /\ fs \in Trees /\ Len(es) \in Nat /\ x \in Nat /\ x = Len(es) + 1
      /\ Len(es) \in 0..Len(es) /\ x \in 0..Len(fs) /\ \A k \in 1..Len(es) : fs[k] = es[k]
  BY LineFollows DEF Follows, Grown
<1>2. DOMAIN es = 1..Len(es) /\ DOMAIN fs = 1..Len(fs)
  BY <1>1, TreeTypes
<1>3. x \in DOMAIN fs /\ \A k \in 1..Len(es) : k \in DOMAIN fs /\ k \in DOMAIN es
  BY <1>1, <1>2, SMT
<1>4. x \in U /\ \A k \in 1..Len(es) : k \in S <=> k \in U
  BY <1>1, <1>3 DEF LinesOf
<1>5. c \in Seq(1..Len(es)) /\ c \in Seq(Nat) /\ ContextPath(fs, x) = Append(c, x)
  <2>1. c \in Seq(1..Len(es))
    BY <1>1, ContextType
  <2> QED BY <2>1, ContextGrows
<1>6. \A k \in 1..Len(c) : c[k] \in 1..Len(es)
  BY <1>5, ElementOfSeq
<1>7. b = Append(a, x)
  <2>1. a = Filtered(c, S) /\ b = Filtered(Append(c, x), U)
    BY <1>5 DEF Shown
  <2>2. Alike(c, S, U)
    BY <1>4, <1>6 DEF Alike
  <2>3. c \in Seq(Nat) /\ x \in Nat /\ x \in U
    BY <1>1, <1>4, <1>5
  <2> HIDE DEF c, x, S, U, a, b
  <2>4. Filtered(Append(c, x), U) = IF x \in U THEN Append(Filtered(c, S), x) ELSE Filtered(c, S)
    BY <2>2, <2>3, FilteredAppend
  <2> QED BY <2>1, <2>3, <2>4
<1> DEFINE r == Restore(es, Len(es))
           t == Restore(fs, Len(fs))
           m == fs[Len(fs)].msg
<1>8. /\ r \in Seq(Said) /\ Len(r) = Len(a) /\ \A k \in 1..Len(a) : r[k] = es[a[k]].msg
      /\ t \in Seq(Said) /\ Len(t) = Len(b) /\ \A k \in 1..Len(b) : t[k] = fs[b[k]].msg
  BY <1>1, RestoreType
<1>9. a \in Seq(1..Len(es)) /\ a \in Seq(Nat) /\ Len(a) \in Nat /\ \A k \in 1..Len(a) : a[k] \in 1..Len(es)
  <2>1. a \in Seq(1..Len(es)) /\ Len(a) \in Nat
    BY <1>1, ShownType
  <2>2. 1..Len(es) \subseteq Nat
    BY SMT
  <2> QED BY <2>1, <2>2, SeqMonotonic, ElementOfSeq
<1>10. m \in Said
  <2>1. Len(fs) \in 1..Len(fs)
    BY <1>1, SMT
  <2> QED BY <1>1, <2>1, TreeTypes
<1> HIDE DEF a, b, r, t, c, S, U, m
<1>11. Len(b) = Len(a) + 1 /\ b[Len(a) + 1] = x /\ \A k \in 1..Len(a) : b[k] = a[k]
  BY <1>1, <1>7, <1>9, AppendProperties
<1>12. /\ Append(r, m) \in Seq(Said) /\ Len(Append(r, m)) = Len(r) + 1 /\ Append(r, m)[Len(r) + 1] = m
       /\ \A k \in 1..Len(r) : Append(r, m)[k] = r[k]
  BY <1>8, <1>10, AppendProperties
<1>13. ASSUME NEW k \in 1..Len(t)
       PROVE  t[k] = Append(r, m)[k]
  <2>1. CASE k = Len(a) + 1
    BY <1>8, <1>11, <1>12, <2>1 DEF m
  <2>2. CASE k # Len(a) + 1
    <3>1. k \in 1..Len(a)
      BY <1>8, <1>9, <1>11, <2>2, SMT
    <3>2. k \in 1..Len(b) /\ k \in 1..Len(r)
      BY <1>8, <1>13, <3>1
    <3>3. t[k] = fs[b[k]].msg /\ r[k] = es[a[k]].msg
      BY <1>8, <3>1, <3>2
    <3>4. b[k] = a[k] /\ fs[a[k]] = es[a[k]]
      BY <1>1, <1>9, <1>11, <3>1
    <3> QED BY <1>12, <3>2, <3>3, <3>4
  <2> QED BY <2>1, <2>2
<1>14. t = Append(r, m)
  BY <1>8, <1>11, <1>12, <1>13, SeqEqual
<1> QED BY <1>14 DEF r, t, m

LEMMA OneLine ==
  ASSUME FileInv, ~stopped, NEW kind \in LineKinds, NEW msg \in Said, Put(<<Line(kind, leaf, msg, 0)>>)
  PROVE  /\ Follows(log[cur], log'[cur])
         /\ log'[cur][Len(log'[cur])].kind = kind /\ log'[cur][Len(log'[cur])].msg = msg
<1> DEFINE es == log[cur]
           fs == log'[cur]
           x == Line(kind, leaf, msg, 0)
<1>1. es \in Trees /\ leaf \in 0..Len(es) /\ leaf = Len(es) /\ cur \in Sessions /\ log \in [Sessions -> Trees]
  BY DEF FileInv
<1>2. Hanging(es, <<x>>) /\ Len(<<x>>) = 1 /\ <<x>>[1] = x
  <2>1. 0 \in Nat
    OBVIOUS
  <2> QED BY <1>1, <2>1, HangingOne
<1>3. /\ fs = es \o <<x>> /\ fs \in Trees /\ Grown(es, fs)
  BY <1>1, <1>2, PutTypes
<1>4. Len(fs) = Len(es) + 1 /\ fs[Len(es) + 1] = x
  <2>1. 1 \in 1..Len(<<x>>)
    BY <1>2, SMT
  <2> QED BY <1>1, <1>2, <1>3, <2>1, TreeWith DEF Joined
<1>5. x.parent = leaf /\ x.kind = kind /\ x.msg = msg
  BY DEF Line
<1> HIDE DEF x, es, fs
<1>6. Follows(es, fs)
  BY <1>1, <1>3, <1>4, <1>5 DEF Follows
<1> QED BY <1>4, <1>5, <1>6 DEF es, fs

\* A line that was refused leaves the file as it was.
LEMMA NoLine ==
  ASSUME FileInv, ~stopped, NEW lines, Hanging(log[cur], lines), Len(lines) = 1,
         NEW k \in 0..Len(lines)-1, Put(SubSeq(lines, 1, k))
  PROVE  log' = log
<1> DEFINE es == log[cur]
           none == SubSeq(lines, 1, k)
<1>1. es \in Trees /\ cur \in Sessions /\ log \in [Sessions -> Trees]
  BY DEF FileInv
<1>2. k = 0 /\ k \in 0..Len(lines)
  BY SMT
<1>3. Hanging(es, none) /\ Len(none) = 0
  BY <1>1, <1>2, HangingPart
<1> HIDE DEF none
<1>4. none = <<>>
  BY <1>3, EmptySeq DEF Hanging
<1>5. es \o none = es
  <2>1. es \in Seq(Lines)
    BY <1>1, TreeTypes
  <2>2. es \o none \in Trees /\ Len(es \o none) = Len(es) + 0 /\ \A i \in 1..Len(es) : (es \o none)[i] = es[i]
    BY <1>1, <1>3, TreeWith DEF Joined
  <2>3. Len(es) \in Nat /\ es \o none \in Seq(Lines)
    BY <1>1, <2>2, TreeTypes
  <2>4. Len(es \o none) = Len(es)
    BY <2>2, <2>3, SMT
  <2> QED BY <2>1, <2>2, <2>3, <2>4, SeqEqual
<1>6. log' = [log EXCEPT ![cur] = es]
  BY <1>5 DEF Put, none
<1> QED BY <1>1, <1>6

\* While it records, a message that ends becomes the last one a resumed session
\* would know, or (a line that is too large) is left out of it; nothing said
\* before it is lost, hidden or brought back.
MessagesAreResumed ==
  [][RecordMessage /\ ~stopped' =>
       Resumed' = IF log' = log THEN Resumed ELSE Append(Resumed, Head(turn.snap))]_vars

(* What a session restores to grows as the conversation does: Recorder's   *)
(* MessageEnd appends at a head from which nothing branches (restore's     *)
(* fold over the path to the newest line, sessionlog.rs and session.rs).   *)
THEOREM MessagesResume == Spec => MessagesAreResumed
<1> DEFINE Told == RecordMessage /\ ~stopped' =>
                     Resumed' = IF log' = log THEN Resumed ELSE Append(Resumed, Head(turn.snap))
<1>1. ASSUME SessionInv
      PROVE  Told
  <2> SUFFICES ASSUME RecordMessage, ~stopped'
               PROVE  Resumed' = IF log' = log THEN Resumed ELSE Append(Resumed, Head(turn.snap))
    OBVIOUS
  <2> DEFINE lines == <<Line("message", leaf, Head(turn.snap), 0)>>
  <2>1. FileInv /\ Hanging(log[cur], lines) /\ Head(turn.snap) \in Said /\ cur' = cur /\ Len(lines) = 1
    BY <1>1, RecordMessageKeeps DEF SessionInv, Adds
  <2>2. ~stopped /\ (Put(lines) \/ \E k \in 0..Len(lines)-1 : Put(SubSeq(lines, 1, k)))
    BY DEF RecordMessage, RecordSpeech, Record, Written, Stops, TooLarge, Failing, Unrecorded
  <2>3. CASE Put(lines)
    <3>1. "message" \in LineKinds
      BY DEF LineKinds
    <3>2. /\ Follows(log[cur], log'[cur]) /\ log'[cur][Len(log'[cur])].kind = "message"
          /\ log'[cur][Len(log'[cur])].msg = Head(turn.snap)
      BY <2>1, <2>2, <2>3, <3>1, OneLine
    <3>3. Restore(log'[cur], Len(log'[cur])) = Append(Restore(log[cur], Len(log[cur])), Head(turn.snap))
      BY <3>2, MessageFollows
    <3>4. log' # log
      <4>1. Len(log'[cur]) = Len(log[cur]) + 1 /\ Len(log[cur]) \in Nat
        BY <3>2, LineFollows
      <4>2. Len(log'[cur]) # Len(log[cur])
        BY <4>1, SMT
      <4> QED BY <4>2
    <3> QED BY <2>1, <3>3, <3>4 DEF Resumed
  <2>4. ASSUME NEW k \in 0..Len(lines)-1, Put(SubSeq(lines, 1, k))
        PROVE  Resumed' = Resumed /\ log' = log
    <3> HIDE DEF lines
    <3>1. log' = log
      BY <2>1, <2>2, <2>4, NoLine
    <3> QED BY <2>1, <3>1 DEF Resumed
  <2> QED BY <2>2, <2>3, <2>4
<1>2. SessionInv => [Told]_vars
  BY <1>1
<1> HIDE DEF Told
<1>3. Spec => [][Told]_vars
  BY <1>2, Invariant, PTL DEF Spec
<1> QED BY <1>3 DEF MessagesAreResumed, Told

\* While it records, a reset empties what a resumed session would know along with
\* the transcript.
ResetsAreResumed == [][Reset /\ ~stopped' => Resumed' = context' /\ context' = <<>>]_vars

(* Whatever was said, compacted or rewound before a reset (reset in        *)
(* session.rs), none of it comes back when the session is resumed.         *)
THEOREM ResetsResume == Spec => ResetsAreResumed
<1> DEFINE Cleared == Reset /\ ~stopped' => Resumed' = context' /\ context' = <<>>
<1>1. ASSUME SessionInv
      PROVE  Cleared
  <2> SUFFICES ASSUME Reset, ~stopped'
               PROVE  Resumed' = context' /\ context' = <<>>
    OBVIOUS
  <2>1. FileInv /\ Nothing \in Said /\ cur' = cur /\ "reset" \in LineKinds
    BY <1>1, ResetKeeps DEF SessionInv, LineKinds, Adds
  <2>2. ~stopped /\ Put(<<Line("reset", leaf, Nothing, 0)>>) /\ context' = <<>>
    BY DEF Reset, Record, Written, Stops, Unrecorded
  <2>3. Follows(log[cur], log'[cur]) /\ log'[cur][Len(log'[cur])].kind = "reset"
    BY <2>1, <2>2, OneLine
  <2>4. Restore(log'[cur], Len(log'[cur])) = <<>>
    BY <2>3, ResetClears
  <2> QED BY <2>1, <2>2, <2>4 DEF Resumed
<1>2. SessionInv => [Cleared]_vars
  BY <1>1
<1> HIDE DEF Cleared
<1>3. Spec => [][Cleared]_vars
  BY <1>2, Invariant, PTL DEF Spec
<1> QED BY <1>3 DEF ResetsAreResumed, Cleared

-----------------------------------------------------------------------------
(* What a compaction does to what a file restores to.                      *)
LEMMA FilteredSame ==
  ASSUME NEW T, NEW s \in Seq(T), NEW S, NEW U, \A i \in 1..Len(s) : s[i] \in S <=> s[i] \in U
  PROVE  Filtered(s, S) = Filtered(s, U)
<1>1. Len(s) \in Nat /\ Len(s) <= Len(s)
  BY LenProperties, SMT
<1> DEFINE n == Len(s)
<1>2. \A i \in 1..n : s[i] = s[i] /\ (s[i] \in S <=> s[i] \in U)
  OBVIOUS
<1>3. n \in Nat /\ Len(s) \in Nat /\ n <= Len(s)
  BY <1>1
<1> HIDE DEF n
<1>4. HasFn(s, S)[n] = HasFn(s, U)[n]
  <2>1. Agree(s, s, S, U, n)
    BY <1>2, <1>3 DEF Agree
  <2> QED BY <2>1, HasSame
<1> QED BY <1>4, FilteredIsFn DEF n

LEMMA FilteredOne ==
  ASSUME NEW x, NEW S
  PROVE  Filtered(<<x>>, S) = IF x \in S THEN <<x>> ELSE <<>>
<1> DEFINE s == <<x>>
<1>1. Len(s) = 1 /\ s[1] = x /\ Append(<<>>, x) = s
  BY SMT
<1> HIDE DEF s
<1>2. 1 \in 1..Len(s) /\ Len(s) \in Nat /\ 1 - 1 = 0
  BY <1>1, SMT
<1>3. HasFn(s, S)[0] = <<>> /\ HasFn(s, S)[1] = IF s[1] \in S THEN Append(HasFn(s, S)[1 - 1], s[1])
                                                ELSE HasFn(s, S)[1 - 1]
  BY <1>2, HasGrows
<1>4. Filtered(s, S) = IF x \in S THEN s ELSE <<>>
  BY <1>1, <1>2, <1>3, FilteredIsFn
<1> QED BY <1>4 DEF s

\* What is left of a sequence was in it.
LEMMA FilteredFrom ==
  ASSUME NEW T, NEW s \in Seq(T), NEW S, NEW j \in 1..Len(Filtered(s, S))
  PROVE  \E i \in 1..Len(s) : Filtered(s, S)[j] = s[i] /\ s[i] \in S
<1> DEFINE R == {s[i] : i \in 1..Len(s)}
<1>1. s \in Seq(R)
  <2>1. Len(s) \in Nat /\ s = [i \in 1..Len(s) |-> s[i]]
    BY LenProperties, SeqDef, SMT
  <2>2. \A i \in 1..Len(s) : s[i] \in R
    OBVIOUS
  <2> HIDE DEF R
  <2>3. s \in [1..Len(s) -> R]
    BY <2>1, <2>2, Zenon
  <2> QED BY <2>1, <2>3, SeqDef
<1> HIDE DEF R
<1>2. Filtered(s, S) \in Seq(R \cap S)
  BY <1>1, FilteredType
<1>3. Filtered(s, S)[j] \in R \cap S
  BY <1>2, ElementOfSeq
<1> QED BY <1>3 DEF R

LEMMA FilteredConcat ==
  ASSUME NEW T, NEW a \in Seq(T), NEW b \in Seq(T), NEW S
  PROVE  Filtered(a \o b, S) = Filtered(a, S) \o Filtered(b, S)
<1> DEFINE c == a \o b
           n == Len(a)
           A == HasFn(a, S)[n]
           Halves(k) == HasFn(c, S)[n + k] = A \o HasFn(b, S)[k]
           B == {k \in 0..Len(b) : ~Halves(k)}
<1>1. /\ n \in Nat /\ Len(b) \in Nat /\ c \in Seq(T) /\ Len(c) = n + Len(b)
      /\ \A i \in 1 .. n + Len(b) : c[i] = IF i <= n THEN a[i] ELSE b[i - n]
  BY ConcatProperties, LenProperties
<1> HIDE DEF c, n
<1>2. /\ Len(c) \in Nat /\ n <= Len(a) /\ n <= Len(c) /\ \A i \in 1..n : c[i] = a[i]
      /\ \A k \in 1..Len(b) : c[n + k] = b[k] /\ n + k \in 1..Len(c) /\ (n + k) - 1 = n + (k - 1)
  <2>1. Len(c) \in Nat /\ n <= Len(a) /\ n <= Len(c)
    BY <1>1, SMT DEF n
  <2>2. ASSUME NEW i \in 1..n
        PROVE  c[i] = a[i]
    <3>1. i \in 1 .. n + Len(b) /\ i <= n
      BY <1>1, SMT
    <3> QED BY <1>1, <3>1
  <2>3. ASSUME NEW k \in 1..Len(b)
        PROVE  c[n + k] = b[k] /\ n + k \in 1..Len(c) /\ (n + k) - 1 = n + (k - 1)
    <3>1. /\ n + k \in 1 .. n + Len(b) /\ ~(n + k <= n) /\ (n + k) - n = k
          /\ n + k \in 1..Len(c) /\ (n + k) - 1 = n + (k - 1)
      BY <1>1, SMT
    <3>2. c[n + k] = b[(n + k) - n]
      BY <1>1, <3>1
    <3> QED BY <3>1, <3>2
  <2> QED BY <2>1, <2>2, <2>3
<1>3. HasFn(c, S)[n] = A
  <2>1. Len(a) \in Nat
    BY <1>1 DEF n
  <2>2. \A i \in 1..n : c[i] = a[i] /\ (c[i] \in S <=> a[i] \in S)
    BY <1>2
  <2>3. Agree(c, a, S, S, n)
    BY <1>1, <1>2, <2>1, <2>2 DEF Agree
  <2> QED BY <2>3, HasSame DEF A
<1>4. A \in Seq(T \cap S) /\ \A k \in 0..Len(b) : HasFn(b, S)[k] \in Seq(T \cap S)
  <2>1. n \in 0..Len(a)
    BY <1>1, SMT DEF n
  <2> QED BY <2>1, HasType
<1> HIDE DEF A
<1>5. Halves(0)
  <2>1. HasFn(b, S)[0] = <<>> /\ n + 0 = n
    BY <1>1, HasGrows, SMT
  <2>2. A \o <<>> = A
    BY <1>4, ConcatEmptySeq
  <2> QED BY <1>3, <2>1, <2>2
<1>6. ASSUME NEW k \in 1..Len(b), Halves(k - 1)
      PROVE  Halves(k)
  <2>1. HasFn(c, S)[n + k] = IF c[n + k] \in S THEN Append(HasFn(c, S)[(n + k) - 1], c[n + k])
                             ELSE HasFn(c, S)[(n + k) - 1]
    BY <1>2, HasGrows
  <2>2. HasFn(b, S)[k] = IF b[k] \in S THEN Append(HasFn(b, S)[k - 1], b[k]) ELSE HasFn(b, S)[k - 1]
    BY <1>1, HasGrows
  <2>3. b[k] \in T /\ k - 1 \in 0..Len(b)
    BY <1>1, ElementOfSeq, SMT
  <2>4. HasFn(c, S)[n + k] = IF b[k] \in S THEN Append(HasFn(c, S)[n + (k - 1)], b[k])
                             ELSE HasFn(c, S)[n + (k - 1)]
    BY <1>2, <2>1
  <2> DEFINE e == HasFn(b, S)[k - 1]
             x == b[k]
  <2>5. HasFn(c, S)[n + (k - 1)] = A \o e /\ e \in Seq(T \cap S)
    BY <1>4, <1>6, <2>3
  <2>6. x \in S => x \in T \cap S
    BY <2>3
  <2>7. x \in S => A \o Append(e, x) = Append(A \o e, x)
    <3> HIDE DEF e, x
    <3> QED BY <1>4, <2>5, <2>6, ConcatAppend
  <2> QED BY <2>2, <2>4, <2>5, <2>7
<1> HIDE DEF Halves
<1>7. B = {}
  <2> SUFFICES ASSUME B # {} PROVE FALSE
    OBVIOUS
  <2>1. PICK m \in B : \A y \in B : m <= y
    <3>1. B \subseteq Nat
      BY <1>1
    <3> QED BY <3>1, Smallest
  <2>2. m \in 1..Len(b)
    BY <1>1, <1>5, SMT
  <2>3. m - 1 \in 0..Len(b) /\ ~(m <= m - 1)
    BY <1>1, <2>2, SMT
  <2> QED BY <1>6, <2>1, <2>2, <2>3
<1>8. Len(b) \in 0..Len(b)
  BY <1>1, SMT
<1>9. Halves(Len(b))
  BY <1>7, <1>8
<1> QED BY <1>1, <1>9, FilteredIsFn DEF Halves, A, c, n

\* The lines of a path are in the order of the file.
LEMMA RisingPath ==
  ASSUME NEW es \in Trees, NEW l \in 0..Len(es)
  PROVE  \A j \in 1..Len(Path(es, l)) : \A i \in 1..j-1 : Path(es, l)[i] < Path(es, l)[j]
<1> DEFINE Rises(p) == \A j \in 1..Len(p) : \A i \in 1..j-1 : p[i] < p[j]
           S == {k \in 0..Len(es) : ~Rises(Path(es, k))}
<1>0. Len(es) \in Nat /\ \A i \in 1..Len(es) : es[i].parent \in Nat /\ es[i].parent < i
  BY TreeTypes
<1>1. Rises(Path(es, 0))
  <2>1. Path(es, 0) = <<>> /\ Len(<<>>) = 0
    BY PathGrows, EmptySeq
  <2> QED BY <2>1, SMT
<1>2. ASSUME NEW k \in 1..Len(es), Rises(Path(es, es[k].parent))
      PROVE  Rises(Path(es, k))
  <2> DEFINE p == Path(es, es[k].parent)
             q == Path(es, k)
  <2>1. es[k].parent \in 0..Len(es) /\ es[k].parent < k /\ es[k].parent \in Nat
    BY <1>0, SMT
  <2>2. p \in Seq(1 .. es[k].parent)
    BY <2>1, PathType
  <2>3. Len(p) \in Nat /\ \A i \in 1..Len(p) : p[i] \in 1 .. es[k].parent
    BY <2>2, LenProperties, ElementOfSeq
  <2>4. p \in Seq(Nat) /\ k \in Nat
    <3>1. 1 .. es[k].parent \subseteq Nat /\ k \in Nat
      BY <1>0, SMT
    <3> QED BY <2>2, <3>1, SeqMonotonic
  <2>5. q = Append(p, k)
    BY PathGrows
  <2> HIDE DEF p, q
  <2>6. Len(q) = Len(p) + 1 /\ q[Len(p) + 1] = k /\ \A i \in 1..Len(p) : q[i] = p[i]
    BY <2>4, <2>5, AppendProperties
  <2>6a. Len(p) \in Nat /\ Len(q) = Len(p) + 1
    BY <2>3, <2>6
  <2>7. ASSUME NEW j \in 1..Len(q), NEW i \in 1..j-1
        PROVE  q[i] < q[j]
    <3>1. i \in 1..Len(p) /\ q[i] = p[i] /\ p[i] < k
      <4>1. i \in 1..Len(p)
        BY <2>6a, SMT
      <4> QED BY <2>1, <2>3, <2>6, <4>1, SMT
    <3>2. CASE j = Len(p) + 1
      BY <2>6, <3>1, <3>2
    <3>3. CASE j # Len(p) + 1
      <4>1. j \in 1..Len(p)
        BY <2>6a, <3>3, SMT
      <4> QED BY <1>2, <2>6, <3>1, <4>1 DEF p
    <3> QED BY <3>2, <3>3
  <2> QED BY <2>7 DEF q
<1> HIDE DEF Rises
<1>3. S = {}
  <2> SUFFICES ASSUME S # {} PROVE FALSE
    OBVIOUS
  <2>1. PICK m \in S : \A y \in S : m <= y
    <3>1. S \subseteq Nat
      BY <1>0
    <3> QED BY <3>1, Smallest
  <2>2. m \in 1..Len(es)
    BY <1>0, <1>1, SMT
  <2>3. es[m].parent \in 0..Len(es) /\ ~(m <= es[m].parent)
    BY <1>0, <2>2, SMT
  <2> QED BY <1>2, <2>1, <2>2, <2>3
<1> QED BY <1>3 DEF Rises

\* A sequence is what is before one of its elements, that one and what follows.
Split(T, p, k) ==
  /\ SubSeq(p, 1, k - 1) \in Seq(T) /\ SubSeq(p, k + 1, Len(p)) \in Seq(T) /\ p[k] \in T
  /\ SubSeq(p, k, Len(p)) = <<p[k]>> \o SubSeq(p, k + 1, Len(p))
  /\ p = SubSeq(p, 1, k - 1) \o SubSeq(p, k, Len(p))
  /\ \A i \in 1..Len(SubSeq(p, 1, k - 1)) : i \in 1..k-1 /\ SubSeq(p, 1, k - 1)[i] = p[i]
  /\ \A i \in 1..Len(SubSeq(p, k + 1, Len(p))) :
       k + i \in 1..Len(p) /\ k \in 1..(k + i)-1 /\ SubSeq(p, k + 1, Len(p))[i] = p[k + i]

LEMMA SplitAt ==
  ASSUME NEW T, NEW p \in Seq(T), NEW k \in 1..Len(p)
  PROVE  Split(T, p, k)
<1> DEFINE n == Len(p)
           a == SubSeq(p, 1, k - 1)
           b == SubSeq(p, k, n)
           c == SubSeq(p, k + 1, n)
           x == p[k]
<1>1. n \in Nat /\ k \in 1..n /\ x \in T
  BY LenProperties, ElementOfSeq
<1> HIDE DEF x
<1>2. k \in Nat \ {0} /\ k + 1 \in Nat \ {0} /\ k - 1 \in 0..n /\ n \in 0..n /\ 1 \in Nat \ {0} /\ k <= n
  BY <1>1, SMT
<1>3. /\ a \in Seq(T) /\ Len(a) = (IF 1 <= k - 1 THEN (k - 1) - 1 + 1 ELSE 0)
      /\ \A i \in 1 .. (k - 1) - 1 + 1 : a[i] = p[1 + i - 1]
  BY <1>2, RangeTyped
<1>4. /\ b \in Seq(T) /\ Len(b) = (IF k <= n THEN n - k + 1 ELSE 0)
      /\ \A i \in 1 .. n - k + 1 : b[i] = p[k + i - 1]
  BY <1>2, RangeTyped
<1>5. /\ c \in Seq(T) /\ Len(c) = (IF k + 1 <= n THEN n - (k + 1) + 1 ELSE 0)
      /\ \A i \in 1 .. n - (k + 1) + 1 : c[i] = p[(k + 1) + i - 1]
  BY <1>2, RangeTyped
<1> HIDE DEF a, b, c, n
<1>6. Len(a) = k - 1 /\ Len(b) = n - k + 1 /\ Len(c) = n - k
  BY <1>1, <1>2, <1>3, <1>4, <1>5, SMT
<1>7. \A i \in 1..Len(a) : i \in 1..k-1 /\ a[i] = p[i]
  <2>1. \A i \in 1..Len(a) : i \in 1 .. (k - 1) - 1 + 1 /\ 1 + i - 1 = i /\ i \in 1..k-1
    BY <1>1, <1>6, SMT
  <2> QED BY <1>3, <2>1
<1>8. \A i \in 1..Len(b) : b[i] = p[k + i - 1]
  <2>1. \A i \in 1..Len(b) : i \in 1 .. n - k + 1
    BY <1>6
  <2> QED BY <1>4, <2>1
<1>9. \A i \in 1..Len(c) : k + i \in 1..n /\ k \in 1..(k + i)-1 /\ c[i] = p[k + i]
  <2>1. \A i \in 1..Len(c) : /\ i \in 1 .. n - (k + 1) + 1 /\ (k + 1) + i - 1 = k + i
                             /\ k + i \in 1..n /\ k \in 1..(k + i)-1
    BY <1>1, <1>6, SMT
  <2> QED BY <1>5, <2>1
<1>10. b = <<x>> \o c
  <2> DEFINE u == <<x>>
  <2>1. u \in Seq(T) /\ Len(u) = 1 /\ u[1] = x
    BY <1>1, SMT
  <2> HIDE DEF u
  <2>2. /\ u \o c \in Seq(T) /\ Len(u \o c) = 1 + Len(c)
        /\ \A i \in 1 .. 1 + Len(c) : (u \o c)[i] = IF i <= 1 THEN u[i] ELSE c[i - 1]
    <3>1. /\ u \o c \in Seq(T) /\ Len(u \o c) = Len(u) + Len(c)
          /\ \A i \in 1 .. Len(u) + Len(c) : (u \o c)[i] = IF i <= Len(u) THEN u[i] ELSE c[i - Len(u)]
      BY <1>5, <2>1, ConcatProperties
    <3> QED BY <2>1, <3>1
  <2>3. Len(b) = Len(u \o c)
    BY <1>1, <1>6, <2>2, SMT
  <2>4. ASSUME NEW i \in 1..Len(b)
        PROVE  b[i] = (u \o c)[i]
    <3>1. i \in 1 .. 1 + Len(c)
      BY <1>1, <1>6, SMT
    <3>2. CASE i = 1
      <4>1. k + 1 - 1 = k /\ 1 <= 1
        BY <1>1, SMT
      <4> QED BY <1>8, <2>1, <2>2, <3>1, <3>2, <4>1 DEF x
    <3>3. CASE i # 1
      <4>1. i - 1 \in 1..Len(c) /\ ~(i <= 1) /\ k + (i - 1) = k + i - 1
        BY <1>1, <1>6, <3>1, <3>3, SMT
      <4>2. (u \o c)[i] = c[i - 1] /\ c[i - 1] = p[k + (i - 1)]
        BY <1>9, <2>2, <3>1, <4>1
      <4> QED BY <1>8, <4>1, <4>2
    <3> QED BY <3>2, <3>3
  <2>5. b = u \o c
    BY <1>4, <2>2, <2>3, <2>4, SeqEqual
  <2> QED BY <2>5 DEF u
<1>11. p = a \o b
  <2>1. /\ a \o b \in Seq(T) /\ Len(a \o b) = Len(a) + Len(b)
        /\ \A i \in 1 .. Len(a) + Len(b) : (a \o b)[i] = IF i <= Len(a) THEN a[i] ELSE b[i - Len(a)]
    BY <1>3, <1>4, ConcatProperties
  <2>2. Len(p) = Len(a \o b)
    BY <1>1, <1>6, <2>1, SMT DEF n
  <2>3. ASSUME NEW i \in 1..Len(p)
        PROVE  p[i] = (a \o b)[i]
    <3>1. i \in 1 .. Len(a) + Len(b)
      BY <2>1, <2>2
    <3>2. CASE i <= Len(a)
      <4>1. i \in 1..Len(a)
        BY <1>1, <1>6, <3>2, SMT
      <4> QED BY <1>7, <2>1, <3>1, <3>2, <4>1
    <3>3. CASE ~(i <= Len(a))
      <4>1. i - Len(a) \in 1..Len(b) /\ k + (i - Len(a)) - 1 = i
        BY <1>1, <1>6, <3>1, <3>3, SMT
      <4>2. b[i - Len(a)] = p[k + (i - Len(a)) - 1]
        BY <1>8, <4>1
      <4> QED BY <2>1, <3>1, <3>3, <4>1, <4>2
    <3> QED BY <3>2, <3>3
  <2> QED BY <2>1, <2>2, <2>3, SeqEqual
<1> QED BY <1>1, <1>3, <1>5, <1>7, <1>9, <1>10, <1>11 DEF Split, n, a, b, c, x

\* The lines from t on, on the way to l.
From(es, l, t) == SubSeq(Path(es, l), Min({k \in 1..Len(Path(es, l)) : Path(es, l)[k] = t}), Len(Path(es, l)))

\* The messages among them, and that these are just ms.
Told(es, l, t) == Filtered(From(es, l, t), LinesOf(es, "message"))
Keeps(es, l, t, ms) ==
  /\ \E k \in 1..Len(Path(es, l)) : Path(es, l)[k] = t
  /\ Len(Told(es, l, t)) = Len(ms) /\ \A i \in 1..Len(ms) : es[Told(es, l, t)[i]].msg = ms[i]

\* A tail that was found on the branch has just the retained messages.
LEMMA TailFound ==
  ASSUME NEW es \in Trees, NEW l \in 0..Len(es), NEW ms \in Seq(Said), ms # <<>>,
         NEW tail, tail = RetainedTail(es, l, ms), tail # 0
  PROVE  Keeps(es, l, tail, ms)
<1> DEFINE p == Path(es, l)
           n == Len(p)
           S == LinesOf(es, "message")
           told == Filtered(p, S)
           skip == Len(told) - Len(ms)
           from == {k \in 1..n : p[k] = tail}
           k == Min(from)
           a == SubSeq(p, 1, k - 1)
           c == SubSeq(p, k + 1, n)
           A == Filtered(a, S)
           C == Filtered(c, S)
<1>1. p \in Seq(1..l) /\ n \in Nat /\ l \in Nat
  BY PathType, LenProperties
<1>2. told \in Seq((1..l) \cap S) /\ Len(told) \in Nat
  BY <1>1, FilteredType, LenProperties
<1>3. Len(ms) \in Nat \ {0} /\ DOMAIN ms = 1..Len(ms)
  BY EmptySeq, LenProperties
<1>4. Len(told) >= Len(ms) /\ (\A i \in 1..Len(ms) : es[told[skip + i]].msg = ms[i]) /\ tail = told[skip + 1]
  BY <1>3 DEF RetainedTail
<1>5. skip + 1 \in 1..Len(told) /\ skip \in Nat
  BY <1>2, <1>3, <1>4, SMT
<1>6. from # {} /\ tail \in S
  <2>1. ASSUME NEW j \in 1..Len(told)
        PROVE  \E i \in 1..n : told[j] = p[i] /\ p[i] \in S
    <3> HIDE DEF p, S
    <3> QED BY <1>1, FilteredFrom
  <2>2. \E i \in 1..n : told[skip + 1] = p[i] /\ p[i] \in S
    BY <1>5, <2>1
  <2> QED BY <1>4, <2>2
<1>7. k \in 1..n /\ p[k] = tail
  <2>1. from \subseteq Nat
    BY SMT
  <2>2. k \in from
    <3> HIDE DEF from
    <3> QED BY <1>6, <2>1, MinOf
  <2> QED BY <2>2
<1> HIDE DEF k
<1>8. \A j \in 1..n : \A i \in 1..j-1 : p[i] < p[j]
  BY RisingPath
<1> HIDE DEF p, n, S, told, skip
<1>9. /\ a \in Seq(1..l) /\ c \in Seq(1..l) /\ p[k] \in 1..l
      /\ SubSeq(p, k, n) = <<p[k]>> \o c /\ p = a \o SubSeq(p, k, n)
      /\ \A i \in 1..Len(a) : i \in 1..k-1 /\ a[i] = p[i]
      /\ \A i \in 1..Len(c) : k + i \in 1..n /\ k \in 1..(k + i)-1 /\ c[i] = p[k + i]
  <2>1. k \in 1..Len(p) /\ p \in Seq(1..l)
    BY <1>1, <1>7 DEF n
  <2> HIDE DEF a, c
  <2>2. a = SubSeq(p, 1, k - 1) /\ c = SubSeq(p, k + 1, Len(p))
    BY DEF a, c, n
  <2>3. Split(1..l, p, k)
    BY <2>1, SplitAt
  <2> QED BY <2>2, <2>3 DEF Split, n
<1> HIDE DEF a, c
<1> DEFINE u == <<tail>>
<1>10. u \in Seq(1..l) /\ Filtered(u, S) = u /\ Len(u) = 1 /\ u[1] = tail
  <2>1. u \in Seq(1..l) /\ Len(u) = 1 /\ u[1] = tail
    BY <1>7, <1>9, SMT
  <2> QED BY <1>6, <2>1, FilteredOne
<1> HIDE DEF u
<1>11. A \in Seq(Nat) /\ C \in Seq(Nat) /\ u \in Seq(Nat) /\ Len(A) \in Nat /\ Len(C) \in Nat
  <2>1. A \in Seq((1..l) \cap S) /\ C \in Seq((1..l) \cap S)
    BY <1>9, FilteredType
  <2>2. (1..l) \cap S \subseteq Nat /\ 1..l \subseteq Nat
    BY SMT
  <2>3. A \in Seq(Nat) /\ C \in Seq(Nat)
    BY <2>1, <2>2, SeqMonotonic
  <2> QED BY <1>10, <2>2, <2>3, SeqMonotonic, LenProperties
<1>12. Filtered(SubSeq(p, k, n), S) = u \o C /\ told = A \o (u \o C)
  <2>1. SubSeq(p, k, n) = u \o c /\ u \o c \in Seq(1..l)
    BY <1>7, <1>9, <1>10, ConcatProperties DEF u
  <2> DEFINE T == 1..l
  <2>2. a \in Seq(T) /\ c \in Seq(T) /\ u \in Seq(T)
    BY <1>9, <1>10
  <2> HIDE DEF T
  <2>3. Filtered(u \o c, S) = Filtered(u, S) \o Filtered(c, S) /\ u \o c \in Seq(T)
    BY <2>2, FilteredConcat, ConcatProperties
  <2>4. Filtered(a \o (u \o c), S) = Filtered(a, S) \o Filtered(u \o c, S)
    <3>1. ASSUME NEW w, w \in Seq(T), NEW v, v \in Seq(T)
          PROVE  Filtered(w \o v, S) = Filtered(w, S) \o Filtered(v, S)
      BY <3>1, FilteredConcat
    <3> QED BY <2>2, <2>3, <3>1
  <2> QED BY <1>9, <1>10, <2>1, <2>3, <2>4 DEF told
<1>13. \A i \in 1..Len(A) : A[i] < tail
  <2> SUFFICES ASSUME NEW i \in 1..Len(A) PROVE A[i] < tail
    OBVIOUS
  <2>1. PICK j \in 1..Len(a) : A[i] = a[j]
    BY <1>9, FilteredFrom
  <2> QED BY <1>7, <1>8, <1>9, <2>1
<1>14. \A i \in 1..Len(C) : tail < C[i]
  <2> SUFFICES ASSUME NEW i \in 1..Len(C) PROVE tail < C[i]
    OBVIOUS
  <2>1. PICK j \in 1..Len(c) : C[i] = c[j]
    BY <1>9, FilteredFrom
  <2> QED BY <1>7, <1>8, <1>9, <2>1
<1> HIDE DEF A, C
<1> DEFINE b == u \o C
<1>15. /\ b \in Seq(Nat) /\ Len(b) = 1 + Len(C)
       /\ \A i \in 1 .. 1 + Len(C) : b[i] = IF i <= 1 THEN u[i] ELSE C[i - 1]
  <2>1. /\ b \in Seq(Nat) /\ Len(b) = Len(u) + Len(C)
        /\ \A i \in 1 .. Len(u) + Len(C) : b[i] = IF i <= Len(u) THEN u[i] ELSE C[i - Len(u)]
    BY <1>11, ConcatProperties
  <2> QED BY <1>10, <2>1
<1> HIDE DEF b
<1>16. /\ Len(told) = Len(A) + Len(b)
       /\ \A i \in 1 .. Len(A) + Len(b) : told[i] = IF i <= Len(A) THEN A[i] ELSE b[i - Len(A)]
  BY <1>11, <1>12, <1>15, ConcatProperties DEF b
<1>17. tail \in Nat
  BY <1>7, <1>9, SMT
<1>18. skip = Len(A)
  <2>1. CASE skip + 1 <= Len(A)
    <3>1. skip + 1 \in 1..Len(A) /\ told[skip + 1] = A[skip + 1]
      BY <1>5, <1>11, <1>16, <2>1, SMT
    <3>2. tail < tail
      BY <1>4, <1>13, <3>1
    <3> QED BY <1>17, <3>2, SMT
  <2>2. CASE skip + 1 > Len(A) + 1
    <3> DEFINE j == (skip + 1) - Len(A)
    <3>1. /\ skip + 1 \in 1 .. Len(A) + Len(b) /\ ~(skip + 1 <= Len(A)) /\ ~(j <= 1)
          /\ j \in 1 .. 1 + Len(C) /\ j - 1 \in 1..Len(C)
      BY <1>5, <1>11, <1>15, <1>16, <2>2, SMT
    <3>2. told[skip + 1] = b[j]
      BY <1>16, <3>1
    <3> HIDE DEF j
    <3>3. b[j] = C[j - 1]
      BY <1>15, <3>1
    <3>4. tail < tail
      BY <1>4, <1>14, <3>1, <3>2, <3>3
    <3> QED BY <1>17, <3>4, SMT
  <2> QED BY <1>5, <1>11, <2>1, <2>2, SMT
<1>19. Len(b) = Len(ms)
  <2>1. Len(told) - skip = Len(ms)
    BY <1>2, <1>3, SMT DEF skip
  <2> QED BY <1>11, <1>15, <1>16, <1>18, <2>1, SMT
<1>20. ASSUME NEW i \in 1..Len(ms)
       PROVE  es[b[i]].msg = ms[i]
  <2>1. skip + i \in 1 .. Len(A) + Len(b) /\ ~(skip + i <= Len(A)) /\ (skip + i) - Len(A) = i
    BY <1>3, <1>11, <1>18, <1>19, SMT
  <2>2. told[skip + i] = b[i]
    BY <1>16, <2>1
  <2> QED BY <1>4, <2>2
<1>21. Told(es, l, tail) = b
  BY <1>12 DEF Told, From, b, p, n, k, S
<1>22. \E j \in 1..Len(Path(es, l)) : Path(es, l)[j] = tail
  BY <1>7 DEF p, n
<1> HIDE DEF p, n
<1> QED BY <1>19, <1>20, <1>21, <1>22 DEF Keeps

\* The messages that resuming a file finds on its lines.
MessagesShown(es) ==
  LET told == Filtered(ContextPath(es, Len(es)), LinesOf(es, "message"))
  IN [i \in DOMAIN told |-> es[told[i]].msg]

LEMMA MarkerShows ==
  ASSUME NEW es, NEW fs, Follows(es, fs), fs[Len(fs)].kind = "compaction", NEW t, t = fs[Len(fs)].kept,
         \E k \in 1..Len(Path(es, Len(es))) : Path(es, Len(es))[k] = t
  PROVE  /\ From(es, Len(es), t) \in Seq(1..Len(es))
         /\ ContextPath(fs, Len(fs)) = <<Len(fs)>> \o From(es, Len(es), t)
<1> DEFINE p == Path(es, Len(es))
           q == Path(fs, Len(fs))
           n == Len(p)
           x == Len(fs)
           M == Markers(fs, q)
           from == {k \in 1..n : p[k] = t}
           m == Min(from)
<1>1. p \in Seq(Nat) /\ q = Append(p, x) /\ x \in Nat /\ fs \in Trees /\ es \in Trees /\ Len(es) \in 0..Len(es)
  BY LineFollows DEF Follows
<1>2. n \in Nat /\ q \in Seq(Nat) /\ Len(q) = n + 1 /\ q[n + 1] = x /\ \A i \in 1..n : q[i] = p[i]
  <2> HIDE DEF p, q, x
  <2> QED BY <1>1, AppendProperties, LenProperties
<1>3. p \in Seq(1..Len(es))
  BY <1>1, PathType
<1>4. from # {} /\ from \subseteq Nat
  <2>1. from # {}
    OBVIOUS
  <2> QED BY <2>1, SMT
<1>5. m \in 1..n /\ m \in Nat \ {0}
  <2>1. m \in from
    <3> HIDE DEF from
    <3> QED BY <1>4, MinOf
  <2> QED BY <2>1, SMT
<1>6. From(es, Len(es), t) = SubSeq(p, m, n)
  BY DEF From
<1> HIDE DEF p, q, n, m
<1>7. n + 1 \in M
  <2>1. n + 1 \in 1..Len(q)
    BY <1>2, SMT
  <2>2. M = {i \in 1..Len(q) : fs[q[i]].kind \in {"reset", "compaction"}}
    BY <1>2, MarkersType
  <2> QED BY <1>2, <2>1, <2>2
<1>8. Max(M) = n + 1
  <2>1. Max(M) \in 1..Len(q) /\ n + 1 <= Max(M)
    BY <1>2, <1>7, MarkersType
  <2> QED BY <1>2, <2>1, SMT
<1>9. Retained(fs, q, n + 1) = SubSeq(p, m, n)
  <2>1. (n + 1) - 1 = n /\ n \in 0..n
    BY <1>2, SMT
  <2>2. {k \in 1 .. (n + 1) - 1 : q[k] = fs[q[n + 1]].kept} = from
    BY <1>2, <2>1
  <2>3. Retained(fs, q, n + 1) = SubSeq(q, m, n)
    <3> HIDE DEF from
    <3> QED BY <1>4, <2>1, <2>2 DEF Retained, m
  <2>4. SubSeq(Append(p, x), m, n) = SubSeq(p, m, n)
    <3> HIDE DEF x, from
    <3>1. n \in 0..Len(p)
      BY <2>1 DEF n
    <3> QED BY <1>1, <1>5, <3>1, EarlierPart
  <2> QED BY <1>1, <2>3, <2>4
<1>10. SubSeq(q, n + 2, n + 1) = <<>>
  <2>1. n + 2 \in Nat \ {0} /\ n + 1 \in 0..Len(q) /\ ~(n + 2 <= n + 1)
    BY <1>2, SMT
  <2>2. SubSeq(q, n + 2, n + 1) \in Seq(Nat) /\ Len(SubSeq(q, n + 2, n + 1)) = 0
    BY <1>2, <2>1, RangeTyped
  <2> QED BY <2>2, EmptySeq
<1>11. ContextPath(fs, Len(fs)) = <<x>> \o SubSeq(p, m, n) \o <<>>
  <2>1. (n + 1) + 1 = n + 2
    BY <1>2, SMT
  <2>2. fs[q[Max(M)]].kind = "compaction" /\ M # {}
    BY <1>2, <1>7, <1>8
  <2>3. ContextPath(fs, Len(fs)) = <<q[Max(M)]>> \o Retained(fs, q, Max(M)) \o SubSeq(q, Max(M) + 1, Len(q))
    BY <2>2 DEF ContextPath, q
  <2> QED BY <1>2, <1>8, <1>9, <1>10, <2>1, <2>3
<1>12. SubSeq(p, m, n) \in Seq(1..Len(es))
  <2>1. n \in 0..Len(p)
    BY <1>2, SMT DEF n
  <2> QED BY <1>3, <1>5, <2>1, RangeTyped
<1>13. <<x>> \o SubSeq(p, m, n) \o <<>> = <<x>> \o SubSeq(p, m, n)
  <2> DEFINE r == SubSeq(p, m, n)
  <2>1. r \in Seq(Nat) /\ <<x>> \in Seq(Nat)
    <3>1. 1..Len(es) \subseteq Nat
      BY SMT
    <3>2. r \in Seq(Nat)
      BY <1>12, <3>1, SeqMonotonic
    <3> QED BY <1>1, <3>2, SMT
  <2> HIDE DEF r
  <2>2. <<x>> \o r \in Seq(Nat)
    BY <2>1, ConcatProperties
  <2>3. (<<x>> \o r) \o <<>> = <<x>> \o r
    BY <2>2, ConcatEmptySeq
  <2> QED BY <2>3 DEF r
<1> QED BY <1>6, <1>11, <1>12, <1>13

\* A file ends with a line that restores to its message, followed by the
\* messages ms alone.
Shows(fs, ms) == Head(Restore(fs, Len(fs))) = fs[Len(fs)].msg /\ MessagesShown(fs) = ms

LEMMA MarkerTells ==
  ASSUME NEW es, NEW fs, Follows(es, fs), fs[Len(fs)].kind = "compaction", NEW t, t = fs[Len(fs)].kept,
         NEW ms \in Seq(Said), Keeps(es, Len(es), t, ms)
  PROVE  Shows(fs, ms)
<1> DEFINE R == From(es, Len(es), t)
           b == Told(es, Len(es), t)
           x == Len(fs)
           T == 1..x
           S == LinesOf(es, "message")
           U == LinesOf(fs, "message")
           V == DOMAIN fs \ LinesOf(fs, "reset")
           c == ContextPath(fs, Len(fs))
           u == <<x>>
<1>0. /\ \E k \in 1..Len(Path(es, Len(es))) : Path(es, Len(es))[k] = t
      /\ Len(b) = Len(ms) /\ \A i \in 1..Len(ms) : es[b[i]].msg = ms[i]
  BY DEF Keeps
<1>1. R \in Seq(1..Len(es)) /\ c = u \o R
  BY <1>0, MarkerShows
<1>2. /\ es \in Trees /\ fs \in Trees /\ x \in Nat /\ x = Len(es) + 1 /\ x \in 0..Len(fs)
      /\ \A k \in 1..Len(es) : fs[k] = es[k]
      /\ DOMAIN es = 1..Len(es) /\ DOMAIN fs = 1..x /\ Len(es) \in Nat
  BY LineFollows, TreeTypes DEF Follows, Grown
<1>3. x \in V /\ x \notin U /\ \A k \in 1..Len(es) : k \in S <=> k \in U
  <2>1. x \in DOMAIN fs /\ \A k \in 1..Len(es) : k \in DOMAIN fs
    BY <1>2, SMT
  <2> QED BY <1>2, <2>1 DEF LinesOf
<1>4. R \in Seq(T) /\ u \in Seq(T) /\ Len(u) = 1 /\ u[1] = x
  <2>1. 1..Len(es) \subseteq T /\ x \in T
    BY <1>2, SMT
  <2>2. R \in Seq(T)
    BY <1>1, <2>1, SeqMonotonic
  <2> QED BY <2>1, <2>2, SMT
<1>5. /\ b \in Seq(1..Len(es)) /\ DOMAIN b = 1..Len(b) /\ Len(b) \in Nat
      /\ \A i \in 1..Len(b) : b[i] \in 1..Len(es)
  <2>1. Filtered(R, S) \in Seq((1..Len(es)) \cap S)
    BY <1>1, FilteredType
  <2>2. (1..Len(es)) \cap S \subseteq 1..Len(es)
    OBVIOUS
  <2>3. b \in Seq(1..Len(es))
    BY <2>1, <2>2, SeqMonotonic DEF Told
  <2> QED BY <2>3, LenProperties, ElementOfSeq
<1>6. Filtered(R, U) = b
  <2>1. \A i \in 1..Len(R) : R[i] \in 1..Len(es)
    BY <1>1, ElementOfSeq
  <2>2. \A i \in 1..Len(R) : R[i] \in S <=> R[i] \in U
    BY <1>3, <2>1
  <2> HIDE DEF R, S, U
  <2>3. Filtered(R, S) = Filtered(R, U)
    BY <1>1, <2>2, FilteredSame
  <2> QED BY <2>3 DEF R, S, Told
<1> HIDE DEF R, b, T, S, U, V, u, c
<1>7. Filtered(<<x>> \o R, V) = <<x>> \o Filtered(R, V) /\ Filtered(<<x>> \o R, U) = Filtered(R, U)
  <2>1. <<x>> \in Seq(T) /\ R \in Seq(T)
    BY <1>4 DEF u
  <2>2. /\ \A f, g \in Seq(T) : Filtered(f \o g, V) = Filtered(f, V) \o Filtered(g, V)
        /\ \A f, g \in Seq(T) : Filtered(f \o g, U) = Filtered(f, U) \o Filtered(g, U)
    BY FilteredConcat
  <2>3. Filtered(<<x>>, V) = <<x>> /\ Filtered(<<x>>, U) = <<>>
    BY <1>3, FilteredOne, Zenon
  <2>4. <<>> \o Filtered(R, U) = Filtered(R, U)
    <3>1. Filtered(R, U) \in Seq(T \cap U)
      BY <2>1, FilteredType
    <3> QED BY <3>1, ConcatEmptySeq
  <2> HIDE DEF x
  <2>5. Filtered(<<x>> \o R, V) = Filtered(<<x>>, V) \o Filtered(R, V)
    BY <2>1, <2>2, Zenon
  <2>6. Filtered(<<x>> \o R, U) = Filtered(<<x>>, U) \o Filtered(R, U)
    BY <2>1, <2>2, Zenon
  <2> QED BY <2>3, <2>4, <2>5, <2>6, Zenon
<1>8. Filtered(c, U) = b
  BY <1>1, <1>6, <1>7 DEF u
<1>9. MessagesShown(fs) = ms
  <2>1. MessagesShown(fs) = [i \in 1..Len(b) |-> fs[b[i]].msg]
    BY <1>5, <1>8 DEF MessagesShown, c, U
  <2>2. \A i \in 1..Len(b) : fs[b[i]].msg = ms[i]
    BY <1>0, <1>2, <1>5
  <2>3. ms = [i \in 1..Len(ms) |-> ms[i]]
    BY SeqDef, LenProperties
  <2> HIDE DEF x
  <2> QED BY <1>0, <2>1, <2>2, <2>3
<1>10. Head(Restore(fs, x)) = fs[x].msg
  <2> DEFINE s == Shown(fs, x)
             F == Filtered(R, V)
  <2>1. s = u \o F
    BY <1>1, <1>7 DEF Shown, c, V, u
  <2>2. F \in Seq(T) /\ Len(F) \in Nat
    <3>1. F \in Seq(T \cap V) /\ T \cap V \subseteq T
      BY <1>4, FilteredType
    <3> QED BY <3>1, SeqMonotonic, LenProperties
  <2> HIDE DEF s, F, x
  <2>3. Len(s) = Len(u) + Len(F) /\ \A i \in 1 .. Len(u) + Len(F) : s[i] = IF i <= Len(u) THEN u[i] ELSE F[i - Len(u)]
    <3>1. ASSUME NEW f, f \in Seq(T), NEW g, g \in Seq(T)
          PROVE  /\ Len(f \o g) = Len(f) + Len(g)
                 /\ \A i \in 1 .. Len(f) + Len(g) : (f \o g)[i] = IF i <= Len(f) THEN f[i] ELSE g[i - Len(f)]
      BY <3>1, ConcatProperties
    <3> QED BY <1>4, <2>1, <2>2, <3>1
  <2>4. 1 \in 1..Len(s) /\ s[1] = x /\ 1 \in 1 .. Len(u) + Len(F)
    BY <1>4, <2>2, <2>3, SMT
  <2>5. Restore(fs, x) \in Seq(Said) /\ Len(Restore(fs, x)) = Len(s) /\ Restore(fs, x)[1] = fs[s[1]].msg
    BY <1>2, <2>4, RestoreType DEF s
  <2>6. Restore(fs, x) # <<>>
    BY <2>4, <2>5, EmptySeq, SMT
  <2> QED BY <2>4, <2>5, <2>6, HeadTailProperties, SMT
<1> QED BY <1>9, <1>10 DEF Shows

\* Lines that hang from each other make a path longer, one by one.
LEMMA PathOver ==
  ASSUME NEW es \in Trees, NEW fs \in Trees, Grown(es, fs), NEW n \in Nat, Len(fs) = Len(es) + n,
         \A j \in 1..n : fs[Len(es) + j].parent = Len(es) + j - 1,
         NEW k \in 0..n
  PROVE  /\ Len(Path(fs, Len(es) + k)) = Len(Path(es, Len(es))) + k
         /\ \A i \in 1..Len(Path(es, Len(es))) : Path(fs, Len(es) + k)[i] = Path(es, Len(es))[i]
         /\ \A i \in 1..k : Path(fs, Len(es) + k)[Len(Path(es, Len(es))) + i] = Len(es) + i
<1> DEFINE L == Len(es)
           p == Path(es, L)
           m == Len(p)
           Over(j) == /\ Len(Path(fs, L + j)) = m + j
                      /\ \A i \in 1..m : Path(fs, L + j)[i] = p[i]
                      /\ \A i \in 1..j : Path(fs, L + j)[m + i] = L + i
           S == {j \in 0..n : ~Over(j)}
<1>1. L \in Nat /\ L \in 0..L /\ Len(fs) = L + n /\ p \in Seq(1..L) /\ m \in Nat
  <2>1. L \in Nat
    BY TreeTypes
  <2>2. L \in 0..L
    BY <2>1, SMT
  <2> QED BY <2>1, <2>2, PathType, LenProperties
<1>2. Over(0)
  <2>1. L <= Len(fs) /\ L + 0 = L /\ m + 0 = m
    BY <1>1, SMT
  <2>2. Path(fs, L) = p
    BY <1>1, <2>1, PathStays DEF Grown
  <2> QED BY <2>1, <2>2, SMT
<1>3. ASSUME NEW j \in 1..n, Over(j - 1)
      PROVE  Over(j)
  <2> DEFINE q == Path(fs, L + (j - 1))
             r == Path(fs, L + j)
  <2>1. /\ L + j \in 1..Len(fs) /\ L + (j - 1) \in 0..Len(fs) /\ L + j - 1 = L + (j - 1) /\ L + j \in Nat
        /\ j - 1 \in Nat
    BY <1>1, SMT
  <2>2. r = Append(q, L + j)
    <3>1. fs[L + j].parent = L + (j - 1)
      BY <2>1
    <3> QED BY <2>1, <3>1, PathGrows
  <2>3. q \in Seq(Nat)
    <3>1. q \in Seq(1 .. L + (j - 1))
      BY <2>1, PathType
    <3>2. 1 .. L + (j - 1) \subseteq Nat
      BY SMT
    <3> QED BY <3>1, <3>2, SeqMonotonic
  <2>4. /\ Len(q) = m + (j - 1) /\ \A i \in 1..m : q[i] = p[i]
        /\ \A i \in 1..j-1 : q[m + i] = L + i
    BY <1>3
  <2> HIDE DEF q, r
  <2>5. Len(r) = Len(q) + 1 /\ r[Len(q) + 1] = L + j /\ \A i \in 1..Len(q) : r[i] = q[i]
    BY <2>1, <2>2, <2>3, AppendProperties
  <2> HIDE DEF L, p, m
  <2>6. Len(r) = m + j /\ Len(q) + 1 = m + j
    BY <1>1, <2>1, <2>4, <2>5, SMT
  <2>7. \A i \in 1..m : r[i] = p[i]
    <3>1. \A i \in 1..m : i \in 1..Len(q)
      BY <1>1, <2>1, <2>4, SMT
    <3> QED BY <2>4, <2>5, <3>1
  <2>8. ASSUME NEW i \in 1..j
        PROVE  r[m + i] = L + i
    <3>1. CASE i = j
      BY <2>5, <2>6, <3>1
    <3>2. CASE i # j
      <4>1. i \in 1..j-1 /\ m + i \in 1..Len(q)
        BY <1>1, <2>1, <2>4, <3>2, SMT
      <4> QED BY <2>4, <2>5, <4>1
    <3> QED BY <3>1, <3>2
  <2> QED BY <2>6, <2>7, <2>8 DEF r
<1> HIDE DEF Over
<1>4. S = {}
  <2> SUFFICES ASSUME S # {} PROVE FALSE
    OBVIOUS
  <2>1. PICK y \in S : \A z \in S : y <= z
    <3>1. S \subseteq Nat
      BY SMT
    <3> QED BY <3>1, Smallest
  <2>2. y \in 1..n
    BY <1>2, SMT
  <2>3. y - 1 \in 0..n /\ ~(y <= y - 1)
    BY <2>2, SMT
  <2> QED BY <1>3, <2>1, <2>2, <2>3
<1>5. Over(k)
  BY <1>4
<1> QED BY <1>5 DEF Over, L, p, m

\* Copies of the retained messages are found again from the first one on.
LEMMA CopiesFound ==
  ASSUME NEW es \in Trees, NEW fs \in Trees, Grown(es, fs), NEW n \in Nat \ {0}, Len(fs) = Len(es) + n,
         \A j \in 1..n : fs[Len(es) + j].parent = Len(es) + j - 1 /\ fs[Len(es) + j].kind = "message"
  PROVE  /\ \E k \in 1..Len(Path(fs, Len(fs))) : Path(fs, Len(fs))[k] = Len(es) + 1
         /\ Len(Told(fs, Len(fs), Len(es) + 1)) = n
         /\ \A i \in 1..n : Told(fs, Len(fs), Len(es) + 1)[i] = Len(es) + i
<1> DEFINE L == Len(es)
           p == Path(es, L)
           m == Len(p)
           q == Path(fs, Len(fs))
           from == {k \in 1..Len(q) : q[k] = L + 1}
           S == LinesOf(fs, "message")
           r == From(fs, Len(fs), L + 1)
<1>1. L \in Nat /\ p \in Seq(1..L) /\ m \in Nat /\ Len(fs) = L + n /\ DOMAIN fs = 1..Len(fs)
  <2>1. L \in Nat /\ DOMAIN fs = 1..Len(fs)
    BY TreeTypes
  <2>2. L \in 0..L
    BY <2>1, SMT
  <2> QED BY <2>1, <2>2, PathType, LenProperties
<1>2. Len(q) = m + n /\ (\A i \in 1..m : q[i] = p[i]) /\ \A i \in 1..n : q[m + i] = L + i
  <2>1. n \in 0..n /\ n \in Nat /\ \A j \in 1..n : fs[Len(es) + j].parent = Len(es) + j - 1
    <3>1. n \in 0..n /\ n \in Nat
      BY SMT
    <3> QED BY <3>1
  <2>2. /\ Len(Path(fs, Len(es) + n)) = Len(Path(es, Len(es))) + n
        /\ \A i \in 1..Len(Path(es, Len(es))) : Path(fs, Len(es) + n)[i] = Path(es, Len(es))[i]
        /\ \A i \in 1..n : Path(fs, Len(es) + n)[Len(Path(es, Len(es))) + i] = Len(es) + i
    BY <2>1, PathOver
  <2>3. q = Path(fs, Len(es) + n)
    BY <1>1
  <2> QED BY <2>2, <2>3
<1>3. q \in Seq(1..Len(fs)) /\ \A i \in 1..m : p[i] \in 1..L
  <2>1. Len(fs) \in 0..Len(fs)
    BY <1>1, SMT
  <2> QED BY <1>1, <2>1, PathType, ElementOfSeq
<1>4. r = SubSeq(q, Min(from), Len(q))
  BY DEF From
<1> HIDE DEF L, p, m, q
<1>5. m + 1 \in from
  <2>1. m + 1 \in 1..Len(q) /\ 1 \in 1..n
    BY <1>1, <1>2, SMT
  <2> QED BY <1>2, <2>1
<1>6. Min(from) = m + 1
  <2>1. Min(from) \in from
    <3>1. from \subseteq Nat /\ from # {}
      BY <1>5, SMT
    <3> HIDE DEF from
    <3> QED BY <3>1, MinOf
  <2> DEFINE y == Min(from)
  <2>2. y \in 1 .. m + n /\ q[y] = L + 1
    BY <1>2, <2>1
  <2> HIDE DEF y
  <2>3. ~(y <= m)
    <3> SUFFICES ASSUME y <= m PROVE FALSE
      OBVIOUS
    <3>1. y \in 1..m
      BY <1>1, <2>2, SMT
    <3>2. L + 1 \in 1..L
      BY <1>2, <1>3, <2>2, <3>1
    <3> QED BY <1>1, <3>2, SMT
  <2>4. y - m \in 1..n /\ m + (y - m) = y
    BY <1>1, <2>2, <2>3, SMT
  <2>5. L + (y - m) = L + 1
    BY <1>2, <2>2, <2>4
  <2>6. y = m + 1
    BY <1>1, <2>2, <2>5, SMT
  <2> HIDE DEF from
  <2> QED BY <2>6 DEF y
<1>7. r \in Seq(1..Len(fs)) /\ Len(r) = n /\ \A i \in 1..n : r[i] = L + i
  <2>1. m + 1 \in Nat \ {0} /\ Len(q) \in 0..Len(q) /\ m + 1 <= Len(q) /\ Len(q) - (m + 1) + 1 = n
    BY <1>1, <1>2, SMT
  <2>2. /\ SubSeq(q, m + 1, Len(q)) \in Seq(1..Len(fs))
        /\ Len(SubSeq(q, m + 1, Len(q))) = IF m + 1 <= Len(q) THEN Len(q) - (m + 1) + 1 ELSE 0
        /\ \A i \in 1 .. Len(q) - (m + 1) + 1 : SubSeq(q, m + 1, Len(q))[i] = q[m + 1 + i - 1]
    BY <1>3, <2>1, RangeTyped
  <2>3. \A i \in 1..n : m + 1 + i - 1 = m + i
    BY <1>1, SMT
  <2>4. r = SubSeq(q, m + 1, Len(q))
    BY <1>4, <1>6
  <2> HIDE DEF r
  <2>5. r \in Seq(1..Len(fs)) /\ Len(r) = n /\ \A i \in 1..n : r[i] = q[m + 1 + i - 1]
    BY <2>1, <2>2, <2>4
  <2> QED BY <1>2, <2>3, <2>5
<1>8. Filtered(r, S) = r
  <2>1. \A i \in 1..Len(r) : r[i] \in S
    <3>1. \A i \in 1..n : L + i \in DOMAIN fs
      BY <1>1, SMT
    <3> QED BY <1>7, <3>1 DEF LinesOf, L
  <2> HIDE DEF r, S
  <2> QED BY <1>7, <2>1, FilteredAll
<1>9. \E k \in 1..Len(q) : q[k] = L + 1
  BY <1>5
<1> QED BY <1>7, <1>8, <1>9 DEF Told, q, L

LEMMA FollowsOne ==
  ASSUME NEW es \in Trees, NEW u, Hanging(es, u), Len(u) = 1, u[1].parent = Len(es)
  PROVE  Follows(es, es \o u) /\ (es \o u)[Len(es \o u)] = u[1]
<1> DEFINE fs == es \o u
<1>0. Joined(es, u, fs)
  BY TreeWith
<1> HIDE DEF fs
<1>1. Len(es) \in Nat /\ Len(es) <= Len(es) + 1 /\ 1 \in 1..Len(u)
  <2>1. Len(es) \in Nat
    BY TreeTypes
  <2> QED BY <2>1, SMT
<1>2. /\ fs \in Trees /\ Len(fs) = Len(es) + Len(u) /\ (\A i \in 1..Len(es) : fs[i] = es[i])
      /\ \A j \in 1..Len(u) : fs[Len(es) + j] = u[j]
  BY <1>0 DEF Joined
<1>3. Len(fs) = Len(es) + 1 /\ fs[Len(fs)] = u[1]
  BY <1>1, <1>2
<1>4. Follows(es, fs)
  BY <1>1, <1>2, <1>3 DEF Follows, Grown
<1> QED BY <1>3, <1>4 DEF fs

\* A file restores to a summary first, and to the messages ms alone.
RestoresTo(fs, summary, ms) == Head(Restore(fs, Len(fs))) = summary /\ MessagesShown(fs) = ms

\* A compaction that points back at its tail.
LEMMA PointsBack ==
  ASSUME NEW es \in Trees, NEW summary \in Said, NEW ms \in Seq(Said), ms # <<>>,
         NEW tail, tail = RetainedTail(es, Len(es), ms), tail # 0,
         NEW u, u = <<Line("compaction", Len(es), summary, tail)>>
  PROVE  RestoresTo(es \o u, summary, ms)
<1> DEFINE x == Line("compaction", Len(es), summary, tail)
<1>1. Len(es) \in 0..Len(es) /\ "compaction" \in LineKinds
  <2>1. Len(es) \in Nat
    BY TreeTypes
  <2> QED BY <2>1, SMT DEF LineKinds
<1>2. tail \in Nat
  BY <1>1, TailType
<1>3. Keeps(es, Len(es), tail, ms)
  BY <1>1, TailFound
<1>4. Hanging(es, u) /\ Len(u) = 1 /\ u[1] = x
  BY <1>1, <1>2, HangingOne
<1>5. x.kind = "compaction" /\ x.parent = Len(es) /\ x.msg = summary /\ x.kept = tail
  BY DEF Line
<1> HIDE DEF x
<1>6. Follows(es, es \o u) /\ (es \o u)[Len(es \o u)] = x
  BY <1>4, <1>5, FollowsOne
<1> DEFINE fs == es \o u
<1>7. /\ Follows(es, fs) /\ fs[Len(fs)].kind = "compaction"
      /\ fs[Len(fs)].msg = summary /\ tail = fs[Len(fs)].kept
  BY <1>5, <1>6
<1> HIDE DEF fs
<1>8. Shows(fs, ms)
  BY <1>3, <1>7, MarkerTells
<1> QED BY <1>7, <1>8 DEF Shows, RestoresTo, fs

Copies(es, ms) == [i \in DOMAIN ms |-> Line("message", IF i = 1 THEN Len(es) ELSE Len(es) + i - 1, ms[i], 0)]

LEMMA CopiesHang ==
  ASSUME NEW es \in Trees, NEW ms \in Seq(Said)
  PROVE  /\ Hanging(es, Copies(es, ms)) /\ Len(Copies(es, ms)) = Len(ms) /\ Len(ms) \in Nat
         /\ \A i \in 1..Len(ms) : /\ Copies(es, ms)[i].parent = Len(es) + i - 1
                                  /\ Copies(es, ms)[i].kind = "message" /\ Copies(es, ms)[i].msg = ms[i]
<1> DEFINE copy(i) == Line("message", IF i = 1 THEN Len(es) ELSE Len(es) + i - 1, ms[i], 0)
           c == Copies(es, ms)
<1>1. Len(es) \in Nat /\ Len(ms) \in Nat /\ DOMAIN ms = 1..Len(ms) /\ \A i \in 1..Len(ms) : ms[i] \in Said
  BY TreeTypes, LenProperties, ElementOfSeq
<1>2. ASSUME NEW i \in 1..Len(ms)
      PROVE  /\ copy(i) \in Lines /\ copy(i).parent = Len(es) + i - 1 /\ copy(i).parent < Len(es) + i
             /\ copy(i).kind = "message" /\ copy(i).msg = ms[i]
  <2>1. /\ (IF i = 1 THEN Len(es) ELSE Len(es) + i - 1) = Len(es) + i - 1
        /\ Len(es) + i - 1 \in Nat /\ Len(es) + i - 1 < Len(es) + i
    BY <1>1, SMT
  <2> QED BY <1>1, <2>1 DEF Line, Lines, LineKinds
<1>3. c = [i \in 1..Len(ms) |-> copy(i)]
  BY <1>1 DEF Copies
<1> HIDE DEF copy, c
<1>4. c \in Seq(Lines) /\ Len(c) = Len(ms) /\ \A i \in 1..Len(ms) : c[i] = copy(i)
  BY <1>1, <1>2, <1>3, SMT
<1>5. Hanging(es, c)
  BY <1>2, <1>4 DEF Hanging
<1> QED BY <1>1, <1>2, <1>4, <1>5 DEF c

\* A compaction that carries copies of its tail.
LEMMA Carries ==
  ASSUME NEW es \in Trees, NEW summary \in Said, NEW ms \in Seq(Said), ms # <<>>,
         NEW mid, mid = es \o Copies(es, ms),
         NEW u, u = <<Line("compaction", Len(es) + Len(ms), summary, Len(es) + 1)>>
  PROVE  RestoresTo(mid \o u, summary, ms)
<1> DEFINE cs == Copies(es, ms)
           L == Len(es)
           n == Len(ms)
           x == Line("compaction", L + n, summary, L + 1)
<1>1. /\ Hanging(es, cs) /\ Len(cs) = n /\ n \in Nat
      /\ \A i \in 1..n : cs[i].parent = L + i - 1 /\ cs[i].kind = "message" /\ cs[i].msg = ms[i]
  BY CopiesHang
<1>2. n \in Nat \ {0} /\ L \in Nat /\ DOMAIN ms = 1..n
  BY EmptySeq, TreeTypes, LenProperties
<1> HIDE DEF cs
<1>3. Joined(es, cs, mid)
  <2>1. mid = es \o cs
    BY Zenon DEF cs
  <2>2. Joined(es, cs, es \o cs)
    BY <1>1, TreeWith
  <2> QED BY <2>1, <2>2, Zenon
<1>4. /\ mid \in Trees /\ Len(mid) = L + n /\ (\A i \in 1..L : mid[i] = es[i])
      /\ \A j \in 1..n : mid[L + j] = cs[j]
  BY <1>1, <1>3 DEF Joined
<1>5. Grown(es, mid) /\ \A j \in 1..n : mid[L + j].parent = L + j - 1 /\ mid[L + j].kind = "message"
  <2>1. L <= L + n
    BY <1>2, SMT
  <2> QED BY <1>1, <1>4, <2>1 DEF Grown
<1>6. /\ \E k \in 1..Len(Path(mid, Len(mid))) : Path(mid, Len(mid))[k] = L + 1
      /\ Len(Told(mid, Len(mid), L + 1)) = n /\ \A i \in 1..n : Told(mid, Len(mid), L + 1)[i] = L + i
  BY <1>2, <1>4, <1>5, CopiesFound
<1>7. Keeps(mid, Len(mid), L + 1, ms)
  BY <1>1, <1>4, <1>6 DEF Keeps
<1>8. L + n \in 0..Len(mid) /\ L + 1 \in Nat /\ "compaction" \in LineKinds
  BY <1>2, <1>4, SMT DEF LineKinds
<1>9. Hanging(mid, u) /\ Len(u) = 1 /\ u[1] = x
  BY <1>4, <1>8, HangingOne
<1>10. x.kind = "compaction" /\ x.parent = Len(mid) /\ x.msg = summary /\ x.kept = L + 1
  BY <1>4 DEF Line
<1> HIDE DEF x
<1>11. Follows(mid, mid \o u) /\ (mid \o u)[Len(mid \o u)] = x
  BY <1>4, <1>9, <1>10, FollowsOne
<1> DEFINE fs == mid \o u
<1>12. /\ Follows(mid, fs) /\ fs[Len(fs)].kind = "compaction"
       /\ fs[Len(fs)].msg = summary /\ fs[Len(fs)].kept = L + 1
  BY <1>10, <1>11
<1> HIDE DEF fs, L
<1>13. Shows(fs, ms)
  BY <1>7, <1>12, MarkerTells
<1> QED BY <1>12, <1>13 DEF Shows, RestoresTo, fs

LEMMA CutWritten ==
  ASSUME NEW es \in Trees, NEW summary \in Said, NEW ms \in Seq(Said), ms # <<>>,
         NEW lines, lines = CutLines(es, Len(es), summary, ms)
  PROVE  RestoresTo(es \o lines, summary, ms)
<1>1. CASE RetainedTail(es, Len(es), ms) # 0
  <2>1. PICK tail : tail = RetainedTail(es, Len(es), ms)
    OBVIOUS
  <2>2. lines = <<Line("compaction", Len(es), summary, tail)>>
    BY <1>1, <2>1, Zenon DEF CutLines
  <2> QED BY <1>1, <2>1, <2>2, PointsBack
<1>2. CASE RetainedTail(es, Len(es), ms) = 0
  <2>1. PICK mid : mid = es \o Copies(es, ms)
    OBVIOUS
  <2>2. PICK u : u = <<Line("compaction", Len(es) + Len(ms), summary, Len(es) + 1)>>
    OBVIOUS
  <2>3. /\ Hanging(es, Copies(es, ms)) /\ Len(Copies(es, ms)) = Len(ms)
    BY CopiesHang
  <2>4. lines = Copies(es, ms) \o u
    <3>1. lines = Copies(es, ms) \o <<Line("compaction", Len(es) + Len(Copies(es, ms)), summary, Len(es) + 1)>>
      BY <1>2, Zenon DEF CutLines, Copies
    <3> QED BY <2>2, <2>3, <3>1, Zenon
  <2>5. u \in Seq(Lines)
    <3>1. Line("compaction", Len(es) + Len(ms), summary, Len(es) + 1) \in Lines
      <4>1. Len(es) + Len(ms) \in Nat /\ Len(es) + 1 \in Nat
        BY TreeTypes, LenProperties, SMT
      <4> QED BY <4>1 DEF Line, Lines, LineKinds
    <3> QED BY <2>2, <3>1, SMT
  <2>6. es \in Seq(Lines) /\ Copies(es, ms) \in Seq(Lines)
    BY <2>3, TreeTypes DEF Hanging
  <2>7. mid \o u = es \o lines
    <3>1. \A f, g, h \in Seq(Lines) : (f \o g) \o h = f \o (g \o h)
      BY ConcatAssociative
    <3>2. (es \o Copies(es, ms)) \o u = es \o (Copies(es, ms) \o u)
      BY <2>5, <2>6, <3>1, Zenon
    <3> QED BY <2>1, <2>4, <3>2, Zenon
  <2>8. RestoresTo(mid \o u, summary, ms)
    BY <2>1, <2>2, Carries
  <2> QED BY <2>7, <2>8, Zenon
<1> QED BY <1>1, <1>2

\* A compaction that was written whole restores to its summary, and of the
\* messages to exactly those it retained, whether it points back at them or
\* carries copies.
CutsAreResumed ==
  [][RecordCut /\ Written(CutLines(log[cur], leaf, Head(turn.snap), Tail(turn.snap)))
       => Head(Resumed') = Head(turn.snap) /\ MessagesShown(log[cur])' = Tail(turn.snap)]_vars

(* append_compaction never makes a resumed session forget, repeat or       *)
(* reorder a retained message, on whatever branch and after whatever       *)
(* earlier compactions, resets and stale cuts it is written.               *)
THEOREM CutsResume == Spec => CutsAreResumed
<1> DEFINE lines == CutLines(log[cur], leaf, Head(turn.snap), Tail(turn.snap))
           Whole == RecordCut /\ Written(lines)
                      => Head(Resumed') = Head(turn.snap) /\ MessagesShown(log[cur])' = Tail(turn.snap)
<1>1. ASSUME SessionInv
      PROVE  Whole
  <2> SUFFICES ASSUME RecordCut, Written(lines)
               PROVE  Head(Resumed') = Head(turn.snap) /\ MessagesShown(log[cur])' = Tail(turn.snap)
    OBVIOUS
  <2>1. ~stopped /\ Put(lines) /\ FileInv /\ turn.at = "cut" /\ cur' = cur
    BY <1>1 DEF Written, RecordCut, SessionInv, RecordSpeech, Record
  <2>2. /\ Head(turn.snap) \in Said /\ Tail(turn.snap) \in Seq(Said) /\ Tail(turn.snap) # <<>>
        /\ Hanging(log[cur], lines)
    BY <1>1, <2>1, CutTypes
  <2>3. log[cur] \in Trees /\ leaf = Len(log[cur])
    BY <2>1 DEF FileInv
  <2>4. lines = CutLines(log[cur], Len(log[cur]), Head(turn.snap), Tail(turn.snap))
    BY <2>3, Zenon
  <2> HIDE DEF lines
  <2>5. log'[cur] = log[cur] \o lines
    BY <2>1, <2>2, PutTypes
  <2>6. RestoresTo(log[cur] \o lines, Head(turn.snap), Tail(turn.snap))
    BY <2>2, <2>3, <2>4, CutWritten
  <2>7. leaf' = Len(log'[cur])
    BY <2>1, <2>2, PutTypes
  <2> QED BY <2>1, <2>5, <2>6, <2>7, Zenon DEF Resumed, RestoresTo
<1>2. SessionInv => [Whole]_vars
  BY <1>1
<1> HIDE DEF Whole
<1>3. Spec => [][Whole]_vars
  BY <1>2, Invariant, PTL DEF Spec
<1> QED BY <1>3 DEF CutsAreResumed, Whole
=============================================================================
