---------------------------- MODULE DataflowProofs -----------------------------
(***************************************************************************)
(* Proofs about OpDiff and Dataflow, for snapshots of any operations and   *)
(* any length, and any budget.                                             *)
(*                                                                         *)
(* A diff accounts for every operation, misses no pair of one name, and is *)
(* for equal snapshots what is answered without it.  What a graph is       *)
(* collapsed to keeps to the budget, joins nodes it has, stands for every  *)
(* operation and edge of the full graph, and collapses no more than needed.*)
(*                                                                         *)
(* A fold is unfolded to the run of its steps, and what it computes        *)
(* follows by induction over them: the induction is first-order, over the  *)
(* set of the steps at which a property holds.                             *)
(***************************************************************************)
EXTENDS Dataflow, WellFoundedInduction, SequenceTheorems, FiniteSetTheorems, TLAPS

-----------------------------------------------------------------------------
(* Induction over numbers, and folds over numbers as runs of steps. *)

\* A set of numbers that has zero and the successor of each of its members has them all.
LEMMA Induction ==
  ASSUME NEW S, 0 \in S, \A n \in Nat : n \in S => n + 1 \in S
  PROVE  Nat \subseteq S
<1>1. SUFFICES ASSUME Nat \ S # {} PROVE FALSE
  OBVIOUS
<1>2. PICK n \in Nat \ S : \A m \in Nat \ S : ~(<<m, n>> \in OpToRel(<, Nat))
  BY <1>1, NatLessThanWellFounded, WFMin
<1>3. n # 0 /\ n \in Nat
  OBVIOUS
<1>4. n - 1 \in Nat /\ n - 1 < n /\ (n - 1) + 1 = n
  BY <1>3
<1>5. <<n - 1, n>> \in OpToRel(<, Nat)
  BY <1>3, <1>4 DEF OpToRel
<1>6. n - 1 \in S
  BY <1>2, <1>4, <1>5
<1>. QED  BY <1>4, <1>6

\* The same up to a bound.
LEMMA InductionUpTo ==
  ASSUME NEW n \in Nat, NEW S, 0 \in S, \A i \in 1 .. n : i - 1 \in S => i \in S
  PROVE  0 .. n \subseteq S
<1>. DEFINE U == {i \in Nat : i <= n => i \in S}
<1>1. 0 \in U
  OBVIOUS
<1>2. ASSUME NEW i \in Nat, i \in U
      PROVE  i + 1 \in U
  <2>1. SUFFICES ASSUME i + 1 <= n PROVE i + 1 \in S
    OBVIOUS
  <2>2. i + 1 \in 1 .. n /\ (i + 1) - 1 = i /\ i \in S
    BY <1>2, <2>1
  <2>. QED  BY <2>2
<1>. HIDE DEF U
<1>3. Nat \subseteq U
  BY <1>1, <1>2, Induction
<1>. QED  BY <1>3 DEF U

\* The greatest of the numbers up to m, if m is one of them.
LEMMA MaxUpTo ==
  ASSUME NEW m \in Nat \ {0}, NEW s \in SUBSET (1 .. m), m \in s
  PROVE  Max(s) = m
<1>1. \A x \in s : (\A y \in s : x >= y) => x = m
  OBVIOUS
<1>2. \A y \in s : m >= y
  OBVIOUS
<1>. QED  BY <1>1, <1>2 DEF Max

\* A set of numbers has a least member.
LEMMA MinIsMember ==
  ASSUME NEW s \in SUBSET Nat, s # {}
  PROVE  Min(s) \in s /\ \A x \in s : Min(s) <= x
<1>1. PICK m \in s : \A k \in s : ~(<<k, m>> \in OpToRel(<, Nat))
  <2>1. s \subseteq Nat
    OBVIOUS
  <2>. QED  BY <2>1, NatLessThanWellFounded, WFMin
<1>2. ASSUME NEW x \in s
      PROVE  m <= x
  <2>1. x \in Nat /\ m \in Nat
    OBVIOUS
  <2>2. x < m => <<x, m>> \in OpToRel(<, Nat)
    BY <2>1 DEF OpToRel
  <2>3. ~(x < m)
    BY <1>1, <2>2
  <2>. QED  BY <2>1, <2>3
<1>. QED  BY <1>2 DEF Min

\* A bounded set of numbers has a greatest member.
LEMMA MaxOfNumbers ==
  ASSUME NEW n \in Nat, NEW s \in SUBSET (0 .. n), s # {}
  PROVE  Max(s) \in s /\ \A x \in s : Max(s) >= x
<1>. DEFINE Below == {m \in Nat : \A x \in s : x <= m}
<1>1. PICK m \in Below : \A k \in Below : ~(<<k, m>> \in OpToRel(<, Nat))
  <2>1. Below \subseteq Nat /\ n \in Below
    OBVIOUS
  <2>. QED  BY <2>1, NatLessThanWellFounded, WFMin
<1>2. m \in s
  <2>1. SUFFICES ASSUME m \notin s PROVE FALSE
    OBVIOUS
  <2>2. m \in Nat /\ m # 0
    <3>1. PICK x \in s : TRUE
      OBVIOUS
    <3>2. x \in 0 .. n /\ x <= m /\ m \in Nat /\ m # x
      BY <2>1
    <3>. QED  BY <3>2
  <2>3. m - 1 \in Below
    BY <2>1, <2>2
  <2>4. <<m - 1, m>> \in OpToRel(<, Nat)
    BY <2>2 DEF OpToRel
  <2>. QED  BY <2>3, <2>4, <1>1
<1>3. \A x \in s : m >= x
  OBVIOUS
<1>. QED  BY <1>2, <1>3 DEF Max

\* The same of positive numbers.
LEMMA MaxIsMember ==
  ASSUME NEW n \in Nat, NEW s \in SUBSET (1 .. n), s # {}
  PROVE  Max(s) \in s /\ \A x \in s : Max(s) >= x
<1>1. s \in SUBSET (0 .. n)
  OBVIOUS
<1>. QED  BY <1>1, MaxOfNumbers

\* A fold of n steps from base is a function of sets of indices.
FoldOK(T, base, step, m, f) ==
  /\ f \in [SUBSET (1 .. m) -> T]
  /\ \A s \in SUBSET (1 .. m) :
       f[s] = IF s = {} THEN base ELSE step[Max(s)][f[s \ {Max(s)}]]

\* A fold of m steps is continued by one.
LEMMA FoldExtends ==
  ASSUME NEW T, NEW base \in T, NEW n \in Nat, NEW step \in [1 .. n -> [T -> T]],
         NEW m \in Nat, m + 1 <= n, NEW f, FoldOK(T, base, step, m, f)
  PROVE  \E g : FoldOK(T, base, step, m + 1, g)
<1>. DEFINE k == m + 1
            g == [s \in SUBSET (1 .. k) |-> 
                    IF k \in s THEN step[k][f[s \ {k}]] ELSE f[s]]
<1>1. ASSUME NEW s \in SUBSET (1 .. k), k \in s
      PROVE  /\ g[s] = step[Max(s)][g[s \ {Max(s)}]] /\ s # {}
             /\ g[s] \in T
  <2>1. s \ {k} \in SUBSET (1 .. m) /\ s \ {k} \in SUBSET (1 .. k)
    OBVIOUS
  <2>2. f[s \ {k}] \in T
    BY <2>1 DEF FoldOK
  <2>3. Max(s) = k
    BY <1>1, MaxUpTo
  <2>4. step[k] \in [T -> T]
    OBVIOUS
  <2>5. g[s \ {k}] = f[s \ {k}]
    BY <2>1
  <2>6. g[s] = step[k][f[s \ {k}]]
    BY <1>1
  <2>. QED  BY <2>2, <2>3, <2>4, <2>5, <2>6, <1>1
<1>2. ASSUME NEW s \in SUBSET (1 .. k), k \notin s
      PROVE  g[s] = (IF s = {} THEN base ELSE step[Max(s)][g[s \ {Max(s)}]]) /\ g[s] \in T
  <2>1. s \in SUBSET (1 .. m) /\ g[s] = f[s]
    BY <1>2
  <2>2. s \ {Max(s)} \in SUBSET (1 .. m) /\ s \ {Max(s)} \in SUBSET (1 .. k) /\ k \notin s \ {Max(s)}
    BY <2>1, <1>2
  <2>3. g[s \ {Max(s)}] = f[s \ {Max(s)}]
    BY <2>2
  <2>. QED  BY <2>1, <2>2, <2>3 DEF FoldOK
<1>. HIDE DEF k
<1>3. g \in [SUBSET (1 .. k) -> T]
  BY <1>1, <1>2
<1>. HIDE DEF g
<1>4. FoldOK(T, base, step, k, g)
  BY <1>1, <1>2, <1>3 DEF FoldOK
<1>. QED  BY <1>4 DEF k

\* There is a fold of any number of steps.
LEMMA FoldExists ==
  ASSUME NEW T, NEW base \in T, NEW n \in Nat, NEW step \in [1 .. n -> [T -> T]]
  PROVE  \E f : FoldOK(T, base, step, n, f)
<1>. DEFINE S == {m \in Nat : m <= n => \E f : FoldOK(T, base, step, m, f)}
<1>1. 0 \in S
  <2>. DEFINE f == [s \in SUBSET (1 .. 0) |-> base]
  <2>1. 1 .. 0 = {}
    OBVIOUS
  <2>2. FoldOK(T, base, step, 0, f)
    BY <2>1 DEF FoldOK
  <2>. QED  BY <2>2
<1>2. ASSUME NEW m \in Nat, m \in S
      PROVE  m + 1 \in S
  BY <1>2, FoldExtends
<1>. HIDE DEF S
<1>3. Nat \subseteq S
  BY <1>1, <1>2, Induction
<1>4. n \in S
  BY <1>3
<1>. QED  BY <1>4 DEF S


\* The indices up to i, without the last of them.
LEMMA Intervals ==
  ASSUME NEW n \in Nat, NEW i \in 1 .. n
  PROVE  /\ 1 .. i \in SUBSET (1 .. n) /\ 1 .. i # {} /\ Max(1 .. i) = i
         /\ (1 .. i) \ {i} = 1 .. (i - 1)
<1>1. 1 .. i \in SUBSET (1 .. i) /\ i \in 1 .. i /\ i \in Nat \ {0}
  OBVIOUS
<1>2. Max(1 .. i) = i
  BY <1>1, MaxUpTo
<1>. QED  BY <1>1, <1>2

\* The steps of the fold that lists a set.
AscendingRun(g, T, set, n) ==
  /\ g \in [0 .. n -> T] /\ g[0] = <<>> /\ g[n] = Ascending(set, n)
  /\ \A i \in 1 .. n : g[i] = Enlist(set, g[i - 1], i)

\* There is a run of those steps through any set that they do not leave.
LEMMA AscendingSteps ==
  ASSUME NEW set, NEW n \in Nat,
         NEW T, <<>> \in T,
         \A t \in T, i \in 1 .. n : Enlist(set, t, i) \in T
  PROVE  \E g : AscendingRun(g, T, set, n)
<1>. DEFINE base == <<>>
            Step(t, i) == Enlist(set, t, i)
            step == [i \in 1 .. n |-> [t \in T |-> Step(t, i)]]
            Body(f) == [s \in SUBSET (1 .. n) |->
                          IF s = {} THEN base
                          ELSE Step(f[s \ {Max(s)}], UpTo(n)[Max(s)])]
            iter == CHOOSE f : f = Body(f)
            g    == [i \in 0 .. n |-> iter[1 .. i]]
<1>1. Ascending(set, n) = iter[1 .. n]
  BY DEF Ascending, FoldLeft, MapThenFoldSet, UpTo
<1>. HIDE DEF base, Step
<1>2. n \in Nat /\ base \in T /\ \A t \in T, i \in 1 .. n : Step(t, i) \in T
  BY DEF base, Step
<1>3. \A i \in 1 .. n : UpTo(n)[i] = i
  BY DEF UpTo
<1>4. \E f : f = Body(f)
  <2>1. step \in [1 .. n -> [T -> T]]
    BY <1>2
  <2>2. \A i \in 1 .. n, t \in T : step[i][t] = Step(t, i)
    OBVIOUS
  <2>. HIDE DEF step
  <2>3. PICK f : FoldOK(T, base, step, n, f)
    BY <1>2, <2>1, FoldExists
  <2>4. ASSUME NEW s \in SUBSET (1 .. n), s # {}
        PROVE  Max(s) \in 1 .. n /\ s \ {Max(s)} \in SUBSET (1 .. n)
    BY <1>2, <2>4, MaxIsMember
  <2>5. ASSUME NEW s \in SUBSET (1 .. n)
        PROVE  f[s] = Body(f)[s]
    <3>1. CASE s = {}
      BY <2>3, <3>1 DEF FoldOK
    <3>2. CASE s # {}
      <4>1. f[s \ {Max(s)}] \in T /\ f[s] = step[Max(s)][f[s \ {Max(s)}]]
        BY <2>3, <2>4, <3>2 DEF FoldOK
      <4>. QED  BY <1>3, <2>2, <2>4, <3>2, <4>1
    <3>. QED  BY <3>1, <3>2
  <2>6. f = Body(f)
    BY <2>3, <2>5 DEF FoldOK
  <2>. QED  BY <2>6
<1>5. iter = Body(iter)
  BY <1>4
<1>. HIDE DEF iter
<1>6. g[0] = base
  <2>1. 1 .. 0 = {} /\ 0 \in 0 .. n
    BY <1>2
  <2>2. Body(iter)[{}] = base
    OBVIOUS
  <2>. QED  BY <1>5, <2>1, <2>2
<1>7. ASSUME NEW i \in 1 .. n
      PROVE  g[i] = Step(g[i - 1], i)
  <2>1. Body(iter)[1 .. i] = Step(iter[1 .. (i - 1)], i)
    BY <1>2, <1>3, Intervals
  <2>2. i - 1 \in 0 .. n /\ i \in 0 .. n
    BY <1>2
  <2>. QED  BY <1>5, <2>1, <2>2
<1>. HIDE DEF g
<1>8. \A i \in 0 .. n : g[i] \in T
  <2>. DEFINE S == {i \in 0 .. n : g[i] \in T}
  <2>1. 0 \in S
    BY <1>2, <1>6
  <2>2. ASSUME NEW i \in 1 .. n, i - 1 \in S
        PROVE  i \in S
    BY <1>2, <1>7, <2>2
  <2>. HIDE DEF S
  <2>3. 0 .. n \subseteq S
    BY <1>2, <2>1, <2>2, InductionUpTo
  <2>. QED  BY <2>3 DEF S
<1>9. g \in [0 .. n -> T] /\ g[n] = Ascending(set, n)
  BY <1>1, <1>2, <1>8 DEF g
<1>10. AscendingRun(g, T, set, n)
  BY <1>6, <1>7, <1>9 DEF base, Step, AscendingRun
<1>. QED  BY <1>10

\* The steps of the first pass.
FirstPassRun(g, T, before, after) ==
  /\ g \in [0 .. Len(before) -> T] /\ g[0] = [i \in 1 .. Len(before) |-> Unmatched] /\ g[Len(before)] = FirstPass(before, after)
  /\ \A i \in 1 .. Len(before) : g[i] = MatchEqual(before, after, g[i - 1], i)

\* There is a run of those steps through any set that they do not leave.
LEMMA FirstPassSteps ==
  ASSUME NEW before, NEW after,
         NEW T, [i \in 1 .. Len(before) |-> Unmatched] \in T, Len(before) \in Nat,
         \A t \in T, i \in 1 .. Len(before) : MatchEqual(before, after, t, i) \in T
  PROVE  \E g : FirstPassRun(g, T, before, after)
<1>. DEFINE n    == Len(before)
            base == [i \in 1 .. Len(before) |-> Unmatched]
            Step(t, i) == MatchEqual(before, after, t, i)
            step == [i \in 1 .. n |-> [t \in T |-> Step(t, i)]]
            Body(f) == [s \in SUBSET (1 .. n) |->
                          IF s = {} THEN base
                          ELSE Step(f[s \ {Max(s)}], UpTo(n)[Max(s)])]
            iter == CHOOSE f : f = Body(f)
            g    == [i \in 0 .. n |-> iter[1 .. i]]
<1>1. FirstPass(before, after) = iter[1 .. n]
  BY DEF FirstPass, FoldLeft, MapThenFoldSet, UpTo
<1>. HIDE DEF n, base, Step
<1>2. n \in Nat /\ base \in T /\ \A t \in T, i \in 1 .. n : Step(t, i) \in T
  BY DEF n, base, Step
<1>3. \A i \in 1 .. n : UpTo(n)[i] = i
  BY DEF UpTo
<1>4. \E f : f = Body(f)
  <2>1. step \in [1 .. n -> [T -> T]]
    BY <1>2
  <2>2. \A i \in 1 .. n, t \in T : step[i][t] = Step(t, i)
    OBVIOUS
  <2>. HIDE DEF step
  <2>3. PICK f : FoldOK(T, base, step, n, f)
    BY <1>2, <2>1, FoldExists
  <2>4. ASSUME NEW s \in SUBSET (1 .. n), s # {}
        PROVE  Max(s) \in 1 .. n /\ s \ {Max(s)} \in SUBSET (1 .. n)
    BY <1>2, <2>4, MaxIsMember
  <2>5. ASSUME NEW s \in SUBSET (1 .. n)
        PROVE  f[s] = Body(f)[s]
    <3>1. CASE s = {}
      BY <2>3, <3>1 DEF FoldOK
    <3>2. CASE s # {}
      <4>1. f[s \ {Max(s)}] \in T /\ f[s] = step[Max(s)][f[s \ {Max(s)}]]
        BY <2>3, <2>4, <3>2 DEF FoldOK
      <4>. QED  BY <1>3, <2>2, <2>4, <3>2, <4>1
    <3>. QED  BY <3>1, <3>2
  <2>6. f = Body(f)
    BY <2>3, <2>5 DEF FoldOK
  <2>. QED  BY <2>6
<1>5. iter = Body(iter)
  BY <1>4
<1>. HIDE DEF iter
<1>6. g[0] = base
  <2>1. 1 .. 0 = {} /\ 0 \in 0 .. n
    BY <1>2
  <2>2. Body(iter)[{}] = base
    OBVIOUS
  <2>. QED  BY <1>5, <2>1, <2>2
<1>7. ASSUME NEW i \in 1 .. n
      PROVE  g[i] = Step(g[i - 1], i)
  <2>1. Body(iter)[1 .. i] = Step(iter[1 .. (i - 1)], i)
    BY <1>2, <1>3, Intervals
  <2>2. i - 1 \in 0 .. n /\ i \in 0 .. n
    BY <1>2
  <2>. QED  BY <1>5, <2>1, <2>2
<1>. HIDE DEF g
<1>8. \A i \in 0 .. n : g[i] \in T
  <2>. DEFINE S == {i \in 0 .. n : g[i] \in T}
  <2>1. 0 \in S
    BY <1>2, <1>6
  <2>2. ASSUME NEW i \in 1 .. n, i - 1 \in S
        PROVE  i \in S
    BY <1>2, <1>7, <2>2
  <2>. HIDE DEF S
  <2>3. 0 .. n \subseteq S
    BY <1>2, <2>1, <2>2, InductionUpTo
  <2>. QED  BY <2>3 DEF S
<1>9. g \in [0 .. n -> T] /\ g[n] = FirstPass(before, after)
  BY <1>1, <1>2, <1>8 DEF g
<1>10. FirstPassRun(g, T, before, after)
  BY <1>6, <1>7, <1>9 DEF n, base, Step, FirstPassRun
<1>. QED  BY <1>10

\* The steps of the second pass.
MatchOpsRun(g, T, before, after) ==
  /\ g \in [0 .. Len(before) -> T] /\ g[0] = FirstPass(before, after) /\ g[Len(before)] = MatchOps(before, after)
  /\ \A i \in 1 .. Len(before) : g[i] = MatchBest(before, after, g[i - 1], i)

\* There is a run of those steps through any set that they do not leave.
LEMMA MatchOpsSteps ==
  ASSUME NEW before, NEW after,
         NEW T, FirstPass(before, after) \in T, Len(before) \in Nat,
         \A t \in T, i \in 1 .. Len(before) : MatchBest(before, after, t, i) \in T
  PROVE  \E g : MatchOpsRun(g, T, before, after)
<1>. DEFINE n    == Len(before)
            base == FirstPass(before, after)
            Step(t, i) == MatchBest(before, after, t, i)
            step == [i \in 1 .. n |-> [t \in T |-> Step(t, i)]]
            Body(f) == [s \in SUBSET (1 .. n) |->
                          IF s = {} THEN base
                          ELSE Step(f[s \ {Max(s)}], UpTo(n)[Max(s)])]
            iter == CHOOSE f : f = Body(f)
            g    == [i \in 0 .. n |-> iter[1 .. i]]
<1>1. MatchOps(before, after) = iter[1 .. n]
  BY DEF MatchOps, FoldLeft, MapThenFoldSet, UpTo
<1>. HIDE DEF n, base, Step
<1>2. n \in Nat /\ base \in T /\ \A t \in T, i \in 1 .. n : Step(t, i) \in T
  BY DEF n, base, Step
<1>3. \A i \in 1 .. n : UpTo(n)[i] = i
  BY DEF UpTo
<1>4. \E f : f = Body(f)
  <2>1. step \in [1 .. n -> [T -> T]]
    BY <1>2
  <2>2. \A i \in 1 .. n, t \in T : step[i][t] = Step(t, i)
    OBVIOUS
  <2>. HIDE DEF step
  <2>3. PICK f : FoldOK(T, base, step, n, f)
    BY <1>2, <2>1, FoldExists
  <2>4. ASSUME NEW s \in SUBSET (1 .. n), s # {}
        PROVE  Max(s) \in 1 .. n /\ s \ {Max(s)} \in SUBSET (1 .. n)
    BY <1>2, <2>4, MaxIsMember
  <2>5. ASSUME NEW s \in SUBSET (1 .. n)
        PROVE  f[s] = Body(f)[s]
    <3>1. CASE s = {}
      BY <2>3, <3>1 DEF FoldOK
    <3>2. CASE s # {}
      <4>1. f[s \ {Max(s)}] \in T /\ f[s] = step[Max(s)][f[s \ {Max(s)}]]
        BY <2>3, <2>4, <3>2 DEF FoldOK
      <4>. QED  BY <1>3, <2>2, <2>4, <3>2, <4>1
    <3>. QED  BY <3>1, <3>2
  <2>6. f = Body(f)
    BY <2>3, <2>5 DEF FoldOK
  <2>. QED  BY <2>6
<1>5. iter = Body(iter)
  BY <1>4
<1>. HIDE DEF iter
<1>6. g[0] = base
  <2>1. 1 .. 0 = {} /\ 0 \in 0 .. n
    BY <1>2
  <2>2. Body(iter)[{}] = base
    OBVIOUS
  <2>. QED  BY <1>5, <2>1, <2>2
<1>7. ASSUME NEW i \in 1 .. n
      PROVE  g[i] = Step(g[i - 1], i)
  <2>1. Body(iter)[1 .. i] = Step(iter[1 .. (i - 1)], i)
    BY <1>2, <1>3, Intervals
  <2>2. i - 1 \in 0 .. n /\ i \in 0 .. n
    BY <1>2
  <2>. QED  BY <1>5, <2>1, <2>2
<1>. HIDE DEF g
<1>8. \A i \in 0 .. n : g[i] \in T
  <2>. DEFINE S == {i \in 0 .. n : g[i] \in T}
  <2>1. 0 \in S
    BY <1>2, <1>6
  <2>2. ASSUME NEW i \in 1 .. n, i - 1 \in S
        PROVE  i \in S
    BY <1>2, <1>7, <2>2
  <2>. HIDE DEF S
  <2>3. 0 .. n \subseteq S
    BY <1>2, <2>1, <2>2, InductionUpTo
  <2>. QED  BY <2>3 DEF S
<1>9. g \in [0 .. n -> T] /\ g[n] = MatchOps(before, after)
  BY <1>1, <1>2, <1>8 DEF g
<1>10. MatchOpsRun(g, T, before, after)
  BY <1>6, <1>7, <1>9 DEF n, base, Step, MatchOpsRun
<1>. QED  BY <1>10

\* The steps of the walk over the operations after.
ChangesRun(g, T, before, after, match) ==
  /\ g \in [0 .. Len(after) -> T] /\ g[0] = [out |-> <<>>, done |-> 0] /\ g[Len(after)] = EndOfChanges(before, after, match)
  /\ \A i \in 1 .. Len(after) : g[i] = PushChange(before, after, match, g[i - 1], i)

\* There is a run of those steps through any set that they do not leave.
LEMMA ChangesSteps ==
  ASSUME NEW before, NEW after, NEW match,
         NEW T, [out |-> <<>>, done |-> 0] \in T, Len(after) \in Nat,
         \A t \in T, i \in 1 .. Len(after) : PushChange(before, after, match, t, i) \in T
  PROVE  \E g : ChangesRun(g, T, before, after, match)
<1>. DEFINE n    == Len(after)
            base == [out |-> <<>>, done |-> 0]
            Step(t, i) == PushChange(before, after, match, t, i)
            step == [i \in 1 .. n |-> [t \in T |-> Step(t, i)]]
            Body(f) == [s \in SUBSET (1 .. n) |->
                          IF s = {} THEN base
                          ELSE Step(f[s \ {Max(s)}], UpTo(n)[Max(s)])]
            iter == CHOOSE f : f = Body(f)
            g    == [i \in 0 .. n |-> iter[1 .. i]]
<1>1. EndOfChanges(before, after, match) = iter[1 .. n]
  BY DEF EndOfChanges, FoldLeft, MapThenFoldSet, UpTo
<1>. HIDE DEF n, base, Step
<1>2. n \in Nat /\ base \in T /\ \A t \in T, i \in 1 .. n : Step(t, i) \in T
  BY DEF n, base, Step
<1>3. \A i \in 1 .. n : UpTo(n)[i] = i
  BY DEF UpTo
<1>4. \E f : f = Body(f)
  <2>1. step \in [1 .. n -> [T -> T]]
    BY <1>2
  <2>2. \A i \in 1 .. n, t \in T : step[i][t] = Step(t, i)
    OBVIOUS
  <2>. HIDE DEF step
  <2>3. PICK f : FoldOK(T, base, step, n, f)
    BY <1>2, <2>1, FoldExists
  <2>4. ASSUME NEW s \in SUBSET (1 .. n), s # {}
        PROVE  Max(s) \in 1 .. n /\ s \ {Max(s)} \in SUBSET (1 .. n)
    BY <1>2, <2>4, MaxIsMember
  <2>5. ASSUME NEW s \in SUBSET (1 .. n)
        PROVE  f[s] = Body(f)[s]
    <3>1. CASE s = {}
      BY <2>3, <3>1 DEF FoldOK
    <3>2. CASE s # {}
      <4>1. f[s \ {Max(s)}] \in T /\ f[s] = step[Max(s)][f[s \ {Max(s)}]]
        BY <2>3, <2>4, <3>2 DEF FoldOK
      <4>. QED  BY <1>3, <2>2, <2>4, <3>2, <4>1
    <3>. QED  BY <3>1, <3>2
  <2>6. f = Body(f)
    BY <2>3, <2>5 DEF FoldOK
  <2>. QED  BY <2>6
<1>5. iter = Body(iter)
  BY <1>4
<1>. HIDE DEF iter
<1>6. g[0] = base
  <2>1. 1 .. 0 = {} /\ 0 \in 0 .. n
    BY <1>2
  <2>2. Body(iter)[{}] = base
    OBVIOUS
  <2>. QED  BY <1>5, <2>1, <2>2
<1>7. ASSUME NEW i \in 1 .. n
      PROVE  g[i] = Step(g[i - 1], i)
  <2>1. Body(iter)[1 .. i] = Step(iter[1 .. (i - 1)], i)
    BY <1>2, <1>3, Intervals
  <2>2. i - 1 \in 0 .. n /\ i \in 0 .. n
    BY <1>2
  <2>. QED  BY <1>5, <2>1, <2>2
<1>. HIDE DEF g
<1>8. \A i \in 0 .. n : g[i] \in T
  <2>. DEFINE S == {i \in 0 .. n : g[i] \in T}
  <2>1. 0 \in S
    BY <1>2, <1>6
  <2>2. ASSUME NEW i \in 1 .. n, i - 1 \in S
        PROVE  i \in S
    BY <1>2, <1>7, <2>2
  <2>. HIDE DEF S
  <2>3. 0 .. n \subseteq S
    BY <1>2, <2>1, <2>2, InductionUpTo
  <2>. QED  BY <2>3 DEF S
<1>9. g \in [0 .. n -> T] /\ g[n] = EndOfChanges(before, after, match)
  BY <1>1, <1>2, <1>8 DEF g
<1>10. ChangesRun(g, T, before, after, match)
  BY <1>6, <1>7, <1>9 DEF n, base, Step, ChangesRun
<1>. QED  BY <1>10

\* A sequence of numbers that lists the members of a set up to n in ascending order.
ListsUpTo(seq, set, n) ==
  /\ seq \in Seq(Nat)
  /\ \A k \in 1 .. Len(seq) : seq[k] \in set /\ seq[k] \in 1 .. n
  /\ \A i \in set : i \in 1 .. n => \E k \in 1 .. Len(seq) : seq[k] = i
  /\ \A k, l \in 1 .. Len(seq) : k < l => seq[k] < seq[l]

\* One number more is listed, if it is in the set.
LEMMA EnlistLists ==
  ASSUME NEW set, NEW i \in Nat \ {0}, NEW seq, ListsUpTo(seq, set, i - 1)
  PROVE  ListsUpTo(Enlist(set, seq, i), set, i)
<1>. DEFINE new == Enlist(set, seq, i)
<1>1. seq \in Seq(Nat) /\ Len(seq) \in Nat
  BY DEF ListsUpTo
<1>2. CASE i \notin set
  <2>1. new = seq
    BY <1>2 DEF Enlist
  <2>2. \A k \in 1 .. Len(seq) : seq[k] \in set /\ seq[k] \in 1 .. i
    BY DEF ListsUpTo
  <2>3. \A j \in set : j \in 1 .. i => \E k \in 1 .. Len(seq) : seq[k] = j
    <3>1. ASSUME NEW j \in set, j \in 1 .. i
          PROVE  j \in 1 .. (i - 1)
      BY <1>2, <3>1
    <3>. QED  BY <3>1 DEF ListsUpTo
  <2>. QED  BY <2>1, <2>2, <2>3 DEF ListsUpTo
<1>3. CASE i \in set
  <2>1. /\ new \in Seq(Nat) /\ Len(new) = Len(seq) + 1 /\ new[Len(seq) + 1] = i
        /\ \A k \in 1 .. Len(seq) : new[k] = seq[k]
    BY <1>1, <1>3 DEF Enlist
  <2>. HIDE DEF new
  <2>2. \A k \in 1 .. Len(new) : k = Len(seq) + 1 \/ k \in 1 .. Len(seq)
    BY <1>1, <2>1
  <2>3. ASSUME NEW k \in 1 .. Len(new)
        PROVE  new[k] \in set /\ new[k] \in 1 .. i
    <3>1. CASE k = Len(seq) + 1
      BY <1>3, <2>1, <3>1
    <3>2. CASE k \in 1 .. Len(seq)
      <4>1. seq[k] \in set /\ seq[k] \in 1 .. (i - 1)
        BY <3>2 DEF ListsUpTo
      <4>. QED  BY <2>1, <3>2, <4>1
    <3>. QED  BY <2>2, <3>1, <3>2
  <2>4. ASSUME NEW j \in set, j \in 1 .. i
        PROVE  \E k \in 1 .. Len(new) : new[k] = j
    <3>1. CASE j = i
      BY <1>1, <2>1, <3>1
    <3>2. CASE j # i
      <4>1. j \in 1 .. (i - 1)
        BY <2>4, <3>2
      <4>2. PICK k \in 1 .. Len(seq) : seq[k] = j
        BY <4>1 DEF ListsUpTo
      <4>. QED  BY <1>1, <2>1, <4>2
    <3>. QED  BY <3>1, <3>2
  <2>5. ASSUME NEW k \in 1 .. Len(new), NEW l \in 1 .. Len(new), k < l
        PROVE  new[k] < new[l]
    <3>1. k \in 1 .. Len(seq)
      BY <1>1, <2>1, <2>5
    <3>2. seq[k] \in 1 .. (i - 1)
      BY <3>1 DEF ListsUpTo
    <3>3. CASE l = Len(seq) + 1
      BY <2>1, <3>1, <3>2, <3>3
    <3>4. CASE l \in 1 .. Len(seq)
      BY <2>1, <2>5, <3>1, <3>4 DEF ListsUpTo
    <3>. QED  BY <2>2, <3>3, <3>4
  <2>. QED  BY <2>1, <2>3, <2>4, <2>5 DEF ListsUpTo, new
<1>. QED  BY <1>2, <1>3

\* The list of a set lists it.
LEMMA AscendingLists ==
  ASSUME NEW set, NEW n \in Nat
  PROVE  ListsUpTo(Ascending(set, n), set, n)
<1>. DEFINE T == Seq(Nat)
<1>1. <<>> \in T /\ \A t \in T, i \in 1 .. n : Enlist(set, t, i) \in T
  BY DEF Enlist
<1>. HIDE DEF T
<1>2. PICK g : AscendingRun(g, T, set, n)
  BY <1>1, AscendingSteps
<1>. DEFINE S == {i \in 0 .. n : ListsUpTo(g[i], set, i)}
<1>3. 0 \in S
  <2>1. <<>> \in Seq(Nat) /\ Len(<<>>) = 0 /\ 1 .. 0 = {}
    OBVIOUS
  <2>2. ListsUpTo(<<>>, set, 0)
    BY <2>1 DEF ListsUpTo
  <2>. QED  BY <1>2, <2>2 DEF AscendingRun
<1>4. ASSUME NEW i \in 1 .. n, i - 1 \in S
      PROVE  i \in S
  BY <1>2, <1>4, EnlistLists DEF AscendingRun
<1>. HIDE DEF S
<1>5. 0 .. n \subseteq S
  BY <1>3, <1>4, InductionUpTo
<1>6. n \in S
  BY <1>5
<1>. QED  BY <1>2, <1>6 DEF S, AscendingRun

-----------------------------------------------------------------------------
(* The matching of the operations of two snapshots. *)

\* What the passes of the matching keep: no operation after is matched twice.
Matchings(before, after) ==
  {match \in [1 .. Len(before) -> 0 .. Len(after)] :
     \A i, j \in 1 .. Len(before) : (match[i] = match[j] /\ match[i] # Unmatched) => i = j}

\* A match with a free operation leaves a matching.
LEMMA MatchWithKeeps ==
  ASSUME NEW before, NEW after, Len(before) \in Nat, Len(after) \in Nat,
         NEW match \in Matchings(before, after), NEW i \in 1 .. Len(before),
         NEW some \in SUBSET Free(after, match)
  PROVE  MatchWith(match, i, some) \in Matchings(before, after)
<1>. DEFINE new == MatchWith(match, i, some)
            j   == IF some = {} THEN Unmatched ELSE Min(some)
<1>1. match \in [1 .. Len(before) -> 0 .. Len(after)]
  BY DEF Matchings
<1>2. j # Unmatched => j \in Free(after, match)
  <2>1. some \in SUBSET Nat
    BY DEF Free
  <2>. QED  BY <2>1, MinIsMember
<1>3. j \in 0 .. Len(after)
  BY <1>2 DEF Free, Unmatched
<1>4. new = [match EXCEPT ![i] = j]
  BY DEF MatchWith
<1>. HIDE DEF new, j
<1>5. new \in [1 .. Len(before) -> 0 .. Len(after)]
  BY <1>1, <1>3, <1>4
<1>6. ASSUME NEW k \in 1 .. Len(before), NEW l \in 1 .. Len(before),
             new[k] = new[l], new[k] # Unmatched
      PROVE  k = l
  <2>1. \A m \in 1 .. Len(before) : new[m] = IF m = i THEN j ELSE match[m]
    BY <1>1, <1>4
  <2>2. CASE k = i \/ l = i
    BY <1>1, <1>2, <1>6, <2>1, <2>2 DEF Free
  <2>3. CASE k # i /\ l # i
    BY <1>6, <2>1, <2>3 DEF Matchings
  <2>. QED  BY <2>2, <2>3
<1>. QED  BY <1>5, <1>6 DEF Matchings, new

\* A step of the first pass leaves a matching.
LEMMA MatchEqualKeeps ==
  ASSUME NEW before, NEW after, Len(before) \in Nat, Len(after) \in Nat,
         NEW match \in Matchings(before, after), NEW i \in 1 .. Len(before)
  PROVE  MatchEqual(before, after, match, i) \in Matchings(before, after)
<1>. DEFINE some == {j \in Free(after, match) : Fingerprint(after[j]) = Fingerprint(before[i])}
<1>1. some \in SUBSET Free(after, match)
  OBVIOUS
<1>2. MatchEqual(before, after, match, i) = MatchWith(match, i, some)
  BY DEF MatchEqual
<1>. HIDE DEF some
<1>. QED  BY <1>1, <1>2, MatchWithKeeps

\* A step of the second pass leaves a matching.
LEMMA MatchBestKeeps ==
  ASSUME NEW before, NEW after, Len(before) \in Nat, Len(after) \in Nat,
         NEW match \in Matchings(before, after), NEW i \in 1 .. Len(before)
  PROVE  MatchBest(before, after, match, i) \in Matchings(before, after)
<1>. DEFINE some == Best(Scores(before[i], after, Free(after, match)))
<1>1. some \in SUBSET Free(after, match)
  BY DEF Best, Scores
<1>2. MatchBest(before, after, match, i) = match
        \/ MatchBest(before, after, match, i) = MatchWith(match, i, some)
  BY DEF MatchBest
<1>. HIDE DEF some
<1>. QED  BY <1>1, <1>2, MatchWithKeeps

\* The first pass goes through matchings.
LEMMA FirstPassRuns ==
  ASSUME NEW before, NEW after, Len(before) \in Nat, Len(after) \in Nat
  PROVE  \E g : FirstPassRun(g, Matchings(before, after), before, after)
<1>. DEFINE T == Matchings(before, after)
<1>1. [i \in 1 .. Len(before) |-> Unmatched] \in T
  BY DEF Matchings, Unmatched
<1>2. \A t \in T, i \in 1 .. Len(before) : MatchEqual(before, after, t, i) \in T
  BY MatchEqualKeeps
<1>. HIDE DEF T
<1>3. \E g : FirstPassRun(g, T, before, after)
  BY <1>1, <1>2, FirstPassSteps
<1>. QED  BY <1>3 DEF T

\* So does the second.
LEMMA MatchOpsRuns ==
  ASSUME NEW before, NEW after, Len(before) \in Nat, Len(after) \in Nat
  PROVE  \E g : MatchOpsRun(g, Matchings(before, after), before, after)
<1>. DEFINE T == Matchings(before, after)
<1>1. FirstPass(before, after) \in T
  <2>1. PICK g : FirstPassRun(g, T, before, after)
    BY FirstPassRuns
  <2>. HIDE DEF T
  <2>. QED  BY <2>1 DEF FirstPassRun
<1>2. \A t \in T, i \in 1 .. Len(before) : MatchBest(before, after, t, i) \in T
  BY MatchBestKeeps
<1>. HIDE DEF T
<1>3. \E g : MatchOpsRun(g, T, before, after)
  BY <1>1, <1>2, MatchOpsSteps
<1>. QED  BY <1>3 DEF T

\* The matching of two snapshots is one.
LEMMA MatchOpsMatches ==
  ASSUME NEW before, NEW after, Len(before) \in Nat, Len(after) \in Nat
  PROVE  MatchOps(before, after) \in Matchings(before, after)
<1>. DEFINE T == Matchings(before, after)
<1>1. PICK g : MatchOpsRun(g, T, before, after)
  BY MatchOpsRuns
<1>. HIDE DEF T
<1>2. MatchOps(before, after) \in T
  BY <1>1 DEF MatchOpsRun
<1>. QED  BY <1>2 DEF T

-----------------------------------------------------------------------------
(* The changes that a matching yields. *)

Classes == {"unchanged", "modified", "added", "removed"}
Changes(before, after) ==
  [class : Classes, before : 0 .. Len(before), after : 0 .. Len(after)]

\* An operation is in one change of a list, or in none.
Once(changes, side, x) ==
  \E k \in 1 .. Len(changes) : \A l \in 1 .. Len(changes) : changes[l][side] = x <=> l = k
Never(changes, side, x) == \A l \in 1 .. Len(changes) : changes[l][side] # x

\* What two lists of changes mention together.
LEMMA MentionsOfConcat ==
  ASSUME NEW S, NEW s \in Seq(S), NEW t \in Seq(S), NEW side, NEW x
  PROVE  /\ Never(s, side, x) /\ Never(t, side, x) => Never(s \o t, side, x)
         /\ Once(s, side, x) /\ Never(t, side, x) => Once(s \o t, side, x)
         /\ Never(s, side, x) /\ Once(t, side, x) => Once(s \o t, side, x)
<1>. DEFINE st == s \o t
<1>1. /\ Len(s) \in Nat /\ Len(t) \in Nat /\ Len(st) = Len(s) + Len(t)
      /\ \A l \in 1 .. Len(s) : l \in 1 .. Len(st) /\ st[l] = s[l]
      /\ \A l \in 1 .. Len(t) : Len(s) + l \in 1 .. Len(st) /\ st[Len(s) + l] = t[l]
  OBVIOUS
<1>2. ASSUME NEW l \in 1 .. Len(st)
      PROVE  \/ l \in 1 .. Len(s) /\ st[l] = s[l]
             \/ l - Len(s) \in 1 .. Len(t) /\ st[l] = t[l - Len(s)] /\ l \notin 1 .. Len(s)
  OBVIOUS
<1>. HIDE DEF st
<1>3. ASSUME Never(s, side, x), Never(t, side, x)
      PROVE  Never(st, side, x)
  BY <1>2, <1>3 DEF Never
<1>4. ASSUME Once(s, side, x), Never(t, side, x)
      PROVE  Once(st, side, x)
  <2>1. PICK k \in 1 .. Len(s) : \A l \in 1 .. Len(s) : s[l][side] = x <=> l = k
    BY <1>4 DEF Once
  <2>2. k \in 1 .. Len(st) /\ \A l \in 1 .. Len(st) : st[l][side] = x <=> l = k
    BY <1>1, <1>2, <1>4, <2>1 DEF Never
  <2>. QED  BY <2>2 DEF Once
<1>5. ASSUME Never(s, side, x), Once(t, side, x)
      PROVE  Once(st, side, x)
  <2>1. PICK k \in 1 .. Len(t) : \A l \in 1 .. Len(t) : t[l][side] = x <=> l = k
    BY <1>5 DEF Once
  <2>2. ASSUME NEW l \in 1 .. Len(st)
        PROVE  st[l][side] = x <=> l = Len(s) + k
    <3>1. CASE l \in 1 .. Len(s) /\ st[l] = s[l]
      BY <1>1, <1>5, <3>1 DEF Never
    <3>2. CASE l - Len(s) \in 1 .. Len(t) /\ st[l] = t[l - Len(s)]
      <4>1. t[l - Len(s)][side] = x <=> l - Len(s) = k
        BY <2>1, <3>2
      <4>. QED  BY <1>1, <3>2, <4>1
    <3>. QED  BY <1>2, <3>1, <3>2
  <2>3. Len(s) + k \in 1 .. Len(st)
    BY <1>1
  <2>. QED  BY <2>2, <2>3 DEF Once
<1>. QED  BY <1>3, <1>4, <1>5 DEF st

\* A list of one change mentions what it is of.
LEMMA MentionsOfOne ==
  ASSUME NEW c, NEW side, NEW x
  PROVE  IF c[side] = x THEN Once(<<c>>, side, x) ELSE Never(<<c>>, side, x)
<1>1. Len(<<c>>) = 1 /\ <<c>>[1] = c /\ 1 \in 1 .. 1
  OBVIOUS
<1>2. \A l \in 1 .. Len(<<c>>) : l = 1
  BY <1>1
<1>. QED  BY <1>1, <1>2 DEF Once, Never

\* The operations between two that are removed: those matched with none, once.
LEMMA RemovedProperties ==
  ASSUME NEW before, NEW after, Len(before) \in Nat, Len(after) \in Nat,
         NEW match \in Matchings(before, after), NEW from \in Nat, NEW to \in Nat
  PROVE  LET r == Removed(match, from, to) IN
         /\ r \in Seq(Changes(before, after))
         /\ \A i \in 1 .. Len(before) :
              IF match[i] = Unmatched /\ from < i /\ i < to
              THEN Once(r, "before", i) ELSE Never(r, "before", i)
         /\ \A k \in 1 .. Len(r) :
              r[k].class = "removed" /\ r[k].after = Nothing
              /\ r[k].before \in 1 .. Len(before) /\ match[r[k].before] = Unmatched
<1>. DEFINE gone == {i \in DOMAIN match : match[i] = Unmatched /\ from < i /\ i < to}
            n    == Len(before)
            some == Ascending(gone, n)
            r    == Removed(match, from, to)
<1>1. DOMAIN match = 1 .. n /\ Len(match) = n /\ n \in Nat
  <2>1. match \in [1 .. n -> 0 .. Len(after)]
    BY DEF Matchings
  <2>2. match \in Seq(0 .. Len(after)) /\ DOMAIN match = 1 .. n
    BY <2>1
  <2>. QED  BY <2>2
<1>2. ListsUpTo(some, gone, n)
  BY AscendingLists
<1>3. r = [k \in DOMAIN some |-> Change("removed", some[k], Nothing)]
  BY <1>1 DEF Removed
<1>4. \A i : i \in gone <=> i \in 1 .. n /\ match[i] = Unmatched /\ from < i /\ i < to
  BY <1>1
<1>. HIDE DEF gone, some, r, n
<1>5. some \in Seq(Nat) /\ DOMAIN some = 1 .. Len(some) /\ Len(some) \in Nat
  BY <1>2 DEF ListsUpTo
<1>6. \A k \in 1 .. Len(some) : some[k] \in gone /\ some[k] \in 1 .. n
  BY <1>2 DEF ListsUpTo
<1>7. \A k \in 1 .. Len(some) : Change("removed", some[k], Nothing) \in Changes(before, after)
  BY <1>6 DEF Change, Changes, Classes, Nothing, n
<1>8. r \in Seq(Changes(before, after)) /\ Len(r) = Len(some)
  <2>. DEFINE C == Changes(before, after)
  <2>. HIDE DEF C
  <2>1. \A k \in 1 .. Len(some) : Change("removed", some[k], Nothing) \in C
    BY <1>7 DEF C
  <2>2. r \in [1 .. Len(some) -> C]
    BY <1>3, <1>5, <2>1
  <2>3. r \in Seq(C) /\ Len(r) = Len(some)
    BY <1>5, <2>2
  <2>. QED  BY <2>3 DEF C
<1>9. ASSUME NEW k \in 1 .. Len(r)
      PROVE  r[k].class = "removed" /\ r[k].before = some[k] /\ r[k].after = Nothing
  <2>1. r[k] = [class |-> "removed", before |-> some[k], after |-> Nothing]
    BY <1>3, <1>5, <1>8 DEF Change
  <2>. QED  BY <2>1
<1>10. \A k \in 1 .. Len(r) :
              r[k].class = "removed" /\ r[k].after = Nothing
              /\ r[k].before \in 1 .. Len(before) /\ match[r[k].before] = Unmatched
  BY <1>4, <1>6, <1>8, <1>9 DEF n
<1>11. ASSUME NEW i \in 1 .. n
       PROVE  IF i \in gone THEN Once(r, "before", i) ELSE Never(r, "before", i)
  <2>1. \A k \in 1 .. Len(r) : r[k]["before"] = some[k]
    BY <1>9
  <2>2. CASE i \in gone
    <3>1. PICK k \in 1 .. Len(some) : some[k] = i
      BY <1>2, <2>2 DEF ListsUpTo
    <3>2. \A l \in 1 .. Len(some) : some[l] = i => l = k
      <4>1. ASSUME NEW l \in 1 .. Len(some), some[l] = i, l # k
            PROVE  FALSE
        <5>1. l < k \/ k < l
          BY <1>5, <4>1
        <5>2. some[l] < some[k] \/ some[k] < some[l]
          BY <1>2, <5>1 DEF ListsUpTo
        <5>3. i \in Nat
          BY <1>1
        <5>. QED  BY <3>1, <4>1, <5>2, <5>3
      <4>. QED  BY <4>1
    <3>3. k \in 1 .. Len(r) /\ \A l \in 1 .. Len(r) : r[l]["before"] = i <=> l = k
      BY <1>8, <2>1, <3>1, <3>2
    <3>4. Once(r, "before", i)
      BY <3>3 DEF Once
    <3>. QED  BY <2>2, <3>4
  <2>3. CASE i \notin gone
    BY <1>6, <1>8, <2>1, <2>3 DEF Never
  <2>. QED  BY <2>2, <2>3
<1>. QED  BY <1>4, <1>8, <1>10, <1>11 DEF r, n

States(before, after) == [out : Seq(Changes(before, after)), done : 0 .. Len(before)]

\* What the walk has reported when it has come to the operation j after: it and those
\* before it in their order, what they are matched with, and of the operations before
\* that are gone those that precede what was reached.
Accounted(before, after, match, state, j) ==
  /\ state \in States(before, after)
  /\ state.done # 0 => match[state.done] # Unmatched
  /\ \A a \in 1 .. Len(after) :
       IF a <= j THEN Once(state.out, "after", a) ELSE Never(state.out, "after", a)
  /\ \A b \in 1 .. Len(before) :
       IF (match[b] = Unmatched /\ b < state.done) \/ match[b] \in 1 .. j
       THEN Once(state.out, "before", b) ELSE Never(state.out, "before", b)
  /\ \A k, l \in 1 .. Len(state.out) :
       (k < l /\ state.out[k].after # Nothing /\ state.out[l].after # Nothing) =>
         state.out[k].after < state.out[l].after
  /\ \A k \in 1 .. Len(state.out) :
       /\ state.out[k].class = "removed" =>
            state.out[k].before \in 1 .. Len(before) /\ match[state.out[k].before] = Unmatched
       /\ state.out[k].class = "added" => state.out[k].after \in Free(after, match)

\* The walk in one expression: what an operation after adds to the list.
Addition(before, after, match, state, j) ==
  IF Sources(match, j) = {} THEN <<Change("added", Nothing, j)>>
  ELSE Removed(match, state.done, Max(Sources(match, j)))
         \o <<MatchedChange(before, after, Max(Sources(match, j)), j)>>

\* The last operation before that is then reached.
Reached(match, state, j) ==
  IF Sources(match, j) = {} THEN state.done ELSE Max({state.done, Max(Sources(match, j))})

\* An operation after is free, or matched with one operation before.
LEMMA SourcesOfOne ==
  ASSUME NEW before, NEW after, Len(before) \in Nat, Len(after) \in Nat,
         NEW match \in Matchings(before, after), NEW j \in 1 .. Len(after)
  PROVE  /\ Sources(match, j) = {} => j \in Free(after, match)
         /\ Sources(match, j) # {} =>
              /\ Max(Sources(match, j)) \in 1 .. Len(before)
              /\ \A b \in 1 .. Len(before) : match[b] = j <=> b = Max(Sources(match, j))
<1>1. match \in [1 .. Len(before) -> 0 .. Len(after)]
  BY DEF Matchings
<1>2. Sources(match, j) \in SUBSET (1 .. Len(before))
  BY <1>1 DEF Sources
<1>3. Sources(match, j) = {} => j \in Free(after, match)
  BY <1>1 DEF Sources, Free
<1>4. ASSUME Sources(match, j) # {}
      PROVE  /\ Max(Sources(match, j)) \in 1 .. Len(before)
             /\ \A b \in 1 .. Len(before) : match[b] = j <=> b = Max(Sources(match, j))
  <2>1. Max(Sources(match, j)) \in Sources(match, j)
    BY <1>2, <1>4, MaxIsMember
  <2>2. Max(Sources(match, j)) \in 1 .. Len(before) /\ match[Max(Sources(match, j))] = j
    BY <1>1, <2>1 DEF Sources
  <2>3. j # Unmatched
    BY DEF Unmatched
  <2>. QED  BY <2>2, <2>3 DEF Matchings
<1>. QED  BY <1>3, <1>4

\* The greater of two numbers.
LEMMA MaxOfTwo ==
  ASSUME NEW a \in Nat, NEW b \in Nat
  PROVE  Max({a, b}) = IF a >= b THEN a ELSE b
<1>. DEFINE m == IF a >= b THEN a ELSE b
<1>1. m \in {a, b} /\ \A y \in {a, b} : m >= y
  OBVIOUS
<1>2. \A x \in {a, b} : (\A y \in {a, b} : x >= y) => x = m
  OBVIOUS
<1>. HIDE DEF m
<1>3. Max({a, b}) = m
  BY <1>1, <1>2 DEF Max
<1>. QED  BY <1>3 DEF m

\* What is added: the operation after, what it is matched with, and what is gone
\* between what was reached and that.
LEMMA AdditionProperties ==
  ASSUME NEW before, NEW after, Len(before) \in Nat, Len(after) \in Nat,
         NEW match \in Matchings(before, after), NEW j \in 1 .. Len(after),
         NEW state, state.done \in 0 .. Len(before)
  PROVE  LET more == Addition(before, after, match, state, j)
             done == Reached(match, state, j)
         IN
         /\ more \in Seq(Changes(before, after)) /\ done \in 0 .. Len(before)
         /\ \A a \in 1 .. Len(after) :
              IF a = j THEN Once(more, "after", a) ELSE Never(more, "after", a)
         /\ \A b \in 1 .. Len(before) :
              IF (match[b] = Unmatched /\ state.done < b /\ b < done) \/ match[b] = j
              THEN Once(more, "before", b) ELSE Never(more, "before", b)
         /\ \A k \in 1 .. Len(more) : more[k].after # Nothing => k = Len(more) /\ more[k].after = j
         /\ \A k \in 1 .. Len(more) :
              /\ more[k].class = "removed" =>
                   more[k].before \in 1 .. Len(before) /\ match[more[k].before] = Unmatched
              /\ more[k].class = "added" => more[k].after \in Free(after, match)
<1>. DEFINE n    == Len(before)
            C    == Changes(before, after)
            more == Addition(before, after, match, state, j)
            done == Reached(match, state, j)
            Good(m, d) ==
         /\ m \in Seq(C) /\ d \in 0 .. n
         /\ \A a \in 1 .. Len(after) :
              IF a = j THEN Once(m, "after", a) ELSE Never(m, "after", a)
         /\ \A b \in 1 .. n :
              IF (match[b] = Unmatched /\ state.done < b /\ b < d) \/ match[b] = j
              THEN Once(m, "before", b) ELSE Never(m, "before", b)
         /\ \A k \in 1 .. Len(m) : m[k].after # Nothing => k = Len(m) /\ m[k].after = j
         /\ \A k \in 1 .. Len(m) :
              /\ m[k].class = "removed" =>
                   m[k].before \in 1 .. n /\ match[m[k].before] = Unmatched
              /\ m[k].class = "added" => m[k].after \in Free(after, match)
<1>1. match \in [1 .. n -> 0 .. Len(after)]
  BY DEF Matchings
<1>2. ASSUME Sources(match, j) = {} PROVE Good(more, done)
  <2>. DEFINE c == Change("added", Nothing, j)
  <2>1. more = <<c>> /\ done = state.done
    BY <1>2 DEF Addition, Reached
  <2>2. c \in C /\ c.class = "added" /\ c["after"] = j /\ c["before"] = 0 /\ c.after = j
    BY DEF Change, Changes, Classes, Nothing
  <2>. HIDE DEF c, C
  <2>3. <<c>> \in Seq(C) /\ Len(<<c>>) = 1 /\ <<c>>[1] = c
    BY <2>2
  <2>4. \A a \in 1 .. Len(after) :
          IF a = j THEN Once(<<c>>, "after", a) ELSE Never(<<c>>, "after", a)
    BY <2>2, MentionsOfOne
  <2>5. \A b \in 1 .. n : Never(<<c>>, "before", b) /\ match[b] # j
    <3>1. \A b \in 1 .. n : b # 0
      OBVIOUS
    <3>2. \A b \in 1 .. n : match[b] # j
      BY <1>1, <1>2 DEF Sources
    <3>. QED  BY <2>2, <3>1, <3>2, MentionsOfOne
  <2>6. j \in Free(after, match)
    BY <1>2, SourcesOfOne
  <2>7. \A b \in 1 .. n : ~((match[b] = Unmatched /\ state.done < b /\ b < done) \/ match[b] = j)
    BY <2>1, <2>5
  <2>8. \A k \in 1 .. Len(<<c>>) : k = 1
    BY <2>3
  <2>9. Good(<<c>>, state.done)
    BY <2>1, <2>2, <2>3, <2>4, <2>5, <2>6, <2>7, <2>8
  <2>. QED  BY <2>1, <2>9
<1>3. ASSUME Sources(match, j) # {} PROVE Good(more, done)
  <2>. DEFINE i == Max(Sources(match, j))
              r == Removed(match, state.done, i)
              c == MatchedChange(before, after, i, j)
  <2>1. i \in 1 .. n /\ \A b \in 1 .. n : match[b] = j <=> b = i
    BY <1>3, SourcesOfOne
  <2>2. more = r \o <<c>> /\ done = IF state.done >= i THEN state.done ELSE i
    BY <1>3, <2>1, MaxOfTwo DEF Addition, Reached
  <2>3. c \in C /\ c.class \in {"unchanged", "modified"} /\ c["after"] = j /\ c["before"] = i /\ c.after = j
    BY <2>1 DEF MatchedChange, Change, Changes, Classes
  <2>4. /\ r \in Seq(C)
        /\ \A b \in 1 .. n :
              IF match[b] = Unmatched /\ state.done < b /\ b < i
              THEN Once(r, "before", b) ELSE Never(r, "before", b)
        /\ \A k \in 1 .. Len(r) :
              r[k].class = "removed" /\ r[k].after = Nothing
              /\ r[k].before \in 1 .. n /\ match[r[k].before] = Unmatched
    <3>1. i \in Nat /\ state.done \in Nat
      BY <2>1
    <3>. HIDE DEF i
    <3>. QED  BY <3>1, RemovedProperties
  <2>. HIDE DEF r, c, i, C, n
  <2>5. <<c>> \in Seq(C) /\ Len(<<c>>) = 1 /\ <<c>>[1] = c
    BY <2>3
  <2>6. /\ Len(r) \in Nat /\ Len(r \o <<c>>) = Len(r) + 1 /\ r \o <<c>> \in Seq(C)
        /\ \A k \in 1 .. Len(r) : (r \o <<c>>)[k] = r[k]
        /\ (r \o <<c>>)[Len(r) + 1] = c
    BY <2>4, <2>5
  <2>7. ASSUME NEW a \in 1 .. Len(after)
        PROVE  IF a = j THEN Once(r \o <<c>>, "after", a) ELSE Never(r \o <<c>>, "after", a)
    <3>1. \A k \in 1 .. Len(r) : r[k]["after"] = 0
      BY <2>4 DEF Nothing
    <3>2. Never(r, "after", a)
      BY <3>1 DEF Never
    <3>3. IF j = a THEN Once(<<c>>, "after", a) ELSE Never(<<c>>, "after", a)
      BY <2>3, MentionsOfOne
    <3>. QED  BY <2>4, <2>5, <3>2, <3>3, MentionsOfConcat
  <2>8. ASSUME NEW b \in 1 .. n
        PROVE  IF (match[b] = Unmatched /\ state.done < b /\ b < i) \/ b = i
               THEN Once(r \o <<c>>, "before", b) ELSE Never(r \o <<c>>, "before", b)
    <3>1. b = i => ~(b < i)
      BY <2>1 DEF n
    <3>. QED  BY <2>3, <2>4, <2>5, <3>1, MentionsOfOne, MentionsOfConcat
  <2>9. ASSUME NEW b \in 1 .. n
        PROVE  ((match[b] = Unmatched /\ state.done < b /\ b < i) \/ b = i)
               <=> (match[b] = Unmatched /\ state.done < b /\ b < done) \/ match[b] = j
    BY <2>1, <2>2 DEF n
  <2>10. ASSUME NEW k \in 1 .. Len(more)
         PROVE  /\ more[k].after # Nothing => k = Len(more) /\ more[k].after = j
                /\ more[k].class = "removed" =>
                     more[k].before \in 1 .. n /\ match[more[k].before] = Unmatched
                /\ more[k].class # "added"
    <3>1. CASE k = Len(r) + 1
      BY <2>2, <2>3, <2>6, <3>1
    <3>2. CASE k \in 1 .. Len(r)
      BY <2>2, <2>4, <2>6, <3>2
    <3>. QED  BY <2>2, <2>6, <3>1, <3>2
  <2>11. done \in 0 .. n
    BY <2>1, <2>2 DEF n
  <2>. HIDE DEF more, done
  <2>. QED  BY <2>2, <2>6, <2>7, <2>8, <2>9, <2>10, <2>11
<1>4. Good(more, done)
  BY <1>2, <1>3
<1>. QED  BY <1>4

\* The walk as additions to a list of changes.
LEMMA PushChangeAppends ==
  ASSUME NEW before, NEW after, Len(before) \in Nat, Len(after) \in Nat,
         NEW match \in Matchings(before, after), NEW j \in 1 .. Len(after),
         NEW state \in States(before, after)
  PROVE  LET next == PushChange(before, after, match, state, j) IN
         /\ next \in States(before, after)
         /\ next.out = state.out \o Addition(before, after, match, state, j)
         /\ next.done = Reached(match, state, j)
<1>. DEFINE n    == Len(before)
            C    == Changes(before, after)
            more == Addition(before, after, match, state, j)
            done == Reached(match, state, j)
            next == PushChange(before, after, match, state, j)
            out  == state.out
<1>1. /\ out \in Seq(C) /\ state.done \in 0 .. n
      /\ state = [out |-> out, done |-> state.done]
  BY DEF States
<1>2. more \in Seq(C) /\ done \in 0 .. n
  BY <1>1, AdditionProperties
<1>3. next.out = out \o more /\ next.done = done /\ next = [out |-> next.out, done |-> next.done]
  <2>1. CASE Sources(match, j) = {}
    <3>. DEFINE c == Change("added", Nothing, j)
    <3>1. next = [state EXCEPT !.out = Append(@, c)] /\ more = <<c>> /\ done = state.done
      BY <2>1 DEF PushChange, Addition, Reached
    <3>2. next = [out |-> Append(out, c), done |-> state.done]
      <4>1. [state EXCEPT !.out = Append(@, c)] = [out |-> Append(state.out, c), done |-> state.done]
        <5>. HIDE DEF c
        <5>. DEFINE s == state.out
                    d == state.done
        <5>1. state = [out |-> s, done |-> d]
          BY <1>1
        <5>. HIDE DEF s, d
        <5>2. [state EXCEPT !.out = Append(@, c)] = [out |-> Append(s, c), done |-> d]
          BY <5>1
        <5>. QED  BY <5>2 DEF s, d
      <4>. QED  BY <3>1, <4>1
    <3>. HIDE DEF c, out, next, more, done, C
    <3>3. c \in C
      BY <1>2, <3>1
    <3>4. Append(out, c) = out \o <<c>>
      BY <1>1, <3>3, AppendIsConcat
    <3>5. next.out = Append(out, c) /\ next.done = state.done
      BY <3>2
    <3>. QED  BY <3>1, <3>2, <3>4, <3>5
  <2>2. CASE Sources(match, j) # {}
    <3>. DEFINE i == Max(Sources(match, j))
                r == Removed(match, state.done, i)
                c == MatchedChange(before, after, i, j)
    <3>1. next = [out |-> Append(out \o r, c), done |-> done] /\ more = r \o <<c>>
      BY <2>2 DEF PushChange, Addition, Reached
    <3>2. i \in 1 .. n
      BY <2>2, SourcesOfOne
    <3>3. c \in C
      BY <3>2 DEF MatchedChange, Change, Changes, Classes
    <3>4. r \in Seq(C)
      <4>1. i \in Nat /\ state.done \in Nat
        BY <1>1, <3>2
      <4>. HIDE DEF i
      <4>. QED  BY <4>1, RemovedProperties
    <3>. HIDE DEF c, r, i, out, next, more, done, C
    <3>5. <<c>> \in Seq(C) /\ out \o r \in Seq(C)
      BY <1>1, <3>3, <3>4
    <3>6. Append(out \o r, c) = (out \o r) \o <<c>>
      BY <3>3, <3>5, AppendIsConcat
    <3>7. (out \o r) \o <<c>> = out \o (r \o <<c>>)
      <4>1. out \in Seq(C) /\ r \in Seq(C) /\ <<c>> \in Seq(C)
        BY <1>1, <3>4, <3>5
      <4>. QED  BY ONLY <4>1, ConcatAssociative
    <3>. QED  BY <3>1, <3>6, <3>7
  <2>. QED  BY <2>1, <2>2
<1>. HIDE DEF out, next, more, done, C
<1>4. next.out \in Seq(C) /\ next = [out |-> next.out, done |-> next.done]
  BY <1>1, <1>2, <1>3
<1>5. next \in States(before, after)
  BY <1>2, <1>3, <1>4 DEF States, C, n
<1>. QED  BY <1>3, <1>5 DEF out, next, more, done

\* One operation after more is accounted for.
LEMMA PushChangeAccounts ==
  ASSUME NEW before, NEW after, Len(before) \in Nat, Len(after) \in Nat,
         NEW match \in Matchings(before, after), NEW j \in 1 .. Len(after),
         NEW state, Accounted(before, after, match, state, j - 1)
  PROVE  Accounted(before, after, match, PushChange(before, after, match, state, j), j)
<1>. DEFINE n    == Len(before)
            C    == Changes(before, after)
            more == Addition(before, after, match, state, j)
            done == Reached(match, state, j)
            next == PushChange(before, after, match, state, j)
            out  == state.out
<1>1. /\ out \in Seq(C) /\ state.done \in 0 .. n
      /\ state = [out |-> out, done |-> state.done]
  BY DEF Accounted, States
<1>2. /\ more \in Seq(C) /\ done \in 0 .. n
      /\ \A a \in 1 .. Len(after) :
           IF a = j THEN Once(more, "after", a) ELSE Never(more, "after", a)
      /\ \A b \in 1 .. n :
           IF (match[b] = Unmatched /\ state.done < b /\ b < done) \/ match[b] = j
           THEN Once(more, "before", b) ELSE Never(more, "before", b)
      /\ \A k \in 1 .. Len(more) : more[k].after # Nothing => k = Len(more) /\ more[k].after = j
      /\ \A k \in 1 .. Len(more) :
           /\ more[k].class = "removed" =>
                more[k].before \in 1 .. n /\ match[more[k].before] = Unmatched
           /\ more[k].class = "added" => more[k].after \in Free(after, match)
  BY <1>1, AdditionProperties
<1>3. done >= state.done /\ (done # state.done => done # 0 /\ match[done] = j)
  <2>1. CASE Sources(match, j) = {}
    BY <1>1, <2>1 DEF Reached
  <2>2. CASE Sources(match, j) # {}
    <3>. DEFINE i == Max(Sources(match, j))
    <3>1. i \in 1 .. n /\ match[i] = j
      BY <2>2, SourcesOfOne
    <3>. HIDE DEF i
    <3>2. done = Max({state.done, i})
      BY <2>2 DEF i, Reached
    <3>. HIDE DEF done
    <3>3. state.done \in Nat /\ i \in Nat
      BY <1>1, <3>1
    <3>4. done = IF state.done >= i THEN state.done ELSE i
      BY <3>2, <3>3, MaxOfTwo
    <3>. QED  BY <3>1, <3>3, <3>4
  <2>. QED  BY <2>1, <2>2
<1>4. next.out = out \o more /\ next.done = done /\ next \in States(before, after)
  <2>1. state \in States(before, after)
    BY DEF Accounted
  <2>2. next \in States(before, after)
    BY <2>1, PushChangeAppends
  <2>3. next.out = out \o more
    BY <2>1, PushChangeAppends
  <2>4. next.done = done
    BY <2>1, PushChangeAppends
  <2>. QED  BY <2>2, <2>3, <2>4
<1>5. match \in [1 .. n -> 0 .. Len(after)]
  BY DEF Matchings
<1>6. /\ \A a \in 1 .. Len(after) :
           IF a <= j - 1 THEN Once(out, "after", a) ELSE Never(out, "after", a)
      /\ \A b \in 1 .. n :
           IF (match[b] = Unmatched /\ b < state.done) \/ match[b] \in 1 .. (j - 1)
           THEN Once(out, "before", b) ELSE Never(out, "before", b)
      /\ \A k, l \in 1 .. Len(out) :
           (k < l /\ out[k].after # Nothing /\ out[l].after # Nothing) => out[k].after < out[l].after
      /\ \A k \in 1 .. Len(out) :
           /\ out[k].class = "removed" =>
                out[k].before \in 1 .. n /\ match[out[k].before] = Unmatched
           /\ out[k].class = "added" => out[k].after \in Free(after, match)
      /\ state.done # 0 => match[state.done] # Unmatched
  BY DEF Accounted
<1>7. j # Unmatched /\ j \in Nat
  BY DEF Unmatched
<1>8. \A k \in 1 .. Len(out) : out[k].after \in 0 .. (j - 1)
  <2>1. ASSUME NEW k \in 1 .. Len(out)
        PROVE  out[k].after \in 0 .. (j - 1)
    <3>1. out[k].after \in 0 .. Len(after)
      <4>1. out[k] \in C
        BY <1>1
      <4>. QED  BY <4>1 DEF Changes
    <3>2. \A a \in 1 .. Len(after) : a >= j => out[k]["after"] # a
      <4>1. ASSUME NEW a \in 1 .. Len(after), a >= j
            PROVE  out[k]["after"] # a
        <5>1. Never(out, "after", a)
          BY <1>6, <4>1
        <5>. QED  BY <5>1 DEF Never
      <4>. QED  BY <4>1
    <3>. QED  BY <3>1, <3>2
  <2>. QED  BY <2>1
<1>. HIDE DEF out, next, more, done, C
<1>10. next.out \in Seq(C) /\ Len(out) \in Nat /\ Len(more) \in Nat
  BY <1>1, <1>2, <1>4
<1>11. \A a \in 1 .. Len(after) :
         IF a <= j THEN Once(next.out, "after", a) ELSE Never(next.out, "after", a)
  <2>1. ASSUME NEW a \in 1 .. Len(after)
        PROVE  IF a <= j THEN Once(next.out, "after", a) ELSE Never(next.out, "after", a)
    <3>1. CASE a = j
      <4>1. Never(out, "after", a) /\ Once(more, "after", a) /\ a <= j
        BY <1>2, <1>6, <3>1
      <4>. QED  BY <1>1, <1>2, <1>4, <4>1, MentionsOfConcat
    <3>2. CASE a < j
      <4>1. Once(out, "after", a) /\ Never(more, "after", a) /\ a <= j
        BY <1>2, <1>6, <3>2
      <4>. QED  BY <1>1, <1>2, <1>4, <4>1, MentionsOfConcat
    <3>3. CASE a > j
      <4>1. Never(out, "after", a) /\ Never(more, "after", a) /\ ~(a <= j)
        BY <1>2, <1>6, <3>3
      <4>. QED  BY <1>1, <1>2, <1>4, <4>1, MentionsOfConcat
    <3>. QED  BY <3>1, <3>2, <3>3
  <2>. QED  BY <2>1
<1>12. \A b \in 1 .. n :
         IF (match[b] = Unmatched /\ b < next.done) \/ match[b] \in 1 .. j
         THEN Once(next.out, "before", b) ELSE Never(next.out, "before", b)
  <2>1. ASSUME NEW b \in 1 .. n
        PROVE  IF (match[b] = Unmatched /\ b < done) \/ match[b] \in 1 .. j
               THEN Once(out \o more, "before", b) ELSE Never(out \o more, "before", b)
    <3>. DEFINE old == (match[b] = Unmatched /\ b < state.done) \/ match[b] \in 1 .. (j - 1)
                new == (match[b] = Unmatched /\ state.done < b /\ b < done) \/ match[b] = j
                all == (match[b] = Unmatched /\ b < done) \/ match[b] \in 1 .. j
    <3>1. match[b] \in 0 .. Len(after) /\ (match[b] = Unmatched => b # state.done)
      BY <1>5, <1>6
    <3>2. (all <=> old \/ new) /\ ~(old /\ new)
      BY <1>1, <1>2, <1>3, <1>7, <3>1 DEF Unmatched
    <3>3. IF old THEN Once(out, "before", b) ELSE Never(out, "before", b)
      BY <1>6
    <3>4. IF new THEN Once(more, "before", b) ELSE Never(more, "before", b)
      BY <1>2
    <3>. HIDE DEF old, new, all
    <3>5. IF all THEN Once(out \o more, "before", b) ELSE Never(out \o more, "before", b)
      BY <1>1, <1>2, <3>2, <3>3, <3>4, MentionsOfConcat
    <3>. QED  BY <3>5 DEF all
  <2>. QED  BY <1>4, <2>1
<1>13. \A k \in 1 .. Len(next.out) :
         \/ k \in 1 .. Len(out) /\ next.out[k] = out[k]
         \/ k - Len(out) \in 1 .. Len(more) /\ next.out[k] = more[k - Len(out)] /\ k > Len(out)
  BY <1>1, <1>2, <1>4, <1>10
<1>14. ASSUME NEW k \in 1 .. Len(next.out), NEW l \in 1 .. Len(next.out),
              k < l, next.out[k].after # Nothing, next.out[l].after # Nothing
       PROVE  next.out[k].after < next.out[l].after
  <2>1. CASE l \in 1 .. Len(out) /\ next.out[l] = out[l]
    <3>1. k \in 1 .. Len(out) /\ next.out[k] = out[k]
      BY <1>10, <1>13, <1>14, <2>1
    <3>. QED  BY <1>6, <1>14, <2>1, <3>1
  <2>2. CASE l - Len(out) \in 1 .. Len(more) /\ next.out[l] = more[l - Len(out)] /\ l > Len(out)
    <3>1. next.out[l].after = j /\ l - Len(out) = Len(more)
      BY <1>2, <1>14, <2>2
    <3>2. CASE k \in 1 .. Len(out) /\ next.out[k] = out[k]
      BY <1>8, <3>1, <3>2
    <3>3. CASE k - Len(out) \in 1 .. Len(more) /\ next.out[k] = more[k - Len(out)]
      <4>1. k - Len(out) = Len(more)
        BY <1>2, <1>14, <3>3
      <4>. QED  BY <1>10, <1>14, <3>1, <4>1
    <3>. QED  BY <1>13, <3>2, <3>3
  <2>. QED  BY <1>13, <2>1, <2>2
<1>15. \A k \in 1 .. Len(next.out) :
         /\ next.out[k].class = "removed" =>
              next.out[k].before \in 1 .. n /\ match[next.out[k].before] = Unmatched
         /\ next.out[k].class = "added" => next.out[k].after \in Free(after, match)
  <2>1. ASSUME NEW k \in 1 .. Len(next.out)
        PROVE  /\ next.out[k].class = "removed" =>
                    next.out[k].before \in 1 .. n /\ match[next.out[k].before] = Unmatched
               /\ next.out[k].class = "added" => next.out[k].after \in Free(after, match)
    <3>. HIDE DEF n
    <3>1. CASE k \in 1 .. Len(out) /\ next.out[k] = out[k]
      BY <1>6, <3>1
    <3>2. CASE k - Len(out) \in 1 .. Len(more) /\ next.out[k] = more[k - Len(out)]
      BY <1>2, <3>2
    <3>. QED  BY <1>13, <3>1, <3>2
  <2>. QED  BY <2>1
<1>16. next.done # 0 => match[next.done] # Unmatched
  BY <1>3, <1>4, <1>6, <1>7
<1>17. next \in States(before, after)
  BY <1>4
<1>. QED  BY <1>11, <1>12, <1>14, <1>15, <1>16, <1>17 DEF Accounted, next, C

\* What the changes of a matching are: every operation once, those after in their
\* order, and only unmatched operations are removed or added.
Reported(before, after, match, changes) ==
  /\ changes \in Seq(Changes(before, after))
  /\ \A a \in 1 .. Len(after)  : Once(changes, "after", a)
  /\ \A b \in 1 .. Len(before) : Once(changes, "before", b)
  /\ \A k, l \in 1 .. Len(changes) :
       (k < l /\ changes[k].after # Nothing /\ changes[l].after # Nothing) =>
         changes[k].after < changes[l].after
  /\ \A k \in 1 .. Len(changes) :
       /\ changes[k].class = "removed" =>
            changes[k].before \in 1 .. Len(before) /\ match[changes[k].before] = Unmatched
       /\ changes[k].class = "added" => changes[k].after \in Free(after, match)

\* At its end the walk has accounted for all operations after.
LEMMA EndOfChangesAccounts ==
  ASSUME NEW before, NEW after, Len(before) \in Nat, Len(after) \in Nat,
         NEW match \in Matchings(before, after)
  PROVE  Accounted(before, after, match, EndOfChanges(before, after, match), Len(after))
<1>. DEFINE n    == Len(after)
            T    == States(before, after)
            base == [out |-> <<>>, done |-> 0]
            C    == Changes(before, after)
<1>1. match \in [1 .. Len(before) -> 0 .. n]
  BY DEF Matchings
<1>2. base \in T /\ base.out = <<>> /\ base.done = 0
  <2>. HIDE DEF C
  <2>1. base \in [out : Seq(C), done : 0 .. Len(before)]
    OBVIOUS
  <2>. QED  BY <2>1 DEF States, C
<1>3. Accounted(before, after, match, base, 0)
  <2>1. Len(<<>>) = 0 /\ 1 .. 0 = {}
    OBVIOUS
  <2>2. \A a \in 1 .. n : ~(a <= 0) /\ Never(<<>>, "after", a)
    BY <2>1 DEF Never
  <2>3. \A b \in 1 .. Len(before) : ~(b < 0) /\ Never(<<>>, "before", b)
    BY <2>1 DEF Never
  <2>. HIDE DEF base, T
  <2>. QED  BY <1>2, <2>1, <2>2, <2>3 DEF Accounted, T
<1>4. \A s \in T, j \in 1 .. n : PushChange(before, after, match, s, j) \in T
  BY PushChangeAppends
<1>. HIDE DEF T
<1>5. \E g : ChangesRun(g, T, before, after, match)
  BY <1>2, <1>4, ChangesSteps
<1>6. PICK g : ChangesRun(g, T, before, after, match)
  BY <1>5
<1>. DEFINE S == {j \in 0 .. n : Accounted(before, after, match, g[j], j)}
<1>7. 0 \in S
  BY <1>3, <1>6 DEF ChangesRun
<1>8. ASSUME NEW j \in 1 .. n, j - 1 \in S
      PROVE  j \in S
  <2>1. Accounted(before, after, match, g[j - 1], j - 1)
    BY <1>8
  <2>2. Accounted(before, after, match, PushChange(before, after, match, g[j - 1], j), j)
    BY <2>1, PushChangeAccounts
  <2>. QED  BY <1>6, <2>2 DEF ChangesRun
<1>. HIDE DEF S
<1>9. 0 .. n \subseteq S
  BY <1>7, <1>8, InductionUpTo
<1>10. n \in S
  BY <1>9
<1>. QED  BY <1>6, <1>10 DEF S, ChangesRun

\* With what is removed at the end, all operations are reported.
LEMMA ChangesOfReports ==
  ASSUME NEW before, NEW after, Len(before) \in Nat, Len(after) \in Nat,
         NEW match \in Matchings(before, after)
  PROVE  Reported(before, after, match, ChangesOf(before, after, match))
<1>. DEFINE n    == Len(before)
            end  == EndOfChanges(before, after, match)
            out  == end.out
            more == Removed(match, end.done, n + 1)
            C    == Changes(before, after)
            all  == ChangesOf(before, after, match)
<1>1. Accounted(before, after, match, end, Len(after))
  BY EndOfChangesAccounts
<1>2. match \in [1 .. n -> 0 .. Len(after)] /\ Len(match) = n
  <2>1. match \in [1 .. n -> 0 .. Len(after)]
    BY DEF Matchings
  <2>2. match \in Seq(0 .. Len(after)) /\ DOMAIN match = 1 .. n
    BY <2>1
  <2>. QED  BY <2>1, <2>2
<1>3. all = out \o more
  BY <1>2 DEF ChangesOf
<1>. HIDE DEF end
<1>4. /\ out \in Seq(C) /\ end.done \in 0 .. n
      /\ end.done # 0 => match[end.done] # Unmatched
      /\ \A a \in 1 .. Len(after) : Once(out, "after", a)
      /\ \A b \in 1 .. n :
           IF (match[b] = Unmatched /\ b < end.done) \/ match[b] \in 1 .. Len(after)
           THEN Once(out, "before", b) ELSE Never(out, "before", b)
      /\ \A k, l \in 1 .. Len(out) :
           (k < l /\ out[k].after # Nothing /\ out[l].after # Nothing) => out[k].after < out[l].after
      /\ \A k \in 1 .. Len(out) :
           /\ out[k].class = "removed" =>
                out[k].before \in 1 .. n /\ match[out[k].before] = Unmatched
           /\ out[k].class = "added" => out[k].after \in Free(after, match)
  BY <1>1 DEF Accounted, States
<1>5. /\ more \in Seq(C)
      /\ \A b \in 1 .. n :
           IF match[b] = Unmatched /\ end.done < b /\ b < n + 1
           THEN Once(more, "before", b) ELSE Never(more, "before", b)
      /\ \A k \in 1 .. Len(more) :
           more[k].class = "removed" /\ more[k].after = Nothing
           /\ more[k].before \in 1 .. n /\ match[more[k].before] = Unmatched
  <2>1. end.done \in Nat /\ n + 1 \in Nat
    BY <1>4
  <2>. QED  BY <2>1, RemovedProperties
<1>. HIDE DEF out, more, C, all
<1>6. all \in Seq(C) /\ Len(out) \in Nat /\ Len(more) \in Nat
  BY <1>3, <1>4, <1>5
<1>7. \A k \in 1 .. Len(all) :
        \/ k \in 1 .. Len(out) /\ all[k] = out[k]
        \/ k - Len(out) \in 1 .. Len(more) /\ all[k] = more[k - Len(out)] /\ k > Len(out)
  BY <1>3, <1>4, <1>5, <1>6
<1>8. ASSUME NEW a \in 1 .. Len(after)
      PROVE  Once(all, "after", a)
  <2>1. Never(more, "after", a)
    <3>1. \A k \in 1 .. Len(more) : more[k]["after"] = 0
      BY <1>5 DEF Nothing
    <3>. QED  BY <3>1 DEF Never
  <2>. QED  BY <1>3, <1>4, <1>5, <2>1, MentionsOfConcat
<1>9. ASSUME NEW b \in 1 .. n
      PROVE  Once(all, "before", b)
  <2>. DEFINE old == (match[b] = Unmatched /\ b < end.done) \/ match[b] \in 1 .. Len(after)
              new == match[b] = Unmatched /\ end.done < b /\ b < n + 1
  <2>1. match[b] \in 0 .. Len(after) /\ (match[b] = Unmatched => b # end.done)
    BY <1>2, <1>4
  <2>2. (old \/ new) /\ ~(old /\ new)
    BY <1>4, <2>1 DEF Unmatched
  <2>3. IF old THEN Once(out, "before", b) ELSE Never(out, "before", b)
    BY <1>4
  <2>4. IF new THEN Once(more, "before", b) ELSE Never(more, "before", b)
    BY <1>5
  <2>. HIDE DEF old, new
  <2>. QED  BY <1>3, <1>4, <1>5, <2>2, <2>3, <2>4, MentionsOfConcat
<1>10. ASSUME NEW k \in 1 .. Len(all), NEW l \in 1 .. Len(all),
              k < l, all[k].after # Nothing, all[l].after # Nothing
       PROVE  all[k].after < all[l].after
  <2>1. l \in 1 .. Len(out) /\ all[l] = out[l]
    BY <1>5, <1>7, <1>10
  <2>2. k \in 1 .. Len(out) /\ all[k] = out[k]
    BY <1>6, <1>7, <1>10, <2>1
  <2>. QED  BY <1>4, <1>10, <2>1, <2>2
<1>11. ASSUME NEW k \in 1 .. Len(all)
       PROVE  /\ all[k].class = "removed" =>
                   all[k].before \in 1 .. n /\ match[all[k].before] = Unmatched
              /\ all[k].class = "added" => all[k].after \in Free(after, match)
  <2>. HIDE DEF n
  <2>1. CASE k \in 1 .. Len(out) /\ all[k] = out[k]
    BY <1>4, <2>1
  <2>2. CASE k - Len(out) \in 1 .. Len(more) /\ all[k] = more[k - Len(out)]
    BY <1>5, <2>2
  <2>. QED  BY <1>7, <2>1, <2>2
<1>. QED  BY <1>6, <1>8, <1>9, <1>10, <1>11 DEF Reported, C, all

\* A diff accounts for all operations: those of either snapshot are each in exactly one
\* change, and the operations after keep their order (crates/engine/src/diff.rs).
THEOREM DiffIsTotal ==
  ASSUME NEW before, NEW after, Len(before) \in Nat, Len(after) \in Nat
  PROVE  AccountsForAll(before, after, DiffFunction(before, after))
<1>. DEFINE match   == MatchOps(before, after)
            changes == DiffFunction(before, after)
<1>1. match \in Matchings(before, after)
  BY MatchOpsMatches
<1>. HIDE DEF match
<1>2. Reported(before, after, match, changes)
  BY <1>1, ChangesOfReports DEF DiffFunction, match
<1>. HIDE DEF changes
<1>3. DOMAIN changes = 1 .. Len(changes)
  BY <1>2 DEF Reported
<1>4. ASSUME NEW side, NEW x, Once(changes, side, x)
      PROVE  Cardinality(Mentions(changes, side, x)) = 1
  <2>1. PICK k \in 1 .. Len(changes) : \A l \in 1 .. Len(changes) : changes[l][side] = x <=> l = k
    BY <1>4 DEF Once
  <2>2. Mentions(changes, side, x) = {k}
    BY <1>3, <2>1 DEF Mentions
  <2>. QED  BY <2>2, FS_Singleton
<1>5. \A i \in 1 .. Len(before) : Cardinality(Mentions(changes, "before", i)) = 1
  BY <1>2, <1>4 DEF Reported
<1>6. \A j \in 1 .. Len(after) : Cardinality(Mentions(changes, "after", j)) = 1
  BY <1>2, <1>4 DEF Reported
<1>7. \A k, l \in DOMAIN changes :
        (k < l /\ Nothing \notin {changes[k].after, changes[l].after}) =>
          changes[k].after < changes[l].after
  BY <1>2, <1>3 DEF Reported
<1>. QED  BY <1>5, <1>6, <1>7 DEF AccountsForAll, changes

-----------------------------------------------------------------------------
(* No pair of operations of one name is left by the matching. *)

\* Of the first operations before, none is unmatched whose name a free operation has.
PairedUpTo(before, after, match, i) ==
  \A b \in 1 .. i : match[b] = Unmatched =>
    \A a \in Free(after, match) : before[b].name # after[a].name

\* Equal names score enough for a match.
LEMMA ScoreOfNames ==
  ASSUME NEW b, NEW a
  PROVE  /\ FingerprintScore(Fingerprint(b), Fingerprint(a)) \in 0 .. 100
         /\ b.name = a.name => FingerprintScore(Fingerprint(b), Fingerprint(a)) >= MatchThreshold
<1>. DEFINE points(condition, n) == IF condition THEN n ELSE 0
            x == Fingerprint(b)
            y == Fingerprint(a)
<1>1. x.name = b.name /\ y.name = a.name
  BY DEF Fingerprint
<1>. HIDE DEF x, y
<1>2. /\ points(x.types = y.types, 25) \in 0 .. 25
      /\ points(x.count = y.count, 15) \in 0 .. 15
      /\ points(x.location # NoLocation /\ x.location = y.location, 10) \in 0 .. 10
  OBVIOUS
<1>3. FingerprintScore(x, y) =
        IF x.name # y.name THEN 0
        ELSE 50 + points(x.types = y.types, 25) + points(x.count = y.count, 15)
                + points(x.location # NoLocation /\ x.location = y.location, 10)
  BY DEF FingerprintScore, NoScore
<1>. HIDE DEF points
<1>4. FingerprintScore(x, y) \in 0 .. 100 /\ (x.name = y.name => FingerprintScore(x, y) >= 50)
  BY <1>2, <1>3
<1>. QED  BY <1>1, <1>4 DEF x, y, MatchThreshold

\* There is a best score among operations one of which has the name.
LEMMA BestExists ==
  ASSUME NEW op, NEW after, NEW some, NEW a \in some, op.name = after[a].name
  PROVE  Best(Scores(op, after, some)) # {}
<1>. DEFINE scores == Scores(op, after, some)
            values == {scores[j] : j \in some}
<1>1. DOMAIN scores = some /\ \A j \in some : scores[j] \in 0 .. 100
  BY ScoreOfNames DEF Scores
<1>2. scores[a] >= MatchThreshold
  BY ScoreOfNames DEF Scores
<1>. HIDE DEF scores
<1>3. values \in SUBSET (0 .. 100) /\ values # {}
  BY <1>1
<1>4. Max(values) \in values /\ \A x \in values : Max(values) >= x
  BY <1>3, MaxOfNumbers
<1>5. PICK j \in some : scores[j] = Max(values)
  BY <1>4
<1>6. \A k \in some : scores[j] >= scores[k]
  BY <1>4, <1>5
<1>7. scores[j] >= MatchThreshold
  BY <1>1, <1>2, <1>6 DEF MatchThreshold
<1>8. j \in Best(scores)
  BY <1>1, <1>6, <1>7 DEF Best
<1>. QED  BY <1>8 DEF scores

\* A step of the second pass leaves no pair of the operation it is for, nor of those before.
LEMMA MatchBestPairs ==
  ASSUME NEW before, NEW after, Len(before) \in Nat, Len(after) \in Nat,
         NEW match \in Matchings(before, after), NEW i \in 1 .. Len(before),
         PairedUpTo(before, after, match, i - 1)
  PROVE  PairedUpTo(before, after, MatchBest(before, after, match, i), i)
<1>. DEFINE some == Best(Scores(before[i], after, Free(after, match)))
            new  == MatchBest(before, after, match, i)
<1>1. match \in [1 .. Len(before) -> 0 .. Len(after)]
  BY DEF Matchings
<1>2. some \in SUBSET Free(after, match) /\ Free(after, match) \in SUBSET (1 .. Len(after))
  BY DEF Best, Scores, Free
<1>3. CASE match[i] # Unmatched
  <2>1. new = match
    BY <1>3 DEF MatchBest
  <2>2. \A b \in 1 .. i : match[b] = Unmatched => b \in 1 .. (i - 1)
    BY <1>3
  <2>. QED  BY <2>1, <2>2 DEF PairedUpTo
<1>4. CASE match[i] = Unmatched
  <2>. DEFINE j == IF some = {} THEN Unmatched ELSE Min(some)
  <2>1. new = [match EXCEPT ![i] = j]
    BY <1>4 DEF MatchBest, MatchWith
  <2>2. some # {} => Min(some) \in some
    <3>. HIDE DEF some
    <3>. QED  BY <1>2, MinIsMember
  <2>3. j = Unmatched <=> some = {}
    BY <1>2, <2>2 DEF Unmatched
  <2>4. \A a \in Free(after, match) : before[i].name = after[a].name => some # {}
    BY BestExists
  <2>. HIDE DEF new, j, some
  <2>5. DOMAIN new = DOMAIN match /\ \A k \in 1 .. Len(before) : new[k] = IF k = i THEN j ELSE match[k]
    BY <1>1, <2>1
  <2>6. Free(after, new) \subseteq Free(after, match)
    <3>1. \A a \in Free(after, new), k \in DOMAIN match : match[k] # a
      <4>1. ASSUME NEW a \in Free(after, new), NEW k \in DOMAIN match
            PROVE  match[k] # a
        <5>1. a # Unmatched /\ new[k] # a
          BY <2>5, <4>1 DEF Free, Unmatched
        <5>. QED  BY <1>1, <1>4, <2>5, <5>1
      <4>. QED  BY <4>1
    <3>. QED  BY <3>1 DEF Free
  <2>7. ASSUME NEW b \in 1 .. i, new[b] = Unmatched, NEW a \in Free(after, new)
        PROVE  before[b].name # after[a].name
    <3>1. a \in Free(after, match)
      BY <2>6, <2>7
    <3>2. CASE b = i
      BY <2>3, <2>4, <2>5, <2>7, <3>1, <3>2
    <3>3. CASE b # i
      <4>1. b \in 1 .. (i - 1) /\ b \in 1 .. Len(before)
        BY <3>3
      <4>2. match[b] = Unmatched
        BY <2>5, <2>7, <3>3, <4>1
      <4>. QED  BY <3>1, <4>1, <4>2 DEF PairedUpTo
    <3>. QED  BY <3>2, <3>3
  <2>. QED  BY <2>7 DEF PairedUpTo, new
<1>. QED  BY <1>3, <1>4

\* The two passes leave no pair.
LEMMA MatchOpsPairs ==
  ASSUME NEW before, NEW after, Len(before) \in Nat, Len(after) \in Nat
  PROVE  PairedUpTo(before, after, MatchOps(before, after), Len(before))
<1>. DEFINE n == Len(before)
            T == Matchings(before, after)
<1>1. PICK g : MatchOpsRun(g, T, before, after)
  BY MatchOpsRuns
<1>. DEFINE S == {i \in 0 .. n : PairedUpTo(before, after, g[i], i)}
<1>2. 0 \in S
  BY DEF PairedUpTo
<1>3. ASSUME NEW i \in 1 .. n, i - 1 \in S
      PROVE  i \in S
  <2>1. g[i - 1] \in T /\ g[i] = MatchBest(before, after, g[i - 1], i)
    BY <1>1 DEF MatchOpsRun
  <2>. QED  BY <1>3, <2>1, MatchBestPairs
<1>. HIDE DEF S
<1>4. 0 .. n \subseteq S
  BY <1>2, <1>3, InductionUpTo
<1>5. n \in S
  BY <1>4
<1>. QED  BY <1>1, <1>5 DEF S, MatchOpsRun

\* A diff misses no pair: an operation is reported as removed and another as added only
\* if their names differ (crates/engine/src/diff.rs, match_ops).
THEOREM DiffIsTight ==
  ASSUME NEW before, NEW after, Len(before) \in Nat, Len(after) \in Nat
  PROVE  NoMissedPair(before, after, DiffFunction(before, after))
<1>. DEFINE match   == MatchOps(before, after)
            changes == DiffFunction(before, after)
<1>1. match \in Matchings(before, after) /\ PairedUpTo(before, after, match, Len(before))
  BY MatchOpsMatches, MatchOpsPairs
<1>. HIDE DEF match
<1>2. Reported(before, after, match, changes)
  BY <1>1, ChangesOfReports DEF DiffFunction, match
<1>. HIDE DEF changes
<1>3. DOMAIN changes = 1 .. Len(changes)
  BY <1>2 DEF Reported
<1>4. ASSUME NEW k \in DOMAIN changes, NEW l \in DOMAIN changes,
             changes[k].class = "removed", changes[l].class = "added"
      PROVE  before[changes[k].before].name # after[changes[l].after].name
  <2>1. changes[k].before \in 1 .. Len(before) /\ match[changes[k].before] = Unmatched
    BY <1>2, <1>3, <1>4 DEF Reported
  <2>2. changes[l].after \in Free(after, match)
    BY <1>2, <1>3, <1>4 DEF Reported
  <2>. QED  BY <1>1, <2>1, <2>2 DEF PairedUpTo
<1>. QED  BY <1>4 DEF NoMissedPair, changes

-----------------------------------------------------------------------------
(* The diff of a snapshot with itself. *)

\* The first pass over equal snapshots matches every operation with itself.
Same(ops, i) == [k \in 1 .. Len(ops) |-> IF k <= i THEN k ELSE Unmatched]

\* All operations of equal snapshots are matched by the first pass.
LEMMA FirstPassOfSame ==
  ASSUME NEW ops, Len(ops) \in Nat
  PROVE  FirstPass(ops, ops) = Same(ops, Len(ops))
<1>. DEFINE n == Len(ops)
            T == Matchings(ops, ops)
<1>1. PICK g : FirstPassRun(g, T, ops, ops)
  BY FirstPassRuns
<1>. DEFINE S == {i \in 0 .. n : g[i] = Same(ops, i)}
<1>2. 0 \in S
  <2>1. Same(ops, 0) = [i \in 1 .. n |-> Unmatched]
    BY DEF Same
  <2>. QED  BY <1>1, <2>1 DEF FirstPassRun
<1>3. ASSUME NEW i \in 1 .. n, i - 1 \in S
      PROVE  i \in S
  <2>. DEFINE old  == Same(ops, i - 1)
              some == {j \in Free(ops, old) : Fingerprint(ops[j]) = Fingerprint(ops[i])}
  <2>1. g[i] = MatchWith(old, i, some)
    BY <1>1, <1>3 DEF FirstPassRun, MatchEqual
  <2>2. Free(ops, old) = i .. n
    <3>1. DOMAIN old = 1 .. n /\ \A k \in 1 .. n : old[k] = IF k <= i - 1 THEN k ELSE 0
      BY DEF Same, Unmatched
    <3>. HIDE DEF old
    <3>2. \A j \in 1 .. n : (\A k \in 1 .. n : old[k] # j) <=> j >= i
      <4>1. ASSUME NEW j \in 1 .. n, j >= i, NEW k \in 1 .. n
            PROVE  old[k] # j
        BY <3>1, <4>1
      <4>2. ASSUME NEW j \in 1 .. n, ~(j >= i)
            PROVE  old[j] = j
        BY <3>1, <4>2
      <4>. QED  BY <4>1, <4>2
    <3>. QED  BY <3>1, <3>2 DEF Free
  <2>3. i \in some /\ some \in SUBSET (i .. n)
    BY <2>2
  <2>. HIDE DEF some
  <2>4. Min(some) = i
    <3>1. some \in SUBSET Nat /\ some # {}
      BY <2>3
    <3>2. Min(some) \in some /\ Min(some) <= i
      BY <2>3, <3>1, MinIsMember
    <3>3. Min(some) \in i .. n
      BY <2>3, <3>2
    <3>. QED  BY <3>2, <3>3
  <2>5. g[i] = [old EXCEPT ![i] = i]
    BY <2>1, <2>3, <2>4 DEF MatchWith
  <2>6. [old EXCEPT ![i] = i] = Same(ops, i)
    <3>1. \A k \in 1 .. n : k <= i <=> (k = i \/ k <= i - 1)
      OBVIOUS
    <3>. QED  BY <3>1 DEF Same
  <2>. QED  BY <2>5, <2>6
<1>. HIDE DEF S
<1>4. 0 .. n \subseteq S
  BY <1>2, <1>3, InductionUpTo
<1>5. n \in S
  BY <1>4
<1>. QED  BY <1>1, <1>5 DEF S, FirstPassRun

\* The second pass leaves them so.
LEMMA MatchOpsOfSame ==
  ASSUME NEW ops, Len(ops) \in Nat
  PROVE  MatchOps(ops, ops) = [k \in 1 .. Len(ops) |-> k]
<1>. DEFINE n    == Len(ops)
            T    == Matchings(ops, ops)
            same == [k \in 1 .. n |-> k]
<1>1. PICK g : MatchOpsRun(g, T, ops, ops)
  BY MatchOpsRuns
<1>. DEFINE S == {i \in 0 .. n : g[i] = same}
<1>2. 0 \in S
  <2>1. Same(ops, n) = same
    BY DEF Same
  <2>. QED  BY <1>1, <2>1, FirstPassOfSame DEF MatchOpsRun
<1>3. ASSUME NEW i \in 1 .. n, i - 1 \in S
      PROVE  i \in S
  <2>1. g[i] = MatchBest(ops, ops, same, i)
    BY <1>1, <1>3 DEF MatchOpsRun
  <2>2. same[i] # Unmatched
    BY DEF Unmatched
  <2>. QED  BY <2>1, <2>2 DEF MatchBest
<1>. HIDE DEF S
<1>4. 0 .. n \subseteq S
  BY <1>2, <1>3, InductionUpTo
<1>5. n \in S
  BY <1>4
<1>. QED  BY <1>1, <1>5 DEF S, MatchOpsRun

\* Nothing is removed between an operation and the one after it.
LEMMA NothingBetween ==
  ASSUME NEW n \in Nat, NEW i \in Nat
  PROVE  Removed([k \in 1 .. n |-> k], i, i + 1) = <<>>
<1>. DEFINE match == [k \in 1 .. n |-> k]
            gone  == {k \in DOMAIN match : match[k] = Unmatched /\ i < k /\ k < i + 1}
            some  == Ascending(gone, n)
<1>1. match \in Seq(Nat) /\ Len(match) = n
  OBVIOUS
<1>2. gone = {}
  BY DEF Unmatched
<1>3. ListsUpTo(some, {}, n)
  BY <1>2, AscendingLists
<1>4. Removed(match, i, i + 1) = [k \in DOMAIN some |-> Change("removed", some[k], Nothing)]
  BY <1>1 DEF Removed
<1>. HIDE DEF some, match
<1>5. some \in Seq(Nat) /\ Len(some) = 0
  <2>1. some \in Seq(Nat) /\ Len(some) \in Nat /\ \A k \in 1 .. Len(some) : some[k] \in {}
    BY <1>3 DEF ListsUpTo
  <2>2. 1 \notin 1 .. Len(some)
    BY <2>1
  <2>. QED  BY <2>1, <2>2
<1>6. DOMAIN some = {}
  BY <1>5
<1>. QED  BY <1>4, <1>6 DEF match

\* The diff of a snapshot with itself is what the handler of a diff answers for a blob
\* that both sides share, without the engine (crates/server/src/api.rs, get_diff).
THEOREM DiffIsReflexive ==
  ASSUME NEW ops, Len(ops) \in Nat
  PROVE  ReflexiveDiff(ops)
<1>. DEFINE n     == Len(ops)
            same  == [k \in 1 .. n |-> k]
            C     == Changes(ops, ops)
            T     == States(ops, ops)
            c(i)  == Change("unchanged", i, i)
            so(j) == [out |-> [i \in 1 .. j |-> c(i)], done |-> j]
<1>1. MatchOps(ops, ops) = same
  BY MatchOpsOfSame
<1>2. same \in Matchings(ops, ops)
  BY <1>1, MatchOpsMatches
<1>3. \E g : ChangesRun(g, T, ops, ops, same)
  <2>1. [out |-> <<>>, done |-> 0] \in T
    <3>. HIDE DEF C
    <3>1. [out |-> <<>>, done |-> 0] \in [out : Seq(C), done : 0 .. n]
      OBVIOUS
    <3>. QED  BY <3>1 DEF States, C
  <2>2. \A s \in T, j \in 1 .. n : PushChange(ops, ops, same, s, j) \in T
    BY <1>2, PushChangeAppends
  <2>. HIDE DEF T, same
  <2>. QED  BY <2>1, <2>2, ChangesSteps
<1>4. PICK g : ChangesRun(g, T, ops, ops, same)
  BY <1>3
<1>. DEFINE S == {j \in 0 .. n : g[j] = so(j)}
<1>5. 0 \in S
  <2>1. [i \in 1 .. 0 |-> c(i)] = <<>>
    OBVIOUS
  <2>. QED  BY <1>4, <2>1 DEF ChangesRun
<1>6. ASSUME NEW j \in 1 .. n, j - 1 \in S
      PROVE  j \in S
  <2>. DEFINE old == so(j - 1)
              out == [i \in 1 .. (j - 1) |-> c(i)]
  <2>1. g[j] = PushChange(ops, ops, same, old, j)
    BY <1>4, <1>6 DEF ChangesRun
  <2>2. Sources(same, j) = {j}
    BY DEF Sources
  <2>3. Max({j}) = j /\ Max({j - 1, j}) = j
    <3>1. j \in Nat /\ j - 1 \in Nat /\ {j} = {j, j}
      OBVIOUS
    <3>2. Max({j, j}) = j
      BY <3>1, MaxOfTwo
    <3>3. Max({j - 1, j}) = j
      BY <3>1, MaxOfTwo
    <3>. QED  BY <3>2, <3>3
  <2>4. Removed(same, j - 1, j) = <<>>
    <3>1. j - 1 \in Nat /\ (j - 1) + 1 = j
      OBVIOUS
    <3>2. Removed(same, j - 1, (j - 1) + 1) = <<>>
      BY <3>1, NothingBetween
    <3>. QED  BY <3>1, <3>2
  <2>5. MatchedChange(ops, ops, j, j) = c(j)
    BY DEF MatchedChange, SameDetail
  <2>6. PushChange(ops, ops, same, old, j)
          = [out |-> Append(out \o Removed(same, old.done, Max({j})), MatchedChange(ops, ops, Max({j}), j)),
             done |-> Max({old.done, Max({j})})]
    BY <2>2 DEF PushChange
  <2>7. old.done = j - 1
    OBVIOUS
  <2>8. g[j] = [out |-> Append(out \o <<>>, c(j)), done |-> j]
    BY <2>1, <2>3, <2>4, <2>5, <2>6, <2>7
  <2>9. out \in Seq(C) /\ Len(out) = j - 1 /\ c(j) \in C
    <3>1. \A i \in 1 .. n : c(i) \in C
      BY DEF Change, Changes, Classes
    <3>. HIDE DEF c, C
    <3>2. j - 1 \in Nat /\ \A i \in 1 .. (j - 1) : i \in 1 .. n
      OBVIOUS
    <3>3. out \in [1 .. (j - 1) -> C]
      BY <3>1, <3>2
    <3>. QED  BY <3>1, <3>2, <3>3
  <2>10. out \o <<>> = out
    BY <2>9, ConcatEmptySeq
  <2>11. Append(out, c(j)) = [i \in 1 .. j |-> c(i)]
    <3>1. \A i \in 1 .. (j - 1) : out[i] = c(i)
      OBVIOUS
    <3>. HIDE DEF c, C, out
    <3>. DEFINE a == Append(out, c(j))
    <3>2. Len(out) + 1 = j /\ \A i \in 1 .. j : i = j \/ i \in 1 .. (j - 1)
      BY <2>9
    <3>3. a \in Seq(C) /\ DOMAIN a = 1 .. j /\ \A i \in 1 .. j : a[i] = IF i = j THEN c(j) ELSE out[i]
      BY <2>9, <3>2
    <3>. HIDE DEF a
    <3>4. a = [i \in DOMAIN a |-> a[i]]
      BY <3>3
    <3>5. \A i \in 1 .. j : a[i] = c(i)
      BY <3>1, <3>2, <3>3
    <3>. QED  BY <3>3, <3>4, <3>5 DEF a
  <2>12. g[j] = [out |-> [i \in 1 .. j |-> c(i)], done |-> j]
    <3>. HIDE DEF c, out
    <3>. QED  BY <2>8, <2>10, <2>11
  <2>. QED  BY <2>12
<1>. HIDE DEF S
<1>7. 0 .. n \subseteq S
  BY <1>5, <1>6, InductionUpTo
<1>8. n \in S
  BY <1>7
<1>9. EndOfChanges(ops, ops, same) = so(n)
  BY <1>4, <1>8 DEF S, ChangesRun
<1>10. same \in Seq(Nat) /\ Len(same) = n
  OBVIOUS
<1>11. Removed(same, n, n + 1) = <<>>
  BY NothingBetween
<1>12. ChangesOf(ops, ops, same) = [i \in 1 .. n |-> c(i)] \o <<>>
  <2>1. so(n).out = [i \in 1 .. n |-> c(i)] /\ so(n).done = n
    OBVIOUS
  <2>. HIDE DEF so, c, same
  <2>. QED  BY <1>9, <1>10, <1>11, <2>1 DEF ChangesOf
<1>13. [i \in 1 .. n |-> c(i)] \o <<>> = [i \in 1 .. n |-> c(i)]
  <2>1. \A i \in 1 .. n : c(i) \in C
    BY DEF Change, Changes, Classes
  <2>. HIDE DEF c, C
  <2>2. [i \in 1 .. n |-> c(i)] \in Seq(C)
    BY <2>1
  <2>. QED  BY <2>2, ConcatEmptySeq
<1>. QED  BY <1>1, <1>12, <1>13 DEF ReflexiveDiff, DiffFunction, SharedBlobDiff

-----------------------------------------------------------------------------
(* Paths of regions: prefixes, and the order in which regions are collapsed. *)

Paths == Seq(Nat)

LEMMA PathLengths == \A p \in Paths : Len(p) \in Nat
BY DEF Paths

LEMMA PrefixIs ==
  ASSUME NEW p \in Paths, NEW s \in Paths
  PROVE  IsPrefix(p, s) <=> Len(p) <= Len(s) /\ \A i \in 1 .. Len(p) : p[i] = s[i]
<1>1. Len(p) \in Nat /\ Len(s) \in Nat /\ p \in Seq(Nat) /\ s \in Seq(Nat)
  BY DEF Paths
<1>2. CASE Len(p) <= Len(s)
  <2>1. SubSeq(p, 1, Len(p)) \in Seq(Nat) /\ Len(SubSeq(p, 1, Len(p))) = Len(p)
        /\ \A i \in 1 .. Len(p) : SubSeq(p, 1, Len(p))[i] = p[i]
    BY <1>1
  <2>2. SubSeq(s, 1, Len(p)) \in Seq(Nat) /\ Len(SubSeq(s, 1, Len(p))) = Len(p)
        /\ \A i \in 1 .. Len(p) : SubSeq(s, 1, Len(p))[i] = s[i]
    BY <1>1, <1>2
  <2>3. SubSeq(p, 1, Len(p)) = SubSeq(s, 1, Len(p))
          <=> \A i \in 1 .. Len(p) : SubSeq(p, 1, Len(p))[i] = SubSeq(s, 1, Len(p))[i]
    BY <2>1, <2>2, SeqEqual
  <2>. QED  BY <1>2, <2>1, <2>2, <2>3 DEF IsPrefix
<1>3. CASE ~(Len(p) <= Len(s))
  BY <1>3 DEF IsPrefix
<1>. QED  BY <1>2, <1>3

LEMMA PrefixesAre ==
  ASSUME NEW s \in Paths
  PROVE  Prefixes(s) = {p \in Paths : IsPrefix(p, s)}
<1>1. Len(s) \in Nat /\ s \in Seq(Nat)
  BY DEF Paths
<1>2. ASSUME NEW l \in 0 .. Len(s)
      PROVE  SubSeq(s, 1, l) \in Paths /\ IsPrefix(SubSeq(s, 1, l), s)
  <2>1. SubSeq(s, 1, l) \in Paths /\ Len(SubSeq(s, 1, l)) = l
        /\ \A i \in 1 .. l : SubSeq(s, 1, l)[i] = s[i]
    BY <1>1 DEF Paths
  <2>2. Len(SubSeq(s, 1, l)) <= Len(s)
    BY <1>1, <2>1
  <2>. HIDE DEF Paths
  <2>. QED  BY <2>1, <2>2, PrefixIs
<1>3. ASSUME NEW p \in Paths, IsPrefix(p, s)
      PROVE  Len(p) \in 0 .. Len(s) /\ p = SubSeq(s, 1, Len(p))
  <2>1. Len(p) \in Nat /\ p \in Seq(Nat)
    BY DEF Paths
  <2>2. Len(p) <= Len(s) /\ \A i \in 1 .. Len(p) : p[i] = s[i]
    BY <1>3, PrefixIs
  <2>3. SubSeq(s, 1, Len(p)) \in Seq(Nat) /\ Len(SubSeq(s, 1, Len(p))) = Len(p)
        /\ \A i \in 1 .. Len(p) : SubSeq(s, 1, Len(p))[i] = s[i]
    BY <1>1, <2>1, <2>2
  <2>4. p = SubSeq(s, 1, Len(p))
    BY <2>1, <2>2, <2>3, SeqEqual
  <2>. QED  BY <1>1, <2>1, <2>2, <2>4
<1>. QED  BY <1>2, <1>3 DEF Prefixes

\* Of two prefixes of a path one is a prefix of the other.
LEMMA PrefixesNest ==
  ASSUME NEW p \in Paths, NEW q \in Paths, NEW s \in Paths,
         IsPrefix(p, s), IsPrefix(q, s), Len(p) <= Len(q)
  PROVE  IsPrefix(p, q) /\ (Len(p) = Len(q) => p = q)
<1>1. Len(p) \in Nat /\ Len(q) \in Nat /\ p \in Seq(Nat) /\ q \in Seq(Nat)
  BY DEF Paths
<1>2. (\A i \in 1 .. Len(p) : p[i] = s[i]) /\ (\A i \in 1 .. Len(q) : q[i] = s[i])
  BY PrefixIs
<1>3. \A i \in 1 .. Len(p) : p[i] = q[i]
  BY <1>1, <1>2
<1>4. Len(p) = Len(q) => p = q
  BY <1>1, <1>3, SeqEqual
<1>. QED  BY <1>3, <1>4, PrefixIs

LEMMA PrefixTransitive ==
  ASSUME NEW p \in Paths, NEW q \in Paths, NEW s \in Paths, IsPrefix(p, q), IsPrefix(q, s)
  PROVE  IsPrefix(p, s)
<1>1. Len(p) \in Nat /\ Len(q) \in Nat /\ Len(s) \in Nat
  BY DEF Paths
<1>2. /\ Len(p) <= Len(q) /\ Len(q) <= Len(s)
      /\ (\A i \in 1 .. Len(p) : p[i] = q[i]) /\ (\A i \in 1 .. Len(q) : q[i] = s[i])
  BY PrefixIs
<1>3. Len(p) <= Len(s) /\ \A i \in 1 .. Len(p) : p[i] = s[i]
  BY <1>1, <1>2
<1>. QED  BY <1>3, PrefixIs

\* The order of the paths is a strict total order.
LEMMA DeeperAsymmetric ==
  ASSUME NEW p \in Paths, NEW q \in Paths, Deeper(p, q)
  PROVE  ~Deeper(q, p)
<1>1. /\ Len(p) \in Nat /\ Len(q) \in Nat /\ DOMAIN p = 1 .. Len(p) /\ DOMAIN q = 1 .. Len(q)
      /\ \A k \in 1 .. Len(p) : p[k] \in Nat
      /\ \A k \in 1 .. Len(q) : q[k] \in Nat
  BY DEF Paths
<1>2. CASE Len(p) > Len(q)
  <2>1. ~(Len(q) > Len(p)) /\ Len(q) # Len(p)
    BY <1>2, PathLengths
  <2>. QED  BY <2>1 DEF Deeper
<1>3. CASE Len(p) = Len(q)
  <2>1. PICK i \in 1 .. Len(p) : p[i] < q[i] /\ \A k \in 1 .. i - 1 : p[k] = q[k]
    BY <1>1, <1>3 DEF Deeper
  <2>2. SUFFICES ASSUME NEW j \in 1 .. Len(p), q[j] < p[j], \A k \in 1 .. j - 1 : q[k] = p[k]
                 PROVE  FALSE
    BY <1>1, <1>3 DEF Deeper
  <2>3. CASE i < j
    <3>1. i \in 1 .. j - 1
      BY <2>3
    <3>. QED  BY <1>1, <1>3, <2>1, <2>2, <3>1
  <2>4. CASE j < i
    <3>1. j \in 1 .. i - 1
      BY <2>4
    <3>. QED  BY <1>1, <1>3, <2>1, <2>2, <3>1
  <2>5. CASE i = j
    BY <1>1, <1>3, <2>1, <2>2, <2>5
  <2>. QED  BY <2>3, <2>4, <2>5
<1>. QED  BY <1>1, <1>2, <1>3 DEF Deeper

LEMMA DeeperTransitive ==
  ASSUME NEW p \in Paths, NEW q \in Paths, NEW r \in Paths, Deeper(p, q), Deeper(q, r)
  PROVE  Deeper(p, r)
<1>1. /\ Len(p) \in Nat /\ Len(q) \in Nat /\ Len(r) \in Nat
      /\ DOMAIN p = 1 .. Len(p) /\ DOMAIN q = 1 .. Len(q) /\ DOMAIN r = 1 .. Len(r)
      /\ \A k \in 1 .. Len(p) : p[k] \in Nat
      /\ \A k \in 1 .. Len(q) : q[k] \in Nat
      /\ \A k \in 1 .. Len(r) : r[k] \in Nat
  BY DEF Paths
<1>0. Len(p) >= Len(q) /\ Len(q) >= Len(r)
  <2>1. Len(p) > Len(q) \/ Len(p) = Len(q)
    BY DEF Deeper
  <2>2. Len(q) > Len(r) \/ Len(q) = Len(r)
    BY DEF Deeper
  <2>. QED  BY <2>1, <2>2, PathLengths
<1>2. CASE Len(p) > Len(q) \/ Len(q) > Len(r)
  <2>1. Len(p) > Len(r)
    BY <1>0, <1>2, PathLengths
  <2>. QED  BY <2>1 DEF Deeper
<1>3. CASE Len(p) = Len(q) /\ Len(q) = Len(r)
  <2>1. PICK i \in 1 .. Len(p) : p[i] < q[i] /\ \A k \in 1 .. i - 1 : p[k] = q[k]
    BY <1>1, <1>3 DEF Deeper
  <2>2. PICK j \in 1 .. Len(p) : q[j] < r[j] /\ \A k \in 1 .. j - 1 : q[k] = r[k]
    BY <1>1, <1>3 DEF Deeper
  <2>3. CASE i < j
    <3>1. i \in 1 .. j - 1 /\ \A k \in 1 .. i - 1 : k \in 1 .. j - 1
      BY <2>3
    <3>2. p[i] < r[i] /\ \A k \in 1 .. i - 1 : p[k] = r[k]
      BY <2>1, <2>2, <3>1
    <3>. QED  BY <1>1, <1>3, <3>2 DEF Deeper
  <2>4. CASE j < i
    <3>1. j \in 1 .. i - 1 /\ \A k \in 1 .. j - 1 : k \in 1 .. i - 1
      BY <2>4
    <3>2. p[j] < r[j] /\ \A k \in 1 .. j - 1 : p[k] = r[k]
      BY <2>1, <2>2, <3>1
    <3>. QED  BY <1>1, <1>3, <3>2 DEF Deeper
  <2>5. CASE i = j
    <3>1. p[i] < r[i] /\ \A k \in 1 .. i - 1 : p[k] = r[k]
      BY <1>1, <1>3, <2>1, <2>2, <2>5
    <3>. QED  BY <1>1, <1>3, <3>1 DEF Deeper
  <2>. QED  BY <2>3, <2>4, <2>5
<1>4. Len(p) > Len(q) \/ Len(q) > Len(r) \/ (Len(p) = Len(q) /\ Len(q) = Len(r))
  BY <1>0, PathLengths
<1>. QED  BY <1>2, <1>3, <1>4

LEMMA DeeperTotal ==
  ASSUME NEW p \in Paths, NEW q \in Paths, p # q
  PROVE  Deeper(p, q) \/ Deeper(q, p)
<1>1. /\ Len(p) \in Nat /\ Len(q) \in Nat /\ DOMAIN p = 1 .. Len(p) /\ DOMAIN q = 1 .. Len(q)
      /\ p \in Seq(Nat) /\ q \in Seq(Nat)
      /\ \A k \in 1 .. Len(p) : p[k] \in Nat
      /\ \A k \in 1 .. Len(q) : q[k] \in Nat
  BY DEF Paths
<1>2. CASE Len(p) # Len(q)
  <2>1. Len(p) > Len(q) \/ Len(q) > Len(p)
    BY <1>2, PathLengths
  <2>. QED  BY <2>1 DEF Deeper
<1>3. CASE Len(p) = Len(q)
  <2>. DEFINE D == {k \in 1 .. Len(p) : p[k] # q[k]}
              i == Min(D)
  <2>1. D # {}
    BY <1>1, <1>3, SeqEqual
  <2>2. D \in SUBSET Nat
    OBVIOUS
  <2>3. i \in D /\ \A k \in D : i <= k
    <3>. HIDE DEF D
    <3>. QED  BY <2>1, <2>2, MinIsMember
  <2>. HIDE DEF i
  <2>4. i \in 1 .. Len(p) /\ p[i] # q[i]
    BY <2>3
  <2>5. \A k \in 1 .. i - 1 : p[k] = q[k]
    <3>1. ASSUME NEW k \in 1 .. i - 1, p[k] # q[k] PROVE FALSE
      <4>1. k \in 1 .. Len(p) /\ ~(i <= k)
        BY <1>1, <2>4
      <4>. QED  BY <2>3, <3>1, <4>1
    <3>. QED  BY <3>1
  <2>6. p[i] < q[i] \/ q[i] < p[i]
    BY <1>1, <1>3, <2>4
  <2>. QED  BY <1>1, <1>3, <2>4, <2>5, <2>6 DEF Deeper
<1>. QED  BY <1>2, <1>3

\* Of finitely many regions one is collapsed after the others.
LEMMA LastOfExists ==
  ASSUME NEW S \in SUBSET Paths, IsFiniteSet(S), S # {}
  PROVE  LastOf(S) \in S /\ \A q \in S \ {LastOf(S)} : Deeper(q, LastOf(S))
<1>. DEFINE IsLast(p, s) == p \in s /\ \A q \in s \ {p} : Deeper(q, p)
            U == {n \in Nat : \A s \in SUBSET S : s # {} /\ Cardinality(s) = n => \E p : IsLast(p, s)}
<1>1. 0 \in U
  <2>1. ASSUME NEW s \in SUBSET S, s # {}, Cardinality(s) = 0 PROVE FALSE
    BY <2>1, FS_Subset, FS_EmptySet
  <2>. QED  BY <2>1
<1>2. ASSUME NEW n \in Nat, n \in U PROVE n + 1 \in U
  <2>1. ASSUME NEW s \in SUBSET S, s # {}, Cardinality(s) = n + 1
        PROVE  \E p : IsLast(p, s)
    <3>1. PICK x \in s : TRUE
      BY <2>1
    <3>. DEFINE r == s \ {x}
    <3>2. r \in SUBSET S /\ Cardinality(r) = n
      <4>1. IsFiniteSet(s)
        BY FS_Subset
      <4>2. Cardinality(r) = Cardinality(s) - 1
        BY <4>1, FS_RemoveElement
      <4>. QED  BY <2>1, <4>2
    <3>3. CASE r = {}
      <4>1. IsLast(x, s)
        BY <3>3
      <4>. QED  BY <4>1
    <3>4. CASE r # {}
      <4>1. PICK p : IsLast(p, r)
        BY <1>2, <3>2, <3>4
      <4>2. p \in Paths /\ x \in Paths /\ p # x
        BY <4>1
      <4>3. CASE Deeper(x, p)
        <5>1. IsLast(p, s)
          BY <4>1, <4>3
        <5>. QED  BY <5>1
      <4>4. CASE Deeper(p, x)
        <5>1. ASSUME NEW q \in s \ {x} PROVE Deeper(q, x)
          <6>1. q \in Paths /\ (q = p \/ Deeper(q, p))
            BY <4>1
          <6>. QED  BY <4>2, <4>4, <6>1, DeeperTransitive
        <5>2. IsLast(x, s)
          BY <5>1
        <5>. QED  BY <5>2
      <4>. QED  BY <4>2, <4>3, <4>4, DeeperTotal
    <3>. QED  BY <3>3, <3>4
  <2>. QED  BY <2>1
<1>. HIDE DEF U
<1>3. Nat \subseteq U
  BY <1>1, <1>2, Induction
<1>4. Cardinality(S) \in Nat
  BY FS_CardinalityType
<1>5. PICK p : IsLast(p, S)
  BY <1>3, <1>4 DEF U
<1>. QED  BY <1>5 DEF LastOf

-----------------------------------------------------------------------------
(* Nodes, and some of them picked.                                           *)

OpIds   == {OpNode(i) : i \in Nat} \union {GhostNode(i) : i \in Nat}
NodeIds == OpIds \union {ClusterNode(p) : p \in Paths}
NodeSet == [id : NodeIds, path : Paths, hidden : Nat]
EdgeSet == [from : NodeIds, to : NodeIds, removed : BOOLEAN]
GraphSet == [nodes : Seq(NodeSet), edges : SUBSET EdgeSet, truncated : BOOLEAN]

\* No node is there twice.
Distinct(nodes) ==
  \A i, j \in 1 .. Len(nodes) : nodes[i].id = nodes[j].id => i = j
IdsOf(nodes) == {nodes[i].id : i \in 1 .. Len(nodes)}

\* A set that another is mapped to one to one has as many members.
LEMMA SameCount ==
  ASSUME NEW S, NEW T, IsFiniteSet(S), NEW f \in [S -> T],
         \A a, b \in S : f[a] = f[b] => a = b,
         \A t \in T : \E s \in S : f[s] = t
  PROVE  IsFiniteSet(T) /\ Cardinality(T) = Cardinality(S)
<1>1. f \in Bijection(S, T)
  BY DEF Bijection, Injection, Surjection, IsInjective
<1>2. ExistsBijection(S, T)
  BY <1>1 DEF ExistsBijection
<1>. QED  BY <1>2, FS_Bijection

LEMMA IntervalCount ==
  ASSUME NEW n \in Nat
  PROVE  IsFiniteSet(1 .. n) /\ Cardinality(1 .. n) = n
<1>1. IsFiniteSet(1 .. n) /\ Cardinality(1 .. n) = IF 1 > n THEN 0 ELSE n - 1 + 1
  BY FS_Interval
<1>. QED  BY <1>1

LEMMA IdsAre ==
  ASSUME NEW g, g.nodes \in Seq(NodeSet)
  PROVE  /\ Ids(g) = IdsOf(g.nodes) /\ DOMAIN g.nodes = 1 .. Len(g.nodes)
         /\ Range(g.nodes) = {g.nodes[i] : i \in 1 .. Len(g.nodes)}
         /\ Len(g.nodes) \in Nat
<1>1. DOMAIN g.nodes = 1 .. Len(g.nodes) /\ Len(g.nodes) \in Nat
  OBVIOUS
<1>. QED  BY <1>1 DEF Ids, IdsOf, Range

\* As many ids as nodes, if each is there once.
LEMMA DistinctCounts ==
  ASSUME NEW nodes \in Seq(NodeSet), Distinct(nodes)
  PROVE  IsFiniteSet(IdsOf(nodes)) /\ Cardinality(IdsOf(nodes)) = Len(nodes)
<1>. DEFINE n == Len(nodes)
            f == [i \in 1 .. n |-> nodes[i].id]
<1>1. n \in Nat /\ IsFiniteSet(1 .. n) /\ Cardinality(1 .. n) = n
  <2>1. n \in Nat
    OBVIOUS
  <2>. HIDE DEF n
  <2>. QED  BY <2>1, IntervalCount
<1>2. f \in [1 .. n -> IdsOf(nodes)]
  BY DEF IdsOf
<1>3. \A i, j \in 1 .. n : f[i] = f[j] => i = j
  BY DEF Distinct
<1>4. \A x \in IdsOf(nodes) : \E i \in 1 .. n : f[i] = x
  BY DEF IdsOf
<1>. HIDE DEF f, n
<1>5. IsFiniteSet(IdsOf(nodes)) /\ Cardinality(IdsOf(nodes)) = Cardinality(1 .. n)
  BY <1>1, <1>2, <1>3, <1>4, SameCount
<1>. QED  BY <1>1, <1>5 DEF n

\* The k-th of the nodes picked is the one at at[k].
PickedBy(at, p, nodes, some) ==
  /\ at \in [1 .. Len(p) -> some]
  /\ \A i, j \in 1 .. Len(p) : at[i] = at[j] => i = j
  /\ \A x \in some : \E i \in 1 .. Len(p) : at[i] = x
  /\ \A i \in 1 .. Len(p) : p[i] = nodes[at[i]]

\* What is picked are those nodes, each as often as it is there.
LEMMA PickedAre ==
  ASSUME NEW S, NEW nodes \in Seq(S), NEW some \in SUBSET (1 .. Len(nodes))
  PROVE  /\ Picked(nodes, some) \in Seq(S)
         /\ Len(Picked(nodes, some)) = Cardinality(some)
         /\ \E at : PickedBy(at, Picked(nodes, some), nodes, some)
<1>. DEFINE n  == Len(nodes)
            at == Ascending(some, n)
            p  == Picked(nodes, some)
            m  == Len(at)
<1>1. n \in Nat /\ DOMAIN nodes = 1 .. n /\ \A i \in 1 .. n : nodes[i] \in S
  OBVIOUS
<1>2. ListsUpTo(at, some, n)
  BY <1>1, AscendingLists
<1>3. p = [k \in DOMAIN at |-> nodes[at[k]]]
  BY DEF Picked
<1>. HIDE DEF at, p
<1>4. /\ at \in Seq(Nat) /\ m \in Nat /\ DOMAIN at = 1 .. m
      /\ \A k \in 1 .. m : at[k] \in some /\ at[k] \in 1 .. n
      /\ \A x \in some : \E k \in 1 .. m : at[k] = x
      /\ \A k, l \in 1 .. m : k < l => at[k] < at[l]
  BY <1>2 DEF ListsUpTo
<1>5. at \in [1 .. m -> some]
  BY <1>4
<1>6. \A i, j \in 1 .. m : at[i] = at[j] => i = j
  <2>1. ASSUME NEW i \in 1 .. m, NEW j \in 1 .. m, at[i] = at[j], i # j
        PROVE  FALSE
    <3>1. i < j \/ j < i
      BY <1>4, <2>1
    <3>2. at[i] \in Nat /\ at[j] \in Nat /\ (at[i] < at[j] \/ at[j] < at[i])
      BY <1>4, <3>1
    <3>. QED  BY <2>1, <3>2
  <2>. QED  BY <2>1
<1>7. p \in Seq(S) /\ Len(p) = m /\ \A i \in 1 .. m : p[i] = nodes[at[i]]
  <2>1. p = [k \in 1 .. m |-> nodes[at[k]]]
    BY <1>3, <1>4
  <2>2. \A k \in 1 .. m : nodes[at[k]] \in S
    BY <1>1, <1>4
  <2>3. p \in [1 .. m -> S]
    BY <2>1, <2>2
  <2>. QED  BY <1>4, <2>1, <2>3
<1>8. Cardinality(some) = m
  <2>. HIDE DEF m
  <2>1. IsFiniteSet(1 .. m) /\ Cardinality(1 .. m) = m
    BY <1>4, IntervalCount
  <2>2. \A x \in some : \E k \in 1 .. m : at[k] = x
    BY <1>4
  <2>3. Cardinality(some) = Cardinality(1 .. m)
    BY <1>5, <1>6, <2>1, <2>2, SameCount
  <2>. QED  BY <2>1, <2>3
<1>9. PickedBy(at, p, nodes, some)
  BY <1>4, <1>5, <1>6, <1>7 DEF PickedBy
<1>. QED  BY <1>7, <1>8, <1>9 DEF p

\* So no id is picked twice, and the ids are those of some of the nodes.
LEMMA PickedDistinct ==
  ASSUME NEW nodes \in Seq(NodeSet), Distinct(nodes), NEW some \in SUBSET (1 .. Len(nodes))
  PROVE  /\ Distinct(Picked(nodes, some))
         /\ IdsOf(Picked(nodes, some)) = {nodes[i].id : i \in some}
         /\ Range(Picked(nodes, some)) = {nodes[i] : i \in some}
<1>. DEFINE p == Picked(nodes, some)
            m == Len(p)
<1>1. p \in Seq(NodeSet)
  BY PickedAre
<1>2. PICK at : PickedBy(at, p, nodes, some)
  BY PickedAre
<1>. HIDE DEF p
<1>3. DOMAIN p = 1 .. m
  BY <1>1
<1>8. /\ \A k \in 1 .. m : at[k] \in some /\ at[k] \in 1 .. Len(nodes) /\ p[k] = nodes[at[k]]
      /\ \A k, l \in 1 .. m : at[k] = at[l] => k = l
      /\ \A x \in some : \E k \in 1 .. m : at[k] = x
  BY <1>2 DEF PickedBy
<1>. HIDE DEF m
<1>4. Distinct(p)
  <2>1. ASSUME NEW i \in 1 .. m, NEW j \in 1 .. m, p[i].id = p[j].id
        PROVE  i = j
    <3>1. at[i] = at[j]
      BY <1>8, <2>1 DEF Distinct
    <3>. QED  BY <1>8, <3>1
  <2>. QED  BY <2>1 DEF Distinct, m
<1>5. IdsOf(p) = {nodes[i].id : i \in some}
  <2>1. IdsOf(p) = {p[k].id : k \in 1 .. m}
    BY DEF IdsOf, m
  <2>2. \A k \in 1 .. m : p[k].id \in {nodes[i].id : i \in some}
    BY <1>8
  <2>3. \A i \in some : nodes[i].id \in {p[k].id : k \in 1 .. m}
    BY <1>8
  <2>. QED  BY <2>1, <2>2, <2>3
<1>6. Range(p) = {nodes[i] : i \in some}
  <2>1. Range(p) = {p[k] : k \in 1 .. m}
    BY <1>3 DEF Range
  <2>2. \A k \in 1 .. m : p[k] \in {nodes[i] : i \in some}
    BY <1>8
  <2>3. \A i \in some : nodes[i] \in {p[k] : k \in 1 .. m}
    BY <1>8
  <2>. QED  BY <2>1, <2>2, <2>3
<1>. QED  BY <1>4, <1>5, <1>6 DEF p

-----------------------------------------------------------------------------
(* What is cut off.                                                          *)

\* A graph whose nodes are distinct and whose edges join them.
Joined(g) ==
  /\ g \in GraphSet /\ Distinct(g.nodes)
  /\ \A e \in g.edges : e.from \in Ids(g) /\ e.to \in Ids(g)

LEMMA KeptAre ==
  ASSUME NEW g \in GraphSet, Distinct(g.nodes), NEW budget \in Nat, Len(g.nodes) > budget
  PROVE  /\ Kept(g, budget) \in Seq(NodeSet) /\ Len(Kept(g, budget)) = budget
         /\ Distinct(Kept(g, budget))
<1>. DEFINE nodes == g.nodes
            n     == Len(nodes)
            M     == Metas(g)
            R     == Reals(g)
            a     == Picked(nodes, M)
            b     == Picked(nodes, R)
            ab    == a \o b
<1>1. nodes \in Seq(NodeSet) /\ n \in Nat /\ DOMAIN nodes = 1 .. n
  BY DEF GraphSet
<1>2. M \in SUBSET (1 .. n) /\ R \in SUBSET (1 .. n) /\ M \intersect R = {} /\ M \union R = 1 .. n
  BY <1>1 DEF Metas, Reals
<1>3. Kept(g, budget) = SubSeq(ab, 1, budget)
  BY DEF Kept
<1>. HIDE DEF M, R, nodes
<1>4. /\ a \in Seq(NodeSet) /\ Len(a) = Cardinality(M) /\ b \in Seq(NodeSet) /\ Len(b) = Cardinality(R)
  BY <1>1, <1>2, PickedAre
<1>5. Cardinality(M) + Cardinality(R) = n
  <2>1. IsFiniteSet(1 .. n) /\ Cardinality(1 .. n) = n
    BY <1>1, IntervalCount
  <2>2. IsFiniteSet(M) /\ IsFiniteSet(R)
    BY <1>2, <2>1, FS_Subset
  <2>3. Cardinality(M \union R) = Cardinality(M) + Cardinality(R) - Cardinality(M \intersect R)
    BY <2>2, FS_Union
  <2>4. Cardinality(M \intersect R) = 0 /\ Cardinality(M) \in Nat /\ Cardinality(R) \in Nat
    BY <1>2, <2>2, FS_EmptySet, FS_CardinalityType
  <2>5. Cardinality(M \union R) = n
    BY <1>2, <2>1
  <2>. HIDE DEF n
  <2>. QED  BY <2>3, <2>4, <2>5
<1>61. PICK p : PickedBy(p, a, nodes, M)
  BY <1>1, <1>2, PickedAre
<1>71. PICK q : PickedBy(q, b, nodes, R)
  BY <1>1, <1>2, PickedAre
<1>. HIDE DEF a, b
<1>6. /\ p \in [1 .. Len(a) -> M]
      /\ \A i, j \in 1 .. Len(a) : p[i] = p[j] => i = j
      /\ \A i \in 1 .. Len(a) : a[i] = nodes[p[i]]
  BY <1>61 DEF PickedBy
<1>7. /\ q \in [1 .. Len(b) -> R]
      /\ \A i, j \in 1 .. Len(b) : q[i] = q[j] => i = j
      /\ \A i \in 1 .. Len(b) : b[i] = nodes[q[i]]
  BY <1>71 DEF PickedBy
<1>8. /\ ab \in Seq(NodeSet) /\ Len(a) \in Nat /\ Len(b) \in Nat /\ Len(ab) = n
      /\ \A i \in 1 .. Len(ab) : ab[i] = IF i <= Len(a) THEN a[i] ELSE b[i - Len(a)]
  BY <1>4, <1>5, ConcatProperties
<1>. DEFINE at == [i \in 1 .. n |-> IF i <= Len(a) THEN p[i] ELSE q[i - Len(a)]]
<1>9. ASSUME NEW i \in 1 .. n
      PROVE  /\ ab[i] = nodes[at[i]] /\ at[i] \in 1 .. n
             /\ i <= Len(a) => i \in 1 .. Len(a) /\ at[i] = p[i] /\ at[i] \in M
             /\ ~(i <= Len(a)) => i - Len(a) \in 1 .. Len(b) /\ at[i] = q[i - Len(a)] /\ at[i] \in R
  <2>1. CASE i <= Len(a)
    <3>1. i \in 1 .. Len(a)
      BY <1>8, <2>1
    <3>. QED  BY <1>2, <1>6, <1>8, <2>1, <3>1
  <2>2. CASE ~(i <= Len(a))
    <3>1. i - Len(a) \in 1 .. Len(b)
      BY <1>4, <1>5, <1>8, <2>2
    <3>. QED  BY <1>2, <1>7, <1>8, <2>2, <3>1
  <2>. QED  BY <2>1, <2>2
<1>. HIDE DEF at
<1>10. ASSUME NEW i \in 1 .. n, NEW j \in 1 .. n, at[i] = at[j]
       PROVE  i = j
  <2>1. (i <= Len(a)) <=> (j <= Len(a))
    BY <1>2, <1>9, <1>10
  <2>2. CASE i <= Len(a)
    BY <1>6, <1>9, <1>10, <2>1, <2>2
  <2>3. CASE ~(i <= Len(a))
    <3>. DEFINE x == i - Len(a)
                y == j - Len(a)
    <3>1. x \in 1 .. Len(b) /\ y \in 1 .. Len(b) /\ at[i] = q[x] /\ at[j] = q[y]
      BY <1>9, <2>1, <2>3
    <3>. HIDE DEF x, y
    <3>2. x = y
      BY <1>7, <1>10, <3>1
    <3>. QED  BY <1>8, <3>2 DEF x, y
  <2>. QED  BY <2>2, <2>3
<1>. DEFINE k == SubSeq(ab, 1, budget)
<1>11. /\ k \in Seq(NodeSet) /\ Len(k) = budget /\ \A i \in 1 .. budget : k[i] = ab[i] /\ i \in 1 .. n
  <2>1. budget <= n
    BY <1>1 DEF nodes
  <2>. HIDE DEF n, ab
  <2>. QED  BY <1>1, <1>8, <2>1
<1>. HIDE DEF ab, k
<1>12. Distinct(k)
  <2>1. ASSUME NEW i \in 1 .. budget, NEW j \in 1 .. budget, k[i].id = k[j].id
        PROVE  i = j
    <3>1. nodes[at[i]].id = nodes[at[j]].id /\ at[i] \in 1 .. n /\ at[j] \in 1 .. n
      BY <1>9, <1>11, <2>1
    <3>2. at[i] = at[j]
      BY <3>1 DEF Distinct, nodes
    <3>. QED  BY <1>10, <1>11, <3>2
  <2>. QED  BY <1>11, <2>1 DEF Distinct
<1>. QED  BY <1>3, <1>11, <1>12 DEF k

\* Truncation keeps to the budget, and leaves the edges between what it keeps.
LEMMA TruncateKeeps ==
  ASSUME NEW g, Joined(g), g.truncated = FALSE, NEW budget \in Nat
  PROVE  /\ Joined(MaybeTruncate(g, budget))
         /\ budget > 0 => Len(MaybeTruncate(g, budget).nodes) <= budget
         /\ MaybeTruncate(g, budget).truncated => Len(MaybeTruncate(g, budget).nodes) = budget
         /\ ~MaybeTruncate(g, budget).truncated => MaybeTruncate(g, budget) = g
<1>. DEFINE t == MaybeTruncate(g, budget)
<1>0. Len(g.nodes) \in Nat /\ g \in GraphSet /\ Distinct(g.nodes)
  BY DEF Joined, GraphSet
<1>1. CASE budget = 0 \/ Len(g.nodes) <= budget
  <2>1. t = g
    BY <1>1 DEF MaybeTruncate
  <2>. QED  BY <1>0, <1>1, <2>1
<1>2. CASE ~(budget = 0 \/ Len(g.nodes) <= budget)
  <2>. DEFINE k     == Kept(g, budget)
              ids   == {n.id : n \in Range(k)}
              edges == {e \in g.edges : {e.from, e.to} \subseteq ids}
  <2>1. t = [nodes |-> k, truncated |-> TRUE, edges |-> edges]
    BY <1>2 DEF MaybeTruncate
  <2>2. k \in Seq(NodeSet) /\ Len(k) = budget /\ Distinct(k)
    BY <1>0, <1>2, KeptAre
  <2>. HIDE DEF k
  <2>3. edges \in SUBSET EdgeSet /\ \A e \in edges : e.from \in ids /\ e.to \in ids
    BY <1>0 DEF GraphSet
  <2>4. Ids(t) = ids
    BY <2>1 DEF Ids
  <2>. HIDE DEF ids, edges
  <2>5. t \in GraphSet
    BY <2>1, <2>2, <2>3 DEF GraphSet
  <2>6. t.nodes = k /\ t.edges = edges /\ t.truncated = TRUE
    BY <2>1
  <2>7. Joined(t)
    BY <2>2, <2>3, <2>4, <2>5, <2>6 DEF Joined
  <2>. QED  BY <2>2, <2>6, <2>7
<1>. QED  BY <1>1, <1>2

\* The two properties of every graph that is shown follow.
LEMMA JoinedIsWellFormed ==
  ASSUME NEW g, Joined(g)
  PROVE  WellFormed(g)
<1>1. g.nodes \in Seq(NodeSet) /\ Distinct(g.nodes)
  BY DEF Joined, GraphSet
<1>2. Ids(g) = IdsOf(g.nodes)
  BY <1>1, IdsAre
<1>3. Cardinality(Ids(g)) = Len(g.nodes)
  BY <1>1, <1>2, DistinctCounts
<1>. QED  BY <1>3 DEF Joined, WellFormed

-----------------------------------------------------------------------------
(* The representatives of the operations in a graph that is collapsed.       *)

\* A graph before anything of it is collapsed.
IsFull(full) ==
  /\ Joined(full) /\ full.truncated = FALSE
  /\ \A n \in Range(full.nodes) : n.id \in OpIds /\ n.hidden = 0
  /\ \A e \in full.edges : e.from # e.to

NodeAt(full, id) == CHOOSE n \in Range(full.nodes) : n.id = id
Around(g, n)     == {p \in Prefixes(n.path) : ClusterNode(p) \in Ids(g)}
Rep(full, g, id) == Representative(g, NodeAt(full, id))
Stands(full, g, x) == {id \in Ids(full) : Rep(full, g, id) = x}
Drawn(full, g) ==
  {e \in {Edge(Rep(full, g, e.from), Rep(full, g, e.to), e.removed) : e \in full.edges} :
     e.from # e.to}

\* An operation is a node exactly if no cluster is around it.
Shown(full, g) == \A n \in Range(full.nodes) : n.id \in Ids(g) <=> Around(g, n) = {}

\* What a node of a collapsed graph is.
Kinds(full, g) ==
  \A n \in Range(g.nodes) :
    n \in Range(full.nodes) \/ (n.hidden > 0 /\ n.id = ClusterNode(n.path))

LEMMA ClusterIds ==
  /\ \A p, q : ClusterNode(p) = ClusterNode(q) => p = q
  /\ \A x \in OpIds : \A p : x # ClusterNode(p)
<1>1. \A i, p : OpNode(i) # ClusterNode(p) /\ GhostNode(i) # ClusterNode(p)
  BY DEF OpNode, GhostNode, ClusterNode
<1>. QED  BY <1>1 DEF OpIds, ClusterNode

LEMMA RangeIs ==
  ASSUME NEW g, g.nodes \in Seq(NodeSet)
  PROVE  /\ \A n \in Range(g.nodes) : n \in NodeSet /\ n.id \in Ids(g)
         /\ \A x \in Ids(g) : \E n \in Range(g.nodes) : n.id = x
         /\ Distinct(g.nodes) => \A m, n \in Range(g.nodes) : m.id = n.id => m = n
<1>0. \A i \in 1 .. Len(g.nodes) : g.nodes[i] \in NodeSet
  OBVIOUS
<1>1. /\ Ids(g) = IdsOf(g.nodes) /\ Range(g.nodes) = {g.nodes[i] : i \in 1 .. Len(g.nodes)}
      /\ \A i \in 1 .. Len(g.nodes) : g.nodes[i] \in NodeSet
  BY <1>0, IdsAre
<1>2. Ids(g) = {n.id : n \in Range(g.nodes)}
  BY DEF Ids
<1>3. Distinct(g.nodes) => \A m, n \in Range(g.nodes) : m.id = n.id => m = n
  BY <1>1 DEF Distinct
<1>. QED  BY <1>1, <1>2, <1>3

LEMMA FullNodes ==
  ASSUME NEW full, IsFull(full)
  PROVE  /\ \A n \in Range(full.nodes) : /\ n \in NodeSet /\ n.id \in Ids(full) /\ n.id \in OpIds
                                         /\ n.hidden = 0 /\ NodeAt(full, n.id) = n
         /\ \A m, n \in Range(full.nodes) : m.id = n.id => m = n
         /\ \A x \in Ids(full) : \E n \in Range(full.nodes) : n.id = x
         /\ IsFiniteSet(Ids(full))
<1>1. full.nodes \in Seq(NodeSet) /\ Distinct(full.nodes)
  BY DEF IsFull, Joined, GraphSet
<1>2. /\ \A n \in Range(full.nodes) : n \in NodeSet /\ n.id \in Ids(full)
      /\ \A x \in Ids(full) : \E n \in Range(full.nodes) : n.id = x
      /\ \A m, n \in Range(full.nodes) : m.id = n.id => m = n
  BY <1>1, RangeIs
<1>3. \A n \in Range(full.nodes) : NodeAt(full, n.id) = n
  BY <1>2 DEF NodeAt
<1>4. IsFiniteSet(Ids(full))
  BY <1>1, DistinctCounts, IdsAre
<1>. QED  BY <1>2, <1>3, <1>4 DEF IsFull

\* The longest of the prefixes of a path that have a property.
LEMMA LongestExists ==
  ASSUME NEW s \in Paths, NEW A \in SUBSET Prefixes(s), A # {}
  PROVE  \E p \in A : \A q \in A : Len(q) <= Len(p)
<1>. DEFINE L == {Len(p) : p \in A}
<1>1. \A p \in A : p \in Paths /\ Len(p) \in 0 .. Len(s)
  <2>1. ASSUME NEW p \in A PROVE p \in Paths /\ Len(p) \in 0 .. Len(s)
    <3>1. p \in Paths /\ IsPrefix(p, s)
      BY PrefixesAre
    <3>2. Len(p) <= Len(s)
      BY <3>1, PrefixIs
    <3>. QED  BY <3>1, <3>2, PathLengths
  <2>. QED  BY <2>1
<1>2. L \in SUBSET (0 .. Len(s)) /\ L # {} /\ Len(s) \in Nat
  BY <1>1, PathLengths
<1>. HIDE DEF L
<1>3. Max(L) \in L /\ \A x \in L : Max(L) >= x
  BY <1>2, MaxOfNumbers
<1>4. PICK p \in A : Len(p) = Max(L)
  BY <1>3 DEF L
<1>5. ASSUME NEW q \in A PROVE Len(q) <= Len(p)
  <2>1. Len(q) \in L
    BY DEF L
  <2>2. Len(p) >= Len(q)
    BY <1>3, <1>4, <2>1
  <2>. QED  BY <1>1, <2>2
<1>. QED  BY <1>5

LEMMA AroundIs ==
  ASSUME NEW g, NEW n \in NodeSet
  PROVE  /\ n.path \in Paths
         /\ \A p : p \in Around(g, n) <=> p \in Paths /\ IsPrefix(p, n.path) /\ ClusterNode(p) \in Ids(g)
<1>1. n.path \in Paths
  BY DEF NodeSet
<1>. QED  BY <1>1, PrefixesAre DEF Around

\* An operation that is shown represents itself, another the innermost cluster around it.
LEMMA RepIs ==
  ASSUME NEW full, IsFull(full), NEW g, NEW n \in Range(full.nodes)
  PROVE  /\ n.id \in Ids(g) => Rep(full, g, n.id) = n.id
         /\ n.id \notin Ids(g) =>
              \A p \in Around(g, n) :
                (\A q \in Around(g, n) : Len(q) <= Len(p)) => Rep(full, g, n.id) = ClusterNode(p)
<1>1. NodeAt(full, n.id) = n /\ n \in NodeSet
  BY FullNodes
<1>2. Rep(full, g, n.id) = IF n.id \in Ids(g) THEN n.id
                           ELSE ClusterNode(CHOOSE p \in Around(g, n) : \A q \in Around(g, n) : Len(q) <= Len(p))
  BY <1>1 DEF Rep, Representative, Around
<1>3. ASSUME NEW p \in Around(g, n), \A q \in Around(g, n) : Len(q) <= Len(p),
             NEW r \in Around(g, n), \A q \in Around(g, n) : Len(q) <= Len(r)
      PROVE  p = r
  <2>1. /\ p \in Paths /\ r \in Paths /\ n.path \in Paths
        /\ IsPrefix(p, n.path) /\ IsPrefix(r, n.path)
    BY <1>1, AroundIs
  <2>2. Len(p) <= Len(r) /\ Len(r) <= Len(p)
    BY <1>3
  <2>3. Len(p) = Len(r)
    BY <2>1, <2>2, PathLengths
  <2>. QED  BY <2>1, <2>2, <2>3, PrefixesNest
<1>4. ASSUME NEW p \in Around(g, n), \A q \in Around(g, n) : Len(q) <= Len(p)
      PROVE  (CHOOSE r \in Around(g, n) : \A q \in Around(g, n) : Len(q) <= Len(r)) = p
  BY <1>3, <1>4
<1>. QED  BY <1>2, <1>4

LEMMA InnermostOf ==
  ASSUME NEW full, IsFull(full), NEW g, Shown(full, g),
         NEW n \in Range(full.nodes), n.id \notin Ids(g)
  PROVE  \E p \in Around(g, n) : /\ \A q \in Around(g, n) : Len(q) <= Len(p)
                                 /\ Rep(full, g, n.id) = ClusterNode(p)
<1>1. n \in NodeSet /\ Around(g, n) # {}
  BY FullNodes DEF Shown
<1>2. n.path \in Paths /\ Around(g, n) \in SUBSET Prefixes(n.path)
  BY <1>1, AroundIs DEF Around
<1>3. PICK p \in Around(g, n) : \A q \in Around(g, n) : Len(q) <= Len(p)
  BY <1>1, <1>2, LongestExists
<1>. QED  BY <1>3, RepIs

\* Every representative is a node of the graph.
LEMMA RepIsNode ==
  ASSUME NEW full, IsFull(full), NEW g, Shown(full, g), NEW x \in Ids(full)
  PROVE  Rep(full, g, x) \in Ids(g)
<1>1. PICK n \in Range(full.nodes) : n.id = x
  BY FullNodes
<1>2. CASE n.id \in Ids(g)
  BY <1>1, <1>2, RepIs
<1>3. CASE n.id \notin Ids(g)
  BY <1>1, <1>3, InnermostOf DEF Around
<1>. QED  BY <1>2, <1>3

-----------------------------------------------------------------------------
(* A cluster is collapsed.                                                   *)

HiddenBy(g, path) == {n.id : n \in {m \in Range(g.nodes) : InCluster(m, path)}}
Remap(g, path, id) == IF id \in HiddenBy(g, path) THEN ClusterNode(path) ELSE id

\* The nodes of a graph after a cluster is collapsed.
LEMMA CollapsedNodes ==
  ASSUME NEW g \in GraphSet, Distinct(g.nodes), NEW path \in Paths,
         HiddenBy(g, path) # {}, ClusterNode(path) \notin Ids(g)
  PROVE  LET H  == HiddenBy(g, path)
             g2 == CollapseCluster(g, path)
             meta == Node(ClusterNode(path), path, Cardinality(H))
         IN /\ IsFiniteSet(H) /\ Cardinality(H) \in Nat \ {0} /\ meta \in NodeSet
            /\ g2.nodes \in Seq(NodeSet) /\ Distinct(g2.nodes)
            /\ Len(g2.nodes) = Len(g.nodes) - Cardinality(H) + 1
            /\ Range(g2.nodes) = {n \in Range(g.nodes) : n.id \notin H} \union {meta}
            /\ Ids(g2) = (Ids(g) \ H) \union {meta.id}
            /\ g2.truncated = g.truncated
            /\ g2.edges = {e \in {Edge(Remap(g, path, e.from), Remap(g, path, e.to), e.removed) : e \in g.edges} :
                             e.from # e.to}
            /\ g2 = [nodes |-> g2.nodes, edges |-> g2.edges, truncated |-> g.truncated]
<1>. DEFINE H     == HiddenBy(g, path)
            g2    == CollapseCluster(g, path)
            meta  == Node(ClusterNode(path), path, Cardinality(H))
            nodes == g.nodes
            n     == Len(nodes)
            shown == {i \in DOMAIN nodes : nodes[i].id \notin H}
            p     == Picked(nodes, shown)
            E     == {e \in {Edge(Remap(g, path, e.from), Remap(g, path, e.to), e.removed) : e \in g.edges} :
                        e.from # e.to}
<1>1. nodes \in Seq(NodeSet) /\ n \in Nat /\ DOMAIN nodes = 1 .. n
  BY DEF GraphSet
<1>2. g2 = [g EXCEPT !.nodes = Append(p, meta), !.edges = E]
  BY DEF CollapseCluster, HiddenBy, Remap, Node
<1>3. g = [nodes |-> g.nodes, edges |-> g.edges, truncated |-> g.truncated]
  BY DEF GraphSet
<1>. HIDE DEF p, E, meta
<1>4. g2 = [nodes |-> Append(p, meta), edges |-> E, truncated |-> g.truncated]
  BY <1>2, <1>3
<1>5. IsFiniteSet(H) /\ Cardinality(H) \in Nat \ {0} /\ H \in SUBSET Ids(g)
  <2>1. H \in SUBSET Ids(g)
    BY DEF HiddenBy, Ids
  <2>2. IsFiniteSet(Ids(g))
    BY <1>1, IdsAre, DistinctCounts
  <2>3. IsFiniteSet(H)
    BY <2>1, <2>2, FS_Subset
  <2>. QED  BY <2>1, <2>3, FS_CardinalityType, FS_EmptySet
<1>6. meta \in NodeSet /\ meta.id = ClusterNode(path)
  <2>1. ClusterNode(path) \in NodeIds
    BY DEF NodeIds
  <2>. QED  BY <1>5, <2>1 DEF meta, Node, NodeSet
<1>. HIDE DEF H
<1>7. shown \in SUBSET (1 .. n)
  BY <1>1
<1>8. /\ p \in Seq(NodeSet) /\ Len(p) = Cardinality(shown) /\ Distinct(p)
      /\ IdsOf(p) = {nodes[i].id : i \in shown} /\ Range(p) = {nodes[i] : i \in shown}
  <2>. HIDE DEF shown
  <2>. QED  BY <1>1, <1>7, PickedAre, PickedDistinct DEF p
<1>9. /\ Range(g.nodes) = {nodes[i] : i \in 1 .. n} /\ Ids(g) = {nodes[i].id : i \in 1 .. n}
  BY <1>1, IdsAre DEF IdsOf
<1>10. Range(p) = {m \in Range(g.nodes) : m.id \notin H} /\ IdsOf(p) = Ids(g) \ H
  BY <1>1, <1>8, <1>9
<1>11. Cardinality(shown) = n - Cardinality(H)
  <2>. DEFINE S == {i \in 1 .. n : nodes[i].id \in H}
              f == [i \in S |-> nodes[i].id]
  <2>1. IsFiniteSet(1 .. n) /\ Cardinality(1 .. n) = n
    BY <1>1, IntervalCount
  <2>2. IsFiniteSet(S) /\ IsFiniteSet(shown)
    BY <1>7, <2>1, FS_Subset
  <2>3. f \in [S -> H] /\ (\A a, b \in S : f[a] = f[b] => a = b) /\ (\A t \in H : \E s \in S : f[s] = t)
    BY <1>5, <1>9 DEF Distinct
  <2>4. S \union shown = 1 .. n /\ S \intersect shown = {}
    BY <1>1
  <2>. HIDE DEF S, f, shown
  <2>5. Cardinality(H) = Cardinality(S)
    BY <2>2, <2>3, SameCount
  <2>6. Cardinality(S \union shown) = Cardinality(S) + Cardinality(shown) - Cardinality(S \intersect shown)
    BY <2>2, FS_Union
  <2>7. Cardinality(S \intersect shown) = 0 /\ Cardinality(S) \in Nat /\ Cardinality(shown) \in Nat
    BY <2>2, <2>4, FS_EmptySet, FS_CardinalityType
  <2>8. Cardinality(S \union shown) = n
    BY <2>1, <2>4
  <2>. HIDE DEF n
  <2>. QED  BY <2>5, <2>6, <2>7, <2>8
<1>. HIDE DEF shown
<1>. DEFINE a == Append(p, meta)
<1>12. /\ a \in Seq(NodeSet) /\ Len(p) \in Nat /\ Len(a) = Len(p) + 1 /\ a[Len(p) + 1] = meta
       /\ \A i \in 1 .. Len(p) : a[i] = p[i]
  BY <1>6, <1>8
<1>. HIDE DEF a
<1>13. \A i \in 1 .. Len(a) : i \in 1 .. Len(p) \/ i = Len(p) + 1
  BY <1>12
<1>14. Range(p) = {p[i] : i \in 1 .. Len(p)} /\ Range(a) = {a[i] : i \in 1 .. Len(a)}
  <2>1. DOMAIN p = 1 .. Len(p) /\ DOMAIN a = 1 .. Len(a)
    BY <1>8, <1>12
  <2>. QED  BY <2>1 DEF Range
<1>15. Range(a) = Range(p) \union {meta}
  <2>1. \A i \in 1 .. Len(p) : i \in 1 .. Len(a)
    BY <1>12
  <2>2. Len(p) + 1 \in 1 .. Len(a)
    BY <1>12
  <2>3. \A x \in Range(a) : x \in Range(p) \union {meta}
    BY <1>12, <1>13, <1>14
  <2>4. \A x \in Range(p) \union {meta} : x \in Range(a)
    BY <1>12, <1>14, <2>1, <2>2
  <2>. QED  BY <2>3, <2>4
<1>16. \A i \in 1 .. Len(p) : p[i].id \in Ids(g)
  BY <1>10 DEF IdsOf
<1>17. Distinct(a)
  <2>1. ASSUME NEW i \in 1 .. Len(a), NEW j \in 1 .. Len(a), a[i].id = a[j].id
        PROVE  i = j
    <3>1. CASE i \in 1 .. Len(p) /\ j \in 1 .. Len(p)
      BY <1>8, <1>12, <2>1, <3>1 DEF Distinct
    <3>2. CASE i \in 1 .. Len(p) /\ j = Len(p) + 1
      BY <1>6, <1>12, <1>16, <2>1, <3>2
    <3>3. CASE i = Len(p) + 1 /\ j \in 1 .. Len(p)
      BY <1>6, <1>12, <1>16, <2>1, <3>3
    <3>. QED  BY <1>13, <3>1, <3>2, <3>3
  <2>. QED  BY <2>1 DEF Distinct
<1>18. g2.nodes = a /\ g2.edges = E /\ g2.truncated = g.truncated
  BY <1>4 DEF a
<1>19. Ids(g2) = {x.id : x \in Range(a)}
  BY <1>18 DEF Ids
<1>20. Ids(g2) = (Ids(g) \ H) \union {meta.id}
  <2>1. IdsOf(p) = {x.id : x \in Range(p)}
    BY <1>14 DEF IdsOf
  <2>. QED  BY <1>10, <1>15, <1>19, <2>1
<1>21. Len(a) = Len(g.nodes) - Cardinality(H) + 1
  BY <1>1, <1>5, <1>8, <1>11, <1>12
<1>22. g2 = [nodes |-> a, edges |-> E, truncated |-> g.truncated]
  BY <1>4 DEF a
<1>. HIDE DEF g2, nodes, n
<1>. QED
  BY <1>5, <1>6, <1>10, <1>12, <1>15, <1>17, <1>18, <1>20, <1>21, <1>22 DEF H, g2, meta, E

\* The graph is what the full graph becomes when each operation is replaced by what
\* represents it.
Collapsed(full, g) ==
  /\ g \in GraphSet /\ Distinct(g.nodes) /\ g.truncated = FALSE
  /\ Kinds(full, g) /\ Shown(full, g)
  /\ \A n \in Range(g.nodes) : n.hidden > 0 => n.hidden = Cardinality(Stands(full, g, n.id))
  /\ g.edges = Drawn(full, g)

\* What a region hides: the operations in it that are shown.
LEMMA HiddenAre ==
  ASSUME NEW full, IsFull(full), NEW g, Collapsed(full, g), NEW path \in Paths
  PROVE  /\ HiddenBy(g, path) \in SUBSET Ids(full) /\ HiddenBy(g, path) \in SUBSET OpIds
         /\ \A n \in Range(full.nodes) :
              n.id \in HiddenBy(g, path) <=> n.id \in Ids(g) /\ IsPrefix(path, n.path)
         /\ HiddenBy(g, path) # {} =>
              ClusterNode(path) \notin Ids(g) /\ \E n \in Range(full.nodes) : n.id \in HiddenBy(g, path)
<1>. DEFINE H == HiddenBy(g, path)
<1>1. /\ \A n \in Range(g.nodes) : n \in NodeSet /\ n.id \in Ids(g)
      /\ \A x \in Ids(g) : \E n \in Range(g.nodes) : n.id = x
  BY RangeIs DEF Collapsed, GraphSet
<1>2. /\ \A n \in Range(full.nodes) : n \in NodeSet /\ n.id \in Ids(full) /\ n.id \in OpIds /\ n.hidden = 0
      /\ \A m, n \in Range(full.nodes) : m.id = n.id => m = n
  BY FullNodes
<1>3. \A n \in Range(g.nodes) : n \in Range(full.nodes) \/ (n.hidden > 0 /\ n.id = ClusterNode(n.path))
  BY DEF Collapsed, Kinds
<1>4. \A n \in Range(g.nodes) : n.hidden = 0 => n \in Range(full.nodes)
  BY <1>3
<1>5. \A x \in H : \E m \in Range(full.nodes) : m.id = x /\ x \in Ids(g) /\ IsPrefix(path, m.path)
  BY <1>1, <1>4 DEF HiddenBy, InCluster
<1>6. ASSUME NEW n \in Range(full.nodes), n.id \in Ids(g), IsPrefix(path, n.path)
      PROVE  n.id \in H
  <2>1. PICK m \in Range(g.nodes) : m.id = n.id
    BY <1>1, <1>6
  <2>2. m.id \in OpIds
    BY <1>2, <2>1
  <2>3. m \in Range(full.nodes)
    BY <1>3, <2>2, ClusterIds
  <2>4. m = n /\ m.hidden = 0
    BY <1>2, <2>1, <2>3
  <2>. QED  BY <1>6, <2>4 DEF HiddenBy, InCluster
<1>7. \A n \in Range(full.nodes) : n.id \in H <=> n.id \in Ids(g) /\ IsPrefix(path, n.path)
  BY <1>2, <1>5, <1>6
<1>. HIDE DEF H
<1>8. ASSUME H # {}
      PROVE  ClusterNode(path) \notin Ids(g) /\ \E n \in Range(full.nodes) : n.id \in H
  <2>1. PICK n \in Range(full.nodes) : n.id \in H
    BY <1>5, <1>8
  <2>2. n.id \in Ids(g) /\ IsPrefix(path, n.path) /\ n \in NodeSet
    BY <1>2, <1>7, <2>1
  <2>3. Around(g, n) = {}
    BY <2>2 DEF Collapsed, Shown
  <2>4. path \notin Around(g, n)
    BY <2>3
  <2>. QED  BY <2>1, <2>2, <2>4, AroundIs
<1>. QED  BY <1>2, <1>5, <1>7, <1>8 DEF H

\* Every operation is represented as before, but those that were hidden.
LEMMA RepAfter ==
  ASSUME NEW full, IsFull(full), NEW g, Collapsed(full, g), NEW path \in Paths,
         HiddenBy(g, path) # {}, NEW g2, Ids(g2) = (Ids(g) \ HiddenBy(g, path)) \union {ClusterNode(path)}
  PROVE  /\ Shown(full, g2)
         /\ \A x \in Ids(full) :
              /\ Rep(full, g2, x) = Remap(g, path, Rep(full, g, x))
              /\ Rep(full, g, x) \in HiddenBy(g, path) <=> x \in HiddenBy(g, path)
<1>. DEFINE H  == HiddenBy(g, path)
            cl == ClusterNode(path)
<1>1. /\ H \in SUBSET OpIds
      /\ \A n \in Range(full.nodes) : n.id \in H <=> n.id \in Ids(g) /\ IsPrefix(path, n.path)
      /\ cl \notin Ids(g) /\ \E n \in Range(full.nodes) : n.id \in H
  BY HiddenAre
<1>2. \A n \in Range(full.nodes) : n \in NodeSet /\ n.id \in OpIds /\ n.path \in Paths
  BY FullNodes, AroundIs
<1>3. Shown(full, g)
  BY DEF Collapsed
<1>. HIDE DEF H
<1>4. ASSUME NEW n \in Range(full.nodes)
      PROVE  \A p : p \in Around(g2, n) <=> p \in Around(g, n) \/ (p = path /\ IsPrefix(path, n.path))
  <2>1. \A p : ClusterNode(p) \in Ids(g2) <=> ClusterNode(p) \in Ids(g) \/ p = path
    <3>1. \A p : ClusterNode(p) \notin H
      BY <1>1, ClusterIds
    <3>. QED  BY <3>1, ClusterIds DEF H
  <2>. QED  BY <1>2, <2>1, AroundIs
<1>5. Shown(full, g2)
  <2>1. ASSUME NEW n \in Range(full.nodes)
        PROVE  n.id \in Ids(g2) <=> Around(g2, n) = {}
    <3>1. n.id # cl
      BY <1>2, ClusterIds
    <3>2. n.id \in Ids(g2) <=> n.id \in Ids(g) /\ n.id \notin H
      BY <3>1 DEF H
    <3>3. n.id \in Ids(g) <=> Around(g, n) = {}
      BY <1>3 DEF Shown
    <3>4. Around(g2, n) = {} <=> Around(g, n) = {} /\ ~IsPrefix(path, n.path)
      BY <1>4
    <3>. QED  BY <1>1, <3>2, <3>3, <3>4
  <2>. QED  BY <2>1 DEF Shown
<1>6. ASSUME NEW n \in Range(full.nodes)
      PROVE  /\ Rep(full, g2, n.id) = Remap(g, path, Rep(full, g, n.id))
             /\ Rep(full, g, n.id) \in H <=> n.id \in H
  <2>0. n.id # cl /\ (n.id \in Ids(g2) <=> n.id \in Ids(g) /\ n.id \notin H)
    <3>1. n.id # cl
      BY <1>2, ClusterIds
    <3>. QED  BY <3>1 DEF H
  <2>1. CASE n.id \in Ids(g) /\ n.id \notin H
    <3>1. Rep(full, g, n.id) = n.id /\ Rep(full, g2, n.id) = n.id
      BY <2>0, <2>1, RepIs
    <3>. QED  BY <2>1, <3>1 DEF Remap, H
  <2>2. CASE n.id \in H
    <3>1. n.id \in Ids(g) /\ IsPrefix(path, n.path)
      BY <1>1, <2>2
    <3>2. Rep(full, g, n.id) = n.id
      BY <3>1, RepIs
    <3>3. Around(g, n) = {}
      BY <1>3, <3>1 DEF Shown
    <3>4. path \in Around(g2, n) /\ \A q \in Around(g2, n) : q = path
      BY <1>4, <3>1, <3>3
    <3>5. \A q \in Around(g2, n) : Len(q) <= Len(path)
      BY <3>4, PathLengths
    <3>6. Rep(full, g2, n.id) = cl
      BY <2>0, <2>2, <3>4, <3>5, RepIs
    <3>. QED  BY <2>2, <3>2, <3>6 DEF Remap, H
  <2>3. CASE n.id \notin Ids(g)
    <3>1. PICK p \in Around(g, n) : /\ \A q \in Around(g, n) : Len(q) <= Len(p)
                                    /\ Rep(full, g, n.id) = ClusterNode(p)
      BY <1>3, <2>3, InnermostOf
    <3>2. p \in Paths /\ IsPrefix(p, n.path) /\ ClusterNode(p) \in Ids(g)
      BY <1>2, <3>1, AroundIs
    <3>3. IsPrefix(path, n.path) => Len(path) <= Len(p)
      <4>1. SUFFICES ASSUME IsPrefix(path, n.path), ~(Len(path) <= Len(p)) PROVE FALSE
        OBVIOUS
      <4>2. IsPrefix(p, path)
        <5>1. Len(p) <= Len(path)
          BY <3>2, <4>1, PathLengths
        <5>. QED  BY <1>2, <3>2, <4>1, <5>1, PrefixesNest
      <4>3. PICK v \in Range(full.nodes) : v.id \in H
        BY <1>1
      <4>4. v.id \in Ids(g) /\ IsPrefix(path, v.path) /\ v.path \in Paths
        BY <1>1, <1>2, <4>3
      <4>5. IsPrefix(p, v.path)
        BY <3>2, <4>2, <4>4, PrefixTransitive
      <4>6. p \in Around(g, v)
        BY <1>2, <3>2, <4>5, AroundIs
      <4>. QED  BY <1>3, <4>4, <4>6 DEF Shown
    <3>4. p \in Around(g2, n) /\ \A q \in Around(g2, n) : Len(q) <= Len(p)
      BY <1>4, <3>1, <3>3
    <3>5. Rep(full, g2, n.id) = ClusterNode(p)
      BY <2>0, <2>3, <3>4, RepIs
    <3>6. ClusterNode(p) \notin H /\ n.id \notin H
      BY <1>1, <2>3, ClusterIds
    <3>. QED  BY <3>1, <3>5, <3>6 DEF Remap, H
  <2>. QED  BY <2>1, <2>2, <2>3
<1>7. \A x \in Ids(full) : \E n \in Range(full.nodes) : n.id = x
  BY FullNodes
<1>. QED  BY <1>5, <1>6, <1>7 DEF H

\* A set of edges, each with its ends replaced.
LEMMA EdgeFields ==
  /\ \A from, to, removed : /\ Edge(from, to, removed).from = from /\ Edge(from, to, removed).to = to
                            /\ Edge(from, to, removed).removed = removed
  /\ \A e \in EdgeSet : e = Edge(e.from, e.to, e.removed) /\ e.removed \in BOOLEAN
BY DEF Edge, EdgeSet

\* The edges after are those of the full graph between what then represents their ends.
LEMMA DrawnAfter ==
  ASSUME NEW full, IsFull(full), NEW g, NEW path, NEW g2, g.edges = Drawn(full, g),
         \A x \in Ids(full) : Rep(full, g2, x) = Remap(g, path, Rep(full, g, x))
  PROVE  {e \in {Edge(Remap(g, path, e.from), Remap(g, path, e.to), e.removed) : e \in g.edges} : e.from # e.to}
           = Drawn(full, g2)
<1>. DEFINE R(x)  == Rep(full, g, x)
            R2(x) == Rep(full, g2, x)
            M(x)  == Remap(g, path, x)
            E2    == {e \in {Edge(M(e.from), M(e.to), e.removed) : e \in g.edges} : e.from # e.to}
<1>1. \A e \in full.edges : e.from \in Ids(full) /\ e.to \in Ids(full)
  BY DEF IsFull, Joined
<1>2. g.edges = {e \in {Edge(R(e.from), R(e.to), e.removed) : e \in full.edges} : e.from # e.to}
  BY DEF Drawn
<1>3. Drawn(full, g2) = {e \in {Edge(R2(e.from), R2(e.to), e.removed) : e \in full.edges} : e.from # e.to}
  BY DEF Drawn
<1>4. \A x \in Ids(full) : R2(x) = M(R(x))
  OBVIOUS
<1>. HIDE DEF R, R2, M
<1>5. ASSUME NEW d \in E2
      PROVE  d \in Drawn(full, g2)
  <2>1. PICK e \in g.edges : d = Edge(M(e.from), M(e.to), e.removed) /\ d.from # d.to
    BY <1>5
  <2>2. PICK f \in full.edges : e = Edge(R(f.from), R(f.to), f.removed)
    BY <1>2, <2>1
  <2>3. e.from = R(f.from) /\ e.to = R(f.to) /\ e.removed = f.removed
    BY <2>2, EdgeFields
  <2>4. d = Edge(R2(f.from), R2(f.to), f.removed)
    BY <1>1, <1>4, <2>1, <2>3
  <2>. QED  BY <1>3, <2>1, <2>4
<1>6. ASSUME NEW d \in Drawn(full, g2)
      PROVE  d \in E2
  <2>1. PICK f \in full.edges : d = Edge(R2(f.from), R2(f.to), f.removed) /\ d.from # d.to
    BY <1>3, <1>6
  <2>. DEFINE e == Edge(R(f.from), R(f.to), f.removed)
  <2>2. e.from = R(f.from) /\ e.to = R(f.to) /\ e.removed = f.removed
    BY EdgeFields
  <2>3. d.from = M(R(f.from)) /\ d.to = M(R(f.to)) /\ d = Edge(M(R(f.from)), M(R(f.to)), f.removed)
    BY <1>1, <1>4, <2>1, EdgeFields
  <2>4. R(f.from) # R(f.to)
    BY <2>1, <2>3
  <2>. HIDE DEF e
  <2>5. e \in g.edges
    BY <1>2, <2>2, <2>4 DEF e
  <2>6. d = Edge(M(e.from), M(e.to), e.removed)
    BY <2>2, <2>3
  <2>. QED  BY <2>1, <2>5, <2>6
<1>7. E2 = Drawn(full, g2)
  BY <1>5, <1>6
<1>. QED  BY <1>7 DEF M

LEMMA DrawnTyped ==
  ASSUME NEW full, IsFull(full), NEW g, g.nodes \in Seq(NodeSet), Shown(full, g)
  PROVE  /\ Drawn(full, g) \in SUBSET EdgeSet
         /\ \A e \in Drawn(full, g) : e.from \in Ids(g) /\ e.to \in Ids(g)
<1>1. ASSUME NEW x \in Ids(g) PROVE x \in NodeIds
  <2>1. PICK n \in Range(g.nodes) : n.id = x
    BY RangeIs
  <2>2. n \in NodeSet
    BY RangeIs
  <2>. QED  BY <2>1, <2>2 DEF NodeSet
<1>2. \A x \in Ids(full) : Rep(full, g, x) \in Ids(g)
  BY RepIsNode
<1>3. \A e \in full.edges : e.from \in Ids(full) /\ e.to \in Ids(full) /\ e.removed \in BOOLEAN
  BY DEF IsFull, Joined, GraphSet, EdgeSet
<1>4. ASSUME NEW d \in Drawn(full, g)
      PROVE  d \in EdgeSet /\ d.from \in Ids(g) /\ d.to \in Ids(g)
  <2>1. PICK e \in full.edges : d = Edge(Rep(full, g, e.from), Rep(full, g, e.to), e.removed)
    BY <1>4 DEF Drawn
  <2>2. Rep(full, g, e.from) \in Ids(g) /\ Rep(full, g, e.to) \in Ids(g) /\ e.removed \in BOOLEAN
    BY <1>2, <1>3
  <2>3. d.from \in Ids(g) /\ d.to \in Ids(g)
    BY <2>1, <2>2, EdgeFields
  <2>. QED  BY <1>1, <2>1, <2>2, <2>3 DEF Edge, EdgeSet
<1>. QED  BY <1>4

\* A cluster that is collapsed keeps the graph a quotient of the full graph.
LEMMA CollapseKeeps ==
  ASSUME NEW full, IsFull(full), NEW g, Collapsed(full, g), NEW path \in Paths
  PROVE  Collapsed(full, CollapseCluster(g, path))
<1>. DEFINE H    == HiddenBy(g, path)
            cl   == ClusterNode(path)
            g2   == CollapseCluster(g, path)
            meta == Node(cl, path, Cardinality(H))
<1>1. CASE H = {}
  <2>1. g2 = g
    BY <1>1 DEF CollapseCluster, HiddenBy
  <2>. QED  BY <2>1
<1>2. CASE H # {}
  <2>0. g \in GraphSet /\ Distinct(g.nodes) /\ g.truncated = FALSE /\ g.edges = Drawn(full, g) /\ Shown(full, g)
    BY DEF Collapsed
  <2>1. cl \notin Ids(g) /\ H \in SUBSET Ids(full) /\ H \in SUBSET OpIds
    BY <1>2, HiddenAre
  <2>2. /\ Cardinality(H) \in Nat \ {0}
        /\ g2.nodes \in Seq(NodeSet) /\ Distinct(g2.nodes)
        /\ Range(g2.nodes) = {n \in Range(g.nodes) : n.id \notin H} \union {meta}
        /\ Ids(g2) = (Ids(g) \ H) \union {meta.id}
        /\ g2.truncated = g.truncated
        /\ g2.edges = {e \in {Edge(Remap(g, path, e.from), Remap(g, path, e.to), e.removed) : e \in g.edges} :
                         e.from # e.to}
        /\ g2 = [nodes |-> g2.nodes, edges |-> g2.edges, truncated |-> g.truncated]
    BY <1>2, <2>0, <2>1, CollapsedNodes
  <2>3. meta.id = cl /\ meta.path = path /\ meta.hidden = Cardinality(H)
    BY DEF Node
  <2>. HIDE DEF H, g2, meta
  <2>4. /\ Shown(full, g2)
        /\ \A x \in Ids(full) : /\ Rep(full, g2, x) = Remap(g, path, Rep(full, g, x))
                                /\ Rep(full, g, x) \in H <=> x \in H
    BY <1>2, <2>2, <2>3, RepAfter DEF H
  <2>5. g2.edges = Drawn(full, g2)
    <3>1. \A x \in Ids(full) : Rep(full, g2, x) = Remap(g, path, Rep(full, g, x))
      BY <2>4
    <3>2. {e \in {Edge(Remap(g, path, e.from), Remap(g, path, e.to), e.removed) : e \in g.edges} :
             e.from # e.to} = Drawn(full, g2)
      BY <2>0, <3>1, DrawnAfter
    <3>. QED  BY <2>2, <3>2
  <2>6. g2 \in GraphSet
    <3>1. g2.edges \in SUBSET EdgeSet
      BY <2>2, <2>4, <2>5, DrawnTyped
    <3>. QED  BY <2>0, <2>2, <3>1 DEF GraphSet
  <2>7. Kinds(full, g2)
    <3>1. Kinds(full, g)
      BY DEF Collapsed
    <3>2. meta.hidden > 0 /\ meta.id = ClusterNode(meta.path)
      BY <2>2, <2>3
    <3>. QED  BY <2>2, <3>1, <3>2 DEF Kinds
  <2>8. \A x \in Ids(full) : Rep(full, g, x) \in Ids(g)
    BY <2>0, RepIsNode
  <2>9. ASSUME NEW n \in Range(g2.nodes), n.hidden > 0
        PROVE  n.hidden = Cardinality(Stands(full, g2, n.id))
    <3>1. CASE n = meta
      <4>1. \A x \in Ids(full) : Rep(full, g2, x) = cl <=> x \in H
        BY <2>1, <2>4, <2>8 DEF Remap, H
      <4>2. Stands(full, g2, cl) = H
        BY <2>1, <4>1 DEF Stands
      <4>. QED  BY <2>3, <3>1, <4>2
    <3>2. CASE n \in Range(g.nodes) /\ n.id \notin H
      <4>1. n.hidden = Cardinality(Stands(full, g, n.id))
        BY <2>9, <3>2 DEF Collapsed
      <4>2. n.id \in Ids(g)
        BY <3>2 DEF Ids
      <4>3. \A x \in Ids(full) : Rep(full, g2, x) = n.id <=> Rep(full, g, x) = n.id
        BY <2>1, <2>4, <3>2, <4>2 DEF Remap, H
      <4>4. Stands(full, g2, n.id) = Stands(full, g, n.id)
        BY <4>3 DEF Stands
      <4>. QED  BY <4>1, <4>4
    <3>. QED  BY <2>2, <3>1, <3>2
  <2>10. g2.truncated = FALSE
    BY <2>0, <2>2
  <2>11. Collapsed(full, g2)
    BY <2>2, <2>4, <2>5, <2>6, <2>7, <2>9, <2>10 DEF Collapsed
  <2>. QED  BY <2>11 DEF g2
<1>. QED  BY <1>1, <1>2

\* A graph of which nothing is collapsed is a quotient of itself.
LEMMA FullIsCollapsed ==
  ASSUME NEW full, IsFull(full)
  PROVE  Collapsed(full, full)
<1>1. full \in GraphSet /\ Distinct(full.nodes) /\ full.truncated = FALSE
  BY DEF IsFull, Joined
<1>2. \A n \in Range(full.nodes) : n \in NodeSet /\ n.id \in Ids(full) /\ n.id \in OpIds /\ n.hidden = 0
  BY FullNodes
<1>3. \A x \in Ids(full) : x \in OpIds
  BY <1>2, FullNodes
<1>4. \A n \in Range(full.nodes) : Around(full, n) = {}
  BY <1>3, ClusterIds DEF Around
<1>5. Shown(full, full) /\ Kinds(full, full)
  BY <1>2, <1>4 DEF Shown, Kinds
<1>6. \A n \in Range(full.nodes) : Rep(full, full, n.id) = n.id
  BY <1>2, RepIs
<1>7. \A x \in Ids(full) : Rep(full, full, x) = x
  BY <1>6, FullNodes
<1>8. Drawn(full, full) = full.edges
  <2>1. \A e \in full.edges : e.from \in Ids(full) /\ e.to \in Ids(full) /\ e \in EdgeSet /\ e.from # e.to
    BY DEF IsFull, Joined, GraphSet
  <2>2. \A e \in full.edges : Edge(Rep(full, full, e.from), Rep(full, full, e.to), e.removed) = e
    BY <1>7, <2>1, EdgeFields
  <2>3. {Edge(Rep(full, full, e.from), Rep(full, full, e.to), e.removed) : e \in full.edges} = full.edges
    BY <2>2
  <2>. QED  BY <2>1, <2>3 DEF Drawn
<1>. QED  BY <1>1, <1>2, <1>5, <1>8 DEF Collapsed

\* Such a graph is well formed and loses nothing.
LEMMA CollapsedIsJoined ==
  ASSUME NEW full, IsFull(full), NEW g, Collapsed(full, g)
  PROVE  Joined(g)
<1>1. g \in GraphSet /\ g.nodes \in Seq(NodeSet)
  BY DEF Collapsed, GraphSet
<1>. QED  BY <1>1, DrawnTyped DEF Collapsed, Joined

LEMMA CollapsedIsQuotient ==
  ASSUME NEW full, IsFull(full), NEW g, Collapsed(full, g)
  PROVE  IsQuotient(full, g)
<1>. DEFINE count(n) == IF n.hidden = 0 THEN 1 ELSE n.hidden
<1>0. /\ g.nodes \in Seq(NodeSet) /\ Shown(full, g) /\ Kinds(full, g)
      /\ \A n \in Range(g.nodes) : n.hidden > 0 => n.hidden = Cardinality(Stands(full, g, n.id))
      /\ g.edges = Drawn(full, g)
  BY DEF Collapsed, GraphSet
<1>1. \A n \in Range(g.nodes) : n \in NodeSet /\ n.id \in Ids(g)
  BY <1>0, RangeIs
<1>2. \A x \in Ids(full) : Rep(full, g, x) \in Ids(g)
  BY <1>0, RepIsNode
<1>3. ASSUME NEW n \in Range(g.nodes)
      PROVE  count(n) = Cardinality(Stands(full, g, n.id))
  <2>1. CASE n.hidden > 0
    BY <1>0, <2>1
  <2>2. CASE ~(n.hidden > 0)
    <3>1. n.hidden = 0 /\ n \in Range(full.nodes)
      BY <1>0, <1>1, <2>2 DEF NodeSet, Kinds
    <3>2. \A x \in Ids(full) : Rep(full, g, x) = n.id <=> x = n.id
      <4>1. ASSUME NEW x \in Ids(full), Rep(full, g, x) = n.id PROVE x = n.id
        <5>1. PICK m \in Range(full.nodes) : m.id = x
          BY FullNodes
        <5>2. n.id \in OpIds
          BY <3>1, FullNodes
        <5>3. CASE m.id \in Ids(g)
          BY <4>1, <5>1, <5>3, RepIs
        <5>4. CASE m.id \notin Ids(g)
          BY <1>0, <4>1, <5>1, <5>2, <5>4, InnermostOf, ClusterIds
        <5>. QED  BY <5>3, <5>4
      <4>2. Rep(full, g, n.id) = n.id
        BY <1>1, <3>1, RepIs
      <4>. QED  BY <4>1, <4>2
    <3>3. Stands(full, g, n.id) = {n.id}
      BY <3>1, <3>2, FullNodes DEF Stands
    <3>. QED  BY <3>1, <3>3, FS_Singleton
  <2>. QED  BY <2>1, <2>2
<1>. QED  BY <1>0, <1>2, <1>3 DEF IsQuotient, Rep, NodeAt, Stands, Drawn

-----------------------------------------------------------------------------
(* Clusters are collapsed one after the other.                               *)

\* What collapsing some regions, in their order, goes through.
CollapseRun(f, T, full, paths, budget) ==
  /\ f \in [SUBSET paths -> T] /\ f[{}] = full
  /\ f[paths] = CollapsePaths(full, paths, budget)
  /\ \A s \in SUBSET paths :
       s # {} => f[s] = CollapseNext(f[s \ {LastOf(s)}], LastOf(s), budget)

LEMMA LastOfSome ==
  ASSUME NEW paths \in SUBSET Paths, IsFiniteSet(paths), NEW s \in SUBSET paths, s # {}
  PROVE  /\ LastOf(s) \in s /\ s \ {LastOf(s)} \in SUBSET paths /\ IsFiniteSet(s)
         /\ Cardinality(s) \in Nat \ {0} /\ Cardinality(s \ {LastOf(s)}) = Cardinality(s) - 1
         /\ \A q \in s \ {LastOf(s)} : Deeper(q, LastOf(s))
<1>1. IsFiniteSet(s) /\ s \in SUBSET Paths
  BY FS_Subset
<1>2. LastOf(s) \in s /\ \A q \in s \ {LastOf(s)} : Deeper(q, LastOf(s))
  BY <1>1, LastOfExists
<1>3. Cardinality(s) \in Nat /\ Cardinality(s) # 0
  BY <1>1, FS_CardinalityType, FS_EmptySet
<1>4. Cardinality(s \ {LastOf(s)}) = Cardinality(s) - 1
  BY <1>1, <1>2, FS_RemoveElement
<1>. QED  BY <1>1, <1>2, <1>3, <1>4

\* A function of the sets of at most m of the regions that makes those steps.
StepsOK(f, T, full, paths, budget, m) ==
  /\ f \in [SUBSET paths -> T]
  /\ \A s \in SUBSET paths :
       Cardinality(s) <= m =>
         f[s] = IF s = {} THEN full ELSE CollapseNext(f[s \ {LastOf(s)}], LastOf(s), budget)

LEMMA StepsExist ==
  ASSUME NEW paths \in SUBSET Paths, IsFiniteSet(paths), NEW budget,
         NEW T, NEW full \in T, \A g \in T, p \in paths : CollapseNext(g, p, budget) \in T,
         NEW m \in Nat
  PROVE  \E f : StepsOK(f, T, full, paths, budget, m)
<1>. DEFINE U == {k \in Nat : \E f : StepsOK(f, T, full, paths, budget, k)}
<1>0. \A s \in SUBSET paths : IsFiniteSet(s) /\ Cardinality(s) \in Nat
  BY FS_Subset, FS_CardinalityType
<1>1. 0 \in U
  <2>. DEFINE f == [s \in SUBSET paths |-> full]
  <2>1. \A s \in SUBSET paths : Cardinality(s) <= 0 => s = {}
    <3>1. ASSUME NEW s \in SUBSET paths, Cardinality(s) <= 0 PROVE s = {}
      <4>1. Cardinality(s) = 0
        BY <1>0, <3>1
      <4>. QED  BY <1>0, <4>1, FS_EmptySet
    <3>. QED  BY <3>1
  <2>2. StepsOK(f, T, full, paths, budget, 0)
    BY <2>1 DEF StepsOK
  <2>. QED  BY <2>2
<1>2. ASSUME NEW k \in Nat, k \in U
      PROVE  k + 1 \in U
  <2>1. PICK f : StepsOK(f, T, full, paths, budget, k)
    BY <1>2
  <2>2. f \in [SUBSET paths -> T]
    BY <2>1 DEF StepsOK
  <2>. DEFINE g == [s \in SUBSET paths |->
                      IF s # {} /\ Cardinality(s) = k + 1
                      THEN CollapseNext(f[s \ {LastOf(s)}], LastOf(s), budget) ELSE f[s]]
  <2>3. g \in [SUBSET paths -> T]
    <3>1. ASSUME NEW s \in SUBSET paths PROVE g[s] \in T
      <4>1. CASE s # {} /\ Cardinality(s) = k + 1
        <5>1. LastOf(s) \in paths /\ s \ {LastOf(s)} \in SUBSET paths
          BY <4>1, LastOfSome
        <5>2. f[s \ {LastOf(s)}] \in T
          BY <2>2, <5>1
        <5>. QED  BY <4>1, <5>1, <5>2
      <4>2. CASE ~(s # {} /\ Cardinality(s) = k + 1)
        BY <2>2, <4>2
      <4>. QED  BY <4>1, <4>2
    <3>. QED  BY <3>1
  <2>4. ASSUME NEW s \in SUBSET paths, Cardinality(s) <= k + 1
        PROVE  g[s] = IF s = {} THEN full ELSE CollapseNext(g[s \ {LastOf(s)}], LastOf(s), budget)
    <3>1. CASE s = {}
      <4>1. Cardinality(s) <= k /\ g[s] = f[s]
        BY <1>2, <3>1, FS_EmptySet
      <4>. QED  BY <2>1, <3>1, <4>1 DEF StepsOK
    <3>2. CASE s # {}
      <4>. DEFINE r == s \ {LastOf(s)}
      <4>1. r \in SUBSET paths /\ Cardinality(r) = Cardinality(s) - 1 /\ Cardinality(s) \in Nat \ {0}
        BY <3>2, LastOfSome
      <4>2. Cardinality(r) # k + 1 /\ Cardinality(r) <= k
        BY <2>4, <4>1
      <4>3. g[r] = f[r]
        BY <4>1, <4>2
      <4>4. CASE Cardinality(s) = k + 1
        <5>1. g[s] = CollapseNext(f[r], LastOf(s), budget)
          BY <3>2, <4>4
        <5>. HIDE DEF r, g
        <5>. QED  BY <3>2, <4>3, <5>1 DEF r
      <4>5. CASE Cardinality(s) # k + 1
        <5>1. Cardinality(s) <= k /\ g[s] = f[s]
          BY <2>4, <4>1, <4>5
        <5>2. f[s] = CollapseNext(f[r], LastOf(s), budget)
          BY <2>1, <3>2, <5>1 DEF StepsOK
        <5>. HIDE DEF r, g
        <5>. QED  BY <3>2, <4>3, <5>1, <5>2 DEF r
      <4>. QED  BY <4>4, <4>5
    <3>. QED  BY <3>1, <3>2
  <2>. HIDE DEF g
  <2>5. StepsOK(g, T, full, paths, budget, k + 1)
    BY <2>3, <2>4 DEF StepsOK
  <2>. QED  BY <2>5
<1>. HIDE DEF U
<1>3. Nat \subseteq U
  BY <1>1, <1>2, Induction
<1>4. m \in U
  BY <1>3
<1>. QED  BY <1>4 DEF U

\* There is such a run through any set that the steps do not leave.
LEMMA CollapseSteps ==
  ASSUME NEW paths \in SUBSET Paths, IsFiniteSet(paths), NEW budget,
         NEW T, NEW full \in T, \A g \in T, p \in paths : CollapseNext(g, p, budget) \in T
  PROVE  \E f : CollapseRun(f, T, full, paths, budget)
<1>. DEFINE Body(f) == [s \in SUBSET paths |->
                          IF s = {} THEN full
                          ELSE CollapseNext(f[s \ {LastOf(s)}], LastOf(s), budget)]
            iter == CHOOSE f : f = Body(f)
<1>1. CollapsePaths(full, paths, budget) = iter[paths]
  BY DEF CollapsePaths, MapThenFoldSet
<1>2. \A s \in SUBSET paths : Cardinality(s) \in Nat /\ Cardinality(s) <= Cardinality(paths)
  BY FS_Subset, FS_CardinalityType
<1>3. Cardinality(paths) \in Nat
  BY FS_CardinalityType
<1>4. PICK f : StepsOK(f, T, full, paths, budget, Cardinality(paths))
  BY <1>3, StepsExist
<1>5. f \in [SUBSET paths -> T] /\ \A s \in SUBSET paths : f[s] = Body(f)[s]
  BY <1>2, <1>4 DEF StepsOK
<1>6. f = Body(f)
  BY <1>5
<1>7. iter = Body(iter)
  BY <1>6
<1>. HIDE DEF iter
<1>8. \A s \in SUBSET paths :
        iter[s] = IF s = {} THEN full ELSE CollapseNext(iter[s \ {LastOf(s)}], LastOf(s), budget)
  BY <1>7
<1>. DEFINE V == {k \in Nat : \A s \in SUBSET paths : Cardinality(s) <= k => iter[s] \in T}
<1>9. 0 \in V
  <2>1. ASSUME NEW s \in SUBSET paths, Cardinality(s) <= 0 PROVE iter[s] \in T
    <3>1. Cardinality(s) = 0 /\ IsFiniteSet(s)
      BY <1>2, <2>1, FS_Subset
    <3>2. s = {}
      BY <3>1, FS_EmptySet
    <3>. QED  BY <1>8, <3>2
  <2>. QED  BY <2>1
<1>10. ASSUME NEW k \in Nat, k \in V PROVE k + 1 \in V
  <2>1. ASSUME NEW s \in SUBSET paths, Cardinality(s) <= k + 1 PROVE iter[s] \in T
    <3>1. CASE s = {}
      BY <1>8, <3>1
    <3>2. CASE s # {}
      <4>1. /\ s \ {LastOf(s)} \in SUBSET paths /\ LastOf(s) \in paths
            /\ Cardinality(s \ {LastOf(s)}) = Cardinality(s) - 1
        BY <3>2, LastOfSome
      <4>2. Cardinality(s \ {LastOf(s)}) <= k
        BY <1>2, <2>1, <4>1
      <4>3. iter[s \ {LastOf(s)}] \in T
        BY <1>10, <4>1, <4>2
      <4>. QED  BY <1>8, <3>2, <4>1, <4>3
    <3>. QED  BY <3>1, <3>2
  <2>. QED  BY <2>1
<1>. HIDE DEF V
<1>11. Nat \subseteq V
  BY <1>9, <1>10, Induction
<1>12. Cardinality(paths) \in V
  BY <1>3, <1>11
<1>13. \A s \in SUBSET paths : iter[s] \in T
  BY <1>2, <1>12 DEF V
<1>. DEFINE h == [s \in SUBSET paths |-> iter[s]]
<1>14. h \in [SUBSET paths -> T]
  BY <1>13
<1>15. h[{}] = full /\ h[paths] = CollapsePaths(full, paths, budget)
  BY <1>1, <1>8
<1>16. ASSUME NEW s \in SUBSET paths, s # {}
       PROVE  h[s] = CollapseNext(h[s \ {LastOf(s)}], LastOf(s), budget)
  <2>1. s \ {LastOf(s)} \in SUBSET paths
    OBVIOUS
  <2>2. h[s] = iter[s] /\ h[s \ {LastOf(s)}] = iter[s \ {LastOf(s)}]
    BY <2>1
  <2>. HIDE DEF h
  <2>. QED  BY <1>8, <1>16, <2>2
<1>. HIDE DEF h
<1>17. CollapseRun(h, T, full, paths, budget)
  BY <1>14, <1>15, <1>16 DEF CollapseRun
<1>. QED  BY <1>17

-----------------------------------------------------------------------------
(* What is collapsed, and what is shown.                                     *)

LEMMA ClusterPathsAre ==
  ASSUME NEW g \in GraphSet
  PROVE  ClusterPaths(g) \in SUBSET Paths /\ IsFiniteSet(ClusterPaths(g))
<1>. DEFINE path(i) == g.nodes[i].path
            S == {path(i) : i \in Reals(g)}
<1>1. g.nodes \in Seq(NodeSet)
  BY DEF GraphSet
<1>2. DOMAIN g.nodes = 1 .. Len(g.nodes) /\ Len(g.nodes) \in Nat
  BY <1>1
<1>3. \A i \in Reals(g) : i \in 1 .. Len(g.nodes) /\ path(i) \in Paths
  <2>1. \A i \in 1 .. Len(g.nodes) : g.nodes[i] \in NodeSet
    BY <1>1
  <2>. QED  BY <1>2, <2>1 DEF Reals, NodeSet
<1>4. IsFiniteSet(Reals(g))
  <2>1. IsFiniteSet(1 .. Len(g.nodes))
    BY <1>2, IntervalCount
  <2>2. Reals(g) \subseteq 1 .. Len(g.nodes)
    BY <1>2 DEF Reals
  <2>. QED  BY <2>1, <2>2, FS_Subset
<1>5. ClusterPaths(g) \subseteq S
  BY DEF ClusterPaths
<1>6. IsFiniteSet(S)
  <2>. DEFINE f == [i \in Reals(g) |-> path(i)]
  <2>1. f \in Surjection(Reals(g), S)
    BY DEF Surjection
  <2>. HIDE DEF f, S
  <2>. QED  BY <1>4, <2>1, FS_Surjection
<1>7. S \subseteq Paths
  BY <1>3
<1>. QED  BY <1>5, <1>6, <1>7, FS_Subset

\* Opened again, the cluster that was collapsed last exceeds the budget.
MetasOf(g) == {n \in Range(g.nodes) : n.hidden > 0}
Newest(g, n, budget) ==
  /\ n \in MetasOf(g) /\ \A m \in MetasOf(g) \ {n} : Deeper(m.path, n.path)
  /\ Len(g.nodes) - 1 + n.hidden > budget
Needed(g, s, budget) ==
  /\ \A n \in MetasOf(g) : n.path \in s
  /\ MetasOf(g) # {} => \E n : Newest(g, n, budget)

LEMMA NextIsNeeded ==
  ASSUME NEW full, IsFull(full), NEW g, Collapsed(full, g), NEW s \in SUBSET Paths,
         NEW last \in Paths, \A q \in s : Deeper(q, last), NEW budget \in Nat, Needed(g, s, budget)
  PROVE  Needed(CollapseNext(g, last, budget), s \union {last}, budget)
<1>. DEFINE g2 == CollapseNext(g, last, budget)
            H  == HiddenBy(g, last)
            meta == Node(ClusterNode(last), last, Cardinality(H))
<1>1. CASE Len(g.nodes) <= budget \/ H = {}
  <2>1. g2 = g
    BY <1>1 DEF CollapseNext, CollapseCluster, HiddenBy
  <2>. QED  BY <2>1 DEF Needed
<1>2. CASE ~(Len(g.nodes) <= budget) /\ H # {}
  <2>1. g2 = CollapseCluster(g, last)
    BY <1>2 DEF CollapseNext
  <2>2. g \in GraphSet /\ Distinct(g.nodes) /\ ClusterNode(last) \notin Ids(g)
    BY <1>2, HiddenAre DEF Collapsed
  <2>3. /\ Cardinality(H) \in Nat \ {0} /\ Len(g2.nodes) = Len(g.nodes) - Cardinality(H) + 1
        /\ Range(g2.nodes) = {n \in Range(g.nodes) : n.id \notin H} \union {meta}
    BY <1>2, <2>1, <2>2, CollapsedNodes
  <2>4. meta.hidden = Cardinality(H) /\ meta.path = last
    BY DEF Node
  <2>5. Len(g.nodes) \in Nat
    BY <2>2 DEF GraphSet
  <2>. HIDE DEF g2, H, meta
  <2>6. MetasOf(g2) \subseteq MetasOf(g) \union {meta} /\ meta \in MetasOf(g2)
    BY <2>3, <2>4 DEF MetasOf
  <2>7. \A n \in MetasOf(g) : n.path \in s
    BY DEF Needed
  <2>8. \A n \in MetasOf(g2) : n.path \in s \union {last}
    BY <2>4, <2>6, <2>7
  <2>9. \A m \in MetasOf(g2) \ {meta} : Deeper(m.path, meta.path)
    BY <2>4, <2>6, <2>7
  <2>10. Len(g2.nodes) - 1 + meta.hidden > budget
    BY <1>2, <2>3, <2>4, <2>5
  <2>11. Newest(g2, meta, budget)
    BY <2>6, <2>9, <2>10 DEF Newest
  <2>12. Needed(g2, s \union {last}, budget)
    BY <2>8, <2>11 DEF Needed
  <2>. QED  BY <2>12 DEF g2
<1>. QED  BY <1>1, <1>2

LEMMA RunIsNeeded ==
  ASSUME NEW full, IsFull(full), NEW paths \in SUBSET Paths, IsFiniteSet(paths), NEW budget \in Nat
  PROVE  /\ Collapsed(full, CollapsePaths(full, paths, budget))
         /\ Needed(CollapsePaths(full, paths, budget), paths, budget)
<1>. DEFINE T == {g \in GraphSet : Collapsed(full, g)}
<1>1. full \in T
  BY FullIsCollapsed DEF Collapsed
<1>2. ASSUME NEW g \in T, NEW p \in paths PROVE CollapseNext(g, p, budget) \in T
  <2>1. CollapseNext(g, p, budget) \in {g, CollapseCluster(g, p)}
    BY DEF CollapseNext
  <2>2. Collapsed(full, CollapseCluster(g, p))
    BY CollapseKeeps
  <2>. QED  BY <2>1, <2>2 DEF Collapsed
<1>. HIDE DEF T
<1>3. PICK f : CollapseRun(f, T, full, paths, budget)
  BY <1>1, <1>2, CollapseSteps
<1>4. /\ f \in [SUBSET paths -> T] /\ f[{}] = full /\ f[paths] = CollapsePaths(full, paths, budget)
      /\ \A s \in SUBSET paths : s # {} => f[s] = CollapseNext(f[s \ {LastOf(s)}], LastOf(s), budget)
  BY <1>3 DEF CollapseRun
<1>5. \A s \in SUBSET paths : IsFiniteSet(s) /\ Cardinality(s) \in Nat
  BY FS_Subset, FS_CardinalityType
<1>. DEFINE U == {k \in Nat : \A s \in SUBSET paths : Cardinality(s) = k => Needed(f[s], s, budget)}
<1>6. 0 \in U
  <2>1. MetasOf(full) = {}
    BY DEF IsFull, MetasOf
  <2>2. Needed(full, {}, budget)
    BY <2>1 DEF Needed
  <2>3. \A s \in SUBSET paths : Cardinality(s) = 0 => s = {}
    BY <1>5, FS_EmptySet
  <2>. QED  BY <1>4, <2>2, <2>3
<1>7. ASSUME NEW k \in Nat, k \in U PROVE k + 1 \in U
  <2>1. ASSUME NEW s \in SUBSET paths, Cardinality(s) = k + 1
        PROVE  Needed(f[s], s, budget)
    <3>. DEFINE r == s \ {LastOf(s)}
    <3>1. s # {}
      BY <2>1, FS_EmptySet
    <3>2. /\ LastOf(s) \in s /\ r \in SUBSET paths /\ Cardinality(r) = Cardinality(s) - 1
          /\ \A q \in r : Deeper(q, LastOf(s))
      BY <3>1, LastOfSome
    <3>3. Cardinality(r) = k
      BY <2>1, <3>2
    <3>4. Needed(f[r], r, budget)
      BY <1>7, <3>2, <3>3
    <3>5. f[r] \in T /\ Collapsed(full, f[r])
      BY <1>4, <3>2 DEF T
    <3>6. f[s] = CollapseNext(f[r], LastOf(s), budget)
      BY <1>4, <3>1
    <3>7. r \union {LastOf(s)} = s /\ LastOf(s) \in Paths /\ r \in SUBSET Paths
      BY <3>2
    <3>. HIDE DEF r
    <3>8. Needed(CollapseNext(f[r], LastOf(s), budget), r \union {LastOf(s)}, budget)
      BY <3>2, <3>4, <3>5, <3>7, NextIsNeeded
    <3>. QED  BY <3>6, <3>7, <3>8
  <2>. QED  BY <2>1
<1>. HIDE DEF U
<1>8. Nat \subseteq U
  BY <1>6, <1>7, Induction
<1>9. Cardinality(paths) \in Nat /\ paths \in SUBSET paths
  BY <1>5
<1>10. Needed(f[paths], paths, budget)
  BY <1>8, <1>9 DEF U
<1>11. f[paths] \in T
  BY <1>4
<1>. QED  BY <1>4, <1>10, <1>11 DEF T

LEMMA NeededIsEnough ==
  ASSUME NEW full, NEW g, g.nodes \in Seq(NodeSet), NEW s, NEW budget, Needed(g, s, budget)
  PROVE  NoNeedlessCollapse(full, g, budget)
<1>. DEFINE metas == MetasOf(g)
            IsLast(n) == \A m \in metas \ {n} : Deeper(m.path, n.path)
            last == CHOOSE n \in metas : IsLast(n)
<1>1. SUFFICES ASSUME metas # {} PROVE Len(g.nodes) - 1 + last.hidden > budget
  BY DEF NoNeedlessCollapse, MetasOf
<1>2. PICK n : Newest(g, n, budget)
  BY <1>1 DEF Needed
<1>3. n \in metas /\ IsLast(n) /\ Len(g.nodes) - 1 + n.hidden > budget
  BY <1>2 DEF Newest
<1>4. last \in metas /\ IsLast(last)
  BY <1>3
<1>5. \A m \in metas : m.path \in Paths
  <2>1. \A m \in Range(g.nodes) : m \in NodeSet
    BY RangeIs
  <2>. QED  BY <2>1 DEF MetasOf, NodeSet
<1>. HIDE DEF last, metas
<1>6. ASSUME last # n PROVE FALSE
  <2>1. Deeper(last.path, n.path) /\ Deeper(n.path, last.path)
    BY <1>3, <1>4, <1>6
  <2>. QED  BY <1>3, <1>4, <1>5, <2>1, DeeperAsymmetric
<1>. QED  BY <1>3, <1>6

\* Whatever the graph and the budget, what is shown keeps to the budget, loses nothing
\* without saying so, and collapses no more than it must.
LEMMA CollapseIsRight ==
  ASSUME NEW full, IsFull(full), NEW budget \in Nat
  PROVE  LET g == CollapseToBudget(full, budget)
         IN /\ WithinBudget(full, g, budget) /\ WellFormed(g)
            /\ IsQuotient(full, g) /\ NoNeedlessCollapse(full, g, budget)
<1>. DEFINE c == IF budget = 0 \/ Len(full.nodes) <= budget THEN full
                 ELSE CollapsePaths(full, ClusterPaths(full), budget)
            g == MaybeTruncate(c, budget)
<1>1. CollapseToBudget(full, budget) = g
  BY DEF CollapseToBudget
<1>2. full \in GraphSet
  BY DEF IsFull, Joined
<1>3. Collapsed(full, c) /\ \E s : Needed(c, s, budget)
  <2>1. Needed(full, {}, budget)
    <3>1. MetasOf(full) = {}
      BY DEF IsFull, MetasOf
    <3>. QED  BY <3>1 DEF Needed
  <2>2. CASE c = full
    BY <2>1, <2>2, FullIsCollapsed
  <2>3. CASE c = CollapsePaths(full, ClusterPaths(full), budget)
    BY <1>2, <2>3, ClusterPathsAre, RunIsNeeded
  <2>. QED  BY <2>2, <2>3
<1>. HIDE DEF c
<1>4. Joined(c) /\ c.truncated = FALSE /\ c.nodes \in Seq(NodeSet)
  BY <1>3, CollapsedIsJoined DEF Collapsed, GraphSet
<1>5. /\ Joined(g) /\ (budget > 0 => Len(g.nodes) <= budget)
      /\ (g.truncated => Len(g.nodes) = budget) /\ (~g.truncated => g = c)
  BY <1>4, TruncateKeeps
<1>. HIDE DEF g
<1>6. WithinBudget(full, g, budget) /\ WellFormed(g)
  BY <1>5, JoinedIsWellFormed DEF WithinBudget
<1>7. CASE g.truncated
  BY <1>1, <1>6, <1>7 DEF IsQuotient, NoNeedlessCollapse
<1>8. CASE ~g.truncated
  <2>1. g = c
    BY <1>5, <1>8
  <2>2. IsQuotient(full, c) /\ NoNeedlessCollapse(full, c, budget)
    BY <1>3, <1>4, CollapsedIsQuotient, NeededIsEnough
  <2>. QED  BY <1>1, <1>6, <2>1, <2>2
<1>. QED  BY <1>7, <1>8

-----------------------------------------------------------------------------
(* The graphs of functions and of diffs are full.                            *)

\* Operations as the parser places them.
IsPlaced(ops) == Len(ops) \in Nat /\ \A i \in 1 .. Len(ops) : ops[i].path \in Paths

LEMMA DefinedForIs ==
  ASSUME NEW ops, Len(ops) \in Nat, NEW u
  PROVE  DefinedFor(ops, u) \subseteq 1 .. Len(ops) /\ u \notin DefinedFor(ops, u)
<1>. DEFINE n == Len(ops)
<1>1. ASSUME NEW value PROVE Definition(ops, value) \in 0 .. n
  <2>. DEFINE defs == {i \in 1 .. n : value \in ops[i].results}
  <2>1. CASE defs = {}
    BY <2>1 DEF Definition
  <2>2. CASE defs # {}
    <3>1. defs \in SUBSET (1 .. n) /\ n \in Nat
      OBVIOUS
    <3>. HIDE DEF defs, n
    <3>2. Max(defs) \in defs
      BY <2>2, <3>1, MaxIsMember
    <3>3. \A x \in defs : x \in 0 .. n
      <4>1. \A x \in 1 .. n : x \in 0 .. n
        BY <3>1
      <4>. QED  BY <3>1, <4>1
    <3>4. Max(defs) \in 0 .. n
      BY <3>2, <3>3
    <3>. QED  BY <2>2, <3>4 DEF Definition, defs, n
  <2>. QED  BY <2>1, <2>2
<1>2. \A x \in 0 .. n : x # 0 => x \in 1 .. n
  OBVIOUS
<1>. HIDE DEF n
<1>. QED  BY <1>1, <1>2 DEF DefinedFor, n

LEMMA NodesTyped ==
  /\ \A i \in Nat : OpNode(i) \in OpIds /\ GhostNode(i) \in OpIds
  /\ \A i, j : (OpNode(i) = OpNode(j) => i = j) /\ (GhostNode(i) = GhostNode(j) => i = j)
  /\ \A i, j : OpNode(i) # GhostNode(j)
  /\ \A id \in OpIds, path \in Paths :
       /\ Node(id, path, 0) \in NodeSet
       /\ Node(id, path, 0).id = id /\ Node(id, path, 0).hidden = 0
  /\ \A from \in OpIds, to \in OpIds, r \in BOOLEAN : Edge(from, to, r) \in EdgeSet
<1>1. \A i, j : (OpNode(i) = OpNode(j) => i = j) /\ (GhostNode(i) = GhostNode(j) => i = j)
  BY DEF OpNode, GhostNode
<1>2. \A i, j : OpNode(i) # GhostNode(j)
  BY DEF OpNode, GhostNode
<1>3. OpIds \subseteq NodeIds /\ \A i \in Nat : OpNode(i) \in OpIds /\ GhostNode(i) \in OpIds
  BY DEF OpIds, NodeIds
<1>4. 0 \in Nat
  OBVIOUS
<1>. HIDE DEF OpIds, NodeIds, Paths
<1>5. \A id \in OpIds, path \in Paths :
        /\ Node(id, path, 0) \in NodeSet
        /\ Node(id, path, 0).id = id /\ Node(id, path, 0).hidden = 0
  BY <1>3, <1>4 DEF Node, NodeSet
<1>6. \A from \in OpIds, to \in OpIds, r \in BOOLEAN : Edge(from, to, r) \in EdgeSet
  BY <1>3 DEF Edge, EdgeSet
<1>. QED  BY <1>1, <1>2, <1>3, <1>5, <1>6

LEMMA OpNodesTyped ==
  ASSUME NEW ops, IsPlaced(ops)
  PROVE  /\ OpNodes(ops) \in Seq(NodeSet) /\ Len(OpNodes(ops)) = Len(ops)
         /\ \A i \in 1 .. Len(ops) : /\ OpNodes(ops)[i].id = OpNode(i)
                                     /\ OpNodes(ops)[i].hidden = 0
<1>. DEFINE n == Len(ops)
<1>1. n \in Nat /\ \A i \in 1 .. n : ops[i].path \in Paths /\ i \in Nat
  BY DEF IsPlaced
<1>2. \A i \in 1 .. n : /\ OpNodes(ops)[i] \in NodeSet /\ OpNodes(ops)[i].id = OpNode(i)
                        /\ OpNodes(ops)[i].hidden = 0
  BY <1>1, NodesTyped DEF OpNodes
<1>3. OpNodes(ops) = [i \in 1 .. n |-> OpNodes(ops)[i]]
  BY DEF OpNodes
<1>. HIDE DEF n
<1>4. OpNodes(ops) \in [1 .. n -> NodeSet]
  BY <1>2, <1>3
<1>5. OpNodes(ops) \in Seq(NodeSet) /\ Len(OpNodes(ops)) = n
  BY <1>1, <1>4
<1>. QED  BY <1>2, <1>5 DEF n

\* The edges join two different operations of the function.
LEMMA DataflowEdgesJoin ==
  ASSUME NEW ops, IsPlaced(ops)
  PROVE  /\ DataflowEdges(ops) \subseteq EdgeSet
         /\ \A e \in DataflowEdges(ops) : /\ \E i \in 1 .. Len(ops) : e.from = OpNode(i)
                                          /\ \E i \in 1 .. Len(ops) : e.to = OpNode(i)
                                          /\ e.from # e.to
<1>. DEFINE n == Len(ops)
<1>1. ASSUME NEW e \in DataflowEdges(ops)
      PROVE  \E d, u \in 1 .. n : d # u /\ e = Edge(OpNode(d), OpNode(u), FALSE)
  <2>1. PICK u \in 1 .. n : e \in {Edge(OpNode(d), OpNode(u), FALSE) : d \in DefinedFor(ops, u)}
    BY DEF DataflowEdges
  <2>2. PICK d \in DefinedFor(ops, u) : e = Edge(OpNode(d), OpNode(u), FALSE)
    BY <2>1
  <2>3. d \in 1 .. n /\ d # u
    BY DefinedForIs DEF IsPlaced
  <2>. QED  BY <2>2, <2>3
<1>2. \A i \in 1 .. n : i \in Nat
  BY DEF IsPlaced
<1>. HIDE DEF n
<1>3. ASSUME NEW e \in DataflowEdges(ops)
      PROVE  /\ e \in EdgeSet /\ e.from # e.to
             /\ (\E i \in 1 .. n : e.from = OpNode(i)) /\ (\E i \in 1 .. n : e.to = OpNode(i))
  <2>1. PICK d, u \in 1 .. n : d # u /\ e = Edge(OpNode(d), OpNode(u), FALSE)
    BY <1>1
  <2>2. OpNode(d) \in OpIds /\ OpNode(u) \in OpIds /\ OpNode(d) # OpNode(u)
    BY <1>2, <2>1, NodesTyped
  <2>3. e \in EdgeSet
    BY <2>1, <2>2, NodesTyped
  <2>4. e.from = OpNode(d) /\ e.to = OpNode(u)
    BY <2>1 DEF Edge
  <2>. QED  BY <2>1, <2>2, <2>3, <2>4
<1>. QED  BY <1>3 DEF n

LEMMA DataflowIsFull ==
  ASSUME NEW ops, IsPlaced(ops)
  PROVE  IsFull(FullDataflow(ops))
<1>. DEFINE full  == FullDataflow(ops)
            nodes == OpNodes(ops)
            n     == Len(ops)
<1>1. full.nodes = nodes /\ full.edges = DataflowEdges(ops) /\ full.truncated = FALSE
      /\ full = [nodes |-> nodes, edges |-> DataflowEdges(ops), truncated |-> FALSE]
  BY DEF FullDataflow, Graph
<1>2. nodes \in Seq(NodeSet) /\ Len(nodes) = n
      /\ \A i \in 1 .. n : nodes[i].id = OpNode(i) /\ nodes[i].hidden = 0
  BY OpNodesTyped
<1>3. \A i \in 1 .. n : i \in Nat
  BY DEF IsPlaced
<1>. HIDE DEF full, nodes, n
<1>4. full \in GraphSet
  BY <1>1, <1>2, DataflowEdgesJoin DEF GraphSet
<1>5. Distinct(full.nodes)
  BY <1>1, <1>2, NodesTyped DEF Distinct
<1>6. Ids(full) = {nodes[i].id : i \in 1 .. n} /\ Range(full.nodes) = {nodes[i] : i \in 1 .. n}
  <2>1. full.nodes \in Seq(NodeSet)
    BY <1>1, <1>2
  <2>2. Ids(full) = IdsOf(nodes) /\ Range(full.nodes) = {nodes[i] : i \in 1 .. Len(nodes)}
    <3>1. Ids(full) = IdsOf(full.nodes) /\ Range(full.nodes) = {full.nodes[i] : i \in 1 .. Len(full.nodes)}
      BY <2>1, IdsAre
    <3>2. full.nodes = nodes
      BY <1>1
    <3>. QED  BY ONLY <3>1, <3>2
  <2>3. IdsOf(nodes) = {nodes[i].id : i \in 1 .. Len(nodes)}
    BY DEF IdsOf
  <2>. QED  BY <1>2, <2>2, <2>3
<1>7. \A e \in full.edges : e.from \in Ids(full) /\ e.to \in Ids(full) /\ e.from # e.to
  <2>1. \A i \in 1 .. n : OpNode(i) \in Ids(full)
    BY <1>2, <1>6
  <2>. QED  BY <1>1, <2>1, DataflowEdgesJoin DEF n
<1>8. \A x \in Range(full.nodes) : x.id \in OpIds /\ x.hidden = 0
  BY <1>2, <1>3, <1>6, NodesTyped
<1>. QED  BY <1>1, <1>4, <1>5, <1>7, <1>8 DEF IsFull, Joined, full

\* The graph of a diff, of changes of operations before to operations after.
LEMMA DiffGraphIsFull ==
  ASSUME NEW before, NEW after, IsPlaced(before), IsPlaced(after),
         NEW changes, changes \in Seq(Changes(before, after))
  PROVE  IsFull(DiffGraph(before, after, changes))
<1>. DEFINE n == Len(before)
            m == Len(after)
            matched(i) == {c \in Range(changes) : c.before = i /\ c.after # Nothing}
            S       == {i \in 1 .. n : matched(i) = {}}
            removed == Ascending(S, n)
            ghosts  == [k \in 1 .. Len(removed) |->
                          Node(GhostNode(removed[k]), before[removed[k]].path, 0)]
            endpoint(i) == IF matched(i) = {} THEN GhostNode(i)
                           ELSE OpNode((CHOOSE c \in matched(i) : TRUE).after)
            operandEdges(g) == {Edge(endpoint(d), GhostNode(g), TRUE) : d \in DefinedFor(before, g)}
            users(g) == {u \in 1 .. n \ {g} : before[u].operands \intersect before[g].results # {}}
            userEdges(g) == {Edge(GhostNode(g), endpoint(u), TRUE) : u \in users(g)}
            old   == UNION {operandEdges(g) \union userEdges(g) : g \in Range(removed)}
            edges == DataflowEdges(after) \union old
            nodes == OpNodes(after) \o ghosts
            full  == DiffGraph(before, after, changes)
<1>1. full = Graph(nodes, edges)
  BY DEF DiffGraph
<1>2. n \in Nat /\ m \in Nat /\ \A i \in 1 .. n : i \in Nat /\ before[i].path \in Paths
  BY DEF IsPlaced
<1>3. \A c \in Range(changes) : c.after \in 0 .. m
  <2>1. \A k \in DOMAIN changes : changes[k] \in Changes(before, after)
    OBVIOUS
  <2>. QED  BY <2>1 DEF Range, Changes
<1>. HIDE DEF n, m, full
<1>4. \A i : \/ endpoint(i) = GhostNode(i) /\ matched(i) = {}
             \/ \E j \in 1 .. m : endpoint(i) = OpNode(j)
  <2>1. ASSUME NEW i, matched(i) # {} PROVE \E j \in 1 .. m : endpoint(i) = OpNode(j)
    <3>. DEFINE c == CHOOSE x \in matched(i) : TRUE
    <3>1. c \in matched(i)
      BY <2>1
    <3>2. endpoint(i) = OpNode(c.after)
      BY <2>1
    <3>. HIDE DEF c
    <3>3. c.after \in 0 .. m /\ c.after # 0
      BY <1>3, <3>1 DEF Nothing
    <3>4. c.after \in 1 .. m
      BY <1>2, <3>3
    <3>. QED  BY <3>2, <3>4
  <2>. QED  BY <2>1
<1>. DEFINE r == Len(removed)
<1>5. /\ removed \in Seq(Nat) /\ r \in Nat
      /\ \A k \in 1 .. r : removed[k] \in 1 .. n /\ matched(removed[k]) = {}
      /\ \A i \in 1 .. n : matched(i) = {} => \E k \in 1 .. r : removed[k] = i
      /\ \A k, l \in 1 .. r : removed[k] = removed[l] => k = l
  <2>. HIDE DEF removed
  <2>1. ListsUpTo(removed, S, n)
    BY <1>2, AscendingLists DEF removed
  <2>2. removed \in Seq(Nat) /\ r \in Nat
    BY <2>1 DEF ListsUpTo
  <2>3. \A k \in 1 .. r : removed[k] \in S /\ removed[k] \in 1 .. n
    BY <2>1 DEF ListsUpTo
  <2>4. \A i \in S : i \in 1 .. n => \E k \in 1 .. r : removed[k] = i
    BY <2>1 DEF ListsUpTo
  <2>5. ASSUME NEW k \in 1 .. r, NEW l \in 1 .. r, removed[k] = removed[l] PROVE k = l
    <3>1. k < l => removed[k] < removed[l]
      BY <2>1 DEF ListsUpTo
    <3>2. l < k => removed[l] < removed[k]
      BY <2>1 DEF ListsUpTo
    <3>3. removed[k] \in Nat
      BY <1>2, <2>3
    <3>. HIDE DEF r
    <3>4. k \in Int /\ l \in Int
      OBVIOUS
    <3>. QED  BY <2>5, <3>1, <3>2, <3>3, <3>4
  <2>. QED  BY <2>2, <2>3, <2>4, <2>5
<1>6. Range(removed) = {removed[k] : k \in 1 .. r}
  <2>1. DOMAIN removed = 1 .. r
    BY <1>5
  <2>. QED  BY <2>1 DEF Range
<1>. HIDE DEF removed, r
<1>7. ghosts \in Seq(NodeSet) /\ Len(ghosts) = r
      /\ \A k \in 1 .. r : ghosts[k].id = GhostNode(removed[k]) /\ ghosts[k].hidden = 0
  <2>0. \A k \in 1 .. r : removed[k] \in Nat /\ before[removed[k]].path \in Paths
    BY <1>2, <1>5
  <2>1. \A k \in 1 .. r : /\ Node(GhostNode(removed[k]), before[removed[k]].path, 0) \in NodeSet
                           /\ Node(GhostNode(removed[k]), before[removed[k]].path, 0).id = GhostNode(removed[k])
                           /\ Node(GhostNode(removed[k]), before[removed[k]].path, 0).hidden = 0
    BY <2>0, NodesTyped
  <2>2. ghosts = [k \in 1 .. r |-> Node(GhostNode(removed[k]), before[removed[k]].path, 0)]
    BY DEF r
  <2>3. \A k \in 1 .. r : ghosts[k] \in NodeSet /\ ghosts[k].id = GhostNode(removed[k]) /\ ghosts[k].hidden = 0
    BY <2>1, <2>2
  <2>4. ghosts = [k \in 1 .. r |-> ghosts[k]]
    BY <2>2
  <2>. HIDE DEF ghosts
  <2>5. ghosts \in [1 .. r -> NodeSet]
    BY <2>3, <2>4
  <2>6. ghosts \in Seq(NodeSet) /\ Len(ghosts) = r
    BY <1>5, <2>5
  <2>. QED  BY <2>3, <2>6
<1>. DEFINE ops == OpNodes(after)
<1>8. ops \in Seq(NodeSet) /\ Len(ops) = m
      /\ \A i \in 1 .. m : ops[i].id = OpNode(i) /\ ops[i].hidden = 0 /\ i \in Nat
  BY OpNodesTyped DEF IsPlaced, m
<1>. HIDE DEF ghosts, ops
<1>9. nodes \in Seq(NodeSet) /\ Len(nodes) = m + r
      /\ (\A i \in 1 .. m : nodes[i] = ops[i]) /\ (\A k \in 1 .. r : nodes[m + k] = ghosts[k])
  <2>0. ops \o ghosts \in Seq(NodeSet) /\ Len(ops \o ghosts) = Len(ops) + Len(ghosts)
    <3>1. ops \in Seq(NodeSet) /\ ghosts \in Seq(NodeSet)
      BY <1>7, <1>8
    <3>. HIDE DEF NodeSet
    <3>. QED  BY ONLY <3>1
  <2>1. nodes \in Seq(NodeSet) /\ Len(nodes) = Len(ops) + Len(ghosts)
    BY <2>0 DEF ops
  <2>2. \A i \in 1 .. Len(ops) + Len(ghosts) :
          nodes[i] = IF i <= Len(ops) THEN ops[i] ELSE ghosts[i - Len(ops)]
    BY <1>7, <1>8 DEF ops
  <2>. HIDE DEF nodes
  <2>3. \A i \in 1 .. m : i \in 1 .. m + r /\ i <= m
    BY <1>2, <1>5
  <2>4. \A k \in 1 .. r : m + k \in 1 .. m + r /\ ~(m + k <= m) /\ (m + k) - m = k
    BY <1>2, <1>5
  <2>5. \A i \in 1 .. m : nodes[i] = ops[i]
    BY <1>7, <1>8, <2>2, <2>3
  <2>6. ASSUME NEW k \in 1 .. r PROVE nodes[m + k] = ghosts[k]
    <3>1. m + k \in 1 .. m + r /\ ~(m + k <= m) /\ (m + k) - m = k
      BY <2>4
    <3>. QED  BY <1>7, <1>8, <2>2, <3>1
  <2>. QED  BY <1>7, <1>8, <2>1, <2>5, <2>6
<1>. HIDE DEF nodes
<1>10. \A i \in 1 .. m + r : i \in 1 .. m \/ \E k \in 1 .. r : i = m + k
  <2>1. ASSUME NEW i \in 1 .. m + r, i \notin 1 .. m PROVE \E k \in 1 .. r : i = m + k
    <3>1. i - m \in 1 .. r /\ i = m + (i - m)
      BY <1>2, <1>5, <2>1
    <3>. QED  BY <3>1
  <2>. QED  BY <2>1
<1>11. \A i \in 1 .. m + r :
         \/ i \in 1 .. m /\ nodes[i].id = OpNode(i)
         \/ \E k \in 1 .. r : i = m + k /\ nodes[i].id = GhostNode(removed[k])
  BY <1>7, <1>8, <1>9, <1>10
<1>12. Distinct(nodes)
  <2>1. ASSUME NEW i \in 1 .. m + r, NEW j \in 1 .. m + r, nodes[i].id = nodes[j].id
        PROVE  i = j
    <3>1. CASE i \in 1 .. m /\ nodes[i].id = OpNode(i)
      <4>1. nodes[j].id = OpNode(j)
        BY <1>11, <2>1, <3>1, NodesTyped
      <4>. QED  BY <2>1, <3>1, <4>1, NodesTyped
    <3>2. CASE \E k \in 1 .. r : i = m + k /\ nodes[i].id = GhostNode(removed[k])
      <4>1. PICK k \in 1 .. r : i = m + k /\ nodes[i].id = GhostNode(removed[k])
        BY <3>2
      <4>2. PICK l \in 1 .. r : j = m + l /\ nodes[j].id = GhostNode(removed[l])
        BY <1>11, <2>1, <4>1, NodesTyped
      <4>3. removed[k] = removed[l]
        BY <2>1, <4>1, <4>2, NodesTyped
      <4>. QED  BY <1>5, <4>1, <4>2, <4>3
    <3>. QED  BY <1>11, <3>1, <3>2
  <2>. QED  BY <1>9, <2>1 DEF Distinct
<1>. HIDE DEF edges
<1>13. full = [nodes |-> nodes, edges |-> edges, truncated |-> FALSE]
       /\ full.nodes = nodes /\ full.edges = edges /\ full.truncated = FALSE
  BY <1>1 DEF Graph
<1>14. Ids(full) = {nodes[i].id : i \in 1 .. m + r} /\ Range(full.nodes) = {nodes[i] : i \in 1 .. m + r}
  <2>1. full.nodes \in Seq(NodeSet)
    BY <1>9, <1>13
  <2>2. Ids(full) = IdsOf(nodes) /\ Range(full.nodes) = {nodes[i] : i \in 1 .. Len(nodes)}
    <3>1. Ids(full) = IdsOf(full.nodes) /\ Range(full.nodes) = {full.nodes[i] : i \in 1 .. Len(full.nodes)}
      BY <2>1, IdsAre
    <3>2. full.nodes = nodes
      BY <1>13
    <3>. QED  BY ONLY <3>1, <3>2
  <2>3. IdsOf(nodes) = {nodes[i].id : i \in 1 .. Len(nodes)}
    BY DEF IdsOf
  <2>. QED  BY <1>9, <2>2, <2>3
<1>15. /\ \A i \in 1 .. m : OpNode(i) \in Ids(full) /\ OpNode(i) \in OpIds
       /\ \A k \in 1 .. r : GhostNode(removed[k]) \in Ids(full) /\ GhostNode(removed[k]) \in OpIds
  <2>1. \A i \in 1 .. m : i \in 1 .. m + r
    BY <1>2, <1>5
  <2>2. \A k \in 1 .. r : m + k \in 1 .. m + r
    BY <1>2, <1>5
  <2>3. \A k \in 1 .. r : removed[k] \in Nat
    BY <1>2, <1>5
  <2>4. \A i \in 1 .. m : OpNode(i) \in Ids(full)
    BY <1>8, <1>9, <1>14, <2>1
  <2>5. \A k \in 1 .. r : GhostNode(removed[k]) \in Ids(full)
    BY <1>7, <1>9, <1>14, <2>2
  <2>. QED  BY <1>8, <2>3, <2>4, <2>5, NodesTyped
<1>16. \A i \in 1 .. n : endpoint(i) \in Ids(full) /\ endpoint(i) \in OpIds
  <2>1. ASSUME NEW i \in 1 .. n PROVE endpoint(i) \in Ids(full) /\ endpoint(i) \in OpIds
    <3>1. CASE \E j \in 1 .. m : endpoint(i) = OpNode(j)
      BY <1>15, <3>1
    <3>2. CASE endpoint(i) = GhostNode(i) /\ matched(i) = {}
      BY <1>5, <1>15, <3>2
    <3>. QED  BY <1>4, <3>1, <3>2
  <2>. QED  BY <2>1
<1>17. \A g \in Range(removed) : /\ g \in 1 .. n /\ GhostNode(g) \in Ids(full) /\ GhostNode(g) \in OpIds
                                  /\ \A i \in 1 .. n : i # g => endpoint(i) # GhostNode(g)
  <2>1. \A g : \A i : i # g => endpoint(i) # GhostNode(g)
    <3>. HIDE DEF endpoint
    <3>. QED  BY <1>4, NodesTyped
  <2>. HIDE DEF endpoint
  <2>. QED  BY <1>5, <1>6, <1>15, <2>1
<1>. HIDE DEF endpoint
<1>18. ASSUME NEW e \in old
       PROVE  e \in EdgeSet /\ e.from \in Ids(full) /\ e.to \in Ids(full) /\ e.from # e.to
  <2>1. PICK g \in Range(removed) : e \in operandEdges(g) \/ e \in userEdges(g)
    <3>. HIDE DEF operandEdges, userEdges
    <3>. QED  OBVIOUS
  <2>2. PICK i \in 1 .. n : i # g /\ e \in {Edge(endpoint(i), GhostNode(g), TRUE), Edge(GhostNode(g), endpoint(i), TRUE)}
    <3>1. CASE e \in operandEdges(g)
      <4>1. PICK d \in DefinedFor(before, g) : e = Edge(endpoint(d), GhostNode(g), TRUE)
        BY <3>1
      <4>2. d \in 1 .. n /\ d # g
        BY <1>2, DefinedForIs DEF n
      <4>. QED  BY <4>1, <4>2
    <3>2. CASE e \in userEdges(g)
      BY <3>2
    <3>. QED  BY <2>1, <3>1, <3>2
  <2>3. /\ endpoint(i) \in Ids(full) /\ endpoint(i) \in OpIds /\ endpoint(i) # GhostNode(g)
        /\ GhostNode(g) \in Ids(full) /\ GhostNode(g) \in OpIds
    BY <1>16, <1>17, <2>2
  <2>4. e \in EdgeSet
    <3>1. /\ Edge(endpoint(i), GhostNode(g), TRUE) \in EdgeSet
          /\ Edge(GhostNode(g), endpoint(i), TRUE) \in EdgeSet
      BY <2>3, NodesTyped
    <3>. QED  BY <2>2, <3>1
  <2>5. \/ e.from = endpoint(i) /\ e.to = GhostNode(g)
        \/ e.from = GhostNode(g) /\ e.to = endpoint(i)
    BY <2>2 DEF Edge
  <2>. QED  BY <2>3, <2>4, <2>5
<1>19. \A e \in edges : e \in EdgeSet /\ e.from \in Ids(full) /\ e.to \in Ids(full) /\ e.from # e.to
  <2>. HIDE DEF old
  <2>1. ASSUME NEW e \in DataflowEdges(after)
        PROVE  e \in EdgeSet /\ e.from \in Ids(full) /\ e.to \in Ids(full) /\ e.from # e.to
    BY <1>15, DataflowEdgesJoin DEF m
  <2>2. edges = DataflowEdges(after) \union old
    BY DEF edges, old
  <2>. QED  BY <1>18, <2>1, <2>2
<1>20. full \in GraphSet
  BY <1>9, <1>13, <1>19 DEF GraphSet
<1>21. \A x \in Range(full.nodes) : x.id \in OpIds /\ x.hidden = 0
  <2>1. ASSUME NEW i \in 1 .. m + r PROVE nodes[i].id \in OpIds /\ nodes[i].hidden = 0
    <3>1. CASE i \in 1 .. m
      BY <1>8, <1>9, <1>15, <3>1
    <3>2. CASE \E k \in 1 .. r : i = m + k
      BY <1>7, <1>9, <1>15, <3>2
    <3>. QED  BY <1>10, <3>1, <3>2
  <2>. QED  BY <1>14, <2>1
<1>. QED  BY <1>12, <1>13, <1>19, <1>20, <1>21 DEF IsFull, Joined, full

LEMMA DataflowDiffIsFull ==
  ASSUME NEW before, NEW after, IsPlaced(before), IsPlaced(after)
  PROVE  IsFull(FullDataflowDiff(before, after))
<1>. DEFINE match   == MatchOps(before, after)
            changes == ChangesOf(before, after, match)
<1>1. match \in Matchings(before, after)
  BY MatchOpsMatches DEF IsPlaced
<1>. HIDE DEF match
<1>2. changes \in Seq(Changes(before, after))
  BY <1>1, ChangesOfReports DEF IsPlaced, Reported
<1>3. FullDataflowDiff(before, after) = DiffGraph(before, after, changes)
  BY DEF FullDataflowDiff, DiffFunction, match
<1>. HIDE DEF changes
<1>. QED  BY <1>2, <1>3, DiffGraphIsFull
==============================================================================
