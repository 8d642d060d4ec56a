----------------------------- MODULE LineageProofs -----------------------------
(***************************************************************************)
(* Proofs about Provenance and Lineage, for any addresses, names, passes   *)
(* and changes.                                                            *)
(*                                                                         *)
(* The folds of Provenance (events, pairs, stages, bridges, chains) are    *)
(* unrolled to runs of their steps; from these it is proved what the       *)
(* relations of a timeline are (StageCores, Bridged): of each one, which   *)
(* event, which address or which match it comes from.  The invariant of    *)
(* Lineage (IInv) says what is true of the addresses of a stage            *)
(* (StageTrue), and of a pass that runs (PassTrue).  Put together, links   *)
(* that are shown as exact are true, an operation has one successor in a   *)
(* stage, UIDs follow the links, and an operation that a pass leaves where *)
(* it is has one step in its history.                                      *)
(***************************************************************************)
EXTENDS Lineage, DataflowProofs

-----------------------------------------------------------------------------
(* The folds of Provenance, step by step. *)

\* The events of a stage, one after the other.
EventsRun(g, T, timeline, i, start) ==
  /\ g \in [0 .. Len(timeline[i].events) -> T] /\ g[0] = start /\ g[Len(timeline[i].events)] = ApplyEvents(timeline, i, start)
  /\ \A k \in 1 .. Len(timeline[i].events) : g[k] = ApplyEvent(timeline, i, g[k - 1], k)

\* There is a run of those steps through any set that they do not leave.
LEMMA EventsSteps ==
  ASSUME NEW timeline, NEW i, NEW start,
         NEW T, start \in T, Len(timeline[i].events) \in Nat,
         \A t \in T, k \in 1 .. Len(timeline[i].events) : ApplyEvent(timeline, i, t, k) \in T
  PROVE  \E g : EventsRun(g, T, timeline, i, start)
<1>. DEFINE n    == Len(timeline[i].events)
            base == start
            Step(t, k) == ApplyEvent(timeline, i, t, k)
            step == [k \in 1 .. n |-> [t \in T |-> Step(t, k)]]
            Body(f) == [s \in SUBSET (1 .. n) |->
                          IF s = {} THEN base
                          ELSE Step(f[s \ {Max(s)}], UpTo(n)[Max(s)])]
            iter == CHOOSE f : f = Body(f)
            g    == [k \in 0 .. n |-> iter[1 .. k]]
<1>1. ApplyEvents(timeline, i, start) = iter[1 .. n]
  BY DEF ApplyEvents, FoldLeft, MapThenFoldSet, UpTo
<1>. HIDE DEF n, base, Step
<1>2. n \in Nat /\ base \in T /\ \A t \in T, k \in 1 .. n : Step(t, k) \in T
  BY DEF n, base, Step
<1>3. \A k \in 1 .. n : UpTo(n)[k] = k
  BY DEF UpTo
<1>4. \E f : f = Body(f)
  <2>1. step \in [1 .. n -> [T -> T]]
    BY <1>2
  <2>2. \A k \in 1 .. n, t \in T : step[k][t] = Step(t, k)
    OBVIOUS
  <2>. HIDE DEF step
  <2>3. PICK f : FoldOK(T, base, step, n, f)
    BY <1>2, <2>1, FoldExists
  <2>4. ASSUME NEW s \in SUBSET (1 .. n), s # {}
        PROVE  Max(s) \in 1 .. n /\ s \ {Max(s)} \in SUBSET (1 .. n)
    BY <1>2, <2>4, MaxIsMember
  <2>5. ASSUME NEW s \in SUBSET (1 .. n)
        PROVE  f[s] = Body(f)[s]
    <3>1. CASE s = {}
      BY <2>3, <3>1 DEF FoldOK
    <3>2. CASE s # {}
      <4>1. f[s \ {Max(s)}] \in T /\ f[s] = step[Max(s)][f[s \ {Max(s)}]]
        BY <2>3, <2>4, <3>2 DEF FoldOK
      <4>. QED  BY <1>3, <2>2, <2>4, <3>2, <4>1
    <3>. QED  BY <3>1, <3>2
  <2>6. f = Body(f)
    BY <2>3, <2>5 DEF FoldOK
  <2>. QED  BY <2>6
<1>5. iter = Body(iter)
  BY <1>4
<1>. HIDE DEF iter
<1>6. g[0] = base
  <2>1. 1 .. 0 = {} /\ 0 \in 0 .. n
    BY <1>2
  <2>2. Body(iter)[{}] = base
    OBVIOUS
  <2>. QED  BY <1>5, <2>1, <2>2
<1>7. ASSUME NEW k \in 1 .. n
      PROVE  g[k] = Step(g[k - 1], k)
  <2>1. Body(iter)[1 .. k] = Step(iter[1 .. (k - 1)], k)
    BY <1>2, <1>3, Intervals
  <2>2. k - 1 \in 0 .. n /\ k \in 0 .. n
    BY <1>2
  <2>. QED  BY <1>5, <2>1, <2>2
<1>. HIDE DEF g
<1>8. \A k \in 0 .. n : g[k] \in T
  <2>. DEFINE S == {k \in 0 .. n : g[k] \in T}
  <2>1. 0 \in S
    BY <1>2, <1>6
  <2>2. ASSUME NEW k \in 1 .. n, k - 1 \in S
        PROVE  k \in S
    BY <1>2, <1>7, <2>2
  <2>. HIDE DEF S
  <2>3. 0 .. n \subseteq S
    BY <1>2, <2>1, <2>2, InductionUpTo
  <2>. QED  BY <2>3 DEF S
<1>9. g \in [0 .. n -> T] /\ g[n] = ApplyEvents(timeline, i, start)
  BY <1>1, <1>2, <1>8 DEF g
<1>10. EventsRun(g, T, timeline, i, start)
  BY <1>6, <1>7, <1>9 DEF n, base, Step, EventsRun
<1>. QED  BY <1>10

\* The links of pairs, one after the other.
PairsRun(g, T, timeline, i, start, pairs, exact) ==
  /\ g \in [0 .. Len(pairs) -> T] /\ g[0] = start /\ g[Len(pairs)] = LinkPairs(timeline, i, start, pairs, exact)
  /\ \A k \in 1 .. Len(pairs) : g[k] = LinkPair(timeline, i, g[k - 1], pairs[k][1], pairs[k][2], exact)

\* There is a run of those steps through any set that they do not leave.
LEMMA PairsSteps ==
  ASSUME NEW timeline, NEW i, NEW start, NEW pairs, NEW exact,
         NEW T, start \in T, Len(pairs) \in Nat,
         \A t \in T, k \in 1 .. Len(pairs) : LinkPair(timeline, i, t, pairs[k][1], pairs[k][2], exact) \in T
  PROVE  \E g : PairsRun(g, T, timeline, i, start, pairs, exact)
<1>. DEFINE n    == Len(pairs)
            base == start
            Step(t, k) == LinkPair(timeline, i, t, pairs[k][1], pairs[k][2], exact)
            step == [k \in 1 .. n |-> [t \in T |-> Step(t, k)]]
            Body(f) == [s \in SUBSET (1 .. n) |->
                          IF s = {} THEN base
                          ELSE Step(f[s \ {Max(s)}], UpTo(n)[Max(s)])]
            iter == CHOOSE f : f = Body(f)
            g    == [k \in 0 .. n |-> iter[1 .. k]]
<1>1. LinkPairs(timeline, i, start, pairs, exact) = iter[1 .. n]
  BY DEF LinkPairs, FoldLeft, MapThenFoldSet, UpTo
<1>. HIDE DEF n, base, Step
<1>2. n \in Nat /\ base \in T /\ \A t \in T, k \in 1 .. n : Step(t, k) \in T
  BY DEF n, base, Step
<1>3. \A k \in 1 .. n : UpTo(n)[k] = k
  BY DEF UpTo
<1>4. \E f : f = Body(f)
  <2>1. step \in [1 .. n -> [T -> T]]
    BY <1>2
  <2>2. \A k \in 1 .. n, t \in T : step[k][t] = Step(t, k)
    OBVIOUS
  <2>. HIDE DEF step
  <2>3. PICK f : FoldOK(T, base, step, n, f)
    BY <1>2, <2>1, FoldExists
  <2>4. ASSUME NEW s \in SUBSET (1 .. n), s # {}
        PROVE  Max(s) \in 1 .. n /\ s \ {Max(s)} \in SUBSET (1 .. n)
    BY <1>2, <2>4, MaxIsMember
  <2>5. ASSUME NEW s \in SUBSET (1 .. n)
        PROVE  f[s] = Body(f)[s]
    <3>1. CASE s = {}
      BY <2>3, <3>1 DEF FoldOK
    <3>2. CASE s # {}
      <4>1. f[s \ {Max(s)}] \in T /\ f[s] = step[Max(s)][f[s \ {Max(s)}]]
        BY <2>3, <2>4, <3>2 DEF FoldOK
      <4>. QED  BY <1>3, <2>2, <2>4, <3>2, <4>1
    <3>. QED  BY <3>1, <3>2
  <2>6. f = Body(f)
    BY <2>3, <2>5 DEF FoldOK
  <2>. QED  BY <2>6
<1>5. iter = Body(iter)
  BY <1>4
<1>. HIDE DEF iter
<1>6. g[0] = base
  <2>1. 1 .. 0 = {} /\ 0 \in 0 .. n
    BY <1>2
  <2>2. Body(iter)[{}] = base
    OBVIOUS
  <2>. QED  BY <1>5, <2>1, <2>2
<1>7. ASSUME NEW k \in 1 .. n
      PROVE  g[k] = Step(g[k - 1], k)
  <2>1. Body(iter)[1 .. k] = Step(iter[1 .. (k - 1)], k)
    BY <1>2, <1>3, Intervals
  <2>2. k - 1 \in 0 .. n /\ k \in 0 .. n
    BY <1>2
  <2>. QED  BY <1>5, <2>1, <2>2
<1>. HIDE DEF g
<1>8. \A k \in 0 .. n : g[k] \in T
  <2>. DEFINE S == {k \in 0 .. n : g[k] \in T}
  <2>1. 0 \in S
    BY <1>2, <1>6
  <2>2. ASSUME NEW k \in 1 .. n, k - 1 \in S
        PROVE  k \in S
    BY <1>2, <1>7, <2>2
  <2>. HIDE DEF S
  <2>3. 0 .. n \subseteq S
    BY <1>2, <2>1, <2>2, InductionUpTo
  <2>. QED  BY <2>3 DEF S
<1>9. g \in [0 .. n -> T] /\ g[n] = LinkPairs(timeline, i, start, pairs, exact)
  BY <1>1, <1>2, <1>8 DEF g
<1>10. PairsRun(g, T, timeline, i, start, pairs, exact)
  BY <1>6, <1>7, <1>9 DEF n, base, Step, PairsRun
<1>. QED  BY <1>10

\* The timeline, one after the other.
StagesRun(g, U, timeline) ==
  /\ g[0] = <<>> /\ g[Len(timeline)] = RelateStages(timeline)
  /\ \A i \in 0 .. Len(timeline) : g[i] \in U[i]
  /\ \A i \in 1 .. Len(timeline) : g[i] = RelateStage(timeline, g[i - 1], i)

\* There is a run of those steps through sets that grow, if each step is in the next.
LEMMA StagesSteps ==
  ASSUME NEW timeline, Len(timeline) \in Nat,
         NEW U, <<>> \in U[0],
         \A i, j \in 0 .. Len(timeline) : i <= j => U[i] \subseteq U[j],
         \A i \in 1 .. Len(timeline) : \A t \in U[i - 1] : RelateStage(timeline, t, i) \in U[i]
  PROVE  \E g : StagesRun(g, U, timeline)
<1>. DEFINE n    == Len(timeline)
            base == <<>>
            Step(t, i) == RelateStage(timeline, t, i)
            T    == UNION {U[i] : i \in 0 .. n}
            step == [i \in 1 .. n |-> [t \in T |-> IF t \in U[i - 1] THEN Step(t, i) ELSE base]]
            Body(f) == [s \in SUBSET (1 .. n) |->
                          IF s = {} THEN base
                          ELSE Step(f[s \ {Max(s)}], UpTo(n)[Max(s)])]
            iter == CHOOSE f : f = Body(f)
            g    == [i \in 0 .. n |-> iter[1 .. i]]
<1>1. RelateStages(timeline) = iter[1 .. n]
  BY DEF RelateStages, FoldLeft, MapThenFoldSet, UpTo
<1>. HIDE DEF n, base, Step
<1>2. /\ n \in Nat /\ base \in U[0]
      /\ \A i, j \in 0 .. n : i <= j => U[i] \subseteq U[j]
      /\ \A i \in 1 .. n : \A t \in U[i - 1] : Step(t, i) \in U[i]
  BY DEF n, base, Step
<1>3. \A i \in 1 .. n : UpTo(n)[i] = i
  BY DEF UpTo
<1>a. \A i \in 0 .. n : base \in U[i] /\ U[i] \subseteq T
  BY <1>2
<1>b. base \in T
  BY <1>2, <1>a
<1>4. \E f : f = Body(f)
  <2>1. \A i \in 1 .. n, t \in T : step[i][t] = IF t \in U[i - 1] THEN Step(t, i) ELSE base
    OBVIOUS
  <2>2. \A i \in 1 .. n, t \in T : step[i][t] \in U[i]
    BY <1>2, <1>a, <2>1
  <2>3. step \in [1 .. n -> [T -> T]]
    <3>1. \A i \in 1 .. n, t \in T : (IF t \in U[i - 1] THEN Step(t, i) ELSE base) \in T
      BY <1>2, <1>a
    <3>. HIDE DEF T
    <3>. QED  BY <3>1
  <2>. HIDE DEF step, T
  <2>4. PICK f : FoldOK(T, base, step, n, f)
    BY <1>2, <1>b, <2>3, FoldExists
  <2>5. ASSUME NEW s \in SUBSET (1 .. n), s # {}
        PROVE  /\ Max(s) \in 1 .. n /\ s \ {Max(s)} \in SUBSET (1 .. n)
               /\ s \ {Max(s)} # {} =>
                    Max(s \ {Max(s)}) \in 1 .. n /\ Max(s \ {Max(s)}) <= Max(s) - 1
    <3>1. Max(s) \in s /\ \A x \in s : Max(s) >= x
      <4>1. s \in SUBSET (0 .. n)
        OBVIOUS
      <4>. QED  BY <1>2, <2>5, <4>1, MaxOfNumbers
    <3>. DEFINE m == Max(s)
                r == s \ {m}
    <3>. HIDE DEF m
    <3>2. r # {} => Max(r) \in r
      <4>0. \A x \in s : x \in 0 .. n
        BY <1>2
      <4>1. r \in SUBSET (0 .. n)
        BY <4>0
      <4>. HIDE DEF r
      <4>. QED  BY <1>2, <4>1, MaxOfNumbers
    <3>3. m \in s /\ \A x \in s : m >= x
      BY <3>1 DEF m
    <3>4. ASSUME NEW x \in r
          PROVE  x \in 1 .. n /\ x <= m - 1
      <4>1. x \in 1 .. n /\ m \in 1 .. n /\ x # m /\ m >= x
        BY <3>3
      <4>. QED  BY <4>1
    <3>5. m \in 1 .. n /\ r \in SUBSET (1 .. n)
      BY <3>3
    <3>6. r # {} => Max(r) \in 1 .. n /\ Max(r) <= m - 1
      BY <3>2, <3>4
    <3>. HIDE DEF r
    <3>7. m \in 1 .. n /\ r \in SUBSET (1 .. n) /\ (r # {} => Max(r) \in 1 .. n /\ Max(r) <= m - 1)
      BY <3>5, <3>6
    <3>. QED  BY <3>7 DEF r, m
  <2>6. ASSUME NEW s \in SUBSET (1 .. n), s # {}
        PROVE  f[s] = step[Max(s)][f[s \ {Max(s)}]] /\ f[s \ {Max(s)}] \in T
    BY <2>4, <2>5, <2>6 DEF FoldOK
  <2>7. ASSUME NEW s \in SUBSET (1 .. n), s # {}
        PROVE  f[s] \in U[Max(s)]
    BY <2>2, <2>5, <2>6, <2>7
  <2>8. ASSUME NEW s \in SUBSET (1 .. n), s # {}
        PROVE  f[s \ {Max(s)}] \in U[Max(s) - 1]
    <3>. DEFINE r == s \ {Max(s)}
                m == Max(s)
    <3>1. m \in 1 .. n /\ r \in SUBSET (1 .. n)
          /\ (r # {} => Max(r) \in 1 .. n /\ Max(r) <= m - 1)
      BY <2>5, <2>8
    <3>. HIDE DEF r, m
    <3>2. CASE r = {}
      <4>1. f[r] = base
        BY <2>4, <3>2 DEF FoldOK
      <4>2. m - 1 \in 0 .. n
        BY <1>2, <3>1
      <4>. QED  BY <1>a, <4>1, <4>2 DEF r, m
    <3>3. CASE r # {}
      <4>1. f[r] \in U[Max(r)]
        BY <2>7, <3>1, <3>3
      <4>2. Max(r) \in 0 .. n /\ m - 1 \in 0 .. n /\ Max(r) <= m - 1
        BY <1>2, <3>1, <3>3
      <4>. QED  BY <1>2, <4>1, <4>2 DEF r, m
    <3>. QED  BY <3>2, <3>3
  <2>9. ASSUME NEW s \in SUBSET (1 .. n)
        PROVE  f[s] = Body(f)[s]
    <3>1. CASE s = {}
      BY <2>4, <3>1 DEF FoldOK
    <3>2. CASE s # {}
      <4>. DEFINE m == Max(s)
                  r == s \ {m}
      <4>1. m \in 1 .. n /\ f[r] \in T /\ f[r] \in U[m - 1] /\ f[s] = step[m][f[r]]
        BY <2>5, <2>6, <2>8, <3>2
      <4>2. Body(f)[s] = Step(f[r], UpTo(n)[m])
        BY <3>2
      <4>. HIDE DEF r, m, Body
      <4>3. UpTo(n)[m] = m /\ f[s] = Step(f[r], m)
        BY <1>3, <2>1, <4>1
      <4>. QED  BY <4>2, <4>3
    <3>. QED  BY <3>1, <3>2
  <2>10. f = Body(f)
    BY <2>4, <2>9 DEF FoldOK
  <2>. QED  BY <2>10
<1>5. iter = Body(iter)
  BY <1>4
<1>. HIDE DEF iter
<1>6. g[0] = base
  <2>1. 1 .. 0 = {} /\ 0 \in 0 .. n
    BY <1>2
  <2>2. Body(iter)[{}] = base
    OBVIOUS
  <2>. QED  BY <1>5, <2>1, <2>2
<1>7. ASSUME NEW i \in 1 .. n
      PROVE  g[i] = Step(g[i - 1], i)
  <2>1. Body(iter)[1 .. i] = Step(iter[1 .. (i - 1)], i)
    BY <1>2, <1>3, Intervals
  <2>2. i - 1 \in 0 .. n /\ i \in 0 .. n
    BY <1>2
  <2>. QED  BY <1>5, <2>1, <2>2
<1>8. g[n] = RelateStages(timeline)
  BY <1>1, <1>2
<1>. HIDE DEF g
<1>9. \A i \in 0 .. n : g[i] \in U[i]
  <2>. DEFINE S == {i \in 0 .. n : g[i] \in U[i]}
  <2>1. 0 \in S
    BY <1>2, <1>6
  <2>2. ASSUME NEW i \in 1 .. n, i - 1 \in S
        PROVE  i \in S
    BY <1>2, <1>7, <2>2
  <2>. HIDE DEF S
  <2>3. 0 .. n \subseteq S
    BY <1>2, <2>1, <2>2, InductionUpTo
  <2>. QED  BY <2>3 DEF S
<1>10. StagesRun(g, U, timeline)
  BY <1>6, <1>7, <1>8, <1>9 DEF n, base, Step, StagesRun
<1>. QED  BY <1>10

\* The bridges between them.
BridgesRun(g, T, timeline) ==
  /\ g \in [0 .. Len(timeline) -> T] /\ g[0] = RelateStages(timeline) /\ g[Len(timeline)] = Relations(timeline)
  /\ \A i \in 1 .. Len(timeline) : g[i] = Bridge(timeline, g[i - 1], i)

\* There is a run of those steps through any set that they do not leave.
LEMMA BridgesSteps ==
  ASSUME NEW timeline,
         NEW T, RelateStages(timeline) \in T, Len(timeline) \in Nat,
         \A t \in T, i \in 1 .. Len(timeline) : Bridge(timeline, t, i) \in T
  PROVE  \E g : BridgesRun(g, T, timeline)
<1>. DEFINE n    == Len(timeline)
            base == RelateStages(timeline)
            Step(t, i) == Bridge(timeline, t, i)
            step == [i \in 1 .. n |-> [t \in T |-> Step(t, i)]]
            Body(f) == [s \in SUBSET (1 .. n) |->
                          IF s = {} THEN base
                          ELSE Step(f[s \ {Max(s)}], UpTo(n)[Max(s)])]
            iter == CHOOSE f : f = Body(f)
            g    == [i \in 0 .. n |-> iter[1 .. i]]
<1>1. Relations(timeline) = iter[1 .. n]
  BY DEF Relations, FoldLeft, MapThenFoldSet, UpTo
<1>. HIDE DEF n, base, Step
<1>2. n \in Nat /\ base \in T /\ \A t \in T, i \in 1 .. n : Step(t, i) \in T
  BY DEF n, base, Step
<1>3. \A i \in 1 .. n : UpTo(n)[i] = i
  BY DEF UpTo
<1>4. \E f : f = Body(f)
  <2>1. step \in [1 .. n -> [T -> T]]
    BY <1>2
  <2>2. \A i \in 1 .. n, t \in T : step[i][t] = Step(t, i)
    OBVIOUS
  <2>. HIDE DEF step
  <2>3. PICK f : FoldOK(T, base, step, n, f)
    BY <1>2, <2>1, FoldExists
  <2>4. ASSUME NEW s \in SUBSET (1 .. n), s # {}
        PROVE  Max(s) \in 1 .. n /\ s \ {Max(s)} \in SUBSET (1 .. n)
    BY <1>2, <2>4, MaxIsMember
  <2>5. ASSUME NEW s \in SUBSET (1 .. n)
        PROVE  f[s] = Body(f)[s]
    <3>1. CASE s = {}
      BY <2>3, <3>1 DEF FoldOK
    <3>2. CASE s # {}
      <4>1. f[s \ {Max(s)}] \in T /\ f[s] = step[Max(s)][f[s \ {Max(s)}]]
        BY <2>3, <2>4, <3>2 DEF FoldOK
      <4>. QED  BY <1>3, <2>2, <2>4, <3>2, <4>1
    <3>. QED  BY <3>1, <3>2
  <2>6. f = Body(f)
    BY <2>3, <2>5 DEF FoldOK
  <2>. QED  BY <2>6
<1>5. iter = Body(iter)
  BY <1>4
<1>. HIDE DEF iter
<1>6. g[0] = base
  <2>1. 1 .. 0 = {} /\ 0 \in 0 .. n
    BY <1>2
  <2>2. Body(iter)[{}] = base
    OBVIOUS
  <2>. QED  BY <1>5, <2>1, <2>2
<1>7. ASSUME NEW i \in 1 .. n
      PROVE  g[i] = Step(g[i - 1], i)
  <2>1. Body(iter)[1 .. i] = Step(iter[1 .. (i - 1)], i)
    BY <1>2, <1>3, Intervals
  <2>2. i - 1 \in 0 .. n /\ i \in 0 .. n
    BY <1>2
  <2>. QED  BY <1>5, <2>1, <2>2
<1>. HIDE DEF g
<1>8. \A i \in 0 .. n : g[i] \in T
  <2>. DEFINE S == {i \in 0 .. n : g[i] \in T}
  <2>1. 0 \in S
    BY <1>2, <1>6
  <2>2. ASSUME NEW i \in 1 .. n, i - 1 \in S
        PROVE  i \in S
    BY <1>2, <1>7, <2>2
  <2>. HIDE DEF S
  <2>3. 0 .. n \subseteq S
    BY <1>2, <2>1, <2>2, InductionUpTo
  <2>. QED  BY <2>3 DEF S
<1>9. g \in [0 .. n -> T] /\ g[n] = Relations(timeline)
  BY <1>1, <1>2, <1>8 DEF g
<1>10. BridgesRun(g, T, timeline)
  BY <1>6, <1>7, <1>9 DEF n, base, Step, BridgesRun
<1>. QED  BY <1>10

\* The relations by which chains are joined.
ChainsRun(g, T, occurrences, relations) ==
  /\ g \in [0 .. Len(relations) -> T] /\ g[0] = {{o} : o \in occurrences} /\ g[Len(relations)] = Chains(occurrences, relations)
  /\ \A k \in 1 .. Len(relations) : g[k] = Union(g[k - 1], relations[k])

\* There is a run of those steps through any set that they do not leave.
LEMMA ChainsSteps ==
  ASSUME NEW occurrences, NEW relations,
         NEW T, {{o} : o \in occurrences} \in T, Len(relations) \in Nat,
         \A t \in T, k \in 1 .. Len(relations) : Union(t, relations[k]) \in T
  PROVE  \E g : ChainsRun(g, T, occurrences, relations)
<1>. DEFINE n    == Len(relations)
            base == {{o} : o \in occurrences}
            Step(t, k) == Union(t, relations[k])
            step == [k \in 1 .. n |-> [t \in T |-> Step(t, k)]]
            Body(f) == [s \in SUBSET (1 .. n) |->
                          IF s = {} THEN base
                          ELSE Step(f[s \ {Max(s)}], UpTo(n)[Max(s)])]
            iter == CHOOSE f : f = Body(f)
            g    == [k \in 0 .. n |-> iter[1 .. k]]
<1>1. Chains(occurrences, relations) = iter[1 .. n]
  BY DEF Chains, FoldLeft, MapThenFoldSet, UpTo
<1>. HIDE DEF n, base, Step
<1>2. n \in Nat /\ base \in T /\ \A t \in T, k \in 1 .. n : Step(t, k) \in T
  BY DEF n, base, Step
<1>3. \A k \in 1 .. n : UpTo(n)[k] = k
  BY DEF UpTo
<1>4. \E f : f = Body(f)
  <2>1. step \in [1 .. n -> [T -> T]]
    BY <1>2
  <2>2. \A k \in 1 .. n, t \in T : step[k][t] = Step(t, k)
    OBVIOUS
  <2>. HIDE DEF step
  <2>3. PICK f : FoldOK(T, base, step, n, f)
    BY <1>2, <2>1, FoldExists
  <2>4. ASSUME NEW s \in SUBSET (1 .. n), s # {}
        PROVE  Max(s) \in 1 .. n /\ s \ {Max(s)} \in SUBSET (1 .. n)
    BY <1>2, <2>4, MaxIsMember
  <2>5. ASSUME NEW s \in SUBSET (1 .. n)
        PROVE  f[s] = Body(f)[s]
    <3>1. CASE s = {}
      BY <2>3, <3>1 DEF FoldOK
    <3>2. CASE s # {}
      <4>1. f[s \ {Max(s)}] \in T /\ f[s] = step[Max(s)][f[s \ {Max(s)}]]
        BY <2>3, <2>4, <3>2 DEF FoldOK
      <4>. QED  BY <1>3, <2>2, <2>4, <3>2, <4>1
    <3>. QED  BY <3>1, <3>2
  <2>6. f = Body(f)
    BY <2>3, <2>5 DEF FoldOK
  <2>. QED  BY <2>6
<1>5. iter = Body(iter)
  BY <1>4
<1>. HIDE DEF iter
<1>6. g[0] = base
  <2>1. 1 .. 0 = {} /\ 0 \in 0 .. n
    BY <1>2
  <2>2. Body(iter)[{}] = base
    OBVIOUS
  <2>. QED  BY <1>5, <2>1, <2>2
<1>7. ASSUME NEW k \in 1 .. n
      PROVE  g[k] = Step(g[k - 1], k)
  <2>1. Body(iter)[1 .. k] = Step(iter[1 .. (k - 1)], k)
    BY <1>2, <1>3, Intervals
  <2>2. k - 1 \in 0 .. n /\ k \in 0 .. n
    BY <1>2
  <2>. QED  BY <1>5, <2>1, <2>2
<1>. HIDE DEF g
<1>8. \A k \in 0 .. n : g[k] \in T
  <2>. DEFINE S == {k \in 0 .. n : g[k] \in T}
  <2>1. 0 \in S
    BY <1>2, <1>6
  <2>2. ASSUME NEW k \in 1 .. n, k - 1 \in S
        PROVE  k \in S
    BY <1>2, <1>7, <2>2
  <2>. HIDE DEF S
  <2>3. 0 .. n \subseteq S
    BY <1>2, <2>1, <2>2, InductionUpTo
  <2>. QED  BY <2>3 DEF S
<1>9. g \in [0 .. n -> T] /\ g[n] = Chains(occurrences, relations)
  BY <1>1, <1>2, <1>8 DEF g
<1>10. ChainsRun(g, T, occurrences, relations)
  BY <1>6, <1>7, <1>9 DEF n, base, Step, ChainsRun
<1>. QED  BY <1>10

-----------------------------------------------------------------------------
(* Chains: what the unions of joined occurrences leave is a partition. *)

Partitions(occurrences) ==
  {chains \in SUBSET SUBSET occurrences :
     /\ \A o \in occurrences : \E chain \in chains : o \in chain
     /\ \A c, d \in chains : c \intersect d # {} => c = d}

\* Each occurrence is in one chain.
LEMMA ChainIs ==
  ASSUME NEW occurrences, NEW chains \in Partitions(occurrences), NEW o \in occurrences
  PROVE  /\ ChainOf(chains, o) \in chains /\ o \in ChainOf(chains, o)
         /\ \A chain \in chains : o \in chain => chain = ChainOf(chains, o)
<1>1. \E chain \in chains : o \in chain
  BY DEF Partitions
<1>2. ChainOf(chains, o) \in chains /\ o \in ChainOf(chains, o)
  BY <1>1 DEF ChainOf
<1>3. ASSUME NEW chain \in chains, o \in chain
      PROVE  chain = ChainOf(chains, o)
  <2>. DEFINE other == ChainOf(chains, o)
  <2>1. other \in chains /\ chain \intersect other # {}
    BY <1>2, <1>3
  <2>. HIDE DEF other
  <2>2. chain = other
    BY <2>1 DEF Partitions
  <2>. QED  BY <2>2 DEF other
<1>. QED  BY <1>2, <1>3

\* A union leaves a partition: it joins two chains, keeps those it does not touch, and
\* takes no two occurrences apart.
LEMMA UnionKeeps ==
  ASSUME NEW occurrences, NEW chains \in Partitions(occurrences),
         NEW r, Joins(r) => r.from \in occurrences /\ r.to \in occurrences
  PROVE  /\ Union(chains, r) \in Partitions(occurrences)
         /\ Joins(r) => \E chain \in Union(chains, r) : r.from \in chain /\ r.to \in chain
         /\ \A c \in chains : \E d \in Union(chains, r) : c \subseteq d
         /\ \A c \in chains : (Joins(r) => r.from \notin c /\ r.to \notin c) => c \in Union(chains, r)
<1>1. CASE ~Joins(r)
  BY <1>1 DEF Union
<1>2. CASE Joins(r)
  <2>. DEFINE left  == ChainOf(chains, r.from)
              right == ChainOf(chains, r.to)
              new   == (chains \ {left, right}) \union {left \union right}
  <2>1. Union(chains, r) = new
    BY <1>2 DEF Union
  <2>2. left \in chains /\ right \in chains /\ r.from \in left /\ r.to \in right
    BY <1>2, ChainIs
  <2>. HIDE DEF left, right
  <2>3. new \in SUBSET SUBSET occurrences
    BY <2>2 DEF Partitions
  <2>4. \A o \in occurrences : \E chain \in new : o \in chain
    <3>1. SUFFICES ASSUME NEW o \in occurrences PROVE \E chain \in new : o \in chain
      OBVIOUS
    <3>2. PICK chain \in chains : o \in chain
      BY DEF Partitions
    <3>. QED  BY <3>2
  <2>5. ASSUME NEW c \in new, NEW d \in new, c \intersect d # {}
        PROVE  c = d
    <3>1. \A x, y \in chains : x \intersect y # {} => x = y
      BY DEF Partitions
    <3>2. ASSUME NEW x \in chains \ {left, right}
          PROVE  x \intersect (left \union right) = {}
      BY <2>2, <3>1
    <3>3. CASE c = left \union right
      BY <2>5, <3>2, <3>3
    <3>4. CASE d = left \union right
      BY <2>5, <3>2, <3>4
    <3>5. CASE c \in chains /\ d \in chains
      BY <2>5, <3>1, <3>5
    <3>. QED  BY <3>3, <3>4, <3>5
  <2>6. new \in Partitions(occurrences)
    BY <2>3, <2>4, <2>5 DEF Partitions
  <2>7. \E chain \in new : r.from \in chain /\ r.to \in chain
    BY <2>2
  <2>8. \A c \in chains : \E d \in new : c \subseteq d
    OBVIOUS
  <2>9. \A c \in chains : (r.from \notin c /\ r.to \notin c) => c \in new
    BY <2>2
  <2>. HIDE DEF new
  <2>. QED  BY <1>2, <2>1, <2>6, <2>7, <2>8, <2>9
<1>. QED  BY <1>1, <1>2

\* After some relations: joined ends are in one chain, other occurrences in their own.
Chained(occurrences, relations, chains, k) ==
  /\ \A l \in 1 .. k : Joins(relations[l]) =>
       \E chain \in chains : relations[l].from \in chain /\ relations[l].to \in chain
  /\ \A o \in occurrences :
       (\A l \in 1 .. k : Joins(relations[l]) => o # relations[l].from /\ o # relations[l].to)
         => {o} \in chains

\* The chains are sets of occurrences of which every one is in just one.
LEMMA ChainsAre ==
  ASSUME NEW occurrences, NEW relations, Len(relations) \in Nat,
         \A k \in 1 .. Len(relations) :
           Joins(relations[k]) => relations[k].from \in occurrences /\ relations[k].to \in occurrences
  PROVE  /\ Chains(occurrences, relations) \in Partitions(occurrences)
         /\ Chained(occurrences, relations, Chains(occurrences, relations), Len(relations))
<1>. DEFINE T == Partitions(occurrences)
            n == Len(relations)
<1>1. {{o} : o \in occurrences} \in T
  BY DEF Partitions
<1>2. \A t \in T, k \in 1 .. n : Union(t, relations[k]) \in T
  BY UnionKeeps
<1>3. PICK g : ChainsRun(g, T, occurrences, relations)
  <2>. HIDE DEF T
  <2>. QED  BY <1>1, <1>2, ChainsSteps
<1>. DEFINE S == {k \in 0 .. n : Chained(occurrences, relations, g[k], k)}
<1>4. 0 \in S
  BY <1>3 DEF ChainsRun, Chained
<1>5. ASSUME NEW k \in 1 .. n, k - 1 \in S
      PROVE  k \in S
  <2>1. /\ k - 1 \in 0 .. n /\ k \in 0 .. n
        /\ \A l \in 1 .. k : l = k \/ l \in 1 .. (k - 1)
        /\ \A l \in 1 .. (k - 1) : l \in 1 .. k
    OBVIOUS
  <2>2. g[k - 1] \in T /\ g[k] = Union(g[k - 1], relations[k])
    <3>. HIDE DEF T
    <3>. QED  BY <1>3, <2>1 DEF ChainsRun
  <2>. DEFINE old == g[k - 1]
              new == g[k]
  <2>. HIDE DEF old, new
  <2>3. /\ Joins(relations[k]) =>
             \E chain \in new : relations[k].from \in chain /\ relations[k].to \in chain
        /\ \A c \in old : \E d \in new : c \subseteq d
        /\ \A c \in old : (Joins(relations[k]) => relations[k].from \notin c /\ relations[k].to \notin c)
                             => c \in new
    BY <2>2, UnionKeeps DEF old, new
  <2>4. Chained(occurrences, relations, old, k - 1)
    BY <1>5 DEF old
  <2>5. ASSUME NEW l \in 1 .. k, Joins(relations[l])
        PROVE  \E chain \in new : relations[l].from \in chain /\ relations[l].to \in chain
    <3>1. CASE l = k
      BY <2>3, <2>5, <3>1
    <3>2. CASE l \in 1 .. (k - 1)
      <4>1. PICK c \in old : relations[l].from \in c /\ relations[l].to \in c
        BY <2>4, <2>5, <3>2 DEF Chained
      <4>2. PICK d \in new : c \subseteq d
        BY <2>3
      <4>. QED  BY <4>1, <4>2
    <3>. QED  BY <2>1, <3>1, <3>2
  <2>6. ASSUME NEW o \in occurrences,
               \A l \in 1 .. k : Joins(relations[l]) => o # relations[l].from /\ o # relations[l].to
        PROVE  {o} \in new
    <3>1. {o} \in old
      BY <2>1, <2>4, <2>6 DEF Chained
    <3>2. Joins(relations[k]) => relations[k].from \notin {o} /\ relations[k].to \notin {o}
      BY <2>6
    <3>. QED  BY <2>3, <3>1, <3>2
  <2>7. Chained(occurrences, relations, new, k)
    BY <2>5, <2>6 DEF Chained
  <2>. QED  BY <2>7 DEF new
<1>. HIDE DEF S
<1>6. 0 .. n \subseteq S
  BY <1>4, <1>5, InductionUpTo
<1>7. n \in S /\ n \in 0 .. n
  BY <1>6
<1>8. g[n] \in T /\ g[n] = Chains(occurrences, relations)
  <2>. HIDE DEF T
  <2>. QED  BY <1>3, <1>7 DEF ChainsRun
<1>. QED  BY <1>7, <1>8 DEF S

\* What is resolved follows the links between the occurrences.
LEMMA ResolvedFollows ==
  ASSUME NEW occurrences, NEW relations, Len(relations) \in Nat,
         DOMAIN relations = 1 .. Len(relations),
         \A k \in 1 .. Len(relations) :
           Joins(relations[k]) => relations[k].from \in occurrences /\ relations[k].to \in occurrences
  PROVE  FollowLinks(Resolved(occurrences, relations))
<1>. DEFINE chains == Chains(occurrences, relations)
            uids   == [o \in occurrences |-> Anchor(ChainOf(chains, o))]
            links  == {r \in Range(relations) : Joins(r)}
<1>1. chains \in Partitions(occurrences) /\ Chained(occurrences, relations, chains, Len(relations))
  BY ChainsAre
<1>2. Resolved(occurrences, relations) = [relations |-> relations, uids |-> uids]
  BY DEF Resolved
<1>. HIDE DEF chains
<1>3. ASSUME NEW r \in links
      PROVE  uids[r.from] = uids[r.to]
  <2>1. PICK k \in 1 .. Len(relations) : r = relations[k]
    BY DEF Range
  <2>2. r.from \in occurrences /\ r.to \in occurrences
    BY <2>1
  <2>3. PICK chain \in chains : r.from \in chain /\ r.to \in chain
    BY <1>1, <2>1 DEF Chained
  <2>4. chain = ChainOf(chains, r.from) /\ chain = ChainOf(chains, r.to)
    BY <1>1, <2>2, <2>3, ChainIs
  <2>. QED  BY <2>2, <2>4
<1>4. ASSUME NEW o \in occurrences,
             o \notin {r.from : r \in links} \union {r.to : r \in links}
      PROVE  uids[o] = o
  <2>1. ASSUME NEW l \in 1 .. Len(relations), Joins(relations[l])
        PROVE  o # relations[l].from /\ o # relations[l].to
    <3>1. relations[l] \in links
      BY <2>1 DEF Range
    <3>. QED  BY <1>4, <3>1
  <2>2. {o} \in chains
    BY <1>1, <2>1 DEF Chained
  <2>3. ChainOf(chains, o) = {o}
    BY <1>1, <2>2, ChainIs
  <2>4. Anchor({o}) = o
    BY DEF Anchor
  <2>. QED  BY <2>3, <2>4
<1>5. Follow(links, uids)
  <2>1. DOMAIN uids = occurrences
    OBVIOUS
  <2>. HIDE DEF uids, links
  <2>. QED  BY <1>3, <1>4, <2>1 DEF Follow
<1>. HIDE DEF uids
<1>. QED  BY <1>2, <1>5 DEF FollowLinks

-----------------------------------------------------------------------------
(* Relations, and what pushing one does. *)

Occ == [snapshot : Nat, ordinal : Nat]
ChangeKinds == {"replaced", "erased", "modified", "inserted", "unchanged"}
Rel == [stage : Nat, from : Occ, to : Occ, change : ChangeKinds, evidence : Seq(Nat),
        exact : BOOLEAN, step : BOOLEAN]

\* A relation without the events it rests on.
Core(r) == Relation(r.stage, r.from, r.to, r.change, <<>>, r.exact, r.step)

\* The relations whose cores are in a set; those that no event is evidence for have none.
RelationsIn(S) ==
  {relations \in Seq(Rel) : \A k \in 1 .. Len(relations) :
     /\ Core(relations[k]) \in S
     /\ ~relations[k].exact => relations[k].evidence = <<>>}

\* An occurrence that is there is not NoOccurrence.
LEMMA OccurrenceTyped ==
  /\ NoOccurrence \in Occ
  /\ \A n, k \in Nat : Occurrence(n, k) \in Occ
  /\ \A n, k \in Nat : n # 0 => Occurrence(n, k) # NoOccurrence
  /\ \A n, k : Occurrence(n, k).snapshot = n /\ Occurrence(n, k).ordinal = k
BY DEF Occ, Occurrence, NoOccurrence

\* A relation has the fields it is made of.
LEMMA RelationTyped ==
  ASSUME NEW i \in Nat, NEW from \in Occ, NEW to \in Occ, NEW change \in ChangeKinds,
         NEW evidence \in Seq(Nat), NEW exact \in BOOLEAN, NEW step \in BOOLEAN
  PROVE  LET r == Relation(i, from, to, change, evidence, exact, step) IN
         /\ r \in Rel
         /\ r.stage = i /\ r.from = from /\ r.to = to /\ r.change = change
         /\ r.evidence = evidence /\ r.exact = exact /\ r.step = step
         /\ Core(r) = Relation(i, from, to, change, <<>>, exact, step)
BY DEF Relation, Rel, Core

\* A relation is appended, or adds its evidence to the same step.
LEMMA PushIs ==
  ASSUME NEW relations \in Seq(Rel), NEW r \in Rel
  PROVE  \/ /\ PushRelation(relations, r) = Append(relations, r)
            /\ \A k \in 1 .. Len(relations) : ~SameStep(r, relations[k])
         \/ \E k \in 1 .. Len(relations) :
              /\ SameStep(r, relations[k])
              /\ PushRelation(relations, r) =
                   [relations EXCEPT ![k].evidence = @ \o r.evidence]
<1>. DEFINE I    == {k \in 1 .. Len(relations) : SameStep(r, relations[k])}
            same == SelectInSeq(relations, LAMBDA s : SameStep(r, s))
<1>1. same = IF I # {} THEN Min(I) ELSE 0
  BY DEF SelectInSeq
<1>2. PushRelation(relations, r) =
        IF same = 0 THEN Append(relations, r)
        ELSE [relations EXCEPT ![same].evidence = @ \o r.evidence]
  BY DEF PushRelation
<1>. HIDE DEF same
<1>3. CASE I = {}
  BY <1>1, <1>2, <1>3
<1>4. CASE I # {}
  <2>1. I \in SUBSET Nat
    OBVIOUS
  <2>2. Min(I) \in I
    BY <1>4, <2>1, MinIsMember
  <2>3. same \in I /\ same # 0
    BY <1>1, <1>4, <2>2
  <2>. QED  BY <1>2, <2>3
<1>. QED  BY <1>3, <1>4

\* Relations without new cores but that of what is pushed. Evidence is only added to
\* what rests on events.
LEMMA PushKeeps ==
  ASSUME NEW S, NEW relations \in RelationsIn(S), NEW r \in Rel,
         ~r.exact => r.evidence = <<>>,
         \/ r.evidence = <<>>
         \/ \A c \in S : (c.step /\ c.stage = r.stage) => c.exact
  PROVE  PushRelation(relations, r) \in RelationsIn(S \union {Core(r)})
<1>. DEFINE new == PushRelation(relations, r)
<1>0. relations \in Seq(Rel) /\ Len(relations) \in Nat
      /\ \A k \in 1 .. Len(relations) :
           /\ relations[k] \in Rel
           /\ Core(relations[k]) \in S
           /\ ~relations[k].exact => relations[k].evidence = <<>>
  BY DEF RelationsIn
<1>1. CASE new = Append(relations, r)
  <2>1. /\ new \in Seq(Rel) /\ Len(new) = Len(relations) + 1 /\ new[Len(relations) + 1] = r
        /\ \A k \in 1 .. Len(relations) : new[k] = relations[k]
    BY <1>0, <1>1, AppendProperties
  <2>2. \A k \in 1 .. Len(new) : k = Len(relations) + 1 \/ k \in 1 .. Len(relations)
    BY <1>0, <2>1
  <2>. HIDE DEF new
  <2>3. ASSUME NEW k \in 1 .. Len(new)
        PROVE  /\ Core(new[k]) \in S \union {Core(r)}
               /\ ~new[k].exact => new[k].evidence = <<>>
    BY <1>0, <2>1, <2>2
  <2>. QED  BY <2>1, <2>3 DEF RelationsIn, new
<1>2. ASSUME NEW k \in 1 .. Len(relations), SameStep(r, relations[k]),
             new = [relations EXCEPT ![k].evidence = @ \o r.evidence]
      PROVE  new \in RelationsIn(S \union {Core(r)})
  <2>. DEFINE one == [relations[k] EXCEPT !.evidence = @ \o r.evidence]
              old == relations[k]
  <2>1. new = [relations EXCEPT ![k] = one]
    BY <1>2
  <2>2. old \in Rel /\ r.evidence \in Seq(Nat) /\ old.evidence \in Seq(Nat)
    BY <1>0 DEF Rel
  <2>3. old.evidence \o r.evidence \in Seq(Nat)
    BY <2>2
  <2>4. /\ one \in Rel /\ one.evidence = old.evidence \o r.evidence
        /\ one.stage = old.stage /\ one.from = old.from /\ one.to = old.to
        /\ one.change = old.change /\ one.exact = old.exact /\ one.step = old.step
    BY <2>2, <2>3 DEF Rel
  <2>5. Core(one) = Core(old)
    BY <2>4 DEF Core
  <2>6. ~one.exact => one.evidence = <<>>
    <3>1. SUFFICES ASSUME ~old.exact PROVE one.evidence = <<>>
      BY <2>4
    <3>2. old.evidence = <<>> /\ Core(old) \in S
      BY <1>0, <3>1
    <3>3. r.evidence = <<>>
      <4>1. Core(old).step = old.step /\ Core(old).stage = old.stage /\ Core(old).exact = old.exact
        BY DEF Core, Relation
      <4>2. old.step /\ old.stage = r.stage
        BY <1>2 DEF SameStep
      <4>. QED  BY <3>1, <3>2, <4>1, <4>2
    <3>. QED  BY <2>4, <3>2, <3>3
  <2>. HIDE DEF one
  <2>7. new \in Seq(Rel) /\ Len(new) = Len(relations)
        /\ \A l \in 1 .. Len(relations) : new[l] = IF l = k THEN one ELSE relations[l]
    BY <1>0, <2>1, <2>4, ExceptSeq
  <2>8. ASSUME NEW l \in 1 .. Len(new)
        PROVE  /\ Core(new[l]) \in S \union {Core(r)}
               /\ ~new[l].exact => new[l].evidence = <<>>
    <3>1. CASE l = k
      <4>1. new[l] = one /\ Core(old) \in S
        BY <1>0, <2>7, <3>1
      <4>. QED  BY <2>5, <2>6, <4>1
    <3>2. CASE l # k
      <4>1. new[l] = relations[l] /\ l \in 1 .. Len(relations)
        BY <2>7, <3>2
      <4>. QED  BY <1>0, <4>1
    <3>. QED  BY <3>1, <3>2
  <2>. HIDE DEF new
  <2>. QED  BY <2>7, <2>8 DEF RelationsIn
<1>. QED  BY <1>0, <1>1, <1>2, PushIs

\* More cores are allowed.
LEMMA RelationsMonotone ==
  ASSUME NEW S, NEW R, S \subseteq R
  PROVE  RelationsIn(S) \subseteq RelationsIn(R)
BY DEF RelationsIn

-----------------------------------------------------------------------------
(* What has a step keeps it, and no step is there twice. *)

Has(relations, o, p) ==
  \E k \in 1 .. Len(relations) :
    relations[k].step /\ relations[k].from = o /\ relations[k].to = p

Unsame(relations) ==
  \A k, l \in 1 .. Len(relations) : SameStep(relations[k], relations[l]) => k = l

More(r, q) ==
  /\ \A o, p : Has(r, o, p) => Has(q, o, p)
  /\ Unsame(r) => Unsame(q)

\* More and more relations are more than the first ones.
LEMMA MoreIsTransitive ==
  /\ \A r : More(r, r)
  /\ \A r, q, t : (More(r, q) /\ More(q, t)) => More(r, t)
BY DEF More

-----------------------------------------------------------------------------
(* Timelines, their occurrences, and what addresses stand for. *)

EventKinds == {"replaced", "modified", "erased", "inserted"}

\* A snapshot numbers the operations that it has indexed, each under one address.
IsSnapshot(s) ==
  /\ Len(s.ops) \in Nat /\ DOMAIN s.ops = 1 .. Len(s.ops)
  /\ IsFiniteSet(DOMAIN s.tokens)
  /\ \A a \in DOMAIN s.tokens : s.tokens[a] \in 1 .. Len(s.ops)
  /\ \A a, b \in DOMAIN s.tokens : s.tokens[a] = s.tokens[b] => a = b

IsStage(st) ==
  /\ st.before # Missing => IsSnapshot(st.before)
  /\ st.after # Missing => IsSnapshot(st.after)
  /\ Len(st.events) \in Nat
  /\ \A k \in 1 .. Len(st.events) : st.events[k].kind \in EventKinds

IsTimeline(tl) == Len(tl) \in Nat /\ \A i \in 1 .. Len(tl) : IsStage(tl[i])

\* The snapshots of a stage are numbered in the order of the timeline.
LEMMA SidesAre ==
  ASSUME NEW tl, IsTimeline(tl), NEW i \in 1 .. Len(tl)
  PROVE  /\ Before(i) \in 1 .. 2 * Len(tl) /\ SnapshotAt(tl, Before(i)) = tl[i].before
         /\ After(i) \in 1 .. 2 * Len(tl) /\ SnapshotAt(tl, After(i)) = tl[i].after
<1>. DEFINE n == Len(tl)
<1>1. n \in Nat /\ i \in 1 .. n
  BY DEF IsTimeline
<1>. HIDE DEF n
<1>2. 2 * i - 1 \in 1 .. 2 * n /\ 2 * i \in 1 .. 2 * n /\ i \in Nat
  BY <1>1
<1>3. (2 * i - 1) % 2 = 1 /\ ((2 * i - 1) + 1) \div 2 = i
  BY <1>1
<1>4. (2 * i) % 2 = 0 /\ (2 * i) \div 2 = i
  BY <1>1
<1>5. SnapshotAt(tl, Before(i)) = tl[i].before
  BY <1>3 DEF SnapshotAt, Before
<1>6. SnapshotAt(tl, After(i)) = tl[i].after
  BY <1>4 DEF SnapshotAt, After
<1>. QED  BY <1>2, <1>5, <1>6 DEF Before, After, n

\* The occurrences of a snapshot that is not missing.
OccurrencesAt(tl, n) == {o \in Occ : /\ n \in 1 .. 2 * Len(tl) /\ SnapshotAt(tl, n) # Missing
                                     /\ o.snapshot = n /\ o.ordinal \in DOMAIN SnapshotAt(tl, n).ops}

\* The occurrences of a snapshot are occurrences of the timeline.
LEMMA OccurrencesAre ==
  ASSUME NEW tl, IsTimeline(tl), NEW n \in 1 .. 2 * Len(tl)
  PROVE  /\ OccurrencesAt(tl, n) \subseteq Occurrences(tl)
         /\ NoOccurrence \notin OccurrencesAt(tl, n)
<1>1. ASSUME NEW o \in OccurrencesAt(tl, n)
      PROVE  o \in Occurrences(tl)
  <2>1. /\ o \in Occ /\ SnapshotAt(tl, n) # Missing
        /\ o.snapshot = n /\ o.ordinal \in DOMAIN SnapshotAt(tl, n).ops
    BY <1>1 DEF OccurrencesAt
  <2>2. o = Occurrence(n, o.ordinal)
    BY <2>1 DEF Occurrence, Occ
  <2>3. o \in {Occurrence(n, k) : k \in DOMAIN SnapshotAt(tl, n).ops}
    BY <2>1, <2>2
  <2>4. o \in (IF SnapshotAt(tl, n) = Missing THEN {}
               ELSE {Occurrence(n, k) : k \in DOMAIN SnapshotAt(tl, n).ops})
    BY <2>1, <2>3
  <2>. QED  BY <2>4 DEF Occurrences
<1>2. \A o \in OccurrencesAt(tl, n) : o.snapshot = n /\ n # 0
  BY DEF OccurrencesAt, IsTimeline
<1>3. NoOccurrence.snapshot = 0
  BY OccurrenceTyped DEF NoOccurrence
<1>. QED  BY <1>1, <1>2, <1>3

\* The node of an address, if there is one, and no other address has it.
LEMMA NodesAre ==
  ASSUME NEW tl, IsTimeline(tl), NEW n \in 1 .. 2 * Len(tl), NEW s, SnapshotAt(tl, n) = s,
         s # Missing => IsSnapshot(s), NEW a
  PROVE  LET o == NodeForToken(tl, n, a) IN
         /\ o \in Occ
         /\ o # NoOccurrence <=> s # Missing /\ a \in DOMAIN s.tokens
         /\ o # NoOccurrence => o = Occurrence(n, s.tokens[a]) /\ o \in OccurrencesAt(tl, n)
         /\ \A b : (o # NoOccurrence /\ NodeForToken(tl, n, b) = o) => a = b
<1>1. n \in Nat /\ n # 0
  BY DEF IsTimeline
<1>2. NodeForToken(tl, n, a) =
        IF s # Missing /\ a \in DOMAIN s.tokens THEN Occurrence(n, s.tokens[a]) ELSE NoOccurrence
  BY DEF NodeForToken
<1>3. ASSUME NEW b, s # Missing, b \in DOMAIN s.tokens
      PROVE  /\ s.tokens[b] \in Nat /\ s.tokens[b] \in DOMAIN s.ops
             /\ Occurrence(n, s.tokens[b]) # NoOccurrence
             /\ Occurrence(n, s.tokens[b]) \in Occ
             /\ Occurrence(n, s.tokens[b]) \in OccurrencesAt(tl, n)
  <2>1. s.tokens[b] \in Nat /\ s.tokens[b] \in DOMAIN s.ops
    BY <1>3 DEF IsSnapshot
  <2>2. Occurrence(n, s.tokens[b]) # NoOccurrence /\ Occurrence(n, s.tokens[b]) \in Occ
        /\ Occurrence(n, s.tokens[b]).snapshot = n
        /\ Occurrence(n, s.tokens[b]).ordinal = s.tokens[b]
    BY <1>1, <2>1, OccurrenceTyped
  <2>. QED  BY <1>3, <2>1, <2>2 DEF OccurrencesAt
<1>4. ASSUME NEW b, s # Missing, a \in DOMAIN s.tokens, NodeForToken(tl, n, b) = Occurrence(n, s.tokens[a])
      PROVE  a = b
  <2>1. NodeForToken(tl, n, b) =
          IF s # Missing /\ b \in DOMAIN s.tokens THEN Occurrence(n, s.tokens[b]) ELSE NoOccurrence
    BY DEF NodeForToken
  <2>2. b \in DOMAIN s.tokens /\ Occurrence(n, s.tokens[b]) = Occurrence(n, s.tokens[a])
    BY <1>3, <1>4, <2>1
  <2>3. s.tokens[b] = s.tokens[a]
    BY <2>2, OccurrenceTyped
  <2>. QED  BY <1>4, <2>2, <2>3 DEF IsSnapshot
<1>. QED  BY <1>2, <1>3, <1>4, OccurrenceTyped

-----------------------------------------------------------------------------
(* The events of a stage: what each of them may relate. *)

StageStates == [relations : Seq(Rel), used : SUBSET Occ, replaced : SUBSET Occ,
           inserted : SUBSET Occ]

FromOf(tl, i, k) == NodeForToken(tl, Before(i), tl[i].events[k].address)
ToOf(tl, i, k)   == NodeForToken(tl, After(i), tl[i].events[k].address)
NewOf(tl, i, k)  == NodeForToken(tl, After(i), tl[i].events[k].new)

\* The k-th event may relate the ends of c.
EventCore(tl, i, k, c) ==
  LET kind == tl[i].events[k].kind IN
  /\ c.stage = i /\ c.step /\ c.exact
  /\ \/ /\ kind = "replaced" /\ c.from = FromOf(tl, i, k) /\ c.to = NewOf(tl, i, k)
        /\ c.from # NoOccurrence
        /\ \A l \in 1 .. (k - 1) : tl[i].events[l].kind = "replaced" => FromOf(tl, i, l) # c.from
     \/ /\ kind = "modified" /\ c.from = FromOf(tl, i, k) /\ c.to = ToOf(tl, i, k)
        /\ NoOccurrence \notin {c.from, c.to} /\ c.change = "modified"
     \/ /\ kind = "erased" /\ c.from = FromOf(tl, i, k) /\ c.to = NoOccurrence
        /\ c.from # NoOccurrence
     \/ /\ kind = "inserted" /\ c.from = NoOccurrence /\ c.to = ToOf(tl, i, k)
        /\ c.to # NoOccurrence

EventCores(tl, i, k) == {c \in Rel : \E l \in 1 .. k : EventCore(tl, i, l, c)}

\* What the state says of the first k events.
EventsDone(tl, i, S, s, k) ==
  /\ s \in StageStates
  /\ s.relations \in RelationsIn(S \union EventCores(tl, i, k))
  /\ \A c \in EventCores(tl, i, k) : {c.from, c.to} \subseteq s.used \union {NoOccurrence}
  /\ NoOccurrence \notin s.used
  /\ \A l \in 1 .. k :
       LET kind == tl[i].events[l].kind IN
       /\ kind = "replaced" => FromOf(tl, i, l) \in s.replaced \union {NoOccurrence}
       /\ kind \in {"replaced", "erased"} => FromOf(tl, i, l) \in s.used \union {NoOccurrence}
       /\ kind = "modified" => FromOf(tl, i, l) \in s.used \/ NoOccurrence \in {FromOf(tl, i, l), ToOf(tl, i, l)}
       /\ kind = "inserted" => ToOf(tl, i, l) \in s.inserted \union {NoOccurrence}
  /\ \A o \in s.replaced : \E l \in 1 .. k :
       tl[i].events[l].kind = "replaced" /\ FromOf(tl, i, l) = o

\* No operation of a stage is matched yet.
AllExact(S, i) == \A c \in S : (c.step /\ c.stage = i) => c.exact

\* A link uses its ends.
IsLink(s, t, S, i, from, to, change) ==
  /\ t \in StageStates /\ t.replaced = s.replaced /\ t.inserted = s.inserted
  /\ t.used = s.used \union ({from, to} \ {NoOccurrence})
  /\ t.relations \in RelationsIn(S \union {Relation(i, from, to, change, <<>>, TRUE, TRUE)})

\* A link uses its ends and is pushed on the relations.
LEMMA LinkIs ==
  ASSUME NEW S, NEW s, s \in StageStates, s.relations \in RelationsIn(S),
         NEW i, i \in Nat, NEW from, from \in Occ, NEW to, to \in Occ,
         NEW change, change \in ChangeKinds, NEW k, k \in Nat, AllExact(S, i)
  PROVE  IsLink(s, Link(s, i, from, to, change, k), S, i, from, to, change)
<1>. DEFINE r   == Relation(i, from, to, change, <<k>>, TRUE, TRUE)
            new == PushRelation(s.relations, r)
<1>1. /\ r \in Rel /\ r.stage = i /\ r.exact = TRUE
      /\ Core(r) = Relation(i, from, to, change, <<>>, TRUE, TRUE)
  <2>1. <<k>> \in Seq(Nat)
    OBVIOUS
  <2>. QED  BY <2>1 DEF Relation, Rel, Core
<1>. HIDE DEF r
<1>2. new \in RelationsIn(S \union {Core(r)})
  BY <1>1, PushKeeps DEF AllExact
<1>3. new \in Seq(Rel)
  BY <1>2 DEF RelationsIn
<1>. HIDE DEF new
<1>. DEFINE used == s.used \union ({from, to} \ {NoOccurrence})
<1>4. Link(s, i, from, to, change, k) = [s EXCEPT !.used = used, !.relations = new]
  BY DEF Link, Use, new, r, StageStates
<1>5. used \in SUBSET Occ
  BY DEF StageStates
<1>. HIDE DEF used
<1>6. LET t == [s EXCEPT !.used = used, !.relations = new] IN
      /\ t \in StageStates /\ t.replaced = s.replaced /\ t.inserted = s.inserted
      /\ t.used = used /\ t.relations = new
  BY <1>3, <1>5 DEF StageStates
<1>. QED  BY <1>1, <1>2, <1>4, <1>6 DEF used, IsLink

\* A state that did not change for an event that relates nothing.
LEMMA EventSkipped ==
  ASSUME NEW tl, NEW i \in 1 .. Len(tl), IsTimeline(tl), NEW S, NEW s,
         NEW k \in 1 .. Len(tl[i].events), EventsDone(tl, i, S, s, k - 1),
         \A c : ~EventCore(tl, i, k, c),
         LET kind == tl[i].events[k].kind IN
         /\ kind = "replaced" => FromOf(tl, i, k) \in s.replaced \union {NoOccurrence}
         /\ kind \in {"replaced", "erased"} => FromOf(tl, i, k) \in s.used \union {NoOccurrence}
         /\ kind = "modified" => FromOf(tl, i, k) \in s.used \/ NoOccurrence \in {FromOf(tl, i, k), ToOf(tl, i, k)}
         /\ kind = "inserted" => ToOf(tl, i, k) \in s.inserted \union {NoOccurrence}
  PROVE  EventsDone(tl, i, S, s, k)
<1>1. \A l \in 1 .. k : l = k \/ l \in 1 .. (k - 1)
  BY DEF IsTimeline, IsStage
<1>2. 1 .. (k - 1) \subseteq 1 .. k /\ k \in 1 .. k
  BY DEF IsTimeline, IsStage
<1>3. EventCores(tl, i, k) = EventCores(tl, i, k - 1)
  BY <1>1, <1>2 DEF EventCores
<1>4. \A o \in s.replaced : \E l \in 1 .. k :
         tl[i].events[l].kind = "replaced" /\ FromOf(tl, i, l) = o
  BY <1>2 DEF EventsDone
<1>5. ASSUME NEW l \in 1 .. k
      PROVE  LET kind == tl[i].events[l].kind IN
             /\ kind = "replaced" => FromOf(tl, i, l) \in s.replaced \union {NoOccurrence}
             /\ kind \in {"replaced", "erased"} => FromOf(tl, i, l) \in s.used \union {NoOccurrence}
             /\ kind = "modified" => FromOf(tl, i, l) \in s.used \/ NoOccurrence \in {FromOf(tl, i, l), ToOf(tl, i, l)}
             /\ kind = "inserted" => ToOf(tl, i, l) \in s.inserted \union {NoOccurrence}
  BY <1>1 DEF EventsDone
<1>. QED  BY <1>3, <1>4, <1>5 DEF EventsDone

\* A state with a link for an event.
LEMMA EventLinked ==
  ASSUME NEW tl, NEW i \in 1 .. Len(tl), IsTimeline(tl), NEW S,
         AllExact(S, i),
         NEW s, NEW k \in 1 .. Len(tl[i].events), EventsDone(tl, i, S, s, k - 1),
         NEW from \in Occ, NEW to \in Occ, NEW change \in ChangeKinds,
         NEW t \in StageStates,
         t.relations = Link(s, i, from, to, change, k).relations,
         t.used = Link(s, i, from, to, change, k).used,
         t.replaced = s.replaced \/ /\ t.replaced = s.replaced \union {from}
                                    /\ tl[i].events[k].kind = "replaced"
                                    /\ FromOf(tl, i, k) = from,
         s.inserted \subseteq t.inserted,
         \A c : EventCore(tl, i, k, c) => c.from = from /\ c.to = to,
         EventCore(tl, i, k, Relation(i, from, to, change, <<>>, TRUE, TRUE)),
         LET kind == tl[i].events[k].kind IN
         /\ kind = "replaced" => FromOf(tl, i, k) \in t.replaced \union {NoOccurrence}
         /\ kind \in {"replaced", "erased", "modified"} => FromOf(tl, i, k) = from
         /\ kind = "inserted" => ToOf(tl, i, k) \in t.inserted \union {NoOccurrence}
  PROVE  EventsDone(tl, i, S, t, k)
<1>0. i \in Nat /\ k \in Nat
  BY DEF IsTimeline, IsStage
<1>1. \A l \in 1 .. k : l = k \/ l \in 1 .. (k - 1)
  BY DEF IsTimeline, IsStage
<1>2. 1 .. (k - 1) \subseteq 1 .. k /\ k \in 1 .. k
  BY DEF IsTimeline, IsStage
<1>. DEFINE c0 == Relation(i, from, to, change, <<>>, TRUE, TRUE)
            old == EventCores(tl, i, k - 1)
            new == EventCores(tl, i, k)
<1>3. c0 \in Rel
  <2>1. <<>> \in Seq(Nat)
    OBVIOUS
  <2>. QED  BY <1>0, <2>1 DEF Relation, Rel
<1>4. old \union {c0} \subseteq new
  BY <1>2, <1>3 DEF EventCores
<1>5. ASSUME NEW c \in new
      PROVE  c \in old \/ (c.from = from /\ c.to = to)
  BY <1>1 DEF EventCores
<1>. DEFINE R == S \union old
<1>6. AllExact(R, i)
  BY DEF EventCores, EventCore, AllExact
<1>. HIDE DEF c0, old, new
<1>7. s \in StageStates /\ s.relations \in RelationsIn(R)
  BY DEF EventsDone, old
<1>. HIDE DEF R
<1>. DEFINE u == Link(s, i, from, to, change, k)
<1>8. /\ u.used = s.used \union ({from, to} \ {NoOccurrence})
      /\ u.relations \in RelationsIn(R \union {c0})
  <2>1. IsLink(s, u, R, i, from, to, change)
    BY <1>0, <1>6, <1>7, LinkIs
  <2>. HIDE DEF u
  <2>. QED  BY <2>1 DEF c0, IsLink
<1>. HIDE DEF u
<1>9. t.relations = u.relations /\ t.used = u.used
  BY DEF u
<1>10. t.relations \in RelationsIn(S \union new)
  <2>1. R \union {c0} \subseteq S \union new
    BY <1>4 DEF R
  <2>. QED  BY <1>8, <1>9, <2>1, RelationsMonotone
<1>11. \A c \in new : {c.from, c.to} \subseteq t.used \union {NoOccurrence}
  <2>1. \A c \in old : {c.from, c.to} \subseteq s.used \union {NoOccurrence}
    BY DEF EventsDone, old
  <2>. QED  BY <1>5, <1>8, <1>9, <2>1
<1>12. NoOccurrence \notin t.used
  BY <1>8, <1>9 DEF EventsDone
<1>13. ASSUME NEW l \in 1 .. k
       PROVE  LET kind == tl[i].events[l].kind IN
              /\ kind = "replaced" => FromOf(tl, i, l) \in t.replaced \union {NoOccurrence}
              /\ kind \in {"replaced", "erased"} => FromOf(tl, i, l) \in t.used \union {NoOccurrence}
              /\ kind = "modified" => FromOf(tl, i, l) \in t.used \/ NoOccurrence \in {FromOf(tl, i, l), ToOf(tl, i, l)}
              /\ kind = "inserted" => ToOf(tl, i, l) \in t.inserted \union {NoOccurrence}
  <2>1. CASE l = k
    <3>1. from \in t.used \union {NoOccurrence}
      BY <1>8, <1>9
    <3>. QED  BY <2>1, <3>1
  <2>2. CASE l \in 1 .. (k - 1)
    <3>1. s.replaced \subseteq t.replaced /\ s.used \subseteq t.used /\ s.inserted \subseteq t.inserted
      BY <1>8, <1>9
    <3>. QED  BY <2>2, <3>1 DEF EventsDone
  <2>. QED  BY <1>1, <2>1, <2>2
<1>14. ASSUME NEW o \in t.replaced
       PROVE  \E l \in 1 .. k : tl[i].events[l].kind = "replaced" /\ FromOf(tl, i, l) = o
  <2>1. CASE o \in s.replaced
    BY <1>2, <2>1 DEF EventsDone
  <2>2. CASE o \notin s.replaced
    BY <1>2, <1>14, <2>2
  <2>. QED  BY <2>1, <2>2
<1>. QED  BY <1>10, <1>11, <1>12, <1>13, <1>14 DEF EventsDone, new

\* What an event does: nothing, or a link.
Links(tl, i, s, t, from, to, change, k) ==
  /\ t.relations = Link(s, i, from, to, change, k).relations
  /\ t.used = Link(s, i, from, to, change, k).used

\* An event adds its own relation, and is spoken for.
LEMMA EventIs ==
  ASSUME NEW tl, IsTimeline(tl), NEW i \in 1 .. Len(tl), NEW S, AllExact(S, i),
         NEW s \in StageStates, s.relations \in RelationsIn(S),
         NEW k \in 1 .. Len(tl[i].events)
  PROVE  LET t    == ApplyEvent(tl, i, s, k)
             kind == tl[i].events[k].kind
             from == FromOf(tl, i, k)
             to   == ToOf(tl, i, k)
             new  == NewOf(tl, i, k)
         IN /\ t \in StageStates
            /\ {from, to, new} \subseteq Occ
            /\ kind = "replaced" =>
                 IF from = NoOccurrence \/ from \in s.replaced THEN t = s
                 ELSE /\ \E change \in ChangeKinds : Links(tl, i, s, t, from, new, change, k)
                      /\ t.replaced = s.replaced \union {from} /\ t.inserted = s.inserted
            /\ kind = "modified" =>
                 IF NoOccurrence \in {from, to} THEN t = s
                 ELSE /\ Links(tl, i, s, t, from, to, "modified", k)
                      /\ t.replaced = s.replaced /\ t.inserted = s.inserted
            /\ kind = "erased" =>
                 IF from = NoOccurrence THEN t = s
                 ELSE /\ Links(tl, i, s, t, from, NoOccurrence, "erased", k)
                      /\ t.replaced = s.replaced /\ t.inserted = s.inserted
            /\ kind = "inserted" =>
                 IF to = NoOccurrence THEN t = s
                 ELSE /\ Links(tl, i, s, t, NoOccurrence, to, "inserted", k)
                      /\ t.replaced = s.replaced /\ t.inserted = s.inserted \union {to}
<1>. DEFINE e    == tl[i].events[k]
            from == FromOf(tl, i, k)
            to   == ToOf(tl, i, k)
            new  == NewOf(tl, i, k)
            t    == ApplyEvent(tl, i, s, k)
<1>0. i \in Nat /\ k \in Nat /\ e.kind \in EventKinds
  BY DEF IsTimeline, IsStage
<1>1. from \in Occ /\ to \in Occ /\ new \in Occ
  <2>1. /\ Before(i) \in 1 .. 2 * Len(tl) /\ SnapshotAt(tl, Before(i)) = tl[i].before
        /\ After(i) \in 1 .. 2 * Len(tl) /\ SnapshotAt(tl, After(i)) = tl[i].after
    BY SidesAre
  <2>2. (tl[i].before # Missing => IsSnapshot(tl[i].before))
        /\ (tl[i].after # Missing => IsSnapshot(tl[i].after))
    BY DEF IsTimeline, IsStage
  <2>. QED  BY <2>1, <2>2, NodesAre DEF FromOf, ToOf, NewOf
<1>2. NoOccurrence \in Occ
  BY OccurrenceTyped
<1>. DEFINE L(f, o, change) == Link(s, i, f, o, change, k)
<1>3. ASSUME NEW f \in Occ, NEW o \in Occ, NEW change \in ChangeKinds
      PROVE  /\ L(f, o, change) \in StageStates
             /\ L(f, o, change).replaced = s.replaced /\ L(f, o, change).inserted = s.inserted
  <2>1. IsLink(s, L(f, o, change), S, i, f, o, change)
    BY <1>0, LinkIs
  <2>. HIDE DEF L
  <2>. QED  BY <2>1 DEF IsLink
<1>4. ASSUME e.kind = "replaced"
      PROVE  /\ t \in StageStates
             /\ IF from = NoOccurrence \/ from \in s.replaced THEN t = s
                ELSE /\ \E change \in ChangeKinds : Links(tl, i, s, t, from, new, change, k)
                     /\ t.replaced = s.replaced \union {from} /\ t.inserted = s.inserted
  <2>1. t = ReplacedEvent(tl, i, s, k, e)
    BY <1>4 DEF ApplyEvent
  <2>2. CASE from = NoOccurrence \/ from \in s.replaced
    <3>1. t = s
      BY <2>1, <2>2 DEF ReplacedEvent, FromOf
    <3>. QED  BY <2>2, <3>1
  <2>3. CASE ~(from = NoOccurrence \/ from \in s.replaced)
    <3>. DEFINE change == IF new = NoOccurrence THEN "erased" ELSE "replaced"
                l      == L(from, new, change)
    <3>1. t = [l EXCEPT !.replaced = @ \union {from}]
      BY <2>1, <2>3 DEF ReplacedEvent, FromOf, NewOf
    <3>2. change \in ChangeKinds
      BY DEF ChangeKinds
    <3>. HIDE DEF change, L
    <3>3. l \in StageStates /\ l.replaced = s.replaced /\ l.inserted = s.inserted
      BY <1>1, <1>3, <3>2
    <3>. HIDE DEF l
    <3>4. /\ t \in StageStates /\ t.relations = l.relations /\ t.used = l.used
          /\ t.replaced = s.replaced \union {from} /\ t.inserted = s.inserted
      BY <1>1, <3>1, <3>3 DEF StageStates
    <3>5. Links(tl, i, s, t, from, new, change, k)
      BY <3>4 DEF Links, l, L
    <3>. HIDE DEF t, from, new
    <3>. QED  BY <2>3, <3>2, <3>4, <3>5
  <2>. HIDE DEF t, from, new
  <2>. QED  BY <2>2, <2>3
<1>5. ASSUME e.kind = "modified"
      PROVE  /\ t \in StageStates
             /\ IF NoOccurrence \in {from, to} THEN t = s
                ELSE /\ Links(tl, i, s, t, from, to, "modified", k)
                     /\ t.replaced = s.replaced /\ t.inserted = s.inserted
  <2>1. t = ModifiedEvent(tl, i, s, k, e)
    BY <1>5 DEF ApplyEvent
  <2>2. t = IF NoOccurrence \in {from, to} THEN s ELSE L(from, to, "modified")
    BY <2>1 DEF ModifiedEvent, FromOf, ToOf
  <2>3. "modified" \in ChangeKinds
    BY DEF ChangeKinds
  <2>4. Links(tl, i, s, L(from, to, "modified"), from, to, "modified", k)
    BY DEF Links
  <2>. HIDE DEF t, from, to, L
  <2>. QED  BY <1>1, <1>3, <2>2, <2>3, <2>4
<1>6. ASSUME e.kind = "erased"
      PROVE  /\ t \in StageStates
             /\ IF from = NoOccurrence THEN t = s
                ELSE /\ Links(tl, i, s, t, from, NoOccurrence, "erased", k)
                     /\ t.replaced = s.replaced /\ t.inserted = s.inserted
  <2>1. t = ErasedEvent(tl, i, s, k, e)
    BY <1>6 DEF ApplyEvent
  <2>2. t = IF from = NoOccurrence THEN s ELSE L(from, NoOccurrence, "erased")
    BY <2>1 DEF ErasedEvent, FromOf
  <2>3. "erased" \in ChangeKinds
    BY DEF ChangeKinds
  <2>4. Links(tl, i, s, L(from, NoOccurrence, "erased"), from, NoOccurrence, "erased", k)
    BY DEF Links
  <2>. HIDE DEF t, from, to, L
  <2>. QED  BY <1>1, <1>2, <1>3, <2>2, <2>3, <2>4
<1>7. ASSUME e.kind = "inserted"
      PROVE  /\ t \in StageStates
             /\ IF to = NoOccurrence THEN t = s
                ELSE /\ Links(tl, i, s, t, NoOccurrence, to, "inserted", k)
                     /\ t.replaced = s.replaced /\ t.inserted = s.inserted \union {to}
  <2>1. t = InsertedEvent(tl, i, s, k, e)
    BY <1>7 DEF ApplyEvent
  <2>2. CASE to = NoOccurrence
    <3>1. t = s
      BY <2>1, <2>2 DEF InsertedEvent, ToOf
    <3>. QED  BY <2>2, <3>1
  <2>3. CASE to # NoOccurrence
    <3>. DEFINE l == L(NoOccurrence, to, "inserted")
    <3>1. t = [l EXCEPT !.inserted = @ \union {to}]
      BY <2>1, <2>3 DEF InsertedEvent, ToOf
    <3>2. "inserted" \in ChangeKinds
      BY DEF ChangeKinds
    <3>. HIDE DEF L
    <3>3. l \in StageStates /\ l.replaced = s.replaced /\ l.inserted = s.inserted
      BY <1>1, <1>2, <1>3, <3>2
    <3>. HIDE DEF l
    <3>4. /\ t \in StageStates /\ t.relations = l.relations /\ t.used = l.used
          /\ t.inserted = s.inserted \union {to} /\ t.replaced = s.replaced
      BY <1>1, <3>1, <3>3 DEF StageStates
    <3>5. Links(tl, i, s, t, NoOccurrence, to, "inserted", k)
      BY <3>4 DEF Links, l, L
    <3>. HIDE DEF t, to
    <3>. QED  BY <2>3, <3>4, <3>5
  <2>. HIDE DEF t, to
  <2>. QED  BY <2>2, <2>3
<1>8. t \in StageStates
  <2>. HIDE DEF t
  <2>. QED  BY <1>0, <1>4, <1>5, <1>6, <1>7 DEF EventKinds
<1>. HIDE DEF L, from, to, new, t
<1>9. /\ t \in StageStates
      /\ {from, to, new} \subseteq Occ
      /\ e.kind = "replaced" =>
           IF from = NoOccurrence \/ from \in s.replaced THEN t = s
           ELSE /\ \E change \in ChangeKinds : Links(tl, i, s, t, from, new, change, k)
                /\ t.replaced = s.replaced \union {from} /\ t.inserted = s.inserted
      /\ e.kind = "modified" =>
           IF NoOccurrence \in {from, to} THEN t = s
           ELSE /\ Links(tl, i, s, t, from, to, "modified", k)
                /\ t.replaced = s.replaced /\ t.inserted = s.inserted
      /\ e.kind = "erased" =>
           IF from = NoOccurrence THEN t = s
           ELSE /\ Links(tl, i, s, t, from, NoOccurrence, "erased", k)
                /\ t.replaced = s.replaced /\ t.inserted = s.inserted
      /\ e.kind = "inserted" =>
           IF to = NoOccurrence THEN t = s
           ELSE /\ Links(tl, i, s, t, NoOccurrence, to, "inserted", k)
                /\ t.replaced = s.replaced /\ t.inserted = s.inserted \union {to}
  BY <1>1, <1>4, <1>5, <1>6, <1>7, <1>8
<1>. QED  BY <1>9 DEF from, to, new, t

\* An event keeps what the state says of the events.
LEMMA EventKeeps ==
  ASSUME NEW tl, IsTimeline(tl), NEW i \in 1 .. Len(tl), NEW S, AllExact(S, i),
         NEW s, NEW k \in 1 .. Len(tl[i].events), EventsDone(tl, i, S, s, k - 1)
  PROVE  EventsDone(tl, i, S, ApplyEvent(tl, i, s, k), k)
<1>. DEFINE kind == tl[i].events[k].kind
            from == FromOf(tl, i, k)
            to   == ToOf(tl, i, k)
            new  == NewOf(tl, i, k)
            t    == ApplyEvent(tl, i, s, k)
            R    == S \union EventCores(tl, i, k - 1)
<1>0. i \in Nat /\ k \in Nat /\ kind \in EventKinds /\ 1 .. (k - 1) \subseteq 1 .. k
  BY DEF IsTimeline, IsStage
<1>1. AllExact(R, i)
  BY DEF AllExact, EventCores, EventCore
<1>2. /\ s \in StageStates /\ s.relations \in RelationsIn(R) /\ NoOccurrence \notin s.used
      /\ \A o \in s.replaced : \E l \in 1 .. (k - 1) :
           tl[i].events[l].kind = "replaced" /\ FromOf(tl, i, l) = o
      /\ \A l \in 1 .. (k - 1) : tl[i].events[l].kind = "replaced" =>
           FromOf(tl, i, l) \in s.replaced \union {NoOccurrence}
      /\ \A l \in 1 .. (k - 1) : tl[i].events[l].kind = "replaced" =>
           FromOf(tl, i, l) \in s.used \union {NoOccurrence}
  BY DEF EventsDone
<1>. HIDE DEF R
<1>3. /\ t \in StageStates
      /\ {from, to, new} \subseteq Occ
      /\ kind = "replaced" =>
           IF from = NoOccurrence \/ from \in s.replaced THEN t = s
           ELSE /\ \E change \in ChangeKinds : Links(tl, i, s, t, from, new, change, k)
                /\ t.replaced = s.replaced \union {from} /\ t.inserted = s.inserted
      /\ kind = "modified" =>
           IF NoOccurrence \in {from, to} THEN t = s
           ELSE /\ Links(tl, i, s, t, from, to, "modified", k)
                /\ t.replaced = s.replaced /\ t.inserted = s.inserted
      /\ kind = "erased" =>
           IF from = NoOccurrence THEN t = s
           ELSE /\ Links(tl, i, s, t, from, NoOccurrence, "erased", k)
                /\ t.replaced = s.replaced /\ t.inserted = s.inserted
      /\ kind = "inserted" =>
           IF to = NoOccurrence THEN t = s
           ELSE /\ Links(tl, i, s, t, NoOccurrence, to, "inserted", k)
                /\ t.replaced = s.replaced /\ t.inserted = s.inserted \union {to}
  BY <1>1, <1>2, EventIs
<1>4. NoOccurrence \in Occ
  BY OccurrenceTyped
<1>5. \A c : EventCore(tl, i, k, c) <=>
        /\ c.stage = i /\ c.step /\ c.exact
        /\ \/ /\ kind = "replaced" /\ c.from = from /\ c.to = new /\ c.from # NoOccurrence
              /\ \A l \in 1 .. (k - 1) : tl[i].events[l].kind = "replaced" => FromOf(tl, i, l) # c.from
           \/ /\ kind = "modified" /\ c.from = from /\ c.to = to
              /\ NoOccurrence \notin {c.from, c.to} /\ c.change = "modified"
           \/ kind = "erased" /\ c.from = from /\ c.to = NoOccurrence /\ c.from # NoOccurrence
           \/ kind = "inserted" /\ c.from = NoOccurrence /\ c.to = to /\ c.to # NoOccurrence
  BY DEF EventCore
<1>. HIDE DEF t
<1>7. CASE kind = "replaced"
  <2>1. CASE from = NoOccurrence \/ from \in s.replaced
    <3>1. t = s
      BY <1>3, <1>7, <2>1
    <3>2. from \in s.replaced \union {NoOccurrence} /\ from \in s.used \union {NoOccurrence}
      BY <1>2, <2>1
    <3>3. \A c : ~EventCore(tl, i, k, c)
      BY <1>2, <1>5, <1>7, <2>1
    <3>4. EventsDone(tl, i, S, s, k)
      BY <1>7, <3>2, <3>3, EventSkipped
    <3>. QED  BY <3>1, <3>4 DEF t
  <2>2. CASE ~(from = NoOccurrence \/ from \in s.replaced)
    <3>1. PICK change \in ChangeKinds : Links(tl, i, s, t, from, new, change, k)
      BY <1>3, <1>7, <2>2
    <3>2. t.replaced = s.replaced \union {from} /\ t.inserted = s.inserted
      BY <1>3, <1>7, <2>2
    <3>3. t.relations = Link(s, i, from, new, change, k).relations
          /\ t.used = Link(s, i, from, new, change, k).used
      BY <3>1 DEF Links
    <3>4. \A c : EventCore(tl, i, k, c) => c.from = from /\ c.to = new
      BY <1>5, <1>7
    <3>5. EventCore(tl, i, k, Relation(i, from, new, change, <<>>, TRUE, TRUE))
      BY <1>2, <1>7, <2>2 DEF EventCore, Relation
    <3>6. EventsDone(tl, i, S, t, k)
      BY <1>3, <1>7, <3>2, <3>3, <3>4, <3>5, EventLinked
    <3>. QED  BY <3>6 DEF t
  <2>. QED  BY <2>1, <2>2
<1>8. CASE kind = "modified"
  <2>1. CASE NoOccurrence \in {from, to}
    <3>1. t = s
      BY <1>3, <1>8, <2>1
    <3>3. \A c : ~EventCore(tl, i, k, c)
      BY <1>5, <1>8, <2>1
    <3>4. EventsDone(tl, i, S, s, k)
      BY <1>8, <2>1, <3>3, EventSkipped
    <3>. QED  BY <3>1, <3>4 DEF t
  <2>2. CASE NoOccurrence \notin {from, to}
    <3>1. Links(tl, i, s, t, from, to, "modified", k) /\ t.replaced = s.replaced /\ t.inserted = s.inserted
      BY <1>3, <1>8, <2>2
    <3>2. t.relations = Link(s, i, from, to, "modified", k).relations
          /\ t.used = Link(s, i, from, to, "modified", k).used
      BY <3>1 DEF Links
    <3>4. \A c : EventCore(tl, i, k, c) => c.from = from /\ c.to = to
      BY <1>5, <1>8
    <3>5. EventCore(tl, i, k, Relation(i, from, to, "modified", <<>>, TRUE, TRUE))
      BY <1>8, <2>2 DEF EventCore, Relation
    <3>6. "modified" \in ChangeKinds
      BY DEF ChangeKinds
    <3>7. EventsDone(tl, i, S, t, k)
      BY <1>3, <1>8, <3>1, <3>2, <3>4, <3>5, <3>6, EventLinked
    <3>. QED  BY <3>7 DEF t
  <2>. QED  BY <2>1, <2>2
<1>9. CASE kind = "erased"
  <2>1. CASE from = NoOccurrence
    <3>1. t = s
      BY <1>3, <1>9, <2>1
    <3>3. \A c : ~EventCore(tl, i, k, c)
      BY <1>5, <1>9, <2>1
    <3>4. EventsDone(tl, i, S, s, k)
      BY <1>9, <2>1, <3>3, EventSkipped
    <3>. QED  BY <3>1, <3>4 DEF t
  <2>2. CASE from # NoOccurrence
    <3>1. Links(tl, i, s, t, from, NoOccurrence, "erased", k) /\ t.replaced = s.replaced /\ t.inserted = s.inserted
      BY <1>3, <1>9, <2>2
    <3>2. t.relations = Link(s, i, from, NoOccurrence, "erased", k).relations
          /\ t.used = Link(s, i, from, NoOccurrence, "erased", k).used
      BY <3>1 DEF Links
    <3>4. \A c : EventCore(tl, i, k, c) => c.from = from /\ c.to = NoOccurrence
      BY <1>5, <1>9
    <3>5. EventCore(tl, i, k, Relation(i, from, NoOccurrence, "erased", <<>>, TRUE, TRUE))
      BY <1>9, <2>2 DEF EventCore, Relation
    <3>6. "erased" \in ChangeKinds
      BY DEF ChangeKinds
    <3>7. EventsDone(tl, i, S, t, k)
      BY <1>3, <1>4, <1>9, <3>1, <3>2, <3>4, <3>5, <3>6, EventLinked
    <3>. QED  BY <3>7 DEF t
  <2>. QED  BY <2>1, <2>2
<1>10. CASE kind = "inserted"
  <2>1. CASE to = NoOccurrence
    <3>1. t = s
      BY <1>3, <1>10, <2>1
    <3>3. \A c : ~EventCore(tl, i, k, c)
      BY <1>5, <1>10, <2>1
    <3>4. EventsDone(tl, i, S, s, k)
      BY <1>10, <2>1, <3>3, EventSkipped
    <3>. QED  BY <3>1, <3>4 DEF t
  <2>2. CASE to # NoOccurrence
    <3>1. Links(tl, i, s, t, NoOccurrence, to, "inserted", k) /\ t.replaced = s.replaced /\ t.inserted = s.inserted \union {to}
      BY <1>3, <1>10, <2>2
    <3>2. t.relations = Link(s, i, NoOccurrence, to, "inserted", k).relations
          /\ t.used = Link(s, i, NoOccurrence, to, "inserted", k).used
      BY <3>1 DEF Links
    <3>4. \A c : EventCore(tl, i, k, c) => c.from = NoOccurrence /\ c.to = to
      BY <1>5, <1>10
    <3>5. EventCore(tl, i, k, Relation(i, NoOccurrence, to, "inserted", <<>>, TRUE, TRUE))
      BY <1>10, <2>2 DEF EventCore, Relation
    <3>6. "inserted" \in ChangeKinds
      BY DEF ChangeKinds
    <3>7. EventsDone(tl, i, S, t, k)
      BY <1>3, <1>4, <1>10, <3>1, <3>2, <3>4, <3>5, <3>6, EventLinked
    <3>. QED  BY <3>7 DEF t
  <2>. QED  BY <2>1, <2>2
<1>. QED  BY <1>0, <1>7, <1>8, <1>9, <1>10 DEF EventKinds, t

\* The state before the events.
Fresh(relations) == [relations |-> relations, used |-> {}, replaced |-> {}, inserted |-> {}]

\* An event relates exactly.
LEMMA EventTyped ==
  ASSUME NEW tl, IsTimeline(tl), NEW i \in 1 .. Len(tl), NEW S, AllExact(S, i),
         {c \in Rel : c.exact} \subseteq S,
         NEW s \in StageStates, s.relations \in RelationsIn(S),
         NEW k \in 1 .. Len(tl[i].events)
  PROVE  /\ ApplyEvent(tl, i, s, k) \in StageStates
         /\ ApplyEvent(tl, i, s, k).relations \in RelationsIn(S)
<1>. DEFINE kind == tl[i].events[k].kind
            from == FromOf(tl, i, k)
            to   == ToOf(tl, i, k)
            new  == NewOf(tl, i, k)
            t    == ApplyEvent(tl, i, s, k)
<1>0. i \in Nat /\ k \in Nat /\ kind \in EventKinds
  BY DEF IsTimeline, IsStage
<1>1. /\ t \in StageStates
      /\ {from, to, new} \subseteq Occ
      /\ kind = "replaced" =>
           t = s \/ \E change \in ChangeKinds : Links(tl, i, s, t, from, new, change, k)
      /\ kind = "modified" => t = s \/ Links(tl, i, s, t, from, to, "modified", k)
      /\ kind = "erased"   => t = s \/ Links(tl, i, s, t, from, NoOccurrence, "erased", k)
      /\ kind = "inserted" => t = s \/ Links(tl, i, s, t, NoOccurrence, to, "inserted", k)
  BY EventIs
<1>. HIDE DEF t, from, to, new
<1>2. NoOccurrence \in Occ
  BY OccurrenceTyped
<1>3. {"modified", "erased", "inserted"} \subseteq ChangeKinds
  BY DEF ChangeKinds
<1>4. \/ t = s
      \/ \E f \in Occ, o \in Occ, change \in ChangeKinds : Links(tl, i, s, t, f, o, change, k)
  BY <1>0, <1>1, <1>2, <1>3 DEF EventKinds
<1>5. ASSUME NEW f \in Occ, NEW o \in Occ, NEW change \in ChangeKinds, Links(tl, i, s, t, f, o, change, k)
      PROVE  t.relations \in RelationsIn(S)
  <2>. DEFINE c == Relation(i, f, o, change, <<>>, TRUE, TRUE)
              u == Link(s, i, f, o, change, k)
  <2>1. IsLink(s, u, S, i, f, o, change)
    BY <1>0, LinkIs
  <2>2. c \in Rel /\ c.exact
    <3>1. <<>> \in Seq(Nat)
      OBVIOUS
    <3>. QED  BY <1>0, <3>1 DEF Relation, Rel
  <2>3. t.relations = u.relations
    BY <1>5 DEF Links
  <2>. HIDE DEF u
  <2>4. u.relations \in RelationsIn(S \union {c})
    BY <2>1 DEF IsLink
  <2>. HIDE DEF c
  <2>5. S \union {c} = S
    BY <2>2
  <2>. QED  BY <2>3, <2>4, <2>5
<1>6. t \in StageStates /\ t.relations \in RelationsIn(S)
  BY <1>1, <1>4, <1>5
<1>. QED  BY <1>6 DEF t

\* What is known when the events of a stage are applied.
LEMMA EventsAre ==
  ASSUME NEW tl, IsTimeline(tl), NEW i \in 1 .. Len(tl), NEW S, AllExact(S, i),
         NEW relations \in RelationsIn(S)
  PROVE  EventsDone(tl, i, S, ApplyEvents(tl, i, Fresh(relations)), Len(tl[i].events))
<1>. DEFINE n     == Len(tl[i].events)
            start == Fresh(relations)
            All   == S \union {c \in Rel : c.exact}
            T     == {s \in StageStates : s.relations \in RelationsIn(All)}
<1>0. n \in Nat
  BY DEF IsTimeline, IsStage
<1>1. start \in StageStates /\ start.relations = relations
      /\ start.used = {} /\ start.replaced = {} /\ start.inserted = {}
  BY DEF Fresh, StageStates, RelationsIn
<1>2. AllExact(All, i)
  BY DEF AllExact
<1>3. start \in T
  <2>1. relations \in RelationsIn(All)
    BY RelationsMonotone
  <2>. HIDE DEF All, start
  <2>. QED  BY <1>1, <2>1
<1>4. {c \in Rel : c.exact} \subseteq All
  OBVIOUS
<1>. HIDE DEF All, start
<1>5. \A s \in T, k \in 1 .. Len(tl[i].events) : ApplyEvent(tl, i, s, k) \in T
  BY <1>2, <1>4, EventTyped
<1>. HIDE DEF T
<1>6. PICK g : EventsRun(g, T, tl, i, start)
  BY <1>0, <1>3, <1>5, EventsSteps
<1>. DEFINE G == {k \in 0 .. n : EventsDone(tl, i, S, g[k], k)}
<1>7. 0 \in G
  <2>1. g[0] = start
    BY <1>6 DEF EventsRun
  <2>2. EventCores(tl, i, 0) = {} /\ 1 .. 0 = {}
    BY DEF EventCores
  <2>3. S \union {} = S
    OBVIOUS
  <2>4. EventsDone(tl, i, S, start, 0)
    BY <1>1, <2>2, <2>3 DEF EventsDone
  <2>. QED  BY <1>0, <2>1, <2>4
<1>8. ASSUME NEW k \in 1 .. n, k - 1 \in G
      PROVE  k \in G
  <2>1. g[k] = ApplyEvent(tl, i, g[k - 1], k) /\ EventsDone(tl, i, S, g[k - 1], k - 1)
    BY <1>6, <1>8 DEF EventsRun
  <2>2. EventsDone(tl, i, S, ApplyEvent(tl, i, g[k - 1], k), k)
    BY <2>1, EventKeeps
  <2>. QED  BY <1>0, <2>1, <2>2
<1>. HIDE DEF G
<1>9. n \in G
  <2>1. 0 .. n \subseteq G
    BY <1>0, <1>7, <1>8, InductionUpTo
  <2>. QED  BY <1>0, <2>1
<1>. QED  BY <1>6, <1>9 DEF G, EventsRun, start

-----------------------------------------------------------------------------
(* The links for which no event speaks. *)

ArePairs(pairs) ==
  /\ Len(pairs) \in Nat
  /\ \A k \in 1 .. Len(pairs) : \A x \in {1, 2} : pairs[k][x] \in Occ /\ pairs[k][x] # NoOccurrence

PairCore(tl, i, pairs, exact, k) ==
  Relation(i, pairs[k][1], pairs[k][2],
           Changed(OperationOf(tl, pairs[k][1]), OperationOf(tl, pairs[k][2])), <<>>, exact, TRUE)
PairCores(tl, i, pairs, exact, k) == {PairCore(tl, i, pairs, exact, l) : l \in 1 .. k}

IsCore(c, i, from, to, exact) ==
  /\ c \in Rel /\ Core(c) = c /\ c.stage = i /\ c.step = TRUE /\ c.exact = exact
  /\ c.evidence = <<>> /\ c.from = from /\ c.to = to

\* The relation of a pair for which no event speaks is its core.
LEMMA PairCoreIs ==
  ASSUME NEW tl, NEW i \in Nat, NEW pairs, ArePairs(pairs), NEW exact \in BOOLEAN,
         NEW k \in 1 .. Len(pairs)
  PROVE  IsCore(PairCore(tl, i, pairs, exact, k), i, pairs[k][1], pairs[k][2], exact)
<1>1. \A b, a : Changed(b, a) \in ChangeKinds
  BY DEF Changed, ChangeKinds
<1>2. <<>> \in Seq(Nat)
  OBVIOUS
<1>. DEFINE ch == Changed(OperationOf(tl, pairs[k][1]), OperationOf(tl, pairs[k][2]))
            f  == pairs[k][1]
            o  == pairs[k][2]
<1>3. ch \in ChangeKinds /\ f \in Occ /\ o \in Occ
  BY <1>1 DEF ArePairs
<1>4. PairCore(tl, i, pairs, exact, k) = Relation(i, f, o, ch, <<>>, exact, TRUE)
  BY DEF PairCore
<1>. HIDE DEF ch, f, o
<1>. QED
  <2>1. IsCore(Relation(i, f, o, ch, <<>>, exact, TRUE), i, f, o, exact)
    BY <1>2, <1>3 DEF Relation, Rel, Core, IsCore
  <2>. QED  BY <1>4, <2>1 DEF f, o

\* What is known when the first k pairs are linked.
PairsDone(tl, i, S, start, pairs, exact, s, k) ==
  /\ s \in StageStates
  /\ s.relations \in RelationsIn(S \union PairCores(tl, i, pairs, exact, k))
  /\ start.used \subseteq s.used /\ NoOccurrence \notin s.used
  /\ \A l \in 1 .. k : pairs[l][1] \in s.used /\ pairs[l][2] \in s.used

IsPaired(s, t, R, tl, i, pairs, exact, k) ==
  /\ t \in StageStates
  /\ t.relations \in RelationsIn(R \union {PairCore(tl, i, pairs, exact, k)})
  /\ t.used = s.used \union {pairs[k][1], pairs[k][2]}

\* A pair uses its ends and adds a relation.
LEMMA PairIs ==
  ASSUME NEW tl, NEW i \in Nat, NEW pairs, ArePairs(pairs), NEW exact \in BOOLEAN,
         NEW R, NEW s, s \in StageStates, s.relations \in RelationsIn(R), NEW k \in 1 .. Len(pairs)
  PROVE  IsPaired(s, LinkPair(tl, i, s, pairs[k][1], pairs[k][2], exact), R, tl, i, pairs, exact, k)
<1>. DEFINE c   == PairCore(tl, i, pairs, exact, k)
            new == PushRelation(s.relations, c)
            f   == pairs[k][1]
            o   == pairs[k][2]
            used == s.used \union {f, o}
<1>1. /\ c \in Rel /\ Core(c) = c /\ c.evidence = <<>>
  <2>1. IsCore(c, i, f, o, exact)
    BY PairCoreIs
  <2>. QED  BY <2>1 DEF IsCore
<1>2. f \in Occ /\ o \in Occ /\ f # NoOccurrence /\ o # NoOccurrence
  BY DEF ArePairs
<1>3. LinkPair(tl, i, s, f, o, exact) =
        [s EXCEPT !.used = @ \union ({f, o} \ {NoOccurrence}), !.relations = new]
  BY DEF LinkPair, Use, PairCore, StageStates
<1>. HIDE DEF c, f, o
<1>4. new \in RelationsIn(R \union {c})
  <2>1. new \in RelationsIn(R \union {Core(c)})
    BY <1>1, PushKeeps
  <2>. HIDE DEF new
  <2>. QED  BY <1>1, <2>1
<1>5. new \in Seq(Rel) /\ used \in SUBSET Occ
  BY <1>2, <1>4 DEF RelationsIn, StageStates
<1>. HIDE DEF new
<1>6. {f, o} \ {NoOccurrence} = {f, o}
  BY <1>2
<1>7. LinkPair(tl, i, s, f, o, exact) = [s EXCEPT !.used = used, !.relations = new]
  BY <1>3, <1>6 DEF StageStates
<1>. HIDE DEF used
<1>8. LET t == [s EXCEPT !.used = used, !.relations = new] IN
      t \in StageStates /\ t.relations = new /\ t.used = used
  BY <1>5 DEF StageStates
<1>. QED  BY <1>4, <1>7, <1>8 DEF used, c, f, o, IsPaired

\* What is known when pairs are linked.
LEMMA PairsAre ==
  ASSUME NEW tl, NEW i \in Nat, NEW pairs, ArePairs(pairs), NEW exact \in BOOLEAN,
         NEW S, NEW start \in StageStates, start.relations \in RelationsIn(S),
         NoOccurrence \notin start.used
  PROVE  PairsDone(tl, i, S, start, pairs, exact, LinkPairs(tl, i, start, pairs, exact), Len(pairs))
<1>. DEFINE n   == Len(pairs)
            All == S \union PairCores(tl, i, pairs, exact, n)
            T   == {s \in StageStates : s.relations \in RelationsIn(All)}
            Link1(s, k) == LinkPair(tl, i, s, pairs[k][1], pairs[k][2], exact)
<1>0. n \in Nat
  BY DEF ArePairs
<1>1. start \in T
  <2>1. start.relations \in RelationsIn(All)
    BY RelationsMonotone
  <2>. HIDE DEF All
  <2>. QED  BY <2>1
<1>2. \A R, s, k : (s \in StageStates /\ s.relations \in RelationsIn(R) /\ k \in 1 .. n) =>
        IsPaired(s, Link1(s, k), R, tl, i, pairs, exact, k)
  BY PairIs
<1>. HIDE DEF Link1
<1>3. \A k \in 1 .. n : All \union {PairCore(tl, i, pairs, exact, k)} = All
  BY DEF PairCores
<1>. HIDE DEF All
<1>4. \A s \in T, k \in 1 .. n : Link1(s, k) \in T
  BY <1>2, <1>3 DEF IsPaired
<1>. HIDE DEF T
<1>5. PICK g : PairsRun(g, T, tl, i, start, pairs, exact)
  <2>1. \A s \in T, k \in 1 .. Len(pairs) : LinkPair(tl, i, s, pairs[k][1], pairs[k][2], exact) \in T
    BY <1>4 DEF Link1
  <2>. QED  BY <1>0, <1>1, <2>1, PairsSteps
<1>. DEFINE G == {k \in 0 .. n : PairsDone(tl, i, S, start, pairs, exact, g[k], k)}
<1>6. 0 \in G
  <2>1. g[0] = start
    BY <1>5 DEF PairsRun
  <2>2. PairCores(tl, i, pairs, exact, 0) = {} /\ 1 .. 0 = {}
    BY DEF PairCores
  <2>3. S \union {} = S
    OBVIOUS
  <2>4. PairsDone(tl, i, S, start, pairs, exact, start, 0)
    BY <2>2, <2>3 DEF PairsDone
  <2>. QED  BY <1>0, <2>1, <2>4
<1>7. ASSUME NEW k \in 1 .. n, k - 1 \in G
      PROVE  k \in G
  <2>. DEFINE s == g[k - 1]
              t == g[k]
              R == S \union PairCores(tl, i, pairs, exact, k - 1)
  <2>1. t = Link1(s, k) /\ PairsDone(tl, i, S, start, pairs, exact, s, k - 1)
    BY <1>5, <1>7 DEF PairsRun, Link1
  <2>. HIDE DEF s, t
  <2>2. /\ s \in StageStates /\ s.relations \in RelationsIn(R)
        /\ start.used \subseteq s.used /\ NoOccurrence \notin s.used
        /\ \A l \in 1 .. (k - 1) : pairs[l][1] \in s.used /\ pairs[l][2] \in s.used
    BY <2>1 DEF PairsDone
  <2>. HIDE DEF R
  <2>3. /\ t \in StageStates
        /\ t.relations \in RelationsIn(R \union {PairCore(tl, i, pairs, exact, k)})
        /\ t.used = s.used \union {pairs[k][1], pairs[k][2]}
    <3>1. IsPaired(s, Link1(s, k), R, tl, i, pairs, exact, k)
      BY <1>2, <2>2
    <3>2. IsPaired(s, t, R, tl, i, pairs, exact, k)
      BY <2>1, <3>1
    <3>. QED  BY <3>2 DEF IsPaired
  <2>4. \A l \in 1 .. k : l = k \/ l \in 1 .. (k - 1)
    BY <1>0
  <2>5. R \union {PairCore(tl, i, pairs, exact, k)} \subseteq S \union PairCores(tl, i, pairs, exact, k)
    <3>1. 1 .. (k - 1) \subseteq 1 .. k /\ k \in 1 .. k
      BY <1>0
    <3>. QED  BY <3>1 DEF R, PairCores
  <2>6. t.relations \in RelationsIn(S \union PairCores(tl, i, pairs, exact, k))
    BY <2>3, <2>5, RelationsMonotone
  <2>7. pairs[k][1] # NoOccurrence /\ pairs[k][2] # NoOccurrence
    BY DEF ArePairs
  <2>8. \A l \in 1 .. k : pairs[l][1] \in t.used /\ pairs[l][2] \in t.used
    BY <2>2, <2>3, <2>4
  <2>9. PairsDone(tl, i, S, start, pairs, exact, t, k)
    BY <2>2, <2>3, <2>6, <2>7, <2>8 DEF PairsDone
  <2>. QED  BY <1>0, <2>9 DEF t
<1>. HIDE DEF G
<1>8. n \in G
  <2>1. 0 .. n \subseteq G
    BY <1>0, <1>6, <1>7, InductionUpTo
  <2>. QED  BY <1>0, <2>1
<1>. QED  BY <1>5, <1>8 DEF G, PairsRun

-----------------------------------------------------------------------------
(* Same addresses, and matches. *)

\* A finite set is listed, with each of its members.
LEMMA ListedSet ==
  ASSUME NEW set, IsFiniteSet(set)
  PROVE  LET seq == SetToSeq(set) IN
         /\ Len(seq) \in Nat /\ DOMAIN seq = 1 .. Len(seq)
         /\ \A k \in 1 .. Len(seq) : seq[k] \in set
         /\ \A x \in set : \E k \in 1 .. Len(seq) : seq[k] = x
<1>. DEFINE n == Cardinality(set)
<1>1. n \in Nat /\ ExistsBijection(1 .. n, set)
  BY FS_CardinalityType
<1>2. PICK f : f \in Bijection(1 .. n, set)
  BY <1>1 DEF ExistsBijection
<1>3. f \in [1 .. n -> set] /\ IsInjective(f)
  BY <1>2 DEF Bijection, Injection, IsInjective
<1>4. SetToSeq(set) \in [1 .. n -> set] /\ IsInjective(SetToSeq(set))
  <2>1. SetToSeq(set) = CHOOSE h : h \in [1 .. n -> set] /\ IsInjective(h)
    BY DEF SetToSeq
  <2>. QED  BY <1>3, <2>1
<1>. DEFINE seq == SetToSeq(set)
<1>. HIDE DEF n, seq
<1>5. seq \in Seq(set) /\ Len(seq) = n
  BY <1>1, <1>4 DEF seq
<1>6. \A x \in set : \E k \in 1 .. n : seq[k] = x
  <2>1. seq \in Injection(1 .. n, set)
    BY <1>4 DEF seq, Injection, IsInjective
  <2>2. Cardinality(1 .. n) = Cardinality(set)
    BY <1>1, FS_Interval DEF n
  <2>3. seq \in Surjection(1 .. n, set)
    BY <2>1, <2>2, FS_Injection
  <2>. QED  BY <2>3 DEF Surjection
<1>. QED  BY <1>1, <1>4, <1>5, <1>6 DEF seq

\* Matchings of operations that have the same name.
Named(before, after) ==
  {match \in Matchings(before, after) :
     \A i \in 1 .. Len(before) : match[i] # Unmatched => before[i].name = after[match[i]].name}

\* A match with a free operation of the same name keeps to such a matching.
LEMMA MatchWithNamed ==
  ASSUME NEW before, NEW after, Len(before) \in Nat, Len(after) \in Nat,
         NEW match \in Named(before, after), NEW i \in 1 .. Len(before),
         NEW some \in SUBSET Free(after, match),
         \A j \in some : before[i].name = after[j].name
  PROVE  MatchWith(match, i, some) \in Named(before, after)
<1>. DEFINE new == MatchWith(match, i, some)
            j   == IF some = {} THEN Unmatched ELSE Min(some)
<1>1. match \in Matchings(before, after)
  BY DEF Named
<1>2. new \in Matchings(before, after)
  BY <1>1, MatchWithKeeps
<1>3. j # Unmatched => j \in some
  <2>1. some \in SUBSET Nat
    BY DEF Free
  <2>. QED  BY <2>1, MinIsMember
<1>4. new = [match EXCEPT ![i] = j]
  BY DEF MatchWith
<1>. HIDE DEF new, j
<1>5. ASSUME NEW k \in 1 .. Len(before), new[k] # Unmatched
      PROVE  before[k].name = after[new[k]].name
  <2>1. new[k] = IF k = i THEN j ELSE match[k]
    BY <1>1, <1>4 DEF Matchings
  <2>2. CASE k = i
    BY <1>3, <1>5, <2>1, <2>2
  <2>3. CASE k # i
    BY <1>5, <2>1, <2>3 DEF Named
  <2>. QED  BY <2>2, <2>3
<1>. QED  BY <1>2, <1>5 DEF Named, new

\* The matching of two snapshots is one.
LEMMA MatchOpsNamed ==
  ASSUME NEW before, NEW after, Len(before) \in Nat, Len(after) \in Nat
  PROVE  MatchOps(before, after) \in Named(before, after)
<1>. DEFINE T == Named(before, after)
<1>1. [i \in 1 .. Len(before) |-> Unmatched] \in T
  BY DEF Named, Matchings, Unmatched
<1>2. ASSUME NEW t \in T, NEW i \in 1 .. Len(before)
      PROVE  MatchEqual(before, after, t, i) \in T
  <2>. DEFINE some == {j \in Free(after, t) : Fingerprint(after[j]) = Fingerprint(before[i])}
  <2>1. \A j \in some : before[i].name = after[j].name
    <3>1. \A op : Fingerprint(op).name = op.name
      BY DEF Fingerprint
    <3>2. \A j \in some : Fingerprint(after[j]).name = Fingerprint(before[i]).name
      OBVIOUS
    <3>. QED  BY <3>1, <3>2
  <2>2. some \in SUBSET Free(after, t)
    OBVIOUS
  <2>3. MatchEqual(before, after, t, i) = MatchWith(t, i, some)
    BY DEF MatchEqual
  <2>. HIDE DEF some
  <2>. QED  BY <2>1, <2>2, <2>3, MatchWithNamed
<1>3. ASSUME NEW t \in T, NEW i \in 1 .. Len(before)
      PROVE  MatchBest(before, after, t, i) \in T
  <2>. DEFINE scores == Scores(before[i], after, Free(after, t))
              some   == Best(scores)
  <2>1. \A j \in some : before[i].name = after[j].name
    <3>1. SUFFICES ASSUME NEW j \in some PROVE before[i].name = after[j].name
      OBVIOUS
    <3>2. j \in Free(after, t) /\ scores[j] >= MatchThreshold
      BY DEF Best, Scores
    <3>3. scores[j] = FingerprintScore(Fingerprint(before[i]), Fingerprint(after[j]))
      BY <3>2 DEF Scores
    <3>4. FingerprintScore(Fingerprint(before[i]), Fingerprint(after[j])) # NoScore
      BY <3>2, <3>3 DEF MatchThreshold, NoScore
    <3>5. Fingerprint(before[i]).name = before[i].name /\ Fingerprint(after[j]).name = after[j].name
      BY DEF Fingerprint
    <3>. QED  BY <3>4, <3>5 DEF FingerprintScore
  <2>2. some \in SUBSET Free(after, t)
    BY DEF Best, Scores
  <2>3. MatchBest(before, after, t, i) = t
          \/ MatchBest(before, after, t, i) = MatchWith(t, i, some)
    BY DEF MatchBest
  <2>. HIDE DEF some
  <2>. QED  BY <2>1, <2>2, <2>3, MatchWithNamed
<1>. HIDE DEF T
<1>4. PICK f : FirstPassRun(f, T, before, after)
  BY <1>1, <1>2, FirstPassSteps
<1>5. FirstPass(before, after) \in T
  BY <1>4 DEF FirstPassRun
<1>6. PICK g : MatchOpsRun(g, T, before, after)
  BY <1>3, <1>5, MatchOpsSteps
<1>7. MatchOps(before, after) \in T
  BY <1>6 DEF MatchOpsRun
<1>. QED  BY <1>7 DEF T

\* A function on the numbers up to n is a sequence.
LEMMA LenIs ==
  ASSUME NEW n \in Nat, NEW S, NEW f \in [1 .. n -> S]
  PROVE  f \in Seq(S) /\ Len(f) = n /\ DOMAIN f = 1 .. n
OBVIOUS

\* A list of numbers up to n, each once.
Lists(seq, n) ==
  /\ Len(seq) \in Nat /\ DOMAIN seq = 1 .. Len(seq)
  /\ \A k \in 1 .. Len(seq) : seq[k] \in 1 .. n
  /\ \A k, l \in 1 .. Len(seq) : seq[k] = seq[l] => k = l

\* A set of numbers, in order, has each of them once.
LEMMA AscendingIsList ==
  ASSUME NEW set, NEW n \in Nat
  PROVE  /\ Lists(Ascending(set, n), n)
         /\ \A k \in 1 .. Len(Ascending(set, n)) : Ascending(set, n)[k] \in set
<1>. DEFINE seq == Ascending(set, n)
<1>1. ListsUpTo(seq, set, n)
  BY AscendingLists
<1>. HIDE DEF seq
<1>2. /\ seq \in Seq(Nat)
      /\ \A k \in 1 .. Len(seq) : seq[k] \in set /\ seq[k] \in 1 .. n
      /\ \A k, l \in 1 .. Len(seq) : k < l => seq[k] < seq[l]
  BY <1>1 DEF ListsUpTo
<1>3. Len(seq) \in Nat /\ DOMAIN seq = 1 .. Len(seq)
  BY <1>2
<1>4. ASSUME NEW k \in 1 .. Len(seq), NEW l \in 1 .. Len(seq), seq[k] = seq[l]
      PROVE  k = l
  <2>1. k \in Nat /\ l \in Nat /\ seq[k] \in Nat
    BY <1>2, <1>3
  <2>2. ~(seq[k] < seq[l]) /\ ~(seq[l] < seq[k])
    BY <1>4, <2>1
  <2>3. ~(k < l) /\ ~(l < k)
    BY <1>2, <2>2
  <2>. QED  BY <2>1, <2>3
<1>. QED  BY <1>2, <1>3, <1>4 DEF Lists, seq

\* So do the numbers up to n.
LEMMA UpToIsList ==
  ASSUME NEW n \in Nat
  PROVE  Lists(UpTo(n), n)
<1>1. UpTo(n) \in [1 .. n -> Nat]
  BY DEF UpTo
<1>2. Len(UpTo(n)) = n /\ DOMAIN UpTo(n) = 1 .. n
  BY <1>1, LenIs
<1>. QED  BY <1>2 DEF Lists, UpTo

-----------------------------------------------------------------------------
(* The pairs that are linked. *)

\* No end of a pair is an end of another.
Disjoint(pairs) ==
  \A k, l \in 1 .. Len(pairs) : (pairs[k][1] = pairs[l][1] \/ pairs[k][2] = pairs[l][2]) => k = l

\* Pairs of listed operations of two snapshots that have the same name.
Matches(tl, m, some, n, others, pairs) ==
  /\ Len(pairs) \in Nat /\ DOMAIN pairs = 1 .. Len(pairs)
  /\ Disjoint(pairs)
  /\ \A k \in 1 .. Len(pairs) : \E x \in 1 .. Len(some), y \in 1 .. Len(others) :
       /\ pairs[k] = <<Occurrence(m, some[x]), Occurrence(n, others[y])>>
       /\ SnapshotAt(tl, m).ops[some[x]].name = SnapshotAt(tl, n).ops[others[y]].name

\* Operations that are matched have one name, and none is matched twice.
LEMMA MatchedAre ==
  ASSUME NEW tl, NEW m, NEW n,
         NEW some, Lists(some, Len(SnapshotAt(tl, m).ops)),
         NEW others, Lists(others, Len(SnapshotAt(tl, n).ops))
  PROVE  Matches(tl, m, some, n, others, MatchedPairs(tl, m, some, n, others))
<1>. DEFINE opsM  == SnapshotAt(tl, m).ops
            opsN  == SnapshotAt(tl, n).ops
            b     == Chosen(opsM, some)
            a     == Chosen(opsN, others)
            match == MatchOps(b, a)
            set   == {k \in DOMAIN some : match[k] # Unmatched}
            found == Ascending(set, Len(some))
            pairs == [k \in DOMAIN found |-> <<Occurrence(m, some[found[k]]),
                                               Occurrence(n, others[match[found[k]]])>>]
<1>0. /\ Len(some) \in Nat /\ DOMAIN some = 1 .. Len(some)
      /\ Len(others) \in Nat /\ DOMAIN others = 1 .. Len(others)
  BY DEF Lists
<1>1. MatchedPairs(tl, m, some, n, others) = pairs
  BY DEF MatchedPairs, Pairs
<1>2. /\ Len(b) = Len(some) /\ \A k \in 1 .. Len(some) : b[k] = opsM[some[k]]
      /\ Len(a) = Len(others) /\ \A k \in 1 .. Len(others) : a[k] = opsN[others[k]]
  <2>. DEFINE B == {opsM[some[k]] : k \in 1 .. Len(some)}
              A == {opsN[others[k]] : k \in 1 .. Len(others)}
  <2>1. b \in [1 .. Len(some) -> B] /\ a \in [1 .. Len(others) -> A]
    BY <1>0 DEF Chosen
  <2>. HIDE DEF A, B
  <2>2. Len(b) = Len(some) /\ Len(a) = Len(others)
    BY <1>0, <2>1, LenIs
  <2>. QED  BY <1>0, <2>2 DEF Chosen
<1>. HIDE DEF b, a
<1>3. match \in Named(b, a)
  BY <1>0, <1>2, MatchOpsNamed
<1>. HIDE DEF match
<1>4. /\ match \in [1 .. Len(some) -> 0 .. Len(others)]
      /\ \A i, j \in 1 .. Len(some) : (match[i] = match[j] /\ match[i] # Unmatched) => i = j
      /\ \A i \in 1 .. Len(some) : match[i] # Unmatched => b[i].name = a[match[i]].name
  BY <1>2, <1>3 DEF Named, Matchings
<1>5. /\ Lists(found, Len(some)) /\ \A k \in 1 .. Len(found) : found[k] \in set
  BY <1>0, AscendingIsList
<1>. HIDE DEF found
<1>6. /\ Len(found) \in Nat /\ DOMAIN found = 1 .. Len(found)
      /\ \A k, l \in 1 .. Len(found) : found[k] = found[l] => k = l
  BY <1>5 DEF Lists
<1>7. ASSUME NEW k \in 1 .. Len(found)
      PROVE  /\ found[k] \in 1 .. Len(some) /\ match[found[k]] \in 1 .. Len(others)
             /\ match[found[k]] # Unmatched
  <2>1. found[k] \in set
    BY <1>5
  <2>2. found[k] \in 1 .. Len(some) /\ match[found[k]] # Unmatched
    BY <1>0, <2>1
  <2>. QED  BY <1>0, <1>4, <2>2 DEF Unmatched
<1>8. Len(pairs) = Len(found) /\ DOMAIN pairs = 1 .. Len(found)
  <2>. DEFINE P == {pairs[k] : k \in 1 .. Len(found)}
  <2>1. pairs \in [1 .. Len(found) -> P]
    BY <1>6
  <2>. HIDE DEF P, pairs
  <2>. QED  BY <1>6, <2>1, LenIs
<1>9. \A k \in 1 .. Len(found) :
         pairs[k] = <<Occurrence(m, some[found[k]]), Occurrence(n, others[match[found[k]]])>>
  BY <1>6
<1>. HIDE DEF pairs
<1>10. ASSUME NEW k \in 1 .. Len(pairs), NEW l \in 1 .. Len(pairs),
              pairs[k][1] = pairs[l][1] \/ pairs[k][2] = pairs[l][2]
       PROVE  k = l
  <2>1. k \in 1 .. Len(found) /\ l \in 1 .. Len(found)
    BY <1>8
  <2>2. /\ pairs[k][1] = Occurrence(m, some[found[k]]) /\ pairs[l][1] = Occurrence(m, some[found[l]])
        /\ pairs[k][2] = Occurrence(n, others[match[found[k]]])
        /\ pairs[l][2] = Occurrence(n, others[match[found[l]]])
    BY <1>9, <2>1
  <2>3. some[found[k]] = some[found[l]] \/ others[match[found[k]]] = others[match[found[l]]]
    BY <1>10, <2>2, OccurrenceTyped
  <2>4. found[k] = found[l] \/ match[found[k]] = match[found[l]]
    BY <1>7, <2>1, <2>3 DEF Lists
  <2>5. found[k] = found[l]
    BY <1>4, <1>7, <2>1, <2>4
  <2>. QED  BY <1>6, <2>1, <2>5
<1>11. ASSUME NEW k \in 1 .. Len(pairs)
       PROVE  \E x \in 1 .. Len(some), y \in 1 .. Len(others) :
                /\ pairs[k] = <<Occurrence(m, some[x]), Occurrence(n, others[y])>>
                /\ opsM[some[x]].name = opsN[others[y]].name
  <2>1. k \in 1 .. Len(found)
    BY <1>8
  <2>2. b[found[k]].name = a[match[found[k]]].name
    BY <1>4, <1>7, <2>1
  <2>3. b[found[k]] = opsM[some[found[k]]] /\ a[match[found[k]]] = opsN[others[match[found[k]]]]
    BY <1>2, <1>7, <2>1
  <2>. QED  BY <1>7, <1>9, <2>1, <2>2, <2>3
<1>. HIDE DEF opsM, opsN
<1>12. Len(pairs) \in Nat /\ DOMAIN pairs = 1 .. Len(pairs)
  BY <1>6, <1>8
<1>. QED  BY <1>1, <1>10, <1>11, <1>12 DEF Matches, Disjoint, opsM, opsN

-----------------------------------------------------------------------------
(* What relates a stage. *)

\* No event of the stage is at an address.
Silent(tl, i, a) == \A l \in 1 .. Len(tl[i].events) : tl[i].events[l].address # a

\* The ends of c are at one address of which no event speaks.
AddressCore(tl, i, c) ==
  /\ c.exact /\ tl[i].before # Missing /\ tl[i].after # Missing
  /\ c.change = Changed(OperationOf(tl, c.from), OperationOf(tl, c.to))
  /\ \E a \in DOMAIN tl[i].before.tokens \intersect DOMAIN tl[i].after.tokens :
       /\ c.from = NodeForToken(tl, Before(i), a) /\ c.to = NodeForToken(tl, After(i), a)
       /\ OperationOf(tl, c.from).name = OperationOf(tl, c.to).name
       /\ Silent(tl, i, a)

\* The ends of c have the same name, and nothing else in C has either of them.
MatchCore(tl, i, C, c) ==
  /\ ~c.exact /\ c.from \in OccurrencesAt(tl, Before(i)) /\ c.to \in OccurrencesAt(tl, After(i))
  /\ OperationOf(tl, c.from).name = OperationOf(tl, c.to).name
  /\ \A d \in C \ {c} : d.from # c.from /\ d.to # c.to

\* What the cores of a stage are.
StageCores(tl, i, C) ==
  \A c \in C :
    /\ c \in Rel /\ c.stage = i /\ c.step
    /\ \/ \E l \in 1 .. Len(tl[i].events) : EventCore(tl, i, l, c)
       \/ AddressCore(tl, i, c)
       \/ MatchCore(tl, i, C, c)

\* The pairs of addresses: no event speaks of them, and their operations have one name.
IsAddressPair(tl, i, pair) ==
  \E a \in DOMAIN tl[i].before.tokens \intersect DOMAIN tl[i].after.tokens :
    /\ pair[1] = NodeForToken(tl, Before(i), a) /\ pair[2] = NodeForToken(tl, After(i), a)
    /\ OperationOf(tl, pair[1]).name = OperationOf(tl, pair[2]).name
    /\ Silent(tl, i, a)

\* Every address has its pair.
HasAddressPairs(tl, i, addresses, pairs) ==
  \A a \in addresses : \E k \in 1 .. Len(pairs) :
    /\ pairs[k][1] = NodeForToken(tl, Before(i), a)
    /\ pairs[k][2] = NodeForToken(tl, After(i), a)

\* The pairs of addresses are of operations that no event has used, and all are there.
LEMMA AddressPairsAre ==
  ASSUME NEW tl, IsTimeline(tl), NEW i \in 1 .. Len(tl), NEW S, NEW s,
         EventsDone(tl, i, S, s, Len(tl[i].events)),
         tl[i].before # Missing, tl[i].after # Missing
  PROVE  LET pairs == AddressPairs(tl, i, SameAddress(tl, i, s)) IN
         /\ ArePairs(pairs)
         /\ \A k \in 1 .. Len(pairs) : IsAddressPair(tl, i, pairs[k])
         /\ HasAddressPairs(tl, i, SameAddress(tl, i, s), pairs)
<1>. DEFINE addresses == SameAddress(tl, i, s)
            some  == SetToSeq(addresses)
            pairs == AddressPairs(tl, i, addresses)
            both  == DOMAIN tl[i].before.tokens \intersect DOMAIN tl[i].after.tokens
            left(a)  == NodeForToken(tl, Before(i), a)
            right(a) == NodeForToken(tl, After(i), a)
<1>1. /\ IsSnapshot(tl[i].before) /\ IsSnapshot(tl[i].after)
      /\ Len(tl[i].events) \in Nat
      /\ \A k \in 1 .. Len(tl[i].events) : tl[i].events[k].kind \in EventKinds
  BY DEF IsTimeline, IsStage
<1>2. /\ Before(i) \in 1 .. 2 * Len(tl) /\ SnapshotAt(tl, Before(i)) = tl[i].before
      /\ After(i) \in 1 .. 2 * Len(tl) /\ SnapshotAt(tl, After(i)) = tl[i].after
  BY SidesAre
<1>3. ASSUME NEW a \in both
      PROVE  left(a) \in Occ /\ left(a) # NoOccurrence /\ right(a) \in Occ /\ right(a) # NoOccurrence
  BY <1>1, <1>2, NodesAre
<1>4. ASSUME NEW a \in addresses
      PROVE  /\ a \in both
             /\ OperationOf(tl, left(a)).name = OperationOf(tl, right(a)).name
             /\ left(a) \notin s.used /\ right(a) \notin s.inserted
  BY DEF SameAddress
<1>5. IsFiniteSet(addresses)
  <2>1. IsFiniteSet(DOMAIN tl[i].before.tokens)
    BY <1>1 DEF IsSnapshot
  <2>2. addresses \subseteq DOMAIN tl[i].before.tokens
    BY DEF SameAddress
  <2>. HIDE DEF addresses
  <2>. QED  BY <2>1, <2>2, FS_Subset
<1>. HIDE DEF addresses
<1>6. /\ Len(some) \in Nat /\ DOMAIN some = 1 .. Len(some)
      /\ \A k \in 1 .. Len(some) : some[k] \in addresses
      /\ \A a \in addresses : \E k \in 1 .. Len(some) : some[k] = a
  BY <1>5, ListedSet
<1>7. pairs = [k \in DOMAIN some |-> <<left(some[k]), right(some[k])>>]
  BY DEF AddressPairs
<1>. HIDE DEF some, pairs
<1>8. Len(pairs) = Len(some) /\ \A k \in 1 .. Len(some) : pairs[k] = <<left(some[k]), right(some[k])>>
  <2>. DEFINE P == {pairs[k] : k \in 1 .. Len(some)}
  <2>1. pairs \in [1 .. Len(some) -> P]
    BY <1>6, <1>7
  <2>. HIDE DEF P
  <2>. QED  BY <1>6, <1>7, <2>1, LenIs
<1>9. ASSUME NEW a \in addresses
      PROVE  Silent(tl, i, a)
  <2>. SUFFICES ASSUME NEW l \in 1 .. Len(tl[i].events), tl[i].events[l].address = a
                PROVE  FALSE
    BY DEF Silent
  <2>. DEFINE kind == tl[i].events[l].kind
  <2>1. FromOf(tl, i, l) = left(a) /\ ToOf(tl, i, l) = right(a)
    BY DEF FromOf, ToOf
  <2>2. /\ kind \in {"replaced", "erased"} => left(a) \in s.used \union {NoOccurrence}
        /\ kind = "modified" => left(a) \in s.used \/ NoOccurrence \in {left(a), right(a)}
        /\ kind = "inserted" => right(a) \in s.inserted \union {NoOccurrence}
    BY <2>1 DEF EventsDone
  <2>3. kind \in EventKinds
    BY <1>1
  <2>4. left(a) # NoOccurrence /\ right(a) # NoOccurrence
    BY <1>3, <1>4
  <2>. HIDE DEF left, right, kind
  <2>. QED  BY <1>4, <2>2, <2>3, <2>4 DEF EventKinds
<1>10. ASSUME NEW k \in 1 .. Len(pairs)
       PROVE  /\ \A x \in {1, 2} : pairs[k][x] \in Occ /\ pairs[k][x] # NoOccurrence
              /\ IsAddressPair(tl, i, pairs[k])
  <2>. DEFINE a == some[k]
  <2>1. a \in addresses
    BY <1>6, <1>8
  <2>2. pairs[k][1] = left(a) /\ pairs[k][2] = right(a)
    BY <1>8
  <2>3. a \in both /\ Silent(tl, i, a) /\ OperationOf(tl, left(a)).name = OperationOf(tl, right(a)).name
    BY <1>4, <1>9, <2>1
  <2>. HIDE DEF a
  <2>4. IsAddressPair(tl, i, pairs[k])
    BY <2>2, <2>3 DEF IsAddressPair
  <2>. HIDE DEF left, right
  <2>. QED  BY <1>3, <2>2, <2>3, <2>4
<1>11. HasAddressPairs(tl, i, addresses, pairs)
  <2>1. \A a \in addresses : \E k \in 1 .. Len(pairs) : pairs[k][1] = left(a) /\ pairs[k][2] = right(a)
    BY <1>6, <1>8
  <2>. QED  BY <2>1 DEF HasAddressPairs
<1>. QED  BY <1>6, <1>8, <1>10, <1>11 DEF pairs, addresses, ArePairs

\* The pairs of matches: their operations have one name and are unused, and their ends
\* are their own.
IsMatchPair(tl, i, used, pair) ==
  /\ pair[1] \in OccurrencesAt(tl, Before(i)) /\ pair[2] \in OccurrencesAt(tl, After(i))
  /\ pair[1] \notin used /\ pair[2] \notin used
  /\ OperationOf(tl, pair[1]).name = OperationOf(tl, pair[2]).name

\* What is unused is listed once.
LEMMA UnusedAre ==
  ASSUME NEW tl, NEW n, Len(SnapshotAt(tl, n).ops) \in Nat, NEW used
  PROVE  /\ Lists(Unused(tl, n, used), Len(SnapshotAt(tl, n).ops))
         /\ \A k \in 1 .. Len(Unused(tl, n, used)) : Occurrence(n, Unused(tl, n, used)[k]) \notin used
<1>. DEFINE ops == SnapshotAt(tl, n).ops
            set == {k \in DOMAIN ops : Occurrence(n, k) \notin used}
<1>1. Unused(tl, n, used) = Ascending(set, Len(ops))
  BY DEF Unused
<1>2. /\ Lists(Ascending(set, Len(ops)), Len(ops))
      /\ \A k \in 1 .. Len(Ascending(set, Len(ops))) : Ascending(set, Len(ops))[k] \in set
  BY AscendingIsList
<1>. QED  BY <1>1, <1>2

\* The pairs that are matched have no end that was used, and share none.
LEMMA MatchPairsAre ==
  ASSUME NEW tl, IsTimeline(tl), NEW i \in 1 .. Len(tl), NEW used,
         tl[i].before # Missing, tl[i].after # Missing
  PROVE  LET pairs == MatchedPairs(tl, Before(i), Unused(tl, Before(i), used),
                                   After(i), Unused(tl, After(i), used))
         IN /\ ArePairs(pairs) /\ Disjoint(pairs)
            /\ \A k \in 1 .. Len(pairs) : IsMatchPair(tl, i, used, pairs[k])
<1>. DEFINE m == Before(i)
            n == After(i)
            some   == Unused(tl, m, used)
            others == Unused(tl, n, used)
            pairs  == MatchedPairs(tl, m, some, n, others)
<1>1. IsSnapshot(tl[i].before) /\ IsSnapshot(tl[i].after)
  BY DEF IsTimeline, IsStage
<1>2. /\ m \in 1 .. 2 * Len(tl) /\ SnapshotAt(tl, m) = tl[i].before
      /\ n \in 1 .. 2 * Len(tl) /\ SnapshotAt(tl, n) = tl[i].after
  BY SidesAre
<1>3. /\ Len(SnapshotAt(tl, m).ops) \in Nat /\ DOMAIN SnapshotAt(tl, m).ops = 1 .. Len(SnapshotAt(tl, m).ops)
      /\ Len(SnapshotAt(tl, n).ops) \in Nat /\ DOMAIN SnapshotAt(tl, n).ops = 1 .. Len(SnapshotAt(tl, n).ops)
  BY <1>1, <1>2 DEF IsSnapshot
<1>. HIDE DEF m, n
<1>4. /\ Lists(some, Len(SnapshotAt(tl, m).ops)) /\ Lists(others, Len(SnapshotAt(tl, n).ops))
      /\ \A k \in 1 .. Len(some) : Occurrence(m, some[k]) \notin used
      /\ \A k \in 1 .. Len(others) : Occurrence(n, others[k]) \notin used
  BY <1>3, UnusedAre
<1>. HIDE DEF some, others
<1>5. Matches(tl, m, some, n, others, pairs)
  BY <1>4, MatchedAre
<1>. HIDE DEF pairs
<1>6. ASSUME NEW k \in 1 .. Len(pairs)
      PROVE  /\ \A x \in {1, 2} : pairs[k][x] \in Occ /\ pairs[k][x] # NoOccurrence
             /\ IsMatchPair(tl, i, used, pairs[k])
  <2>1. PICK x \in 1 .. Len(some), y \in 1 .. Len(others) :
           /\ pairs[k] = <<Occurrence(m, some[x]), Occurrence(n, others[y])>>
           /\ SnapshotAt(tl, m).ops[some[x]].name = SnapshotAt(tl, n).ops[others[y]].name
    BY <1>5 DEF Matches
  <2>. DEFINE o == Occurrence(m, some[x])
              p == Occurrence(n, others[y])
  <2>2. pairs[k][1] = o /\ pairs[k][2] = p /\ o \notin used /\ p \notin used
    BY <1>4, <2>1
  <2>3. /\ some[x] \in Nat /\ some[x] \in DOMAIN SnapshotAt(tl, m).ops
        /\ others[y] \in Nat /\ others[y] \in DOMAIN SnapshotAt(tl, n).ops
    BY <1>3, <1>4 DEF Lists
  <2>4. m \in Nat /\ n \in Nat /\ m # 0 /\ n # 0
    BY <1>2 DEF IsTimeline
  <2>5. /\ o \in Occ /\ p \in Occ /\ o # NoOccurrence /\ p # NoOccurrence
        /\ o.snapshot = m /\ o.ordinal = some[x] /\ p.snapshot = n /\ p.ordinal = others[y]
    BY <2>3, <2>4, OccurrenceTyped
  <2>. HIDE DEF o, p
  <2>6. o \in OccurrencesAt(tl, m) /\ p \in OccurrencesAt(tl, n)
    BY <1>2, <2>3, <2>5 DEF OccurrencesAt
  <2>7. OperationOf(tl, o).name = OperationOf(tl, p).name
    BY <2>1, <2>5 DEF OperationOf
  <2>8. IsMatchPair(tl, i, used, pairs[k])
    BY <2>2, <2>6, <2>7 DEF IsMatchPair, m, n
  <2>. QED  BY <2>2, <2>5, <2>8
<1>7. ArePairs(pairs) /\ Disjoint(pairs)
  BY <1>5, <1>6 DEF Matches, ArePairs
<1>. QED  BY <1>6, <1>7 DEF pairs, some, others, m, n

\* A stage adds relations whose cores are those of the stage.
LEMMA RelateStageIs ==
  ASSUME NEW tl, IsTimeline(tl), NEW i \in 1 .. Len(tl), NEW S,
         \A c \in S : c.step => c.stage # i,
         NEW relations \in RelationsIn(S)
  PROVE  \E C : /\ StageCores(tl, i, C)
                /\ RelateStage(tl, relations, i) \in RelationsIn(S \union C)
<1>. DEFINE n  == Len(tl[i].events)
            E  == EventCores(tl, i, n)
            s0 == ApplyEvents(tl, i, Fresh(relations))
            result == RelateStage(tl, relations, i)
<1>0. n \in Nat /\ i \in Nat
  BY DEF IsTimeline, IsStage
<1>1. EventsDone(tl, i, S, s0, n)
  <2>1. AllExact(S, i)
    BY DEF AllExact
  <2>. QED  BY <2>1, EventsAre
<1>2. result = IF Missing \in {tl[i].before, tl[i].after} THEN s0.relations
               ELSE LinkMatches(tl, i, LinkSameAddress(tl, i, s0)).relations
  BY DEF RelateStage, Fresh
<1>. HIDE DEF s0, result
<1>3. /\ s0 \in StageStates /\ s0.relations \in RelationsIn(S \union E)
      /\ \A c \in E : {c.from, c.to} \subseteq s0.used \union {NoOccurrence}
      /\ NoOccurrence \notin s0.used
  BY <1>1 DEF EventsDone
<1>4. \A c \in E : c \in Rel /\ c.stage = i /\ c.step /\ \E l \in 1 .. n : EventCore(tl, i, l, c)
  BY DEF EventCores, EventCore
<1>. HIDE DEF E
<1>5. CASE Missing \in {tl[i].before, tl[i].after}
  <2>1. StageCores(tl, i, E)
    BY <1>4 DEF StageCores
  <2>. QED  BY <1>2, <1>3, <1>5, <2>1 DEF result
<1>6. CASE Missing \notin {tl[i].before, tl[i].after}
  <2>. DEFINE P1 == AddressPairs(tl, i, SameAddress(tl, i, s0))
              s1 == LinkPairs(tl, i, s0, P1, TRUE)
              A  == PairCores(tl, i, P1, TRUE, Len(P1))
              P2 == MatchedPairs(tl, Before(i), Unused(tl, Before(i), s1.used),
                                 After(i), Unused(tl, After(i), s1.used))
              s2 == LinkPairs(tl, i, s1, P2, FALSE)
              M  == PairCores(tl, i, P2, FALSE, Len(P2))
              SE == S \union E
              SA == SE \union A
              C  == E \union A \union M
  <2>1. result = s2.relations
    BY <1>2, <1>6 DEF LinkSameAddress, LinkMatches
  <2>2. ArePairs(P1) /\ \A k \in 1 .. Len(P1) : IsAddressPair(tl, i, P1[k])
    BY <1>1, <1>6, AddressPairsAre
  <2>. HIDE DEF P1
  <2>3. PairsDone(tl, i, SE, s0, P1, TRUE, s1, Len(P1))
    BY <1>0, <1>3, <2>2, PairsAre
  <2>. HIDE DEF s1
  <2>4. /\ s1 \in StageStates /\ s1.relations \in RelationsIn(SA)
        /\ s0.used \subseteq s1.used /\ NoOccurrence \notin s1.used
        /\ \A l \in 1 .. Len(P1) : P1[l][1] \in s1.used /\ P1[l][2] \in s1.used
    BY <2>3 DEF PairsDone
  <2>5. /\ ArePairs(P2) /\ Disjoint(P2)
        /\ \A k \in 1 .. Len(P2) : IsMatchPair(tl, i, s1.used, P2[k])
    BY <1>6, MatchPairsAre
  <2>. HIDE DEF P2
  <2>. HIDE DEF SA
  <2>6. PairsDone(tl, i, SA, s1, P2, FALSE, s2, Len(P2))
    BY <1>0, <2>4, <2>5, PairsAre
  <2>. HIDE DEF s2
  <2>7. s2.relations \in RelationsIn(SA \union M)
    BY <2>6 DEF PairsDone
  <2>8. SA \union M = S \union C
    BY DEF SA
  <2>9. ASSUME NEW c \in A
        PROVE  /\ c \in Rel /\ c.stage = i /\ c.step = TRUE /\ AddressCore(tl, i, c)
               /\ c.from \in s1.used /\ c.to \in s1.used
    <3>1. PICK k \in 1 .. Len(P1) : c = PairCore(tl, i, P1, TRUE, k)
      BY DEF PairCores
    <3>2. IsCore(c, i, P1[k][1], P1[k][2], TRUE)
      BY <1>0, <2>2, <3>1, PairCoreIs
    <3>3. IsAddressPair(tl, i, P1[k])
      BY <2>2
    <3>a. c.change = Changed(OperationOf(tl, c.from), OperationOf(tl, c.to))
      BY <3>1, <3>2 DEF PairCore, Relation, IsCore
    <3>4. AddressCore(tl, i, c)
      BY <1>6, <3>2, <3>3, <3>a DEF AddressCore, IsAddressPair, IsCore
    <3>. QED  BY <2>4, <3>2, <3>4 DEF IsCore
  <2>10. ASSUME NEW c \in M
         PROVE  \E k \in 1 .. Len(P2) : c = PairCore(tl, i, P2, FALSE, k) /\ IsCore(c, i, P2[k][1], P2[k][2], FALSE)
    <3>1. PICK k \in 1 .. Len(P2) : c = PairCore(tl, i, P2, FALSE, k)
      BY DEF PairCores
    <3>. QED  BY <1>0, <2>5, <3>1, PairCoreIs
  <2>11. ASSUME NEW c \in E
         PROVE  {c.from, c.to} \subseteq s1.used \union {NoOccurrence}
    BY <1>3, <2>4
  <2>. HIDE DEF A, M
  <2>12. ASSUME NEW c \in M
         PROVE  c \in Rel /\ c.stage = i /\ c.step = TRUE /\ MatchCore(tl, i, C, c)
    <3>1. PICK k \in 1 .. Len(P2) : c = PairCore(tl, i, P2, FALSE, k) /\ IsCore(c, i, P2[k][1], P2[k][2], FALSE)
      BY <2>10
    <3>2. IsMatchPair(tl, i, s1.used, P2[k])
      BY <2>5
    <3>3. c \in Rel /\ c.stage = i /\ c.step = TRUE /\ c.exact = FALSE
          /\ c.from = P2[k][1] /\ c.to = P2[k][2]
      BY <3>1 DEF IsCore
    <3>4. /\ c.from \in OccurrencesAt(tl, Before(i)) /\ c.to \in OccurrencesAt(tl, After(i))
          /\ c.from \notin s1.used /\ c.to \notin s1.used
          /\ OperationOf(tl, c.from).name = OperationOf(tl, c.to).name
      BY <3>2, <3>3 DEF IsMatchPair
    <3>5. c.from # NoOccurrence /\ c.to # NoOccurrence
      BY <2>5, <3>3 DEF ArePairs
    <3>6. ASSUME NEW d \in C \ {c}
          PROVE  d.from # c.from /\ d.to # c.to
      <4>1. CASE d \in E
        BY <2>11, <3>4, <3>5, <4>1
      <4>2. CASE d \in A
        BY <2>9, <3>4, <4>2
      <4>3. CASE d \in M
        <5>1. PICK l \in 1 .. Len(P2) : d = PairCore(tl, i, P2, FALSE, l) /\ IsCore(d, i, P2[l][1], P2[l][2], FALSE)
          BY <2>10, <4>3
        <5>2. d.from = P2[l][1] /\ d.to = P2[l][2]
          BY <5>1 DEF IsCore
        <5>3. k # l
          BY <3>1, <3>6, <5>1
        <5>. QED  BY <2>5, <3>3, <5>2, <5>3 DEF Disjoint
      <4>. QED  BY <3>6, <4>1, <4>2, <4>3
    <3>. QED  BY <3>3, <3>4, <3>6 DEF MatchCore
  <2>13. StageCores(tl, i, C)
    <3>. SUFFICES ASSUME NEW c \in C
                  PROVE  /\ c \in Rel /\ c.stage = i /\ c.step
                         /\ \/ \E l \in 1 .. n : EventCore(tl, i, l, c)
                            \/ AddressCore(tl, i, c)
                            \/ MatchCore(tl, i, C, c)
      BY DEF StageCores
    <3>. QED  BY <1>4, <2>9, <2>12
  <2>14. result \in RelationsIn(S \union C)
    BY <2>1, <2>7, <2>8
  <2>. QED  BY <2>13, <2>14 DEF result
<1>. QED  BY <1>5, <1>6

-----------------------------------------------------------------------------
(* What the stages of a timeline have related. *)

\* The cores of the first k stages, stage by stage.
TimelineCores(tl, k, C) ==
  /\ \A c \in C : c.step /\ c.stage \in 1 .. k
  /\ \A j \in 1 .. k : StageCores(tl, j, {c \in C : c.stage = j})

StagesDone(tl, relations, k) ==
  \E C : TimelineCores(tl, k, C) /\ relations \in RelationsIn(C)

\* The relations of the stages up to i are done when stage i has added its own.
LEMMA StageKeeps ==
  ASSUME NEW tl, IsTimeline(tl), NEW i \in 1 .. Len(tl), NEW relations,
         StagesDone(tl, relations, i - 1)
  PROVE  StagesDone(tl, RelateStage(tl, relations, i), i)
<1>1. PICK S : TimelineCores(tl, i - 1, S) /\ relations \in RelationsIn(S)
  BY DEF StagesDone
<1>2. i \in Nat /\ i >= 1
  BY DEF IsTimeline
<1>3. \A c \in S : c.step /\ c.stage \in 1 .. (i - 1)
  BY <1>1 DEF TimelineCores
<1>4. \A c \in S : c.step => c.stage # i
  BY <1>2, <1>3
<1>5. PICK C : StageCores(tl, i, C) /\ RelateStage(tl, relations, i) \in RelationsIn(S \union C)
  BY <1>1, <1>4, RelateStageIs
<1>. DEFINE R == S \union C
<1>6. \A c \in C : c.stage = i /\ c.step
  BY <1>5 DEF StageCores
<1>7. \A c \in R : c.step /\ c.stage \in 1 .. i
  BY <1>2, <1>3, <1>6
<1>8. ASSUME NEW j \in 1 .. i
      PROVE  StageCores(tl, j, {c \in R : c.stage = j})
  <2>1. CASE j = i
    <3>1. {c \in R : c.stage = j} = C
      BY <1>2, <1>3, <1>6, <2>1
    <3>. QED  BY <1>5, <2>1, <3>1
  <2>2. CASE j # i
    <3>1. {c \in R : c.stage = j} = {c \in S : c.stage = j}
      BY <1>6, <2>2
    <3>2. j \in 1 .. (i - 1)
      BY <1>2, <2>2
    <3>. QED  BY <1>1, <3>1, <3>2 DEF TimelineCores
  <2>. QED  BY <2>1, <2>2
<1>9. TimelineCores(tl, i, R)
  BY <1>7, <1>8 DEF TimelineCores
<1>. QED  BY <1>5, <1>9 DEF StagesDone

\* What is done for fewer stages is done for more, if these add nothing.
LEMMA StagesDoneMonotone ==
  ASSUME NEW tl, NEW i \in Nat, NEW j \in Nat, i <= j, NEW relations, StagesDone(tl, relations, i)
  PROVE  StagesDone(tl, relations, j)
<1>1. PICK C : TimelineCores(tl, i, C) /\ relations \in RelationsIn(C)
  BY DEF StagesDone
<1>2. \A c \in C : c.step /\ c.stage \in 1 .. j
  BY <1>1 DEF TimelineCores
<1>3. ASSUME NEW k \in 1 .. j
      PROVE  StageCores(tl, k, {c \in C : c.stage = k})
  <2>1. CASE k \in 1 .. i
    BY <1>1, <2>1 DEF TimelineCores
  <2>2. CASE k \notin 1 .. i
    <3>1. {c \in C : c.stage = k} = {}
      BY <1>1, <2>2 DEF TimelineCores
    <3>. QED  BY <3>1 DEF StageCores
  <2>. QED  BY <2>1, <2>2
<1>4. TimelineCores(tl, j, C)
  BY <1>2, <1>3 DEF TimelineCores
<1>. QED  BY <1>1, <1>4 DEF StagesDone

\* The relations there may be when some of the stages are done.
AfterStages(tl) ==
  [k \in 0 .. Len(tl) |-> {relations \in Seq(Rel) : StagesDone(tl, relations, k)}]

\* Every stage adds relations of its own.
LEMMA StagesGo ==
  ASSUME NEW tl, IsTimeline(tl)
  PROVE  \E g : StagesRun(g, AfterStages(tl), tl)
<1>. DEFINE n == Len(tl)
            U == AfterStages(tl)
<1>0. n \in Nat
  BY DEF IsTimeline
<1>1. <<>> \in U[0]
  <2>1. TimelineCores(tl, 0, {})
    BY DEF TimelineCores
  <2>2. <<>> \in RelationsIn({})
    BY DEF RelationsIn
  <2>3. StagesDone(tl, <<>>, 0)
    BY <2>1, <2>2 DEF StagesDone
  <2>. QED  BY <1>0, <2>3 DEF AfterStages
<1>2. \A i, j \in 0 .. n : i <= j => U[i] \subseteq U[j]
  BY <1>0, StagesDoneMonotone DEF AfterStages
<1>3. ASSUME NEW i \in 1 .. n, NEW t \in U[i - 1]
      PROVE  RelateStage(tl, t, i) \in U[i]
  <2>1. i - 1 \in 0 .. n /\ i \in 0 .. n
    BY <1>0
  <2>2. StagesDone(tl, t, i - 1)
    BY <2>1 DEF AfterStages
  <2>3. StagesDone(tl, RelateStage(tl, t, i), i)
    BY <2>2, StageKeeps
  <2>4. RelateStage(tl, t, i) \in Seq(Rel)
    BY <2>3 DEF StagesDone, RelationsIn
  <2>. QED  BY <2>1, <2>3, <2>4 DEF AfterStages
<1>. HIDE DEF U
<1>4. \E g : StagesRun(g, U, tl)
  BY <1>0, <1>1, <1>2, <1>3, StagesSteps
<1>. QED  BY <1>4 DEF U

\* In the end all of them are done.
LEMMA StagesAre ==
  ASSUME NEW tl, IsTimeline(tl)
  PROVE  StagesDone(tl, RelateStages(tl), Len(tl))
<1>1. PICK g : StagesRun(g, AfterStages(tl), tl)
  BY StagesGo
<1>2. Len(tl) \in 0 .. Len(tl) /\ RelateStages(tl) \in AfterStages(tl)[Len(tl)]
  BY <1>1 DEF StagesRun, IsTimeline
<1>. QED  BY <1>2 DEF AfterStages

-----------------------------------------------------------------------------
(* The bridges between stages. *)

\* A relation between the stage before i and i, of operations of equal blobs if exact.
IsBridge(tl, r, i) ==
  /\ r \in Rel /\ ~r.step /\ i \in 1 .. Len(tl) /\ i # 1
  /\ tl[i - 1].after # Missing /\ tl[i].before # Missing
  /\ r.from \in OccurrencesAt(tl, After(i - 1)) /\ r.to \in OccurrencesAt(tl, Before(i))
  /\ r.exact => /\ tl[i - 1].after.blob = tl[i].before.blob
                /\ r.from.ordinal = r.to.ordinal

\* What the stages have related, and the bridges.
Bridged(tl, first, relations) ==
  /\ relations \in Seq(Rel)
  /\ \A k \in 1 .. Len(relations) :
       \/ relations[k] \in Range(first)
       \/ \E i \in 1 .. Len(tl) : IsBridge(tl, relations[k], i)
  /\ \A r \in Range(first) : r \in Range(relations)
  /\ More(first, relations)

\* Equal blobs have as many operations.
BlobsAgree(tl) ==
  \A i \in 1 .. Len(tl) :
    (i # 1 /\ tl[i - 1].after # Missing /\ tl[i].before # Missing
       /\ tl[i - 1].after.blob = tl[i].before.blob) =>
      Len(tl[i - 1].after.ops) = Len(tl[i].before.ops)

\* The pairs of a bridge are occurrences of the snapshots it joins.
LEMMA BridgePairsAre ==
  ASSUME NEW tl, IsTimeline(tl), BlobsAgree(tl), NEW i \in 1 .. Len(tl), i # 1,
         tl[i - 1].after # Missing, tl[i].before # Missing
  PROVE  LET pairs == BridgePairs(tl, After(i - 1), Before(i)) IN
         /\ Len(pairs) \in Nat /\ DOMAIN pairs = 1 .. Len(pairs)
         /\ \A k \in 1 .. Len(pairs) :
              /\ pairs[k][1] \in OccurrencesAt(tl, After(i - 1))
              /\ pairs[k][2] \in OccurrencesAt(tl, Before(i))
              /\ tl[i - 1].after.blob = tl[i].before.blob => pairs[k][1].ordinal = pairs[k][2].ordinal
<1>. DEFINE m == After(i - 1)
            n == Before(i)
            left  == tl[i - 1].after
            right == tl[i].before
            pairs == BridgePairs(tl, m, n)
<1>0. Len(tl) \in Nat /\ i - 1 \in 1 .. Len(tl)
  BY DEF IsTimeline
<1>1. IsSnapshot(left) /\ IsSnapshot(right)
  BY <1>0 DEF IsTimeline, IsStage
<1>2. /\ m \in 1 .. 2 * Len(tl) /\ SnapshotAt(tl, m) = left
      /\ n \in 1 .. 2 * Len(tl) /\ SnapshotAt(tl, n) = right
  BY <1>0, SidesAre
<1>3. /\ Len(left.ops) \in Nat /\ DOMAIN left.ops = 1 .. Len(left.ops)
      /\ Len(right.ops) \in Nat /\ DOMAIN right.ops = 1 .. Len(right.ops)
  BY <1>1 DEF IsSnapshot
<1>4. m \in Nat /\ n \in Nat
  BY <1>0, <1>2
<1>5. pairs = IF left.blob = right.blob
              THEN [k \in DOMAIN left.ops |-> <<Occurrence(m, k), Occurrence(n, k)>>]
              ELSE MatchedPairs(tl, m, UpTo(Len(left.ops)), n, UpTo(Len(right.ops)))
  BY <1>2 DEF BridgePairs
<1>6. ASSUME NEW x \in 1 .. Len(left.ops)
      PROVE  Occurrence(m, x) \in OccurrencesAt(tl, m) /\ Occurrence(m, x).ordinal = x
  <2>1. Occurrence(m, x) \in Occ /\ Occurrence(m, x).snapshot = m /\ Occurrence(m, x).ordinal = x
    BY <1>3, <1>4, OccurrenceTyped
  <2>. QED  BY <1>2, <1>3, <2>1 DEF OccurrencesAt
<1>7. ASSUME NEW x \in 1 .. Len(right.ops)
      PROVE  Occurrence(n, x) \in OccurrencesAt(tl, n) /\ Occurrence(n, x).ordinal = x
  <2>1. Occurrence(n, x) \in Occ /\ Occurrence(n, x).snapshot = n /\ Occurrence(n, x).ordinal = x
    BY <1>3, <1>4, OccurrenceTyped
  <2>. QED  BY <1>2, <1>3, <2>1 DEF OccurrencesAt
<1>8. left.blob = right.blob => Len(left.ops) = Len(right.ops)
  BY DEF BlobsAgree
<1>. HIDE DEF m, n, pairs
<1>9. CASE left.blob = right.blob
  <2>1. pairs = [k \in 1 .. Len(left.ops) |-> <<Occurrence(m, k), Occurrence(n, k)>>]
    BY <1>3, <1>5, <1>9
  <2>2. Len(pairs) = Len(left.ops) /\ DOMAIN pairs = 1 .. Len(left.ops)
    <3>. DEFINE P == {pairs[k] : k \in 1 .. Len(left.ops)}
    <3>1. pairs \in [1 .. Len(left.ops) -> P]
      BY <2>1
    <3>. HIDE DEF P
    <3>. QED  BY <1>3, <3>1, LenIs
  <2>3. \A k \in 1 .. Len(pairs) :
          /\ pairs[k][1] \in OccurrencesAt(tl, m) /\ pairs[k][2] \in OccurrencesAt(tl, n)
          /\ pairs[k][1].ordinal = pairs[k][2].ordinal
    BY <1>6, <1>7, <1>8, <1>9, <2>1, <2>2
  <2>. QED  BY <1>3, <2>2, <2>3 DEF m, n, pairs
<1>10. CASE left.blob # right.blob
  <2>. DEFINE some   == UpTo(Len(left.ops))
              others == UpTo(Len(right.ops))
  <2>1. Lists(some, Len(left.ops)) /\ Lists(others, Len(right.ops))
    BY <1>3, UpToIsList
  <2>. HIDE DEF some, others
  <2>2. Matches(tl, m, some, n, others, pairs)
    <3>1. Matches(tl, m, some, n, others, MatchedPairs(tl, m, some, n, others))
      BY <1>2, <2>1, MatchedAre
    <3>. QED  BY <1>5, <1>10, <3>1 DEF some, others
  <2>3. ASSUME NEW k \in 1 .. Len(pairs)
        PROVE  pairs[k][1] \in OccurrencesAt(tl, m) /\ pairs[k][2] \in OccurrencesAt(tl, n)
    <3>1. PICK x \in 1 .. Len(some), y \in 1 .. Len(others) :
             pairs[k] = <<Occurrence(m, some[x]), Occurrence(n, others[y])>>
      BY <2>2 DEF Matches
    <3>2. some[x] \in 1 .. Len(left.ops) /\ others[y] \in 1 .. Len(right.ops)
      BY <2>1 DEF Lists
    <3>3. pairs[k][1] = Occurrence(m, some[x]) /\ pairs[k][2] = Occurrence(n, others[y])
      BY <3>1
    <3>. QED  BY <1>6, <1>7, <3>2, <3>3
  <2>4. Len(pairs) \in Nat /\ DOMAIN pairs = 1 .. Len(pairs)
    BY <2>2 DEF Matches
  <2>. QED  BY <1>10, <2>3, <2>4 DEF m, n, pairs
<1>. QED  BY <1>9, <1>10

\* A bridge adds relations between the two snapshots, and keeps the others.
LEMMA BridgeKeeps ==
  ASSUME NEW tl, IsTimeline(tl), BlobsAgree(tl), NEW i \in 1 .. Len(tl),
         NEW first, NEW t, Bridged(tl, first, t)
  PROVE  Bridged(tl, first, Bridge(tl, t, i))
<1>. DEFINE left  == tl[i - 1].after
            right == tl[i].before
            pairs == BridgePairs(tl, After(i - 1), Before(i))
            more  == [k \in DOMAIN pairs |->
                        Relation(i, pairs[k][1], pairs[k][2], "unchanged", <<>>,
                                 left.blob = right.blob, FALSE)]
<1>1. CASE i = 1
  <2>1. Bridge(tl, t, i) = t
    BY <1>1 DEF Bridge
  <2>. QED  BY <2>1
<1>2. CASE i # 1 /\ Missing \in {left, right}
  <2>1. Bridge(tl, t, i) = t
    BY <1>2 DEF Bridge
  <2>. QED  BY <2>1
<1>3. CASE i # 1 /\ Missing \notin {left, right}
  <2>1. Bridge(tl, t, i) = t \o more
    BY <1>3 DEF Bridge
  <2>2. /\ Len(pairs) \in Nat /\ DOMAIN pairs = 1 .. Len(pairs)
        /\ \A k \in 1 .. Len(pairs) :
             /\ pairs[k][1] \in OccurrencesAt(tl, After(i - 1))
             /\ pairs[k][2] \in OccurrencesAt(tl, Before(i))
             /\ left.blob = right.blob => pairs[k][1].ordinal = pairs[k][2].ordinal
    BY <1>3, BridgePairsAre
  <2>. HIDE DEF pairs
  <2>3. ASSUME NEW k \in 1 .. Len(pairs)
        PROVE  more[k] \in Rel /\ IsBridge(tl, more[k], i)
    <3>. DEFINE f == pairs[k][1]
                o == pairs[k][2]
                e == left.blob = right.blob
                r == Relation(i, f, o, "unchanged", <<>>, e, FALSE)
    <3>1. more[k] = r
      BY <2>2
    <3>2. f \in OccurrencesAt(tl, After(i - 1)) /\ o \in OccurrencesAt(tl, Before(i))
          /\ (e => f.ordinal = o.ordinal)
      BY <2>2
    <3>3. i \in Nat /\ f \in Occ /\ o \in Occ /\ e \in BOOLEAN /\ "unchanged" \in ChangeKinds
          /\ <<>> \in Seq(Nat)
      BY <3>2 DEF IsTimeline, OccurrencesAt, ChangeKinds
    <3>. HIDE DEF f, o
    <3>4. r \in Rel /\ r.step = FALSE /\ r.from = f /\ r.to = o /\ r.exact = e
      BY <3>3 DEF Relation, Rel
    <3>. HIDE DEF r, more
    <3>5. IsBridge(tl, r, i)
      BY <1>3, <3>2, <3>4 DEF IsBridge
    <3>. QED  BY <3>1, <3>4, <3>5
  <2>4. more \in [1 .. Len(pairs) -> Rel]
    BY <2>2, <2>3
  <2>5. more \in Seq(Rel) /\ Len(more) = Len(pairs)
    <3>. HIDE DEF more
    <3>. QED  BY <2>2, <2>4, LenIs
  <2>. HIDE DEF more
  <2>6. t \in Seq(Rel) /\ Len(t) \in Nat
    BY DEF Bridged
  <2>. DEFINE new == t \o more
  <2>7. /\ new \in Seq(Rel) /\ Len(new) = Len(t) + Len(more)
        /\ \A k \in 1 .. Len(t) : new[k] = t[k]
        /\ \A k \in 1 .. Len(more) : new[Len(t) + k] = more[k]
    BY <2>5, <2>6
  <2>. HIDE DEF new
  <2>8. ASSUME NEW k \in 1 .. Len(new)
        PROVE  \/ new[k] \in Range(first)
               \/ \E j \in 1 .. Len(tl) : IsBridge(tl, new[k], j)
    <3>1. CASE k \in 1 .. Len(t)
      BY <2>7, <3>1 DEF Bridged
    <3>2. CASE k \notin 1 .. Len(t)
      <4>. DEFINE l == k - Len(t)
      <4>1. l \in 1 .. Len(more) /\ k = Len(t) + l
        BY <2>2, <2>5, <2>6, <2>7, <3>2
      <4>. HIDE DEF l
      <4>2. new[k] = more[l]
        BY <2>7, <4>1
      <4>. QED  BY <2>3, <2>5, <4>1, <4>2
    <3>. QED  BY <3>1, <3>2
  <2>9. ASSUME NEW r \in Range(first)
        PROVE  r \in Range(new)
    <3>1. r \in Range(t)
      BY DEF Bridged
    <3>2. PICK k \in 1 .. Len(t) : r = t[k]
      BY <2>6, <3>1 DEF Range
    <3>3. k \in DOMAIN new /\ new[k] = r
      BY <2>2, <2>5, <2>6, <2>7, <3>2
    <3>. QED  BY <3>3 DEF Range
  <2>10. More(t, new)
    <3>1. ASSUME NEW k \in 1 .. Len(new), new[k].step
          PROVE  k \in 1 .. Len(t) /\ new[k] = t[k]
      <4>1. CASE k \in 1 .. Len(t)
        BY <2>7, <4>1
      <4>2. CASE k \notin 1 .. Len(t)
        <5>. DEFINE l == k - Len(t)
        <5>1. l \in 1 .. Len(more) /\ k = Len(t) + l
          BY <2>2, <2>5, <2>6, <2>7, <4>2
        <5>. HIDE DEF l
        <5>2. new[k] = more[l] /\ ~more[l].step
          BY <2>3, <2>5, <2>7, <5>1 DEF IsBridge
        <5>. QED  BY <3>1, <5>2
      <4>. QED  BY <4>1, <4>2
    <3>2. \A k \in 1 .. Len(t) : k \in 1 .. Len(new) /\ new[k] = t[k]
      BY <2>2, <2>5, <2>6, <2>7
    <3>3. \A o, p : Has(t, o, p) => Has(new, o, p)
      BY <3>2 DEF Has
    <3>4. Unsame(t) => Unsame(new)
      BY <3>1 DEF Unsame, SameStep
    <3>. QED  BY <3>3, <3>4 DEF More
  <2>11. More(first, new)
    BY <2>10, MoreIsTransitive DEF Bridged
  <2>12. Bridged(tl, first, new)
    BY <2>7, <2>8, <2>9, <2>11 DEF Bridged
  <2>. QED  BY <2>1, <2>12 DEF new
<1>. QED  BY <1>1, <1>2, <1>3

\* The relations of a timeline: those of its stages, and the bridges.
LEMMA RelationsAre ==
  ASSUME NEW tl, IsTimeline(tl), BlobsAgree(tl)
  PROVE  StagesDone(tl, RelateStages(tl), Len(tl)) /\ Bridged(tl, RelateStages(tl), Relations(tl))
<1>. DEFINE first == RelateStages(tl)
            T == {t \in Seq(Rel) : Bridged(tl, first, t)}
<1>1. StagesDone(tl, first, Len(tl))
  BY StagesAre
<1>2. first \in T
  <2>1. first \in Seq(Rel)
    BY <1>1 DEF StagesDone, RelationsIn
  <2>2. \A k \in 1 .. Len(first) : first[k] \in Range(first)
    BY <2>1 DEF Range
  <2>. HIDE DEF first
  <2>. QED  BY <2>1, <2>2, MoreIsTransitive DEF Bridged
<1>3. ASSUME NEW t \in T, NEW i \in 1 .. Len(tl)
      PROVE  Bridge(tl, t, i) \in T
  <2>1. Bridged(tl, first, Bridge(tl, t, i))
    BY BridgeKeeps
  <2>. QED  BY <2>1 DEF Bridged
<1>. HIDE DEF T
<1>4. PICK g : BridgesRun(g, T, tl)
  BY <1>2, <1>3, BridgesSteps DEF IsTimeline
<1>5. Relations(tl) \in T
  BY <1>4 DEF BridgesRun, IsTimeline
<1>. QED  BY <1>1, <1>5 DEF T

\* The ends of a relation are occurrences of the timeline, or none.
LEMMA EndsAre ==
  ASSUME NEW tl, IsTimeline(tl), NEW i \in 1 .. Len(tl), NEW C, StageCores(tl, i, C), NEW c \in C
  PROVE  /\ c.from \in OccurrencesAt(tl, Before(i)) \union {NoOccurrence}
         /\ c.to \in OccurrencesAt(tl, After(i)) \union {NoOccurrence}
<1>. DEFINE left(a)  == NodeForToken(tl, Before(i), a)
            right(a) == NodeForToken(tl, After(i), a)
<1>1. /\ Before(i) \in 1 .. 2 * Len(tl) /\ SnapshotAt(tl, Before(i)) = tl[i].before
      /\ After(i) \in 1 .. 2 * Len(tl) /\ SnapshotAt(tl, After(i)) = tl[i].after
  BY SidesAre
<1>2. /\ tl[i].before # Missing => IsSnapshot(tl[i].before)
      /\ tl[i].after # Missing => IsSnapshot(tl[i].after)
  BY DEF IsTimeline, IsStage
<1>3. ASSUME NEW a
      PROVE  /\ left(a) \in OccurrencesAt(tl, Before(i)) \union {NoOccurrence}
             /\ right(a) \in OccurrencesAt(tl, After(i)) \union {NoOccurrence}
  BY <1>1, <1>2, NodesAre
<1>4. CASE \E l \in 1 .. Len(tl[i].events) : EventCore(tl, i, l, c)
  <2>1. PICK l \in 1 .. Len(tl[i].events) : EventCore(tl, i, l, c)
    BY <1>4
  <2>2. /\ c.from = NoOccurrence \/ c.from = left(tl[i].events[l].address)
        /\ \/ c.to = NoOccurrence \/ c.to = right(tl[i].events[l].address)
           \/ c.to = right(tl[i].events[l].new)
    BY <2>1 DEF EventCore, FromOf, ToOf, NewOf
  <2>. HIDE DEF left, right
  <2>. QED  BY <1>3, <2>2
<1>5. CASE AddressCore(tl, i, c)
  <2>1. PICK a : c.from = left(a) /\ c.to = right(a)
    BY <1>5 DEF AddressCore
  <2>. HIDE DEF left, right
  <2>. QED  BY <1>3, <2>1
<1>6. CASE MatchCore(tl, i, C, c)
  BY <1>6 DEF MatchCore
<1>. QED  BY <1>4, <1>5, <1>6 DEF StageCores

\* What is resolved of a timeline follows its links.
LEMMA ResolveFollows ==
  ASSUME NEW tl, IsTimeline(tl), BlobsAgree(tl)
  PROVE  FollowLinks(Resolve(tl))
<1>. DEFINE relations == Relations(tl)
<1>1. PICK first : StagesDone(tl, first, Len(tl)) /\ Bridged(tl, first, relations)
  BY RelationsAre
<1>2. PICK C : TimelineCores(tl, Len(tl), C) /\ first \in RelationsIn(C)
  BY <1>1 DEF StagesDone
<1>. HIDE DEF relations
<1>3. relations \in Seq(Rel) /\ Len(relations) \in Nat /\ DOMAIN relations = 1 .. Len(relations)
  BY <1>1 DEF Bridged
<1>4. \A n \in 1 .. 2 * Len(tl) : OccurrencesAt(tl, n) \subseteq Occurrences(tl)
  BY OccurrencesAre
<1>5. ASSUME NEW k \in 1 .. Len(relations), Joins(relations[k])
      PROVE  relations[k].from \in Occurrences(tl) /\ relations[k].to \in Occurrences(tl)
  <2>. DEFINE r == relations[k]
  <2>1. r.from # NoOccurrence /\ r.to # NoOccurrence
    BY <1>5 DEF Joins
  <2>2. ASSUME r \in Range(first)
        PROVE  r.from \in Occurrences(tl) /\ r.to \in Occurrences(tl)
    <3>1. PICK l \in 1 .. Len(first) : r = first[l]
      BY <1>2, <2>2 DEF Range, RelationsIn
    <3>2. Core(r) \in C
      BY <1>2, <3>1 DEF RelationsIn
    <3>. DEFINE c == Core(r)
                i == c.stage
                D == {d \in C : d.stage = i}
    <3>3. c.from = r.from /\ c.to = r.to
      BY DEF Core, Relation
    <3>. HIDE DEF c, r
    <3>4. i \in 1 .. Len(tl) /\ StageCores(tl, i, D) /\ c \in D
      BY <1>2, <3>2 DEF TimelineCores, c
    <3>5. /\ Before(i) \in 1 .. 2 * Len(tl) /\ After(i) \in 1 .. 2 * Len(tl)
      BY <3>4, SidesAre
    <3>. HIDE DEF D, i
    <3>6. /\ c.from \in OccurrencesAt(tl, Before(i)) \union {NoOccurrence}
          /\ c.to \in OccurrencesAt(tl, After(i)) \union {NoOccurrence}
      BY <3>4, EndsAre
    <3>. QED  BY <1>4, <2>1, <3>3, <3>5, <3>6
  <2>3. ASSUME NEW i \in 1 .. Len(tl), IsBridge(tl, r, i)
        PROVE  r.from \in Occurrences(tl) /\ r.to \in Occurrences(tl)
    <3>1. i - 1 \in 1 .. Len(tl)
      BY <2>3 DEF IsTimeline, IsBridge
    <3>2. After(i - 1) \in 1 .. 2 * Len(tl) /\ Before(i) \in 1 .. 2 * Len(tl)
      BY <3>1, SidesAre
    <3>. QED  BY <1>4, <2>3, <3>2 DEF IsBridge
  <2>. QED  BY <1>1, <2>2, <2>3 DEF Bridged
<1>6. FollowLinks(Resolved(Occurrences(tl), relations))
  BY <1>3, <1>5, ResolvedFollows
<1>. QED  BY <1>6 DEF Resolve, relations

-----------------------------------------------------------------------------
(* What is true of a stage whose snapshots are there: the operations that  *)
(* the addresses stood for.                                                *)

IdAt(tl, o) == SnapshotAt(tl, o.snapshot).ids[o.ordinal]

BeforeId(st, a) == st.before.ids[st.before.tokens[a]]
AfterId(st, a)  == st.after.ids[st.after.tokens[a]]
BothTokens(st)        == DOMAIN st.before.tokens \intersect DOMAIN st.after.tokens

\* All events at an address modify what is there.
OnlyModified(events, a) ==
  \A k \in 1 .. Len(events) : events[k].address = a => events[k].kind = "modified"

\* The k-th event is the first of a replacement at its address.
Replaces(events, k) ==
  /\ events[k].kind = "replaced"
  /\ \A l \in 1 .. (k - 1) : events[l].kind = "replaced" => events[l].address # events[k].address

\* An address without events, of one name before and after, is of one operation.
SilentTrue(st) ==
  \A a \in BothTokens(st) :
    (/\ \A k \in 1 .. Len(st.events) : st.events[k].address # a
     /\ st.before.ops[st.before.tokens[a]].name = st.after.ops[st.after.tokens[a]].name)
      => BeforeId(st, a) = AfterId(st, a)

\* So is an address of an operation that was modified, if it is there before and after.
ModifiedTrue(st) ==
  \A k \in 1 .. Len(st.events) :
    (st.events[k].kind = "modified" /\ st.events[k].address \in BothTokens(st)) =>
      BeforeId(st, st.events[k].address) = AfterId(st, st.events[k].address)

\* An operation that was replaced is gone, and what it was replaced by is known.
ReplacedTrue(st, known) ==
  \A k \in 1 .. Len(st.events) :
    (Replaces(st.events, k) /\ st.events[k].address \in DOMAIN st.before.tokens) =>
      LET a == st.events[k].address IN
      /\ \A x \in DOMAIN st.after.tokens : AfterId(st, x) # BeforeId(st, a)
      /\ st.events[k].new \in DOMAIN st.after.tokens =>
           <<BeforeId(st, a), AfterId(st, st.events[k].new)>> \in known

\* An operation that is there before and after, and was not moved, is where it was, and
\* no event says more of its address than that it was modified.
SurvivorsTrue(st) ==
  \A a \in DOMAIN st.before.tokens, b \in DOMAIN st.after.tokens :
    (BeforeId(st, a) = AfterId(st, b) /\ BeforeId(st, a) \notin st.moved) =>
      /\ a = b /\ OnlyModified(st.events, a)
      /\ st.before.ops[st.before.tokens[a]].name = st.after.ops[st.after.tokens[b]].name

StageTrue(st, known) ==
  (st.before # Missing /\ st.after # Missing) =>
    SilentTrue(st) /\ ModifiedTrue(st) /\ ReplacedTrue(st, known) /\ SurvivorsTrue(st)

\* What the node of an address is before a stage, and after it.
IsNode(tl, n, s, a, o) ==
  /\ o = NodeForToken(tl, n, a)
  /\ o # NoOccurrence =>
       /\ s # Missing /\ a \in DOMAIN s.tokens
       /\ IdAt(tl, o) = s.ids[s.tokens[a]] /\ OperationOf(tl, o) = s.ops[s.tokens[a]]

\* The node of an address is the operation the snapshot has there.
LEMMA NodeOf ==
  ASSUME NEW tl, IsTimeline(tl), NEW i \in 1 .. Len(tl), NEW a
  PROVE  /\ IsNode(tl, Before(i), tl[i].before, a, NodeForToken(tl, Before(i), a))
         /\ IsNode(tl, After(i), tl[i].after, a, NodeForToken(tl, After(i), a))
<1>1. /\ Before(i) \in 1 .. 2 * Len(tl) /\ SnapshotAt(tl, Before(i)) = tl[i].before
      /\ After(i) \in 1 .. 2 * Len(tl) /\ SnapshotAt(tl, After(i)) = tl[i].after
  BY SidesAre
<1>2. /\ tl[i].before # Missing => IsSnapshot(tl[i].before)
      /\ tl[i].after # Missing => IsSnapshot(tl[i].after)
  BY DEF IsTimeline, IsStage
<1>3. ASSUME NEW n \in 1 .. 2 * Len(tl), NEW s, SnapshotAt(tl, n) = s, s # Missing => IsSnapshot(s)
      PROVE  IsNode(tl, n, s, a, NodeForToken(tl, n, a))
  <2>. DEFINE o == NodeForToken(tl, n, a)
  <2>1. /\ o # NoOccurrence <=> s # Missing /\ a \in DOMAIN s.tokens
        /\ o # NoOccurrence => o = Occurrence(n, s.tokens[a])
    BY <1>3, NodesAre
  <2>2. o # NoOccurrence => o.snapshot = n /\ o.ordinal = s.tokens[a]
    BY <2>1, OccurrenceTyped
  <2>3. o # NoOccurrence => IdAt(tl, o) = s.ids[s.tokens[a]] /\ OperationOf(tl, o) = s.ops[s.tokens[a]]
    BY <1>3, <2>2 DEF IdAt, OperationOf
  <2>. QED  BY <2>1, <2>3 DEF IsNode
<1>. QED  BY <1>1, <1>2, <1>3

\* Two addresses of a snapshot do not have one node.
LEMMA NodesDiffer ==
  ASSUME NEW tl, IsTimeline(tl), NEW i \in 1 .. Len(tl), NEW a, NEW b,
         NodeForToken(tl, Before(i), a) # NoOccurrence,
         NodeForToken(tl, Before(i), a) = NodeForToken(tl, Before(i), b)
  PROVE  a = b
<1>1. Before(i) \in 1 .. 2 * Len(tl) /\ SnapshotAt(tl, Before(i)) = tl[i].before
  BY SidesAre
<1>2. tl[i].before # Missing => IsSnapshot(tl[i].before)
  BY DEF IsTimeline, IsStage
<1>. QED  BY <1>1, <1>2, NodesAre

\* The cores of events that join are of a replacement or a modification.
LEMMA EventJoins ==
  ASSUME NEW tl, NEW i, NEW l, NEW c, EventCore(tl, i, l, c), Joins(c)
  PROVE  /\ c.from = FromOf(tl, i, l)
         /\ \/ /\ tl[i].events[l].kind = "replaced" /\ c.to = NewOf(tl, i, l)
               /\ \A k \in 1 .. (l - 1) : tl[i].events[k].kind = "replaced" => FromOf(tl, i, k) # c.from
            \/ /\ tl[i].events[l].kind = "modified" /\ c.to = ToOf(tl, i, l)
               /\ c.change = "modified"
BY DEF EventCore, Joins

\* A replacement that joins is the first at its address.
LEMMA ReplacementIsFirst ==
  ASSUME NEW tl, NEW i, NEW l \in 1 .. Len(tl[i].events), tl[i].events[l].kind = "replaced",
         \A k \in 1 .. (l - 1) : tl[i].events[k].kind = "replaced" => FromOf(tl, i, k) # FromOf(tl, i, l)
  PROVE  Replaces(tl[i].events, l)
BY DEF Replaces, FromOf

\* What an event relates is not related for its address.
LEMMA EventOrAddress ==
  ASSUME NEW tl, IsTimeline(tl), NEW i \in 1 .. Len(tl), NEW l \in 1 .. Len(tl[i].events),
         NEW x, NEW y, EventCore(tl, i, l, x), AddressCore(tl, i, y), Joins(x), x.from = y.from
  PROVE  FALSE
<1>1. x.from = NodeForToken(tl, Before(i), tl[i].events[l].address)
  BY EventJoins DEF FromOf
<1>2. PICK a : y.from = NodeForToken(tl, Before(i), a) /\ Silent(tl, i, a)
  BY DEF AddressCore
<1>3. x.from # NoOccurrence
  BY DEF Joins
<1>4. tl[i].events[l].address = a
  BY <1>1, <1>2, <1>3, NodesDiffer
<1>. QED  BY <1>2, <1>4 DEF Silent

\* In a stage an occurrence has one successor.
LEMMA CoresFunctional ==
  ASSUME NEW tl, IsTimeline(tl), NEW i \in 1 .. Len(tl), NEW C, StageCores(tl, i, C),
         NEW known, StageTrue(tl[i], known),
         NEW c \in C, NEW d \in C, Joins(c), Joins(d), c.from = d.from
  PROVE  c.to = d.to
<1>. DEFINE left(a)  == NodeForToken(tl, Before(i), a)
            right(a) == NodeForToken(tl, After(i), a)
            events   == tl[i].events
<1>0. c.from # NoOccurrence /\ c.to # NoOccurrence /\ d.to # NoOccurrence /\ Len(events) \in Nat
  BY DEF Joins, IsTimeline, IsStage
<1>1. \A x \in C : \/ \E l \in 1 .. Len(events) : EventCore(tl, i, l, x)
                   \/ AddressCore(tl, i, x) \/ MatchCore(tl, i, C, x)
  BY DEF StageCores
<1>2. CASE MatchCore(tl, i, C, c) \/ MatchCore(tl, i, C, d)
  <2>1. c = d
    BY <1>2 DEF MatchCore
  <2>. QED  BY <2>1
<1>3. ASSUME NEW l \in 1 .. Len(events), NEW x \in C, NEW y \in C,
             EventCore(tl, i, l, x), AddressCore(tl, i, y), Joins(x), x.from = y.from
      PROVE  FALSE
  BY <1>3, EventOrAddress
<1>4. CASE AddressCore(tl, i, c) /\ AddressCore(tl, i, d)
  <2>1. PICK a : c.from = left(a) /\ c.to = right(a)
    BY <1>4 DEF AddressCore
  <2>2. PICK b : d.from = left(b) /\ d.to = right(b)
    BY <1>4 DEF AddressCore
  <2>3. a = b
    BY <1>0, <2>1, <2>2, NodesDiffer
  <2>. QED  BY <2>1, <2>2, <2>3
<1>5. ASSUME NEW l \in 1 .. Len(events), NEW k \in 1 .. Len(events), NEW x \in C, NEW y \in C,
             EventCore(tl, i, l, x), EventCore(tl, i, k, y), Joins(x), Joins(y), x.from = y.from,
             events[l].kind = "replaced", events[k].kind = "modified"
      PROVE  FALSE
  <2>1. /\ x.from = FromOf(tl, i, l) /\ x.to = NewOf(tl, i, l)
        /\ \A m \in 1 .. (l - 1) : events[m].kind = "replaced" => FromOf(tl, i, m) # x.from
    BY <1>5, EventJoins
  <2>2. y.from = FromOf(tl, i, k) /\ y.to = ToOf(tl, i, k)
    BY <1>5, EventJoins
  <2>. DEFINE a == events[l].address
  <2>3. Replaces(events, l)
    BY <1>5, <2>1, ReplacementIsFirst
  <2>4. events[k].address = a
    BY <1>5, <2>1, <2>2, NodesDiffer DEF FromOf, Joins
  <2>5. left(a) # NoOccurrence /\ right(a) # NoOccurrence
    BY <1>5, <2>1, <2>2, <2>4 DEF FromOf, ToOf, Joins
  <2>6. /\ tl[i].before # Missing /\ a \in DOMAIN tl[i].before.tokens
        /\ tl[i].after # Missing /\ a \in DOMAIN tl[i].after.tokens
    BY <2>5, NodeOf DEF IsNode
  <2>7. SilentTrue(tl[i]) /\ ModifiedTrue(tl[i]) /\ ReplacedTrue(tl[i], known)
    BY <2>6 DEF StageTrue
  <2>8. BeforeId(tl[i], a) = AfterId(tl[i], a)
    BY <1>5, <2>4, <2>6, <2>7 DEF ModifiedTrue, BothTokens
  <2>9. AfterId(tl[i], a) # BeforeId(tl[i], a)
    BY <2>3, <2>6, <2>7 DEF ReplacedTrue
  <2>. QED  BY <2>8, <2>9
<1>6. ASSUME NEW l \in 1 .. Len(events), NEW k \in 1 .. Len(events),
             EventCore(tl, i, l, c), EventCore(tl, i, k, d)
      PROVE  c.to = d.to
  <2>1. /\ c.from = FromOf(tl, i, l)
        /\ \/ /\ events[l].kind = "replaced" /\ c.to = NewOf(tl, i, l)
              /\ \A m \in 1 .. (l - 1) : events[m].kind = "replaced" => FromOf(tl, i, m) # c.from
           \/ events[l].kind = "modified" /\ c.to = ToOf(tl, i, l)
    BY <1>6, EventJoins
  <2>2. /\ d.from = FromOf(tl, i, k)
        /\ \/ /\ events[k].kind = "replaced" /\ d.to = NewOf(tl, i, k)
              /\ \A m \in 1 .. (k - 1) : events[m].kind = "replaced" => FromOf(tl, i, m) # d.from
           \/ events[k].kind = "modified" /\ d.to = ToOf(tl, i, k)
    BY <1>6, EventJoins
  <2>3. CASE events[l].kind = "replaced" /\ events[k].kind = "replaced"
    <3>1. /\ \A m \in 1 .. (l - 1) : events[m].kind = "replaced" => FromOf(tl, i, m) # c.from
          /\ \A m \in 1 .. (k - 1) : events[m].kind = "replaced" => FromOf(tl, i, m) # d.from
          /\ c.to = NewOf(tl, i, l) /\ d.to = NewOf(tl, i, k)
      BY <2>1, <2>2, <2>3
    <3>2. k \notin 1 .. (l - 1) /\ l \notin 1 .. (k - 1)
      BY <2>1, <2>2, <2>3, <3>1
    <3>3. k = l
      BY <1>0, <3>2
    <3>. QED  BY <3>1, <3>3
  <2>4. CASE events[l].kind = "modified" /\ events[k].kind = "modified"
    <3>1. events[l].address = events[k].address
      BY <1>0, <2>1, <2>2, NodesDiffer DEF FromOf
    <3>. QED  BY <2>1, <2>2, <2>4, <3>1 DEF ToOf
  <2>5. CASE events[l].kind = "replaced" /\ events[k].kind = "modified"
    BY <1>5, <1>6, <2>5
  <2>6. CASE events[l].kind = "modified" /\ events[k].kind = "replaced"
    BY <1>5, <1>6, <2>6
  <2>. QED  BY <2>1, <2>2, <2>3, <2>4, <2>5, <2>6
<1>. QED  BY <1>1, <1>2, <1>3, <1>4, <1>6

\* What is exact is true.
LEMMA CoresTrue ==
  ASSUME NEW tl, IsTimeline(tl), NEW i \in 1 .. Len(tl), NEW C, StageCores(tl, i, C),
         NEW known, StageTrue(tl[i], known), NEW c \in C, Joins(c), c.exact
  PROVE  IdAt(tl, c.from) = IdAt(tl, c.to) \/ <<IdAt(tl, c.from), IdAt(tl, c.to)>> \in known
<1>. DEFINE left(a)  == NodeForToken(tl, Before(i), a)
            right(a) == NodeForToken(tl, After(i), a)
            events   == tl[i].events
            st       == tl[i]
<1>0. c.from # NoOccurrence /\ c.to # NoOccurrence
  BY DEF Joins
<1>1. ASSUME NEW a, left(a) # NoOccurrence
      PROVE  /\ st.before # Missing /\ a \in DOMAIN st.before.tokens
             /\ IdAt(tl, left(a)) = BeforeId(st, a)
             /\ OperationOf(tl, left(a)) = st.before.ops[st.before.tokens[a]]
  BY <1>1, NodeOf DEF IsNode, BeforeId
<1>2. ASSUME NEW a, right(a) # NoOccurrence
      PROVE  /\ st.after # Missing /\ a \in DOMAIN st.after.tokens
             /\ IdAt(tl, right(a)) = AfterId(st, a)
             /\ OperationOf(tl, right(a)) = st.after.ops[st.after.tokens[a]]
  BY <1>2, NodeOf DEF IsNode, AfterId
<1>3. (st.before # Missing /\ st.after # Missing) =>
         SilentTrue(st) /\ ModifiedTrue(st) /\ ReplacedTrue(st, known)
  BY DEF StageTrue
<1>4. ASSUME NEW l \in 1 .. Len(events), EventCore(tl, i, l, c)
      PROVE  IdAt(tl, c.from) = IdAt(tl, c.to) \/ <<IdAt(tl, c.from), IdAt(tl, c.to)>> \in known
  <2>1. /\ c.from = FromOf(tl, i, l)
        /\ \/ /\ events[l].kind = "replaced" /\ c.to = NewOf(tl, i, l)
              /\ \A m \in 1 .. (l - 1) : events[m].kind = "replaced" => FromOf(tl, i, m) # c.from
           \/ events[l].kind = "modified" /\ c.to = ToOf(tl, i, l)
    BY <1>4, EventJoins
  <2>. DEFINE a == events[l].address
              b == events[l].new
  <2>2. CASE events[l].kind = "replaced"
    <3>1. c.from = left(a) /\ c.to = right(b) /\ Replaces(events, l)
      BY <2>1, <2>2, ReplacementIsFirst DEF FromOf, NewOf
    <3>2. /\ st.before # Missing /\ a \in DOMAIN st.before.tokens /\ IdAt(tl, c.from) = BeforeId(st, a)
          /\ st.after # Missing /\ b \in DOMAIN st.after.tokens /\ IdAt(tl, c.to) = AfterId(st, b)
      BY <1>0, <1>1, <1>2, <3>1
    <3>3. ReplacedTrue(st, known)
      BY <1>3, <3>2
    <3>. QED  BY <3>1, <3>2, <3>3 DEF ReplacedTrue
  <2>3. CASE events[l].kind = "modified"
    <3>1. c.from = left(a) /\ c.to = right(a)
      BY <2>1, <2>3 DEF FromOf, ToOf
    <3>2. /\ st.before # Missing /\ a \in DOMAIN st.before.tokens /\ IdAt(tl, c.from) = BeforeId(st, a)
          /\ st.after # Missing /\ a \in DOMAIN st.after.tokens /\ IdAt(tl, c.to) = AfterId(st, a)
      BY <1>0, <1>1, <1>2, <3>1
    <3>3. ModifiedTrue(st)
      BY <1>3, <3>2
    <3>. QED  BY <2>3, <3>2, <3>3 DEF ModifiedTrue, BothTokens
  <2>. QED  BY <2>1, <2>2, <2>3
<1>5. CASE AddressCore(tl, i, c)
  <2>1. PICK a : /\ c.from = left(a) /\ c.to = right(a) /\ Silent(tl, i, a)
                 /\ OperationOf(tl, c.from).name = OperationOf(tl, c.to).name
    BY <1>5 DEF AddressCore
  <2>2. /\ st.before # Missing /\ a \in DOMAIN st.before.tokens /\ IdAt(tl, c.from) = BeforeId(st, a)
        /\ OperationOf(tl, c.from) = st.before.ops[st.before.tokens[a]]
    BY <1>0, <1>1, <2>1
  <2>3. /\ st.after # Missing /\ a \in DOMAIN st.after.tokens /\ IdAt(tl, c.to) = AfterId(st, a)
        /\ OperationOf(tl, c.to) = st.after.ops[st.after.tokens[a]]
    BY <1>0, <1>2, <2>1
  <2>4. SilentTrue(st)
    BY <1>3, <2>2, <2>3
  <2>5. BeforeId(st, a) = AfterId(st, a)
    BY <2>1, <2>2, <2>3, <2>4 DEF SilentTrue, BothTokens, Silent
  <2>. QED  BY <2>2, <2>3, <2>5
<1>6. ~MatchCore(tl, i, C, c)
  BY DEF MatchCore
<1>. QED  BY <1>4, <1>5, <1>6 DEF StageCores

-----------------------------------------------------------------------------
(* The invariant of a pass that runs: what became of the operations that   *)
(* the snapshot before it has.                                             *)

\* An operation, without its place and its details.
Entry(op)    == [id |-> op.id, address |-> op.address, name |-> op.op.name]
Entries(ops) == {Entry(ops[k]) : k \in 1 .. Len(ops)}

SilentAt(p, a)   == \A k \in 1 .. Len(p.events) : p.events[k].address # a
BeforeName(p, a) == p.before.ops[p.before.tokens[a]].name

\* An address without events still has its operation, or gets no other of its name.
SilentKept(E, p) ==
  \A a \in DOMAIN p.before.tokens : SilentAt(p, a) =>
    /\ (\E e \in E : e.address = a /\ e.id = BeforeId(p, a)) \/ <<a, BeforeName(p, a)>> \in p.spoken
    /\ \A e \in E : (e.address = a /\ e.name = BeforeName(p, a)) => e.id = BeforeId(p, a)

\* An operation that was there before is where it was.
BeforeKept(E, p) ==
  \A a \in DOMAIN p.before.tokens : \A e \in E :
    e.id = BeforeId(p, a) => e.address = a /\ e.name = BeforeName(p, a)

\* The address of a modified operation gets no other.
IsModified(E, p, a) ==
  /\ Speaks(a) \subseteq p.spoken
  /\ a \in DOMAIN p.before.tokens => \A e \in E : e.address = a => e.id = BeforeId(p, a)
ModifiedKept(E, p) ==
  \A k \in 1 .. Len(p.events) :
    p.events[k].kind = "modified" => IsModified(E, p, p.events[k].address)

\* A replaced operation is gone, and the address of what replaced it gets no other.
IsReplaced(E, p, known, a, new) ==
  /\ \A e \in E : e.id # BeforeId(p, a)
  /\ new = NoAddress \/ Speaks(new) \subseteq p.spoken
  /\ \A e \in E : e.address = new => <<BeforeId(p, a), e.id>> \in known
ReplacedKept(E, p, known) ==
  \A k \in 1 .. Len(p.events) :
    (Replaces(p.events, k) /\ p.events[k].address \in DOMAIN p.before.tokens) =>
      IsReplaced(E, p, known, p.events[k].address, p.events[k].new)

\* Of the address of an operation that was there before, and was not moved, events say
\* only that it was modified.
SurvivorsKept(E, p) ==
  \A a \in DOMAIN p.before.tokens : \A e \in E :
    (e.id = BeforeId(p, a) /\ e.id \notin p.moved) => OnlyModified(p.events, a)

PassTrue(E, p, known) ==
  /\ SilentKept(E, p) /\ BeforeKept(E, p) /\ ModifiedKept(E, p) /\ ReplacedKept(E, p, known)
  /\ SurvivorsKept(E, p)

\* The pass has more events, those of a set, speaks of more and has moved more.
Grows(p, q, new) ==
  /\ q.before = p.before /\ p.spoken \subseteq q.spoken /\ p.moved \subseteq q.moved
  /\ \A a : SilentAt(q, a) => SilentAt(p, a) /\ \A e \in new : e.address # a
  /\ \A k \in 1 .. Len(q.events) :
       (k \in 1 .. Len(p.events) /\ q.events[k] = p.events[k]) \/ q.events[k] \in new
  /\ \A k \in 1 .. Len(q.events) : Replaces(q.events, k) =>
       \/ k \in 1 .. Len(p.events) /\ q.events[k] = p.events[k] /\ Replaces(p.events, k)
       \/ /\ q.events[k] \in new /\ q.events[k].kind = "replaced"
          /\ \A l \in 1 .. Len(p.events) :
               p.events[l].kind = "replaced" => p.events[l].address # q.events[k].address

\* A pass grows by the events that are appended.
LEMMA GrowsWith ==
  ASSUME NEW S, NEW p, p.events \in Seq(S), NEW more \in Seq(S),
         NEW q, q.before = p.before, p.spoken \subseteq q.spoken, p.moved \subseteq q.moved,
         q.events = p.events \o more
  PROVE  Grows(p, q, {more[j] : j \in 1 .. Len(more)})
<1>. DEFINE n   == Len(p.events)
            new == {more[j] : j \in 1 .. Len(more)}
<1>1. /\ n \in Nat /\ Len(more) \in Nat
      /\ Len(q.events) = n + Len(more)
      /\ \A k \in 1 .. n : q.events[k] = p.events[k]
      /\ \A j \in 1 .. Len(more) : q.events[n + j] = more[j]
  OBVIOUS
<1>2. 1 .. n \subseteq 1 .. Len(q.events) /\ \A j \in 1 .. Len(more) : n + j \in 1 .. Len(q.events)
  BY <1>1
<1>3. ASSUME NEW k \in 1 .. Len(q.events)
      PROVE  k \in 1 .. n \/ (k - n \in 1 .. Len(more) /\ k = n + (k - n))
  BY <1>1
<1>. HIDE DEF n
<1>4. ASSUME NEW k \in 1 .. Len(q.events)
      PROVE  (k \in 1 .. n /\ q.events[k] = p.events[k]) \/ (k \notin 1 .. n /\ q.events[k] \in new)
  BY <1>1, <1>3
<1>5. ASSUME NEW a, SilentAt(q, a)
      PROVE  SilentAt(p, a) /\ \A e \in new : e.address # a
  <2>1. \A k \in 1 .. n : p.events[k].address # a
    BY <1>1, <1>2, <1>5 DEF SilentAt
  <2>2. \A j \in 1 .. Len(more) : more[j].address # a
    BY <1>1, <1>2, <1>5 DEF SilentAt
  <2>. QED  BY <2>1, <2>2 DEF SilentAt, n
<1>6. ASSUME NEW k \in 1 .. Len(q.events), Replaces(q.events, k)
      PROVE  \/ k \in 1 .. n /\ q.events[k] = p.events[k] /\ Replaces(p.events, k)
             \/ /\ q.events[k] \in new /\ q.events[k].kind = "replaced"
                /\ \A l \in 1 .. n :
                     p.events[l].kind = "replaced" => p.events[l].address # q.events[k].address
  <2>1. /\ q.events[k].kind = "replaced"
        /\ \A l \in 1 .. (k - 1) : q.events[l].kind = "replaced" => q.events[l].address # q.events[k].address
    BY <1>6 DEF Replaces
  <2>2. CASE k \in 1 .. n
    <3>1. \A l \in 1 .. (k - 1) : l \in 1 .. n
      BY <1>1, <2>2
    <3>. QED  BY <1>1, <2>1, <2>2, <3>1 DEF Replaces
  <2>3. CASE k \notin 1 .. n
    <3>1. \A l \in 1 .. n : l \in 1 .. (k - 1)
      BY <1>1, <2>3
    <3>. QED  BY <1>1, <1>4, <2>1, <2>3, <3>1
  <2>. QED  BY <2>2, <2>3
<1>. QED  BY <1>4, <1>5, <1>6 DEF Grows, n

\* Of an operation that is not moved, new events say only that it was modified.
OnlyModifies(new, F, q) ==
  \A d \in new, e \in F : (d.address = e.address /\ e.id \notin q.moved) => d.kind = "modified"

\* They say no more of what was there before and stays.
LEMMA SurvivorsStay ==
  ASSUME NEW E, NEW p, NEW q, NEW known, PassTrue(E, p, known), NEW new, Grows(p, q, new),
         NEW F, F \subseteq E, OnlyModifies(new, F, q)
  PROVE  SurvivorsKept(F, q)
<1>1. q.before = p.before /\ p.moved \subseteq q.moved /\ \A a : BeforeId(q, a) = BeforeId(p, a)
  BY DEF Grows, BeforeId
<1>. SUFFICES ASSUME NEW a \in DOMAIN q.before.tokens, NEW e \in F,
                     e.id = BeforeId(q, a), e.id \notin q.moved,
                     NEW k \in 1 .. Len(q.events), q.events[k].address = a
              PROVE  q.events[k].kind = "modified"
  BY DEF SurvivorsKept, OnlyModified
<1>2. e \in E /\ a \in DOMAIN p.before.tokens /\ e.id = BeforeId(p, a) /\ e.id \notin p.moved
  BY <1>1
<1>3. e.address = a /\ OnlyModified(p.events, a)
  BY <1>2 DEF PassTrue, BeforeKept, SurvivorsKept
<1>4. CASE k \in 1 .. Len(p.events) /\ q.events[k] = p.events[k]
  BY <1>3, <1>4 DEF OnlyModified
<1>5. CASE q.events[k] \in new
  BY <1>3, <1>5 DEF OnlyModifies
<1>. QED  BY <1>4, <1>5 DEF Grows

\* The operations are the same, and none is replaced.
LEMMA PassStays ==
  ASSUME NEW E, NEW p, NEW q, NEW known, NEW more, known \subseteq more, PassTrue(E, p, known),
         NEW new, Grows(p, q, new),
         \A e \in new : e.kind # "replaced",
         \A e \in new : e.kind = "modified" => IsModified(E, q, e.address),
         OnlyModifies(new, E, q)
  PROVE  PassTrue(E, q, more)
<1>1. q.before = p.before /\ p.spoken \subseteq q.spoken
  BY DEF Grows
<1>2. \A a : BeforeId(q, a) = BeforeId(p, a) /\ BeforeName(q, a) = BeforeName(p, a)
  BY <1>1 DEF BeforeId, BeforeName
<1>3. SilentKept(E, q)
  BY <1>1, <1>2 DEF PassTrue, SilentKept, Grows
<1>4. BeforeKept(E, q)
  BY <1>1, <1>2 DEF PassTrue, BeforeKept
<1>5. \A a : IsModified(E, p, a) => IsModified(E, q, a)
  BY <1>1, <1>2 DEF IsModified
<1>6. \A a, b : IsReplaced(E, p, known, a, b) => IsReplaced(E, q, more, a, b)
  BY <1>1, <1>2 DEF IsReplaced
<1>7. ModifiedKept(E, q)
  BY <1>5 DEF PassTrue, ModifiedKept, Grows
<1>8. ReplacedKept(E, q, more)
  BY <1>1, <1>6 DEF PassTrue, ReplacedKept, Grows
<1>9. SurvivorsKept(E, q)
  <2>1. E \subseteq E
    OBVIOUS
  <2>. QED  BY <2>1, SurvivorsStay
<1>. QED  BY <1>3, <1>4, <1>7, <1>8, <1>9 DEF PassTrue

\* An operation is gone, and events speak of its address, or its name is not given to it
\* again; it may have been replaced.
LEMMA PassRemoves ==
  ASSUME NEW E, NEW p, NEW q, NEW known, NEW more, known \subseteq more, PassTrue(E, p, known),
         NEW new, Grows(p, q, new),
         \A e, f \in E : e.address = f.address => e = f,
         NEW x \in E,
         (\E e \in new : e.address = x.address) \/ <<x.address, x.name>> \in q.spoken,
         \A e \in new : e.kind # "modified" /\ e.address = x.address,
         \A e \in new : e.kind = "replaced" => e.new = NoAddress \/ Speaks(e.new) \subseteq q.spoken,
         \A e \in new : \A f \in E \ {x} :
           (/\ e.kind = "replaced" /\ f.address = e.new /\ e.address \in DOMAIN p.before.tokens
            /\ \A l \in 1 .. Len(p.events) :
                 p.events[l].kind = "replaced" => p.events[l].address # e.address)
             => <<BeforeId(p, e.address), f.id>> \in more
  PROVE  PassTrue(E \ {x}, q, more)
<1>. DEFINE F == E \ {x}
<1>1. q.before = p.before /\ p.spoken \subseteq q.spoken
  BY DEF Grows
<1>2. \A a : BeforeId(q, a) = BeforeId(p, a) /\ BeforeName(q, a) = BeforeName(p, a)
  BY <1>1 DEF BeforeId, BeforeName
<1>3. ASSUME NEW a \in DOMAIN q.before.tokens, SilentAt(q, a)
      PROVE  /\ \/ \E e \in F : e.address = a /\ e.id = BeforeId(q, a)
                \/ <<a, BeforeName(q, a)>> \in q.spoken
             /\ \A e \in F : (e.address = a /\ e.name = BeforeName(q, a)) => e.id = BeforeId(q, a)
  <2>1. a \in DOMAIN p.before.tokens /\ SilentAt(p, a) /\ \A e \in new : e.address # a
    BY <1>1, <1>3 DEF Grows
  <2>2. /\ (\E e \in E : e.address = a /\ e.id = BeforeId(p, a)) \/ <<a, BeforeName(p, a)>> \in p.spoken
        /\ \A e \in E : (e.address = a /\ e.name = BeforeName(p, a)) => e.id = BeforeId(p, a)
    BY <2>1 DEF PassTrue, SilentKept
  <2>3. ASSUME x.address = a, x.id = BeforeId(p, a)
        PROVE  <<a, BeforeName(p, a)>> \in q.spoken
    <3>1. x.name = BeforeName(p, a)
      BY <2>1, <2>3 DEF PassTrue, BeforeKept
    <3>. QED  BY <2>1, <2>3, <3>1
  <2>. QED  BY <1>1, <1>2, <2>2, <2>3
<1>4. BeforeKept(F, q)
  BY <1>1, <1>2 DEF PassTrue, BeforeKept
<1>5. \A a : IsModified(E, p, a) => IsModified(F, q, a)
  BY <1>1, <1>2 DEF IsModified
<1>6. \A a, b : IsReplaced(E, p, known, a, b) => IsReplaced(F, q, more, a, b)
  BY <1>1, <1>2 DEF IsReplaced
<1>7. ModifiedKept(F, q)
  BY <1>5 DEF PassTrue, ModifiedKept, Grows
<1>8. ASSUME NEW k \in 1 .. Len(q.events), Replaces(q.events, k),
             q.events[k].address \in DOMAIN q.before.tokens
      PROVE  IsReplaced(F, q, more, q.events[k].address, q.events[k].new)
  <2>1. CASE k \in 1 .. Len(p.events) /\ q.events[k] = p.events[k] /\ Replaces(p.events, k)
    BY <1>1, <1>6, <1>8, <2>1 DEF PassTrue, ReplacedKept
  <2>2. CASE /\ q.events[k] \in new /\ q.events[k].kind = "replaced"
             /\ \A l \in 1 .. Len(p.events) :
                  p.events[l].kind = "replaced" => p.events[l].address # q.events[k].address
    <3>. DEFINE e == q.events[k]
                a == e.address
    <3>1. e \in new /\ e.kind = "replaced" /\ a = x.address /\ a \in DOMAIN p.before.tokens
      BY <1>1, <1>8, <2>2
    <3>2. ASSUME NEW f \in F
          PROVE  f.id # BeforeId(q, a)
      <4>1. SUFFICES ASSUME f.id = BeforeId(p, a) PROVE FALSE
        BY <1>2
      <4>2. f.address = a
        BY <3>1, <4>1 DEF PassTrue, BeforeKept
      <4>. QED  BY <3>1, <4>2
    <3>3. e.new = NoAddress \/ Speaks(e.new) \subseteq q.spoken
      BY <3>1
    <3>4. ASSUME NEW f \in F, f.address = e.new
          PROVE  <<BeforeId(q, a), f.id>> \in more
      BY <1>2, <2>2, <3>1, <3>4
    <3>. QED  BY <3>2, <3>3, <3>4 DEF IsReplaced
  <2>. QED  BY <1>8, <2>1, <2>2 DEF Grows
<1>9. SilentKept(F, q)
  <2>. HIDE DEF F
  <2>. QED  BY <1>3 DEF SilentKept
<1>10. ReplacedKept(F, q, more)
  <2>. HIDE DEF F
  <2>. QED  BY <1>8 DEF ReplacedKept
<1>11. SurvivorsKept(F, q)
  <2>1. F \subseteq E /\ OnlyModifies(new, F, q)
    BY DEF OnlyModifies
  <2>. HIDE DEF F
  <2>. QED  BY <2>1, SurvivorsStay
<1>. QED  BY <1>4, <1>7, <1>9, <1>10, <1>11 DEF PassTrue

\* There is a new operation at an address that may be used again for its name.
LEMMA PassCreates ==
  ASSUME NEW E, NEW p, NEW q, NEW known, PassTrue(E, p, known),
         NEW new, Grows(p, q, new),
         NEW x, x.name \in Names, x.address # NoAddress,
         \A e \in new : e.kind \notin {"replaced", "modified"} /\ e.address = x.address,
         \A e \in E : e.address # x.address,
         \A a \in DOMAIN p.before.tokens : BeforeId(p, a) # x.id,
         <<x.address, x.name>> \notin p.spoken
  PROVE  PassTrue(E \union {x}, q, known)
<1>. DEFINE F == E \union {x}
<1>1. q.before = p.before /\ p.spoken \subseteq q.spoken
  BY DEF Grows
<1>2. \A a : BeforeId(q, a) = BeforeId(p, a) /\ BeforeName(q, a) = BeforeName(p, a)
  BY <1>1 DEF BeforeId, BeforeName
<1>3. ASSUME NEW a \in DOMAIN q.before.tokens, SilentAt(q, a)
      PROVE  /\ \/ \E e \in F : e.address = a /\ e.id = BeforeId(q, a)
                \/ <<a, BeforeName(q, a)>> \in q.spoken
             /\ \A e \in F : (e.address = a /\ e.name = BeforeName(q, a)) => e.id = BeforeId(q, a)
  <2>1. a \in DOMAIN p.before.tokens /\ SilentAt(p, a)
    BY <1>1, <1>3 DEF Grows
  <2>2. /\ (\E e \in E : e.address = a /\ e.id = BeforeId(p, a)) \/ <<a, BeforeName(p, a)>> \in p.spoken
        /\ \A e \in E : (e.address = a /\ e.name = BeforeName(p, a)) => e.id = BeforeId(p, a)
    BY <2>1 DEF PassTrue, SilentKept
  <2>3. ~(x.address = a /\ x.name = BeforeName(p, a))
    BY <2>2
  <2>. QED  BY <1>1, <1>2, <2>2, <2>3
<1>4. BeforeKept(F, q)
  BY <1>1, <1>2 DEF PassTrue, BeforeKept
<1>5. ASSUME NEW a, IsModified(E, p, a)
      PROVE  IsModified(F, q, a)
  <2>1. x.address # a
    BY <1>5 DEF IsModified, Speaks
  <2>. QED  BY <1>1, <1>2, <1>5, <2>1 DEF IsModified
<1>6. ASSUME NEW a \in DOMAIN p.before.tokens, NEW b, IsReplaced(E, p, known, a, b)
      PROVE  IsReplaced(F, q, known, a, b)
  <2>1. x.address # b
    BY <1>6 DEF IsReplaced, Speaks
  <2>. QED  BY <1>1, <1>2, <1>6, <2>1 DEF IsReplaced
<1>7. ModifiedKept(F, q)
  <2>. HIDE DEF F
  <2>. QED  BY <1>5 DEF PassTrue, ModifiedKept, Grows
<1>8. ReplacedKept(F, q, known)
  <2>. HIDE DEF F
  <2>. QED  BY <1>1, <1>6 DEF PassTrue, ReplacedKept, Grows
<1>9. SilentKept(F, q)
  <2>. HIDE DEF F
  <2>. QED  BY <1>3 DEF SilentKept
<1>10. SurvivorsKept(F, q)
  <2>1. SurvivorsKept(E, q)
    <3>1. E \subseteq E /\ OnlyModifies(new, E, q)
      BY DEF OnlyModifies
    <3>. QED  BY <3>1, SurvivorsStay
  <2>2. \A a \in DOMAIN q.before.tokens : x.id # BeforeId(q, a)
    BY <1>1, <1>2
  <2>. QED  BY <2>1, <2>2 DEF SurvivorsKept
<1>. QED  BY <1>4, <1>7, <1>8, <1>9, <1>10 DEF PassTrue

-----------------------------------------------------------------------------
(* The operations of the function, and what the changes make of them. *)

Ops     == [name : Names, attrs : {"0", "1"}, types : {"t"}, operands : {{}},
            location : {NoLocation}]
LiveOps == [id : Int, address : Addresses, op : Ops]

\* Identities and addresses are of one operation.
Distinguished(ops) ==
  \A k, l \in 1 .. Len(ops) :
    (ops[k].id = ops[l].id \/ ops[k].address = ops[l].address) => k = l

\* What a sequence without its k-th member is.
LEMMA RemovedSeq ==
  ASSUME NEW S, NEW s \in Seq(S), NEW k \in 1 .. Len(s)
  PROVE  LET r == RemoveAt(s, k) IN
         /\ r \in Seq(S) /\ Len(r) = Len(s) - 1
         /\ \A j \in 1 .. Len(r) : r[j] = IF j < k THEN s[j] ELSE s[j + 1]
<1>. DEFINE n == Len(s)
            a == SubSeq(s, 1, k - 1)
            b == SubSeq(s, k + 1, n)
<1>1. n \in Nat /\ k \in Nat /\ 1 <= k /\ k <= n
  OBVIOUS
<1>2. /\ a \in Seq(S) /\ Len(a) = k - 1 /\ \A j \in 1 .. (k - 1) : a[j] = s[j]
      /\ b \in Seq(S) /\ Len(b) = n - k /\ \A j \in 1 .. (n - k) : b[j] = s[k + j]
  OBVIOUS
<1>3. RemoveAt(s, k) = a \o b
  BY DEF RemoveAt
<1>. HIDE DEF a, b, n
<1>4. /\ a \o b \in Seq(S) /\ Len(a \o b) = n - 1
      /\ \A j \in 1 .. n - 1 : (a \o b)[j] = IF j <= k - 1 THEN a[j] ELSE b[j - (k - 1)]
  BY <1>1, <1>2, ConcatProperties
<1>5. ASSUME NEW j \in 1 .. n - 1
      PROVE  (a \o b)[j] = IF j < k THEN s[j] ELSE s[j + 1]
  <2>1. CASE j < k
    BY <1>1, <1>2, <1>4, <2>1
  <2>2. CASE ~(j < k)
    <3>1. j - (k - 1) \in 1 .. (n - k) /\ k + (j - (k - 1)) = j + 1 /\ ~(j <= k - 1)
      BY <1>1, <2>2
    <3>. QED  BY <1>2, <1>4, <2>2, <3>1
  <2>. QED  BY <2>1, <2>2
<1>. QED  BY <1>3, <1>4, <1>5 DEF n

\* What a sequence with one more member at k is.
LEMMA InsertedSeq ==
  ASSUME NEW S, NEW s \in Seq(S), NEW k \in 1 .. Len(s) + 1, NEW x \in S
  PROVE  LET r == InsertAt(s, k, x) IN
         /\ r \in Seq(S) /\ Len(r) = Len(s) + 1
         /\ \A j \in 1 .. Len(r) : r[j] = IF j < k THEN s[j] ELSE IF j = k THEN x ELSE s[j - 1]
<1>. DEFINE n == Len(s)
            a == SubSeq(s, 1, k - 1)
            b == SubSeq(s, k, n)
            c == <<x>>
<1>1. n \in Nat /\ k \in Nat /\ 1 <= k /\ k <= n + 1
  OBVIOUS
<1>2. /\ a \in Seq(S) /\ Len(a) = k - 1 /\ \A j \in 1 .. (k - 1) : a[j] = s[j]
      /\ c \in Seq(S) /\ Len(c) = 1 /\ c[1] = x
  OBVIOUS
<1>2a. b \in Seq(S) /\ Len(b) = n + 1 - k /\ \A j \in 1 .. (n + 1 - k) : b[j] = s[k + j - 1]
  OBVIOUS
<1>3. InsertAt(s, k, x) = (a \o c) \o b
  BY DEF InsertAt
<1>. HIDE DEF a, b, c, n
<1>. DEFINE d == a \o c
<1>4. /\ d \in Seq(S) /\ Len(d) = k
      /\ \A j \in 1 .. k : d[j] = IF j <= k - 1 THEN a[j] ELSE c[j - (k - 1)]
  <2>1. Len(a) + Len(c) = k
    BY <1>1, <1>2
  <2>2. /\ d \in Seq(S) /\ Len(d) = Len(a) + Len(c)
        /\ \A j \in 1 .. Len(a) + Len(c) : d[j] = IF j <= Len(a) THEN a[j] ELSE c[j - Len(a)]
    BY <1>2, ConcatProperties, Zenon
  <2>. QED  BY <1>2, <2>1, <2>2
<1>. HIDE DEF d
<1>5. /\ d \o b \in Seq(S) /\ Len(d \o b) = n + 1
      /\ \A j \in 1 .. n + 1 : (d \o b)[j] = IF j <= k THEN d[j] ELSE b[j - k]
  <2>1. Len(d) + Len(b) = n + 1
    BY <1>1, <1>2a, <1>4
  <2>2. /\ d \o b \in Seq(S) /\ Len(d \o b) = Len(d) + Len(b)
        /\ \A j \in 1 .. Len(d) + Len(b) : (d \o b)[j] = IF j <= Len(d) THEN d[j] ELSE b[j - Len(d)]
    BY <1>2a, <1>4, ConcatProperties, Zenon
  <2>. QED  BY <1>4, <2>1, <2>2
<1>6. ASSUME NEW j \in 1 .. n + 1
      PROVE  (d \o b)[j] = IF j < k THEN s[j] ELSE IF j = k THEN x ELSE s[j - 1]
  <2>1. CASE j < k
    <3>1. j \in 1 .. (k - 1) /\ j \in 1 .. k /\ j <= k /\ j <= k - 1
      BY <1>1, <2>1
    <3>. QED  BY <1>2, <1>4, <1>5, <2>1, <3>1
  <2>2. CASE j = k
    <3>1. k \in 1 .. k /\ ~(k <= k - 1) /\ k - (k - 1) = 1 /\ ~(k < k)
      BY <1>1
    <3>. QED  BY <1>2, <1>4, <1>5, <2>2, <3>1
  <2>3. CASE j > k
    <3>1. j - k \in 1 .. (n + 1 - k) /\ k + (j - k) - 1 = j - 1 /\ ~(j <= k) /\ ~(j < k) /\ j # k
      BY <1>1, <2>3
    <3>. QED  BY <1>2a, <1>5, <3>1
  <2>4. j \in Int /\ k \in Int
    BY <1>1
  <2>5. j < k \/ j = k \/ j > k
    BY <2>4
  <2>. QED  BY <2>1, <2>2, <2>3, <2>5
<1>. QED  BY <1>3, <1>5, <1>6 DEF d, n

\* No two entries share an address or an identity.
LEMMA EntriesAre ==
  ASSUME NEW ops \in Seq(LiveOps), Distinguished(ops)
  PROVE  /\ \A e, f \in Entries(ops) : (e.address = f.address \/ e.id = f.id) => e = f
         /\ \A e \in Entries(ops) : e.address \in Addresses
         /\ \A k, l \in 1 .. Len(ops) : Entry(ops[k]) = Entry(ops[l]) => k = l
         /\ \A k \in 1 .. Len(ops) : Entry(ops[k]) \in Entries(ops)
<1>1. \A k \in 1 .. Len(ops) : ops[k] \in LiveOps
  OBVIOUS
<1>2. \A o : Entry(o).id = o.id /\ Entry(o).address = o.address /\ Entry(o).name = o.op.name
  BY DEF Entry
<1>3. \A k \in 1 .. Len(ops) : ops[k].address \in Addresses
  BY <1>1 DEF LiveOps
<1>. QED  BY <1>2, <1>3 DEF Entries, Distinguished

\* An operation is removed.
LEMMA RemovedLive ==
  ASSUME NEW ops \in Seq(LiveOps), Distinguished(ops), NEW k \in 1 .. Len(ops)
  PROVE  LET new == RemoveAt(ops, k) IN
         /\ new \in Seq(LiveOps) /\ Distinguished(new)
         /\ Entries(new) = Entries(ops) \ {Entry(ops[k])}
         /\ \A m : (\A j \in 1 .. Len(ops) : ops[j].id <= m) => \A j \in 1 .. Len(new) : new[j].id <= m
<1>. DEFINE new == RemoveAt(ops, k)
            n   == Len(ops)
            old(j) == IF j < k THEN j ELSE j + 1
<1>1. /\ new \in Seq(LiveOps) /\ Len(new) = n - 1
      /\ \A j \in 1 .. Len(new) : new[j] = IF j < k THEN ops[j] ELSE ops[j + 1]
  BY RemovedSeq
<1>. HIDE DEF new
<1>2. n \in Nat /\ k \in 1 .. n
  OBVIOUS
<1>. HIDE DEF n
<1>3. ASSUME NEW j \in 1 .. (n - 1)
      PROVE  old(j) \in 1 .. n /\ old(j) # k /\ new[j] = ops[old(j)]
  BY <1>1, <1>2
<1>4. \A i, j \in 1 .. (n - 1) : old(i) = old(j) => i = j
  BY <1>2
<1>5. ASSUME NEW i \in 1 .. n, i # k
      PROVE  \E j \in 1 .. (n - 1) : old(j) = i
  <2>1. CASE i < k
    <3>1. i \in 1 .. (n - 1) /\ old(i) = i
      BY <1>2, <2>1
    <3>. QED  BY <3>1
  <2>2. CASE i > k
    <3>1. i - 1 \in 1 .. (n - 1) /\ old(i - 1) = i
      BY <1>2, <2>2
    <3>. QED  BY <3>1
  <2>. QED  BY <1>2, <1>5, <2>1, <2>2
<1>. HIDE DEF old
<1>6. Distinguished(new)
  <2>1. ASSUME NEW i \in 1 .. (n - 1), NEW j \in 1 .. (n - 1),
               new[i].id = new[j].id \/ new[i].address = new[j].address
        PROVE  i = j
    <3>1. old(i) = old(j)
      BY <1>3, <2>1 DEF Distinguished, n
    <3>. QED  BY <1>4, <3>1
  <2>. QED  BY <1>1, <2>1 DEF Distinguished
<1>7. /\ \A i, j \in 1 .. n : Entry(ops[i]) = Entry(ops[j]) => i = j
      /\ Entries(ops) = {Entry(ops[j]) : j \in 1 .. n}
  BY EntriesAre DEF n, Entries
<1>8. Entries(new) = Entries(ops) \ {Entry(ops[k])}
  <2>1. ASSUME NEW e \in Entries(new)
        PROVE  e \in Entries(ops) \ {Entry(ops[k])}
    <3>1. PICK j \in 1 .. (n - 1) : e = Entry(new[j])
      BY <1>1 DEF Entries
    <3>. QED  BY <1>2, <1>3, <1>7, <3>1
  <2>2. ASSUME NEW e \in Entries(ops) \ {Entry(ops[k])}
        PROVE  e \in Entries(new)
    <3>1. PICK i \in 1 .. n : e = Entry(ops[i]) /\ i # k
      BY <1>7
    <3>2. PICK j \in 1 .. (n - 1) : old(j) = i
      BY <1>5, <3>1
    <3>. QED  BY <1>1, <1>3, <3>1, <3>2 DEF Entries
  <2>. QED  BY <2>1, <2>2
<1>9. \A m : (\A j \in 1 .. n : ops[j].id <= m) => \A j \in 1 .. (n - 1) : new[j].id <= m
  BY <1>3
<1>. QED  BY <1>1, <1>6, <1>8, <1>9 DEF new, n

\* An operation with an identity and an address of its own is inserted.
LEMMA InsertedLive ==
  ASSUME NEW ops \in Seq(LiveOps), Distinguished(ops), NEW k \in 1 .. Len(ops) + 1,
         NEW x \in LiveOps, \A j \in 1 .. Len(ops) : ops[j].id # x.id /\ ops[j].address # x.address
  PROVE  LET new == InsertAt(ops, k, x) IN
         /\ new \in Seq(LiveOps) /\ Distinguished(new)
         /\ Entries(new) = Entries(ops) \union {Entry(x)}
         /\ \A j \in 1 .. Len(new) : new[j] = x \/ \E i \in 1 .. Len(ops) : new[j] = ops[i]
<1>. DEFINE new == InsertAt(ops, k, x)
            n   == Len(ops)
            old(j) == IF j < k THEN j ELSE j - 1
<1>1. /\ new \in Seq(LiveOps) /\ Len(new) = n + 1
      /\ \A j \in 1 .. Len(new) : new[j] = IF j < k THEN ops[j] ELSE IF j = k THEN x ELSE ops[j - 1]
  BY InsertedSeq
<1>. HIDE DEF new
<1>2. n \in Nat /\ k \in 1 .. n + 1
  OBVIOUS
<1>. HIDE DEF n
<1>3. ASSUME NEW j \in 1 .. n + 1, j # k
      PROVE  old(j) \in 1 .. n /\ new[j] = ops[old(j)]
  BY <1>1, <1>2, <1>3
<1>4. new[k] = x
  BY <1>1, <1>2
<1>5. \A i, j \in 1 .. n + 1 : (i # k /\ j # k /\ old(i) = old(j)) => i = j
  BY <1>2
<1>6. ASSUME NEW i \in 1 .. n
      PROVE  \E j \in 1 .. n + 1 : j # k /\ old(j) = i
  <2>1. CASE i < k
    <3>1. i \in 1 .. n + 1 /\ old(i) = i /\ i # k
      BY <1>2, <2>1
    <3>. QED  BY <3>1
  <2>2. CASE ~(i < k)
    <3>1. i + 1 \in 1 .. n + 1 /\ old(i + 1) = i /\ i + 1 # k
      BY <1>2, <2>2
    <3>. QED  BY <3>1
  <2>. QED  BY <2>1, <2>2
<1>. HIDE DEF old
<1>7. \A j \in 1 .. n : ops[j].id # x.id /\ ops[j].address # x.address
  BY DEF n
<1>8. ASSUME NEW i \in 1 .. n + 1, NEW j \in 1 .. n + 1,
             new[i].id = new[j].id \/ new[i].address = new[j].address
      PROVE  i = j
  <2>1. CASE i = k \/ j = k
    BY <1>3, <1>4, <1>7, <1>8, <2>1
  <2>2. CASE i # k /\ j # k
    BY <1>3, <1>5, <1>8, <2>2 DEF Distinguished, n
  <2>. QED  BY <2>1, <2>2
<1>9. Distinguished(new)
  BY <1>1, <1>8 DEF Distinguished
<1>10. Entries(ops) = {Entry(ops[j]) : j \in 1 .. n} /\ Entries(new) = {Entry(new[j]) : j \in 1 .. n + 1}
  BY <1>1 DEF n, Entries
<1>11. Entries(new) = Entries(ops) \union {Entry(x)}
  <2>1. ASSUME NEW j \in 1 .. n + 1
        PROVE  Entry(new[j]) \in Entries(ops) \union {Entry(x)}
    BY <1>3, <1>4, <1>10
  <2>2. ASSUME NEW i \in 1 .. n
        PROVE  Entry(ops[i]) \in Entries(new)
    BY <1>3, <1>6, <1>10
  <2>3. Entry(x) \in Entries(new)
    BY <1>2, <1>4, <1>10
  <2>. QED  BY <1>10, <2>1, <2>2, <2>3
<1>12. \A j \in 1 .. Len(new) : new[j] = x \/ \E i \in 1 .. n : new[j] = ops[i]
  BY <1>1, <1>3, <1>4
<1>. QED  BY <1>1, <1>9, <1>11, <1>12 DEF new, n

\* Operations are changed in place, or change places.
LEMMA SameLive ==
  ASSUME NEW ops \in Seq(LiveOps), Distinguished(ops), NEW new \in Seq(LiveOps),
         Len(new) = Len(ops), NEW f \in [1 .. Len(ops) -> 1 .. Len(ops)],
         \A j \in 1 .. Len(ops) : f[f[j]] = j /\ Entry(new[j]) = Entry(ops[f[j]])
  PROVE  /\ Distinguished(new) /\ Entries(new) = Entries(ops)
         /\ \A m : (\A j \in 1 .. Len(ops) : ops[j].id <= m) => \A j \in 1 .. Len(new) : new[j].id <= m
<1>. DEFINE n == Len(ops)
<1>1. \A o : Entry(o).id = o.id /\ Entry(o).address = o.address
  BY DEF Entry
<1>2. \A j \in 1 .. n : new[j].id = ops[f[j]].id /\ new[j].address = ops[f[j]].address
  BY <1>1
<1>3. \A i, j \in 1 .. n : f[i] = f[j] => i = j
  OBVIOUS
<1>4. Distinguished(new)
  BY <1>2, <1>3 DEF Distinguished
<1>5. Entries(new) = Entries(ops)
  BY DEF Entries
<1>. QED  BY <1>2, <1>4, <1>5

-----------------------------------------------------------------------------
(* The snapshot of the function, and the stage of a pass that is over. *)

\* The operations and their identities are those of a snapshot.
SameOps(s, t) == s.ops = t.ops /\ s.ids = t.ids
Current(ops)  == [ops |-> [k \in DOMAIN ops |-> ops[k].op], ids |-> [k \in DOMAIN ops |-> ops[k].id]]

\* Every operation of a snapshot has its identity and an address.
Indexed(s) ==
  /\ DOMAIN s.ids = 1 .. Len(s.ops)
  /\ \A k \in 1 .. Len(s.ops) : \E a \in DOMAIN s.tokens : s.tokens[a] = k

\* The operation at an address of a snapshot.
EntryAt(s, a) == [id |-> s.ids[s.tokens[a]], address |-> a, name |-> s.ops[s.tokens[a]].name]

\* Every address of a snapshot has its operation.
EntriesIn(s, E) == \A a \in DOMAIN s.tokens : EntryAt(s, a) \in E

\* A snapshot has the operations of the function, each at most at one address.
LEMMA SnapshotIs ==
  ASSUME live \in Seq(LiveOps), Distinguished(live)
  PROVE  /\ SameOps(Snapshot, Current(live)) /\ IsSnapshot(Snapshot)
         /\ Len(Snapshot.ops) = Len(live)
         /\ DOMAIN Snapshot.ids = 1 .. Len(live)
         /\ \A k \in 1 .. Len(live) : Snapshot.ids[k] = live[k].id
         /\ fidelity = "text" => DOMAIN Snapshot.tokens = {}
         /\ fidelity # "text" => Indexed(Snapshot)
         /\ EntriesIn(Snapshot, Entries(live))
<1>. DEFINE n == Len(live)
            s == Snapshot
            ops == [k \in DOMAIN live |-> live[k].op]
            ids == [k \in DOMAIN live |-> live[k].id]
            A   == AddressesOf(live)
            at(a) == CHOOSE k \in DOMAIN live : live[k].address = a
            tokens == IF fidelity = "text" THEN <<>> ELSE [a \in A |-> at(a)]
<1>1. n \in Nat /\ DOMAIN live = 1 .. n
  OBVIOUS
<1>2. s.ops = ops /\ s.ids = ids /\ s.tokens = tokens
  BY DEF Snapshot
<1>. HIDE DEF s
<1>3. Len(ops) = n /\ DOMAIN ops = 1 .. n /\ \A k \in 1 .. n : ops[k] = live[k].op
  <2>. DEFINE P == {live[k].op : k \in 1 .. n}
  <2>1. ops \in [1 .. n -> P]
    BY <1>1
  <2>. HIDE DEF P
  <2>. QED  BY <1>1, <2>1, LenIs
<1>4. DOMAIN ids = 1 .. n /\ \A k \in 1 .. n : ids[k] = live[k].id
  BY <1>1
<1>5. SameOps(s, Current(live))
  BY <1>2 DEF SameOps, Current
<1>. HIDE DEF ops, ids, n
<1>6. A = {live[k].address : k \in 1 .. n}
  BY <1>1 DEF AddressesOf, Range
<1>7. ASSUME NEW a \in A
      PROVE  at(a) \in 1 .. n /\ live[at(a)].address = a
  <2>1. \E k \in DOMAIN live : live[k].address = a
    BY <1>1, <1>6
  <2>. HIDE DEF A
  <2>. QED  BY <1>1, <2>1
<1>8. IsFiniteSet(A)
  <2>. DEFINE f == [k \in 1 .. n |-> live[k].address]
  <2>1. f \in Surjection(1 .. n, A)
    BY <1>6 DEF Surjection
  <2>2. IsFiniteSet(1 .. n)
    BY <1>1, FS_Interval
  <2>. HIDE DEF f, A
  <2>. QED  BY <2>1, <2>2, FS_Surjection
<1>. HIDE DEF A, at
<1>9. /\ DOMAIN tokens = IF fidelity = "text" THEN {} ELSE A
      /\ \A a \in DOMAIN tokens : tokens[a] = at(a) /\ a \in A
  <2>1. DOMAIN <<>> = {}
    OBVIOUS
  <2>. QED  BY <2>1
<1>. HIDE DEF tokens
<1>10. IsSnapshot(s)
  <2>1. IsFiniteSet(DOMAIN tokens)
    BY <1>8, <1>9, FS_EmptySet
  <2>2. \A a \in DOMAIN tokens : tokens[a] \in 1 .. n /\ live[tokens[a]].address = a
    BY <1>7, <1>9
  <2>. QED  BY <1>1, <1>2, <1>3, <2>1, <2>2 DEF IsSnapshot
<1>11. ASSUME NEW a \in DOMAIN tokens
       PROVE  EntryAt(s, a) \in Entries(live)
  <2>. DEFINE k == at(a)
  <2>1. k \in 1 .. n /\ live[k].address = a /\ tokens[a] = k
    BY <1>7, <1>9
  <2>. HIDE DEF k
  <2>2. EntryAt(s, a) = Entry(live[k])
    BY <1>2, <1>3, <1>4, <2>1 DEF EntryAt, Entry
  <2>. QED  BY <2>1, <2>2 DEF Entries, n
<1>12. EntriesIn(s, Entries(live))
  BY <1>2, <1>11 DEF EntriesIn
<1>13. ASSUME fidelity # "text"
       PROVE  Indexed(s)
  <2>1. ASSUME NEW k \in 1 .. n
        PROVE  \E a \in DOMAIN tokens : tokens[a] = k
    <3>. DEFINE a == live[k].address
    <3>1. a \in A
      BY <1>6
    <3>2. at(a) \in 1 .. n /\ live[at(a)].address = a /\ a \in DOMAIN tokens /\ tokens[a] = at(a)
      BY <1>7, <1>9, <1>13, <3>1
    <3>3. at(a) = k
      BY <3>2 DEF Distinguished, n
    <3>. QED  BY <3>2, <3>3
  <2>. QED  BY <1>2, <1>3, <1>4, <2>1 DEF Indexed
<1>. QED  BY <1>2, <1>3, <1>4, <1>5, <1>9, <1>10, <1>12, <1>13 DEF s, n

\* A pass that begins has recorded nothing, and every operation is where it is.
LEMMA PassBegins ==
  ASSUME NEW E, \A e, f \in E : (e.address = f.address \/ e.id = f.id) => e = f,
         NEW p, EntriesIn(p.before, E), p.events = <<>>, NEW known
  PROVE  PassTrue(E, p, known)
<1>1. 1 .. Len(p.events) = {}
  OBVIOUS
<1>2. ASSUME NEW a \in DOMAIN p.before.tokens
      PROVE  \E e \in E : e.id = BeforeId(p, a) /\ e.address = a /\ e.name = BeforeName(p, a)
  <2>1. EntryAt(p.before, a) \in E
    BY DEF EntriesIn
  <2>. QED  BY <2>1 DEF EntryAt, BeforeId, BeforeName
<1>3. SilentKept(E, p)
  BY <1>2 DEF SilentKept
<1>4. BeforeKept(E, p)
  BY <1>2 DEF BeforeKept
<1>5. ModifiedKept(E, p) /\ ReplacedKept(E, p, known) /\ SurvivorsKept(E, p)
  BY <1>1 DEF ModifiedKept, ReplacedKept, SurvivorsKept, OnlyModified
<1>. QED  BY <1>3, <1>4, <1>5 DEF PassTrue

\* What holds in a pass to its end is true of its stage.
LEMMA PassEnds ==
  ASSUME NEW E, NEW p, NEW known, PassTrue(E, p, known),
         NEW st, st.before = p.before, st.events = p.events, st.moved = p.moved,
         EntriesIn(st.after, E)
  PROVE  StageTrue(st, known)
<1>1. ASSUME NEW a \in DOMAIN st.after.tokens
      PROVE  \E e \in E : /\ e.id = AfterId(st, a) /\ e.address = a
                          /\ e.name = st.after.ops[st.after.tokens[a]].name
  <2>1. EntryAt(st.after, a) \in E
    BY DEF EntriesIn
  <2>. QED  BY <2>1 DEF EntryAt, AfterId
<1>2. \A a : BeforeId(st, a) = BeforeId(p, a) /\ BeforeName(p, a) = st.before.ops[st.before.tokens[a]].name
  BY DEF BeforeId, BeforeName
<1>3. SilentTrue(st)
  <2>. SUFFICES ASSUME NEW a \in BothTokens(st),
                       \A k \in 1 .. Len(st.events) : st.events[k].address # a,
                       st.before.ops[st.before.tokens[a]].name = st.after.ops[st.after.tokens[a]].name
                PROVE  BeforeId(st, a) = AfterId(st, a)
    BY DEF SilentTrue
  <2>1. PICK e \in E : /\ e.id = AfterId(st, a) /\ e.address = a
                       /\ e.name = st.after.ops[st.after.tokens[a]].name
    BY <1>1 DEF BothTokens
  <2>2. SilentAt(p, a) /\ a \in DOMAIN p.before.tokens
    BY DEF SilentAt, BothTokens
  <2>3. e.id = BeforeId(p, a)
    BY <1>2, <2>1, <2>2 DEF PassTrue, SilentKept
  <2>. QED  BY <1>2, <2>1, <2>3
<1>4. ModifiedTrue(st)
  <2>. SUFFICES ASSUME NEW k \in 1 .. Len(st.events), st.events[k].kind = "modified",
                       st.events[k].address \in BothTokens(st)
                PROVE  BeforeId(st, st.events[k].address) = AfterId(st, st.events[k].address)
    BY DEF ModifiedTrue
  <2>. DEFINE a == st.events[k].address
  <2>1. PICK e \in E : e.id = AfterId(st, a) /\ e.address = a
    BY <1>1 DEF BothTokens
  <2>2. IsModified(E, p, a) /\ a \in DOMAIN p.before.tokens
    BY DEF PassTrue, ModifiedKept, BothTokens
  <2>. QED  BY <1>2, <2>1, <2>2 DEF IsModified
<1>5. ReplacedTrue(st, known)
  <2>. SUFFICES ASSUME NEW k \in 1 .. Len(st.events), Replaces(st.events, k),
                       st.events[k].address \in DOMAIN st.before.tokens
                PROVE  LET a == st.events[k].address IN
                       /\ \A x \in DOMAIN st.after.tokens : AfterId(st, x) # BeforeId(st, a)
                       /\ st.events[k].new \in DOMAIN st.after.tokens =>
                            <<BeforeId(st, a), AfterId(st, st.events[k].new)>> \in known
    BY DEF ReplacedTrue
  <2>. DEFINE a == st.events[k].address
  <2>1. IsReplaced(E, p, known, a, st.events[k].new)
    BY DEF PassTrue, ReplacedKept
  <2>. HIDE DEF a
  <2>2. /\ \A e \in E : e.id # BeforeId(p, a)
        /\ \A e \in E : e.address = st.events[k].new => <<BeforeId(p, a), e.id>> \in known
    BY <2>1 DEF IsReplaced
  <2>3. \A x \in DOMAIN st.after.tokens : AfterId(st, x) # BeforeId(st, a)
    BY <1>1, <1>2, <2>2
  <2>4. ASSUME st.events[k].new \in DOMAIN st.after.tokens
        PROVE  <<BeforeId(st, a), AfterId(st, st.events[k].new)>> \in known
    BY <1>1, <1>2, <2>2, <2>4
  <2>. QED  BY <2>3, <2>4 DEF a
<1>6. SurvivorsTrue(st)
  <2>. SUFFICES ASSUME NEW a \in DOMAIN st.before.tokens, NEW b \in DOMAIN st.after.tokens,
                       BeforeId(st, a) = AfterId(st, b), BeforeId(st, a) \notin st.moved
                PROVE  /\ a = b /\ OnlyModified(st.events, a)
                       /\ st.before.ops[st.before.tokens[a]].name =
                            st.after.ops[st.after.tokens[b]].name
    BY DEF SurvivorsTrue
  <2>1. PICK e \in E : /\ e.id = AfterId(st, b) /\ e.address = b
                       /\ e.name = st.after.ops[st.after.tokens[b]].name
    BY <1>1
  <2>2. e.id = BeforeId(p, a) /\ a \in DOMAIN p.before.tokens /\ e.id \notin p.moved
    BY <1>2, <2>1
  <2>3. e.address = a /\ e.name = BeforeName(p, a) /\ OnlyModified(p.events, a)
    BY <2>2 DEF PassTrue, BeforeKept, SurvivorsKept
  <2>. QED  BY <1>2, <2>1, <2>3
<1>. QED  BY <1>3, <1>4, <1>5, <1>6 DEF StageTrue

\* What is known does not become false.
LEMMA StageStaysTrue ==
  ASSUME NEW st, NEW known, NEW more, known \subseteq more, StageTrue(st, known)
  PROVE  StageTrue(st, more)
BY DEF StageTrue, ReplacedTrue

-----------------------------------------------------------------------------
(* The inductive invariant. *)

EventSet == [kind : EventKinds, address : Addresses, new : Addresses \union {NoAddress}]

TypeInv ==
  /\ live \in Seq(LiveOps) /\ Distinguished(live)
  /\ changes \in Nat /\ \A k \in 1 .. Len(live) : live[k].id <= changes
  /\ fidelity \in {"full", "text"}
  /\ DOMAIN pass = {"before", "events", "spoken", "moved"}
  /\ pass.events \in Seq(EventSet)
  /\ fidelity = "text" => pass.events = <<>>

\* What a pass has before it has no identity that is given later.
IsBefore(s, m, text) ==
  /\ IsSnapshot(s) /\ DOMAIN s.ids = 1 .. Len(s.ops)
  /\ \A k \in 1 .. Len(s.ops) : s.ids[k] \in Int /\ s.ids[k] <= m
  /\ text => DOMAIN s.tokens = {}
  /\ ~text => Indexed(s)

PassInv ==
  Running => /\ IsBefore(pass.before, changes, fidelity = "text")
             /\ PassTrue(Entries(live), pass, origin)

\* From stage to stage, and to the operations there are now, these are the same.
Continues(tl, now) ==
  /\ \A i \in 1 .. Len(tl) :
       (i # 1 /\ tl[i - 1].after # Missing /\ tl[i].before # Missing) =>
         SameOps(tl[i - 1].after, tl[i].before)
  /\ (Len(tl) # 0 /\ tl[Len(tl)].after # Missing) => SameOps(tl[Len(tl)].after, now)

TimelineTrue(tl, known) ==
  /\ tl \in Seq({tl[i] : i \in 1 .. Len(tl)}) /\ IsTimeline(tl)
  /\ \A i \in 1 .. Len(tl) : StageTrue(tl[i], known)

\* The snapshots of a stage have all their operations indexed.
StageIndexed(st) ==
  /\ st.before # Missing /\ Indexed(st.before)
  /\ st.after # Missing => Indexed(st.after)

StagesInv ==
  /\ TimelineTrue(stages, origin)
  /\ Continues(stages, IF Running THEN pass.before ELSE Current(live))
  /\ fidelity # "text" => \A i \in 1 .. Len(stages) : StageIndexed(stages[i])

IInv == TypeInv /\ PassInv /\ StagesInv

\* Identities are numbers.
LEMMA LiveIds ==
  ASSUME NEW ops \in Seq(LiveOps)
  PROVE  \A k \in 1 .. Len(ops) : ops[k] \in LiveOps /\ ops[k].id \in Int
<1>1. \A k \in 1 .. Len(ops) : ops[k] \in LiveOps
  OBVIOUS
<1>. QED  BY <1>1 DEF LiveOps

\* More is known.
LEMMA TimelineStaysTrue ==
  ASSUME NEW tl, NEW known, NEW more, known \subseteq more, TimelineTrue(tl, known)
  PROVE  TimelineTrue(tl, more)
BY StageStaysTrue DEF TimelineTrue

\* What is now has the operations of what was.
LEMMA ContinuesWith ==
  ASSUME NEW tl, NEW now, NEW next, SameOps(now, next), Continues(tl, now)
  PROVE  Continues(tl, next)
BY DEF Continues, SameOps

\* Another stage.
LEMMA TimelineGrows ==
  ASSUME NEW tl, NEW known, TimelineTrue(tl, known), NEW now, Continues(tl, now),
         NEW st, IsStage(st), StageTrue(st, known), st.before # Missing => st.before = now,
         NEW next, st.after # Missing => SameOps(st.after, next)
  PROVE  TimelineTrue(Append(tl, st), known) /\ Continues(Append(tl, st), next)
<1>. DEFINE n == Len(tl)
            S == {tl[i] : i \in 1 .. n} \union {st}
            new == Append(tl, st)
<1>1. n \in Nat /\ tl \in Seq(S) /\ st \in S
  BY DEF TimelineTrue, IsTimeline
<1>. HIDE DEF S
<1>2. new \in Seq(S) /\ Len(new) = n + 1 /\ (\A i \in 1 .. n : new[i] = tl[i]) /\ new[n + 1] = st
  BY <1>1, AppendProperties
<1>. HIDE DEF new, n
<1>3. \A i \in 1 .. n + 1 : i \in 1 .. n \/ i = n + 1
  BY <1>1
<1>4. new \in Seq({new[i] : i \in 1 .. Len(new)})
  <2>1. DOMAIN new = 1 .. (n + 1)
    BY <1>2
  <2>. DEFINE T == {new[i] : i \in 1 .. n + 1}
  <2>2. new \in [1 .. (n + 1) -> T]
    BY <1>2, <2>1
  <2>3. n + 1 \in Nat
    BY <1>1
  <2>. HIDE DEF T
  <2>4. new \in Seq(T)
    BY <2>2, <2>3, LenIs
  <2>. QED  BY <1>2, <2>4 DEF T
<1>5. \A i \in 1 .. n : IsStage(tl[i]) /\ StageTrue(tl[i], known)
  BY DEF TimelineTrue, IsTimeline, n
<1>6. IsTimeline(new)
  BY <1>1, <1>2, <1>3, <1>5 DEF IsTimeline
<1>7. TimelineTrue(new, known)
  BY <1>2, <1>3, <1>4, <1>5, <1>6 DEF TimelineTrue
<1>8. ASSUME NEW i \in 1 .. n + 1, i # 1, new[i - 1].after # Missing, new[i].before # Missing
      PROVE  SameOps(new[i - 1].after, new[i].before)
  <2>1. CASE i \in 1 .. n
    <3>1. i - 1 \in 1 .. n
      BY <1>1, <1>8, <2>1
    <3>. QED  BY <1>2, <1>8, <2>1, <3>1 DEF Continues, n
  <2>2. CASE i = n + 1
    <3>1. i - 1 = n /\ n \in 1 .. n /\ n # 0
      BY <1>1, <1>8, <2>2
    <3>. QED  BY <1>2, <1>8, <2>2, <3>1 DEF Continues, n
  <2>. QED  BY <1>3, <2>1, <2>2
<1>9. Continues(new, next)
  BY <1>2, <1>8 DEF Continues
<1>. QED  BY <1>7, <1>9 DEF new

\* The invariant holds at first.
LEMMA InitIs ==
  ASSUME Init
  PROVE  IInv
<1>. DEFINE n == Len(Start)
            op(place, k) == [id |-> -k, address |-> place[k], op |-> Operation(Start[k], "0")]
<1>1. PICK place \in [DOMAIN Start -> Addresses] :
        IsInjective(place) /\ live = [k \in DOMAIN Start |-> op(place, k)]
  BY DEF Init
<1>2. n \in Nat /\ DOMAIN Start = 1 .. n /\ \A k \in 1 .. n : Start[k] \in Names
  BY LineageAssumption
<1>. HIDE DEF n
<1>3. ASSUME NEW k \in 1 .. n
      PROVE  op(place, k) \in LiveOps
  BY <1>2 DEF LiveOps, Ops, Operation
<1>4. live \in Seq(LiveOps) /\ Len(live) = n /\ \A k \in 1 .. n : live[k] = op(place, k)
  <2>1. live \in [1 .. n -> LiveOps]
    BY <1>1, <1>2, <1>3
  <2>2. \A k \in 1 .. n : live[k] = op(place, k)
    BY <1>1, <1>2
  <2>. QED  BY <1>2, <2>1, <2>2, LenIs
<1>5. Distinguished(live)
  BY <1>1, <1>2, <1>4 DEF Distinguished, IsInjective
<1>6. /\ pass = NoPass /\ stages = <<>> /\ changes = 0 /\ fidelity \in {"full", "text"}
  BY DEF Init
<1>7. TypeInv
  BY <1>2, <1>4, <1>5, <1>6 DEF TypeInv, NoPass
<1>8. ~Running
  BY <1>6 DEF Running, NoPass
<1>9. TimelineTrue(stages, origin) /\ \A now : Continues(stages, now)
  <2>1. stages \in Seq({stages[i] : i \in 1 .. Len(stages)}) /\ Len(stages) = 0 /\ 1 .. Len(stages) = {}
    BY <1>6
  <2>. QED  BY <2>1 DEF TimelineTrue, IsTimeline, Continues
<1>10. 1 .. Len(stages) = {}
  BY <1>6
<1>. QED  BY <1>7, <1>8, <1>9, <1>10 DEF IInv, PassInv, StagesInv

\* StartPass: every operation is where the snapshot has it.
LEMMA StartPassKeeps ==
  ASSUME IInv, StartPass
  PROVE  IInv'
<1>1. /\ ~Running /\ UNCHANGED <<live, stages, elsewhere, fidelity, origin, changes>>
      /\ TypeInv /\ StagesInv
  BY DEF StartPass, IInv
<1>2. /\ pass'.before = Snapshot /\ pass'.events = <<>>
      /\ DOMAIN pass' = {"before", "events", "spoken", "moved"}
  BY DEF StartPass, NoPass
<1>3. /\ SameOps(Snapshot, Current(live)) /\ IsSnapshot(Snapshot)
      /\ Len(Snapshot.ops) = Len(live)
      /\ DOMAIN Snapshot.ids = 1 .. Len(live)
      /\ \A k \in 1 .. Len(live) : Snapshot.ids[k] = live[k].id
      /\ fidelity = "text" => DOMAIN Snapshot.tokens = {}
      /\ fidelity # "text" => Indexed(Snapshot)
      /\ EntriesIn(Snapshot, Entries(live))
  BY <1>1, SnapshotIs DEF TypeInv
<1>4. TypeInv'
  BY <1>1, <1>2 DEF TypeInv
<1>5. PassTrue(Entries(live), pass', origin)
  <2>1. \A e, f \in Entries(live) : (e.address = f.address \/ e.id = f.id) => e = f
    BY <1>1, EntriesAre DEF TypeInv
  <2>2. EntriesIn(pass'.before, Entries(live)) /\ pass'.events = <<>>
    BY <1>2, <1>3
  <2>. QED  BY <2>1, <2>2, PassBegins
<1>6. IsBefore(Snapshot, changes, fidelity = "text")
  BY <1>1, <1>3, LiveIds DEF IsBefore, TypeInv
<1>7. PassInv'
  <2>1. IsBefore(pass'.before, changes', fidelity' = "text")
    BY <1>1, <1>2, <1>6
  <2>2. PassTrue(Entries(live)', pass', origin')
    BY <1>1, <1>5 DEF Entries
  <2>. QED  BY <2>1, <2>2 DEF PassInv
<1>8. Continues(stages, Snapshot)
  <2>1. SameOps(Current(live), Snapshot) /\ Continues(stages, Current(live))
    BY <1>1, <1>3 DEF SameOps, StagesInv
  <2>. QED  BY <2>1, ContinuesWith
<1>9. StagesInv'
  BY <1>1, <1>2, <1>8 DEF StagesInv, Running
<1>. QED  BY <1>4, <1>7, <1>9 DEF IInv

\* EndPass: what holds in the pass becomes true of the stage.
LEMMA EndPassKeeps ==
  ASSUME IInv, EndPass
  PROVE  IInv'
<1>1. /\ Running /\ UNCHANGED <<live, elsewhere, fidelity, origin, changes>> /\ pass' = NoPass
      /\ TypeInv /\ PassInv /\ StagesInv
  BY DEF EndPass, IInv
<1>2. PICK after \in {Snapshot, Missing} : stages' = Append(stages, Stage(after))
  BY DEF EndPass
<1>3. TypeInv'
  BY <1>1 DEF TypeInv, NoPass
<1>4. ~Running'
  BY <1>1 DEF Running, NoPass
<1>. DEFINE st == Stage(after)
<1>5. /\ st.before = pass.before /\ st.after = after /\ st.events = pass.events
      /\ st.moved = pass.moved
  BY DEF Stage
<1>. HIDE DEF st
<1>6. ASSUME after # Missing
      PROVE  /\ SameOps(after, Current(live)) /\ IsSnapshot(after) /\ EntriesIn(after, Entries(live))
             /\ fidelity # "text" => Indexed(after)
  BY <1>1, <1>6, SnapshotIs DEF TypeInv
<1>7. IsStage(st)
  <2>1. IsSnapshot(pass.before)
    BY <1>1 DEF PassInv, IsBefore
  <2>2. Len(pass.events) \in Nat /\ \A k \in 1 .. Len(pass.events) : pass.events[k].kind \in EventKinds
    <3>1. pass.events \in Seq(EventSet)
      BY <1>1 DEF TypeInv
    <3>2. Len(pass.events) \in Nat /\ \A k \in 1 .. Len(pass.events) : pass.events[k] \in EventSet
      BY <3>1
    <3>. QED  BY <3>2 DEF EventSet
  <2>. QED  BY <1>5, <1>6, <2>1, <2>2 DEF IsStage
<1>8. StageTrue(st, origin)
  <2>1. CASE after = Missing
    BY <1>5, <2>1 DEF StageTrue
  <2>2. CASE after # Missing
    <3>1. PassTrue(Entries(live), pass, origin)
      BY <1>1 DEF PassInv
    <3>2. /\ st.before = pass.before /\ st.events = pass.events /\ st.moved = pass.moved
          /\ EntriesIn(st.after, Entries(live))
      BY <1>5, <1>6, <2>2
    <3>. QED  BY <3>1, <3>2, PassEnds
  <2>. QED  BY <2>1, <2>2
<1>9. TimelineTrue(stages', origin) /\ Continues(stages', Current(live))
  <2>1. TimelineTrue(stages, origin) /\ Continues(stages, pass.before)
    BY <1>1 DEF StagesInv
  <2>2. st.after # Missing => SameOps(st.after, Current(live))
    BY <1>5, <1>6
  <2>3. TimelineTrue(Append(stages, st), origin) /\ Continues(Append(stages, st), Current(live))
    BY <1>5, <1>7, <1>8, <2>1, <2>2, TimelineGrows
  <2>. QED  BY <1>2, <2>3 DEF st
<1>10. ASSUME fidelity # "text", NEW i \in 1 .. Len(stages')
       PROVE  StageIndexed(stages'[i])
  <2>1. StageIndexed(st)
    <3>1. Running /\ Indexed(pass.before)
      BY <1>1, <1>10 DEF PassInv, IsBefore
    <3>. QED  BY <1>5, <1>6, <1>10, <3>1 DEF StageIndexed, Running
  <2>2. \A j \in 1 .. Len(stages) : StageIndexed(stages[j])
    BY <1>1, <1>10 DEF StagesInv
  <2>3. stages' = Append(stages, st) /\ stages \in Seq({stages[j] : j \in 1 .. Len(stages)} \union {st})
    <3>1. stages \in Seq({stages[j] : j \in 1 .. Len(stages)})
      BY <1>1 DEF StagesInv, TimelineTrue
    <3>. QED  BY <1>2, <3>1 DEF st
  <2>4. \/ i \in 1 .. Len(stages) /\ stages'[i] = stages[i]
        \/ stages'[i] = st
    BY <2>3, AppendProperties
  <2>. QED  BY <2>1, <2>2, <2>4
<1>11. StagesInv'
  BY <1>1, <1>4, <1>9, <1>10 DEF StagesInv
<1>. QED  BY <1>3, <1>4, <1>11 DEF IInv, PassInv

\* ChangeElsewhere: no operation of the function changes.
LEMMA ChangeElsewhereKeeps ==
  ASSUME IInv, ChangeElsewhere
  PROVE  IInv'
<1>1. /\ ~Running /\ UNCHANGED <<live, stages, pass, fidelity, origin>> /\ changes' = changes + 1
      /\ TypeInv /\ PassInv /\ StagesInv
  BY DEF ChangeElsewhere, IInv
<1>2. TypeInv'
  <2>1. changes + 1 \in Nat /\ \A k \in 1 .. Len(live) : live[k].id <= changes + 1
    BY <1>1, LiveIds DEF TypeInv
  <2>. QED  BY <1>1, <2>1 DEF TypeInv
<1>3. ~Running'
  BY <1>1 DEF Running
<1>4. StagesInv'
  BY <1>1, <1>3 DEF StagesInv
<1>. QED  BY <1>2, <1>3, <1>4 DEF IInv, PassInv

-----------------------------------------------------------------------------
(* The changes of a pass keep the invariant. *)

\* A pass of which only the text is recorded says nothing of any operation.
LEMMA TextTrue ==
  ASSUME NEW E, NEW p, NEW known, DOMAIN p.before.tokens = {}, p.events = <<>>
  PROVE  PassTrue(E, p, known)
<1>1. 1 .. Len(p.events) = {}
  OBVIOUS
<1>. QED  BY <1>1 DEF PassTrue, SilentKept, BeforeKept, ModifiedKept, ReplacedKept, SurvivorsKept

\* A change makes other operations of the function, and what holds in the pass goes on
\* to hold if operations are indexed.
LEMMA RewriteKeeps ==
  ASSUME IInv, Running,
         NEW ops \in Seq(LiveOps), Distinguished(ops),
         \A k \in 1 .. Len(ops) : ops[k].id <= changes + 1,
         NEW events \in Seq(EventSet), NEW spoken, NEW moved,
         Rewrite(ops, events, spoken, moved), origin \subseteq origin',
         fidelity = "full" => PassTrue(Entries(ops), pass', origin')
  PROVE  IInv'
<1>1. /\ TypeInv /\ PassInv /\ StagesInv
      /\ changes' = changes + 1 /\ live' = ops /\ UNCHANGED <<stages, elsewhere, fidelity>>
  BY DEF IInv, Rewrite
<1>2. /\ DOMAIN pass = {"before", "events", "spoken", "moved"} /\ pass.events \in Seq(EventSet)
      /\ fidelity \in {"full", "text"}
  BY <1>1 DEF TypeInv
<1>3. /\ DOMAIN pass' = DOMAIN pass /\ pass'.before = pass.before
      /\ pass'.events = pass.events \o (IF fidelity = "full" THEN events ELSE <<>>)
  BY <1>2 DEF Rewrite
<1>4. /\ pass'.events \in Seq(EventSet)
      /\ fidelity = "text" => pass'.events = <<>>
  <2>1. CASE fidelity = "full"
    BY <1>2, <1>3, <2>1
  <2>2. CASE fidelity # "full"
    <3>1. pass'.events = <<>> \o <<>>
      BY <1>1, <1>2, <1>3, <2>2 DEF TypeInv
    <3>. QED  BY <3>1
  <2>. QED  BY <2>1, <2>2
<1>5. changes \in Nat /\ changes + 1 \in Nat
  BY <1>1 DEF TypeInv
<1>6. TypeInv'
  BY <1>1, <1>2, <1>3, <1>4, <1>5 DEF TypeInv
<1>7. Running'
  BY <1>3 DEF Running
<1>8. PassInv'
  <2>1. IsBefore(pass.before, changes, fidelity = "text")
    BY <1>1 DEF PassInv
  <2>2. IsBefore(pass.before, changes + 1, fidelity = "text")
    <3>. QED  BY <1>5, <2>1 DEF IsBefore
  <2>3. PassTrue(Entries(ops), pass', origin')
    <3>1. CASE fidelity = "full"
      BY <3>1
    <3>2. CASE fidelity = "text"
      <4>1. DOMAIN pass'.before.tokens = {} /\ pass'.events = <<>>
        BY <1>3, <1>4, <2>1, <3>2 DEF IsBefore
      <4>. QED  BY <4>1, TextTrue
    <3>. QED  BY <1>2, <3>1, <3>2
  <2>. QED  BY <1>1, <1>3, <2>2, <2>3 DEF PassInv
<1>9. StagesInv'
  <2>1. TimelineTrue(stages, origin) /\ Continues(stages, pass.before)
    BY <1>1 DEF StagesInv
  <2>2. TimelineTrue(stages, origin')
    BY <2>1, TimelineStaysTrue
  <2>. QED  BY <1>1, <1>3, <1>7, <2>1, <2>2 DEF StagesInv
<1>. QED  BY <1>6, <1>8, <1>9 DEF IInv

\* What a change adds to a pass if operations are indexed.
LEMMA RewriteGrows ==
  ASSUME IInv, Running, NEW ops, NEW events \in Seq(EventSet), NEW spoken, NEW moved,
         Rewrite(ops, events, spoken, moved), fidelity = "full"
  PROVE  /\ Grows(pass, pass', {events[k] : k \in 1 .. Len(events)})
         /\ spoken \subseteq pass'.spoken /\ moved \subseteq pass'.moved
<1>1. DOMAIN pass = {"before", "events", "spoken", "moved"} /\ pass.events \in Seq(EventSet)
  BY DEF IInv, TypeInv
<1>2. /\ pass'.before = pass.before /\ pass'.events = pass.events \o events
      /\ pass'.spoken = pass.spoken \union spoken /\ pass'.moved = pass.moved \union moved
  BY <1>1 DEF Rewrite
<1>3. /\ pass.spoken \subseteq pass'.spoken /\ spoken \subseteq pass'.spoken
      /\ pass.moved \subseteq pass'.moved /\ moved \subseteq pass'.moved
  BY <1>2
<1>4. Grows(pass, pass', {events[k] : k \in 1 .. Len(events)})
  <2>. DEFINE some == {events[k] : k \in 1 .. Len(events)}
  <2>1. ASSUME NEW p, NEW q, p.events \in Seq(EventSet), q.before = p.before,
               p.spoken \subseteq q.spoken, p.moved \subseteq q.moved,
               q.events = p.events \o events
        PROVE  Grows(p, q, some)
    BY <2>1, GrowsWith
  <2>. HIDE DEF some
  <2>2. Grows(pass, pass', some)
    BY <1>1, <1>2, <1>3, <2>1
  <2>. QED  BY <2>2 DEF some
<1>. QED  BY <1>3, <1>4

\* What is notified of, if anything is.
LEMMA NotifiedIs ==
  ASSUME NEW e \in EventSet, NEW n \in BOOLEAN
  PROVE  LET events == Notified(n, <<e>>) IN
         /\ events \in Seq(EventSet)
         /\ {events[k] : k \in 1 .. Len(events)} = IF n THEN {e} ELSE {}
<1>1. /\ <<e>> \in Seq(EventSet) /\ Len(<<e>>) = 1 /\ <<e>>[1] = e
      /\ <<>> \in Seq(EventSet) /\ Len(<<>>) = 0
  OBVIOUS
<1>. QED  BY <1>1 DEF Notified

\* Two events are a sequence of them.
LEMMA TwoAre ==
  ASSUME NEW e \in EventSet, NEW f \in EventSet
  PROVE  <<e, f>> \in Seq(EventSet) /\ {<<e, f>>[k] : k \in 1 .. Len(<<e, f>>)} = {e, f}
<1>1. <<e, f>> \in Seq(EventSet) /\ Len(<<e, f>>) = 2 /\ <<e, f>>[1] = e /\ <<e, f>>[2] = f
  OBVIOUS
<1>2. 1 .. 2 = {1, 2}
  OBVIOUS
<1>. QED  BY <1>1, <1>2

\* An event has the fields it is made of.
LEMMA EventIsOne ==
  ASSUME NEW kind \in EventKinds, NEW a \in Addresses, NEW b \in Addresses \union {NoAddress}
  PROVE  /\ Event(kind, a, b) \in EventSet /\ Event(kind, a, b).kind = kind
         /\ Event(kind, a, b).address = a /\ Event(kind, a, b).new = b
BY DEF Event, EventSet

\* An operation that is there before has the identity of its address, if that is not reused.
LEMMA NotReused ==
  ASSUME NEW k \in 1 .. Len(live), ~IsReuse(k), NEW m, NEW text, IsBefore(pass.before, m, text),
         live[k].address \in DOMAIN pass.before.tokens
  PROVE  BeforeId(pass, live[k].address) = live[k].id
<1>. DEFINE i == pass.before.tokens[live[k].address]
<1>1. i \in DOMAIN pass.before.ids
  BY DEF IsBefore, IsSnapshot
<1>2. pass.before.ids[i] = live[k].id
  BY <1>1 DEF IsReuse
<1>. QED  BY <1>2 DEF BeforeId

\* Create: the address is free, and not one of which an event says too much.
LEMMA CreateKeeps ==
  ASSUME IInv, Create
  PROVE  IInv'
<1>1. Running /\ TypeInv /\ PassInv /\ UNCHANGED origin
  BY DEF Create, IInv
<1>. DEFINE e(a)    == Event("inserted", a, NoAddress)
            x(a, name) == [id |-> changes + 1, address |-> a, op |-> Operation(name, "0")]
<1>2. PICK k \in 1 .. Len(live) + 1, a \in Addresses, name \in Names, n \in BOOLEAN :
        /\ Reusable(a, name)
        /\ Rewrite(InsertAt(live, k, x(a, name)), Notified(n, <<e(a)>>), {}, {})
  BY DEF Create
<1>. DEFINE new == InsertAt(live, k, x(a, name))
            op  == x(a, name)
            ev  == Notified(n, <<e(a)>>)
<1>3. /\ live \in Seq(LiveOps) /\ Distinguished(live) /\ changes \in Nat
      /\ \A j \in 1 .. Len(live) : live[j].id <= changes /\ live[j].id \in Int
  BY <1>1, LiveIds DEF TypeInv
<1>4. op \in LiveOps /\ op.id = changes + 1 /\ op.address = a /\ op.op.name = name
  BY <1>3 DEF LiveOps, Ops, Operation
<1>5. \A j \in 1 .. Len(live) : live[j].id # changes + 1 /\ live[j].address # a
  <2>1. \A j \in 1 .. Len(live) : live[j].id # changes + 1
    BY <1>3
  <2>2. \A j \in 1 .. Len(live) : live[j].address # a
    BY <1>2, <1>3 DEF Reusable, AddressesOf, Range
  <2>. QED  BY <2>1, <2>2
<1>. HIDE DEF x
<1>6. /\ new \in Seq(LiveOps) /\ Distinguished(new)
      /\ Entries(new) = Entries(live) \union {Entry(op)}
      /\ \A j \in 1 .. Len(new) : new[j] = op \/ \E i \in 1 .. Len(live) : new[j] = live[i]
  BY <1>3, <1>4, <1>5, InsertedLive
<1>7. \A j \in 1 .. Len(new) : new[j].id <= changes + 1
  BY <1>3, <1>4, <1>6
<1>8. "inserted" \in EventKinds /\ NoAddress \in Addresses \union {NoAddress}
  BY DEF EventKinds
<1>9. e(a) \in EventSet /\ e(a).kind = "inserted" /\ e(a).address = a
  BY <1>8, EventIsOne
<1>. HIDE DEF e
<1>10. ev \in Seq(EventSet) /\ {ev[j] : j \in 1 .. Len(ev)} = IF n THEN {e(a)} ELSE {}
  BY <1>9, NotifiedIs
<1>. HIDE DEF new, ev, op
<1>11. Rewrite(new, ev, {}, {})
  BY <1>2 DEF new, ev
<1>12. ASSUME fidelity = "full"
       PROVE  PassTrue(Entries(new), pass', origin')
  <2>. DEFINE some == {ev[j] : j \in 1 .. Len(ev)}
              E == Entries(live)
              y == Entry(op)
  <2>1. Grows(pass, pass', some)
    BY <1>1, <1>10, <1>11, <1>12, RewriteGrows
  <2>2. \A d \in some : d.kind \notin {"replaced", "modified"} /\ d.address = a
    BY <1>9, <1>10
  <2>. HIDE DEF some
  <2>3. y.name = name /\ y.address = a /\ y.id = changes + 1
    BY <1>4 DEF Entry
  <2>4. y.name \in Names /\ y.address # NoAddress /\ \A d \in E : d.address # y.address
    BY <1>5, <2>3, LineageAssumption DEF Entries, Entry
  <2>5. ASSUME NEW b \in DOMAIN pass.before.tokens
        PROVE  BeforeId(pass, b) # y.id
    <3>1. IsBefore(pass.before, changes, fidelity = "text")
      BY <1>1 DEF PassInv
    <3>2. BeforeId(pass, b) <= changes
      BY <3>1 DEF IsBefore, IsSnapshot, BeforeId
    <3>. QED  BY <1>3, <2>3, <3>2
  <2>6. <<y.address, y.name>> \notin pass.spoken
    BY <1>2, <2>3 DEF Reusable
  <2>7. PassTrue(E, pass, origin)
    BY <1>1 DEF PassInv
  <2>. HIDE DEF y, E
  <2>8. PassTrue(E \union {y}, pass', origin)
    BY <2>1, <2>2, <2>3, <2>4, <2>5, <2>6, <2>7, PassCreates
  <2>. QED  BY <1>1, <1>6, <2>8 DEF E, y
<1>. QED  BY <1>1, <1>6, <1>7, <1>10, <1>11, <1>12, RewriteKeeps

\* The operations without one of them, and its event or what is spoken.
LEMMA OneRemoved ==
  ASSUME IInv, NEW k \in 1 .. Len(live)
  PROVE  LET new == RemoveAt(live, k) IN
         /\ new \in Seq(LiveOps) /\ Distinguished(new)
         /\ Entries(new) = Entries(live) \ {Entry(live[k])}
         /\ \A j \in 1 .. Len(new) : new[j].id <= changes + 1
         /\ Entry(live[k]) \in Entries(live)
         /\ \A e, f \in Entries(live) : e.address = f.address => e = f
         /\ live[k].address \in Addresses
<1>. DEFINE new == RemoveAt(live, k)
<1>1. /\ live \in Seq(LiveOps) /\ Distinguished(live) /\ changes \in Nat
      /\ \A j \in 1 .. Len(live) : live[j].id <= changes /\ live[j].id \in Int
      /\ \A j \in 1 .. Len(live) : live[j] \in LiveOps
  BY LiveIds DEF IInv, TypeInv
<1>2. \A j \in 1 .. Len(live) : live[j].id <= changes + 1
  BY <1>1
<1>3. /\ new \in Seq(LiveOps) /\ Distinguished(new)
      /\ Entries(new) = Entries(live) \ {Entry(live[k])}
      /\ \A m : (\A j \in 1 .. Len(live) : live[j].id <= m) => \A j \in 1 .. Len(new) : new[j].id <= m
  BY <1>1, RemovedLive
<1>. HIDE DEF new
<1>4. /\ Entry(live[k]) \in Entries(live)
      /\ \A e, f \in Entries(live) : e.address = f.address => e = f
  BY <1>1, EntriesAre
<1>5. live[k].address \in Addresses
  BY <1>1 DEF LiveOps
<1>. QED  BY <1>2, <1>3, <1>4, <1>5 DEF new

\* Erase: an event says so, or the name does not come back to the address.
LEMMA EraseKeeps ==
  ASSUME IInv, Erase
  PROVE  IInv'
<1>1. Running /\ TypeInv /\ PassInv /\ UNCHANGED origin /\ live \in Seq(LiveOps)
  BY DEF Erase, IInv, TypeInv
<1>. DEFINE e(k) == Event("erased", live[k].address, NoAddress)
            said(k, n) == IF n THEN {} ELSE {<<live[k].address, live[k].op.name>>}
<1>2. PICK k \in 1 .. Len(live), n \in BOOLEAN :
        Rewrite(RemoveAt(live, k), Notified(n, <<e(k)>>), said(k, n), {})
  <2>1. DOMAIN live = 1 .. Len(live)
    BY <1>1
  <2>. QED  BY <2>1, Zenon DEF Erase
<1>. DEFINE new == RemoveAt(live, k)
            ev  == Notified(n, <<e(k)>>)
            spoken == said(k, n)
            x == Entry(live[k])
            E == Entries(live)
            a == live[k].address
<1>3. /\ new \in Seq(LiveOps) /\ Distinguished(new)
      /\ Entries(new) = E \ {x}
      /\ \A j \in 1 .. Len(new) : new[j].id <= changes + 1
      /\ x \in E /\ (\A d, f \in E : d.address = f.address => d = f) /\ a \in Addresses
  BY OneRemoved
<1>4. x.address = a /\ x.name = live[k].op.name
  BY DEF Entry
<1>5. "erased" \in EventKinds /\ NoAddress \in Addresses \union {NoAddress}
  BY DEF EventKinds
<1>6. e(k) \in EventSet /\ e(k).kind = "erased" /\ e(k).address = a
  BY <1>3, <1>5, EventIsOne
<1>. HIDE DEF e
<1>7. ev \in Seq(EventSet) /\ {ev[j] : j \in 1 .. Len(ev)} = IF n THEN {e(k)} ELSE {}
  BY <1>6, NotifiedIs
<1>. HIDE DEF new, ev, x, E, a
<1>8. spoken = IF n THEN {} ELSE {<<x.address, x.name>>}
  BY <1>4 DEF a
<1>. HIDE DEF said
<1>9. Rewrite(new, ev, spoken, {})
  BY <1>2 DEF new, ev
<1>. HIDE DEF spoken
<1>10. ASSUME fidelity = "full"
       PROVE  PassTrue(Entries(new), pass', origin')
  <2>. DEFINE some == {ev[j] : j \in 1 .. Len(ev)}
  <2>1. Grows(pass, pass', some) /\ spoken \subseteq pass'.spoken
    BY <1>1, <1>7, <1>9, <1>10, RewriteGrows
  <2>2. some = IF n THEN {e(k)} ELSE {}
    BY <1>7
  <2>. HIDE DEF some
  <2>3. \A d \in some : d.kind \notin {"replaced", "modified"} /\ d.address = x.address
    BY <1>4, <1>6, <2>2
  <2>4. (\E d \in some : d.address = x.address) \/ <<x.address, x.name>> \in pass'.spoken
    BY <1>4, <1>6, <1>8, <2>1, <2>2
  <2>5. PassTrue(E, pass, origin)
    BY <1>1 DEF PassInv, E
  <2>6. PassTrue(E \ {x}, pass', origin)
    BY <1>3, <2>1, <2>3, <2>4, <2>5, PassRemoves
  <2>. QED  BY <1>1, <1>3, <2>6
<1>. QED  BY <1>1, <1>3, <1>7, <1>9, <1>10, RewriteKeeps

\* ReplaceByValues: nothing is said to have taken its place.
LEMMA ReplaceByValuesKeeps ==
  ASSUME IInv, ReplaceByValues
  PROVE  IInv'
<1>1. Running /\ TypeInv /\ PassInv /\ UNCHANGED origin /\ live \in Seq(LiveOps)
  BY DEF ReplaceByValues, IInv, TypeInv
<1>. DEFINE d(k) == Event("replaced", live[k].address, NoAddress)
            e(k) == Event("erased", live[k].address, NoAddress)
<1>2. PICK k \in 1 .. Len(live) : Rewrite(RemoveAt(live, k), <<d(k), e(k)>>, {}, {})
  BY <1>1 DEF ReplaceByValues
<1>. DEFINE new == RemoveAt(live, k)
            ev  == <<d(k), e(k)>>
            x == Entry(live[k])
            E == Entries(live)
            a == live[k].address
<1>3. /\ new \in Seq(LiveOps) /\ Distinguished(new)
      /\ Entries(new) = E \ {x}
      /\ \A j \in 1 .. Len(new) : new[j].id <= changes + 1
      /\ x \in E /\ (\A c, f \in E : c.address = f.address => c = f) /\ a \in Addresses
  BY OneRemoved
<1>4. x.address = a
  BY DEF Entry
<1>5. {"replaced", "erased"} \subseteq EventKinds /\ NoAddress \in Addresses \union {NoAddress}
  BY DEF EventKinds
<1>6. /\ d(k) \in EventSet /\ d(k).kind = "replaced" /\ d(k).address = a /\ d(k).new = NoAddress
      /\ e(k) \in EventSet /\ e(k).kind = "erased" /\ e(k).address = a
  BY <1>3, <1>5, EventIsOne
<1>. HIDE DEF d, e
<1>7. ev \in Seq(EventSet) /\ {ev[j] : j \in 1 .. Len(ev)} = {d(k), e(k)}
  BY <1>6, TwoAre
<1>8. \A f \in E : f.address # NoAddress
  BY <1>1, EntriesAre, LineageAssumption DEF TypeInv
<1>. HIDE DEF new, ev, x, E, a
<1>9. Rewrite(new, ev, {}, {})
  BY <1>2 DEF new, ev
<1>10. ASSUME fidelity = "full"
       PROVE  PassTrue(Entries(new), pass', origin')
  <2>. DEFINE some == {ev[j] : j \in 1 .. Len(ev)}
  <2>1. Grows(pass, pass', some)
    BY <1>1, <1>7, <1>9, <1>10, RewriteGrows
  <2>2. some = {d(k), e(k)}
    BY <1>7
  <2>. HIDE DEF some
  <2>3. \A c \in some : c.kind # "modified" /\ c.address = x.address
    BY <1>4, <1>6, <2>2
  <2>4. \E c \in some : c.address = x.address
    BY <1>4, <1>6, <2>2
  <2>5. PassTrue(E, pass, origin)
    BY <1>1 DEF PassInv, E
  <2>6. \A c \in some : c.kind = "replaced" => c.new = NoAddress
    BY <1>6, <2>2
  <2>7. ASSUME NEW c \in some, NEW f \in E \ {x},
               c.kind = "replaced", f.address = c.new, c.address \in DOMAIN pass.before.tokens,
               \A l \in 1 .. Len(pass.events) :
                 pass.events[l].kind = "replaced" => pass.events[l].address # c.address
        PROVE  <<BeforeId(pass, c.address), f.id>> \in origin'
    BY <1>8, <2>6, <2>7
  <2>8. origin \subseteq origin'
    BY <1>1
  <2>9. \A c \in some : c.kind = "replaced" =>
          c.new = NoAddress \/ Speaks(c.new) \subseteq pass'.spoken
    BY <2>6
  <2>10. PassTrue(E \ {x}, pass', origin')
    BY <1>3, <2>1, <2>3, <2>4, <2>5, <2>7, <2>8, <2>9, PassRemoves
  <2>. QED  BY <1>3, <2>10
<1>. QED  BY <1>1, <1>3, <1>7, <1>9, <1>10, RewriteKeeps

\* Replace: the operation that the address had before is known to be replaced.
LEMMA ReplaceKeeps ==
  ASSUME IInv, Replace
  PROVE  IInv'
<1>1. Running /\ TypeInv /\ PassInv /\ live \in Seq(LiveOps)
  BY DEF Replace, IInv, TypeInv
<1>. DEFINE d(k, m) == Event("replaced", live[k].address, live[m].address)
            e(k) == Event("erased", live[k].address, NoAddress)
            knows(k) == \E i \in 1 .. Len(pass.events) :
                          pass.events[i].kind = "replaced" /\ pass.events[i].address = live[k].address
<1>2. PICK k \in 1 .. Len(live), m \in 1 .. Len(live) :
        /\ IsReuse(k) => knows(k)
        /\ Rewrite(RemoveAt(live, k), <<d(k, m), e(k)>>, Speaks(live[m].address), {})
        /\ origin' = origin \union {<<live[k].id, live[m].id>>}
  <2>1. DOMAIN live = 1 .. Len(live) /\ DOMAIN pass.events = 1 .. Len(pass.events)
    BY <1>1 DEF TypeInv
  <2>. QED  BY <2>1 DEF Replace
<1>. DEFINE new == RemoveAt(live, k)
            ev  == <<d(k, m), e(k)>>
            x == Entry(live[k])
            y == Entry(live[m])
            E == Entries(live)
            a == live[k].address
            b == live[m].address
            pair == <<live[k].id, live[m].id>>
<1>3. /\ new \in Seq(LiveOps) /\ Distinguished(new)
      /\ Entries(new) = E \ {x}
      /\ \A j \in 1 .. Len(new) : new[j].id <= changes + 1
      /\ x \in E /\ (\A c, f \in E : c.address = f.address => c = f) /\ a \in Addresses
  BY OneRemoved
<1>3a. y \in E /\ b \in Addresses
  BY OneRemoved
<1>4. x.address = a /\ y.address = b /\ y.id = live[m].id
  BY DEF Entry
<1>5. {"replaced", "erased"} \subseteq EventKinds /\ {b, NoAddress} \subseteq Addresses \union {NoAddress}
  BY <1>3a DEF EventKinds
<1>6. /\ d(k, m) \in EventSet /\ d(k, m).kind = "replaced" /\ d(k, m).address = a /\ d(k, m).new = b
      /\ e(k) \in EventSet /\ e(k).kind = "erased" /\ e(k).address = a
  BY <1>3, <1>5, EventIsOne
<1>. HIDE DEF d, e
<1>7. ev \in Seq(EventSet) /\ {ev[j] : j \in 1 .. Len(ev)} = {d(k, m), e(k)}
  BY <1>6, TwoAre
<1>8. IsBefore(pass.before, changes, fidelity = "text")
  BY <1>1 DEF PassInv
<1>9. (~knows(k) /\ a \in DOMAIN pass.before.tokens) => BeforeId(pass, a) = live[k].id
  BY <1>2, <1>8, NotReused
<1>. HIDE DEF new, ev, x, y, E
<1>10. Rewrite(new, ev, Speaks(b), {})
  BY <1>2 DEF new, ev
<1>11. ASSUME fidelity = "full"
       PROVE  PassTrue(Entries(new), pass', origin')
  <2>. DEFINE some == {ev[j] : j \in 1 .. Len(ev)}
  <2>1. Grows(pass, pass', some) /\ Speaks(b) \subseteq pass'.spoken
    BY <1>1, <1>7, <1>10, <1>11, RewriteGrows
  <2>2. some = {d(k, m), e(k)}
    BY <1>7
  <2>. HIDE DEF some
  <2>3. \A c \in some : c.kind # "modified" /\ c.address = x.address
    BY <1>4, <1>6, <2>2
  <2>4. \E c \in some : c.address = x.address
    BY <1>4, <1>6, <2>2
  <2>5. PassTrue(E, pass, origin)
    BY <1>1 DEF PassInv, E
  <2>6. \A c \in some : c.kind = "replaced" =>
          c.new = NoAddress \/ Speaks(c.new) \subseteq pass'.spoken
    BY <1>6, <2>1, <2>2
  <2>7. ASSUME NEW c \in some, NEW f \in E \ {x},
               c.kind = "replaced", f.address = c.new, c.address \in DOMAIN pass.before.tokens,
               \A l \in 1 .. Len(pass.events) :
                 pass.events[l].kind = "replaced" => pass.events[l].address # c.address
        PROVE  <<BeforeId(pass, c.address), f.id>> \in origin'
    <3>1. c = d(k, m)
      BY <1>6, <2>2, <2>7
    <3>2. c.address = a /\ f.address = b
      BY <1>6, <2>7, <3>1
    <3>3. ~knows(k)
      BY <2>7, <3>2
    <3>4. BeforeId(pass, a) = live[k].id
      BY <1>9, <2>7, <3>2, <3>3
    <3>5. f = y
      BY <1>3, <1>3a, <1>4, <3>2
    <3>. QED  BY <1>2, <1>4, <3>2, <3>4, <3>5
  <2>8. origin \subseteq origin'
    BY <1>2
  <2>. HIDE DEF pair
  <2>9. PassTrue(E \ {x}, pass', origin')
    BY <1>3, <2>1, <2>3, <2>4, <2>5, <2>6, <2>7, <2>8, PassRemoves
  <2>. QED  BY <1>3, <2>9
<1>12. origin \subseteq origin'
  BY <1>2
<1>. QED  BY <1>1, <1>3, <1>7, <1>10, <1>11, <1>12, RewriteKeeps

\* Modify: the address is of the operation it had before the pass.
LEMMA ModifyKeeps ==
  ASSUME IInv, Modify
  PROVE  IInv'
<1>1. Running /\ TypeInv /\ PassInv /\ UNCHANGED origin /\ live \in Seq(LiveOps)
  BY DEF Modify, IInv, TypeInv
<1>. DEFINE e(k) == Event("modified", live[k].address, NoAddress)
            other(k) == [live EXCEPT ![k].op.attrs = IF @ = "0" THEN "1" ELSE "0"]
            said(k, n) == IF n THEN Speaks(live[k].address) ELSE {}
<1>2. PICK k \in 1 .. Len(live), n \in BOOLEAN :
        ~IsReuse(k) /\ Rewrite(other(k), Notified(n, <<e(k)>>), said(k, n), {})
  <2>1. DOMAIN live = 1 .. Len(live)
    BY <1>1
  <2>. QED  BY <2>1, Zenon DEF Modify
<1>. DEFINE new == other(k)
            ev  == Notified(n, <<e(k)>>)
            spoken == said(k, n)
            E == Entries(live)
            a == live[k].address
            x == [live[k] EXCEPT !.op = [live[k].op EXCEPT !.attrs = IF @ = "0" THEN "1" ELSE "0"]]
<1>3. /\ live \in Seq(LiveOps) /\ Distinguished(live) /\ changes \in Nat
      /\ \A j \in 1 .. Len(live) : live[j].id <= changes /\ live[j].id \in Int
      /\ \A j \in 1 .. Len(live) : live[j] \in LiveOps
  BY <1>1, LiveIds DEF TypeInv
<1>4. x \in LiveOps /\ Entry(x) = Entry(live[k])
  <2>1. live[k] \in LiveOps
    BY <1>3
  <2>. QED  BY <2>1 DEF LiveOps, Ops, Entry
<1>5. new = [live EXCEPT ![k] = x]
  OBVIOUS
<1>. HIDE DEF x, other
<1>6. /\ new \in Seq(LiveOps) /\ Len(new) = Len(live)
      /\ \A j \in 1 .. Len(live) : new[j] = IF j = k THEN x ELSE live[j]
  BY <1>3, <1>4, <1>5, ExceptSeq
<1>7. /\ Distinguished(new) /\ Entries(new) = E
      /\ \A m : (\A j \in 1 .. Len(live) : live[j].id <= m) => \A j \in 1 .. Len(new) : new[j].id <= m
  <2>. DEFINE f == [j \in 1 .. Len(live) |-> j]
  <2>1. f \in [1 .. Len(live) -> 1 .. Len(live)] /\ \A j \in 1 .. Len(live) : f[j] = j
    OBVIOUS
  <2>2. \A j \in 1 .. Len(live) : Entry(new[j]) = Entry(live[j])
    BY <1>4, <1>6
  <2>. HIDE DEF f, new
  <2>3. \A j \in 1 .. Len(live) : f[f[j]] = j /\ Entry(new[j]) = Entry(live[f[j]])
    BY <2>1, <2>2
  <2>4. f \in [1 .. Len(live) -> 1 .. Len(live)] /\ new \in Seq(LiveOps) /\ Len(new) = Len(live)
    BY <1>6, <2>1
  <2>. QED  BY <1>3, <2>3, <2>4, SameLive
<1>8. \A j \in 1 .. Len(new) : new[j].id <= changes + 1
  <2>1. \A j \in 1 .. Len(live) : live[j].id <= changes + 1
    BY <1>3
  <2>. QED  BY <1>7, <2>1
<1>9. a \in Addresses
  BY <1>3 DEF LiveOps
<1>10. "modified" \in EventKinds /\ NoAddress \in Addresses \union {NoAddress}
  BY DEF EventKinds
<1>11. e(k) \in EventSet /\ e(k).kind = "modified" /\ e(k).address = a
  BY <1>9, <1>10, EventIsOne
<1>. HIDE DEF e
<1>12. ev \in Seq(EventSet) /\ {ev[j] : j \in 1 .. Len(ev)} = IF n THEN {e(k)} ELSE {}
  BY <1>11, NotifiedIs
<1>13. ASSUME a \in DOMAIN pass.before.tokens, NEW f \in E, f.address = a
       PROVE  f.id = BeforeId(pass, a)
  <2>1. IsBefore(pass.before, changes, fidelity = "text")
    BY <1>1 DEF PassInv
  <2>2. BeforeId(pass, a) = live[k].id
    BY <1>2, <1>13, <2>1, NotReused
  <2>3. Entry(live[k]) \in E /\ \A c, d \in E : c.address = d.address => c = d
    BY <1>3, EntriesAre
  <2>4. Entry(live[k]).address = a /\ Entry(live[k]).id = live[k].id
    BY DEF Entry
  <2>. QED  BY <1>13, <2>2, <2>3, <2>4
<1>. HIDE DEF new, ev, E
<1>14. Rewrite(new, ev, spoken, {})
  BY <1>2 DEF new, ev
<1>15. ASSUME fidelity = "full"
       PROVE  PassTrue(Entries(new), pass', origin')
  <2>. DEFINE some == {ev[j] : j \in 1 .. Len(ev)}
  <2>. HIDE DEF a
  <2>1. Grows(pass, pass', some) /\ spoken \subseteq pass'.spoken
    BY <1>1, <1>12, <1>14, <1>15, RewriteGrows
  <2>2. some = IF n THEN {e(k)} ELSE {}
    BY <1>12
  <2>. HIDE DEF some
  <2>3. \A d \in some : d.kind = "modified"
    BY <1>11, <2>2
  <2>4. ASSUME NEW d \in some
        PROVE  IsModified(E, pass', d.address)
    <3>1. n = TRUE /\ d.address = a
      BY <1>11, <2>2
    <3>2. Speaks(a) \subseteq pass'.spoken
      BY <2>1, <3>1 DEF a
    <3>3. pass'.before = pass.before
      BY <2>1 DEF Grows
    <3>4. BeforeId(pass', a) = BeforeId(pass, a)
      BY <3>3 DEF BeforeId
    <3>. QED  BY <1>13, <3>1, <3>2, <3>3, <3>4 DEF IsModified
  <2>5. PassTrue(E, pass, origin)
    BY <1>1 DEF PassInv, E
  <2>6. PassTrue(E, pass', origin)
    BY <2>1, <2>3, <2>4, <2>5, PassStays DEF OnlyModifies
  <2>. QED  BY <1>1, <1>7, <2>6
<1>. HIDE DEF spoken
<1>. QED  BY <1>1, <1>6, <1>7, <1>8, <1>12, <1>14, <1>15, RewriteKeeps

\* Move: the operations are the same.
LEMMA MoveKeeps ==
  ASSUME IInv, Move
  PROVE  IInv'
<1>1. Running /\ TypeInv /\ PassInv /\ UNCHANGED origin /\ live \in Seq(LiveOps)
  BY DEF Move, IInv, TypeInv
<1>. DEFINE e(k) == Event("inserted", live[k].address, NoAddress)
            other(k) == [live EXCEPT ![k] = live[k + 1], ![k + 1] = live[k]]
            went(k, n) == IF n THEN {live[k].id} ELSE {}
<1>2. PICK k \in 1 .. Len(live) - 1, n \in BOOLEAN :
        Rewrite(other(k), Notified(n, <<e(k)>>), {}, went(k, n))
  BY DEF Move
<1>. DEFINE new == other(k)
            ev  == Notified(n, <<e(k)>>)
            moved == went(k, n)
            E == Entries(live)
<1>3. /\ live \in Seq(LiveOps) /\ Distinguished(live) /\ changes \in Nat
      /\ \A j \in 1 .. Len(live) : live[j].id <= changes /\ live[j].id \in Int
      /\ \A j \in 1 .. Len(live) : live[j] \in LiveOps
  BY <1>1, LiveIds DEF TypeInv
<1>4. k \in 1 .. Len(live) /\ k + 1 \in 1 .. Len(live) /\ k # k + 1
  BY <1>3
<1>5. /\ new \in Seq(LiveOps) /\ Len(new) = Len(live)
      /\ \A j \in 1 .. Len(live) :
           new[j] = IF j = k + 1 THEN live[k] ELSE IF j = k THEN live[k + 1] ELSE live[j]
  <2>. DEFINE one == [live EXCEPT ![k] = live[k + 1]]
  <2>1. /\ one \in Seq(LiveOps) /\ Len(one) = Len(live)
        /\ \A j \in 1 .. Len(live) : one[j] = IF j = k THEN live[k + 1] ELSE live[j]
    BY <1>3, <1>4, ExceptSeq
  <2>. HIDE DEF one
  <2>2. new = [one EXCEPT ![k + 1] = live[k]]
    BY DEF one
  <2>. HIDE DEF new
  <2>3. /\ new \in Seq(LiveOps) /\ Len(new) = Len(live)
        /\ \A j \in 1 .. Len(live) : new[j] = IF j = k + 1 THEN live[k] ELSE one[j]
    BY <1>3, <1>4, <2>1, <2>2, ExceptSeq
  <2>. QED  BY <2>1, <2>3
<1>. HIDE DEF other
<1>6. /\ Distinguished(new) /\ Entries(new) = E
      /\ \A m : (\A j \in 1 .. Len(live) : live[j].id <= m) => \A j \in 1 .. Len(new) : new[j].id <= m
  <2>. DEFINE f == [j \in 1 .. Len(live) |-> IF j = k THEN k + 1 ELSE IF j = k + 1 THEN k ELSE j]
  <2>1. f \in [1 .. Len(live) -> 1 .. Len(live)]
    BY <1>4
  <2>2. \A j \in 1 .. Len(live) : f[f[j]] = j
    BY <1>4
  <2>3. \A j \in 1 .. Len(live) : new[j] = live[f[j]]
    BY <1>4, <1>5
  <2>. HIDE DEF f, new
  <2>4. \A j \in 1 .. Len(live) : f[f[j]] = j /\ Entry(new[j]) = Entry(live[f[j]])
    BY <2>2, <2>3
  <2>. QED  BY <1>3, <1>5, <2>1, <2>4, SameLive
<1>7. \A j \in 1 .. Len(new) : new[j].id <= changes + 1
  <2>1. \A j \in 1 .. Len(live) : live[j].id <= changes + 1
    BY <1>3
  <2>. QED  BY <1>6, <2>1
<1>8. live[k].address \in Addresses /\ "inserted" \in EventKinds /\ NoAddress \in Addresses \union {NoAddress}
  BY <1>3, <1>4 DEF LiveOps, EventKinds
<1>9. e(k) \in EventSet /\ e(k).kind = "inserted" /\ e(k).address = live[k].address
  BY <1>8, EventIsOne
<1>. HIDE DEF e
<1>10. ev \in Seq(EventSet) /\ {ev[j] : j \in 1 .. Len(ev)} = IF n THEN {e(k)} ELSE {}
  BY <1>9, NotifiedIs
<1>10a. ASSUME NEW f \in E, f.address = live[k].address
        PROVE  f.id = live[k].id
  <2>1. Entry(live[k]) \in E /\ \A c, d \in E : c.address = d.address => c = d
    BY <1>3, <1>4, EntriesAre
  <2>2. Entry(live[k]).address = live[k].address /\ Entry(live[k]).id = live[k].id
    BY DEF Entry
  <2>. QED  BY <1>10a, <2>1, <2>2
<1>10b. moved = IF n THEN {live[k].id} ELSE {}
  OBVIOUS
<1>. HIDE DEF new, ev, E, went
<1>11. Rewrite(new, ev, {}, moved)
  BY <1>2 DEF new, ev
<1>. HIDE DEF moved
<1>12. ASSUME fidelity = "full"
       PROVE  PassTrue(Entries(new), pass', origin')
  <2>. DEFINE some == {ev[j] : j \in 1 .. Len(ev)}
  <2>1. Grows(pass, pass', some) /\ moved \subseteq pass'.moved
    BY <1>1, <1>10, <1>11, <1>12, RewriteGrows
  <2>2. \A d \in some : d.kind \notin {"replaced", "modified"}
    BY <1>9, <1>10
  <2>3. \A d \in some, f \in E : d.address = f.address => f.id \in pass'.moved
    BY <1>9, <1>10, <1>10a, <1>10b, <2>1
  <2>. HIDE DEF some
  <2>4. PassTrue(E, pass, origin)
    BY <1>1 DEF PassInv, E
  <2>5. PassTrue(E, pass', origin)
    BY <2>1, <2>2, <2>3, <2>4, PassStays DEF OnlyModifies
  <2>. QED  BY <1>1, <1>6, <2>5
<1>. QED  BY <1>1, <1>5, <1>6, <1>7, <1>10, <1>11, <1>12, RewriteKeeps

-----------------------------------------------------------------------------
\* The invariant of the timelines: what the addresses stand for while a pass runs, what
\* is true of every stage, and that the next stage begins where the last one ended.
THEOREM LineageInvariant == Spec => []IInv
<1>1. ASSUME IInv, [Next]_vars
      PROVE  IInv'
  <2>1. CASE UNCHANGED vars
    BY <1>1, <2>1 DEF IInv, TypeInv, PassInv, StagesInv, Running, vars
  <2>2. CASE Next
    BY <1>1, <2>2, StartPassKeeps, EndPassKeeps, ChangeElsewhereKeeps, CreateKeeps, EraseKeeps,
       ReplaceKeeps, ReplaceByValuesKeeps, ModifyKeeps, MoveKeeps DEF Next
  <2>. QED  BY <1>1, <2>1, <2>2
<1>. QED  BY <1>1, InitIs, PTL DEF Spec

-----------------------------------------------------------------------------
(* What is related in a timeline that keeps the invariant. *)

\* A relation of a stage has its core in C; one without evidence is its core.
IsOfStage(tl, C, r) ==
  /\ r.step /\ r.stage \in 1 .. Len(tl) /\ Core(r) \in C
  /\ ~r.exact => Core(r) = r

Related(tl, C) ==
  /\ \A i \in 1 .. Len(tl) : StageCores(tl, i, {c \in C : c.stage = i})
  /\ \A r \in Range(Relations(tl)) :
       r \in Rel /\ (IsOfStage(tl, C, r) \/ \E i \in 1 .. Len(tl) : IsBridge(tl, r, i))

\* The core of a relation has its ends, and is the relation if that has no evidence.
LEMMA CoreIs ==
  ASSUME NEW r \in Rel
  PROVE  /\ Core(r).stage = r.stage /\ Core(r).from = r.from /\ Core(r).to = r.to
         /\ Core(r).change = r.change /\ Core(r).exact = r.exact /\ Core(r).step = r.step
         /\ r.evidence = <<>> => Core(r) = r
BY DEF Core, Relation, Rel

\* Every relation is one of a stage or of a bridge.
LEMMA RelatedIs ==
  ASSUME NEW tl, IsTimeline(tl), BlobsAgree(tl)
  PROVE  \E C : Related(tl, C)
<1>. DEFINE relations == Relations(tl)
<1>1. PICK first : StagesDone(tl, first, Len(tl)) /\ Bridged(tl, first, relations)
  BY RelationsAre
<1>2. PICK C : TimelineCores(tl, Len(tl), C) /\ first \in RelationsIn(C)
  BY <1>1 DEF StagesDone
<1>. HIDE DEF relations
<1>3. relations \in Seq(Rel) /\ DOMAIN relations = 1 .. Len(relations)
  BY <1>1 DEF Bridged
<1>4. ASSUME NEW r \in Range(first), r \in Rel
      PROVE  IsOfStage(tl, C, r)
  <2>1. PICK l \in 1 .. Len(first) : r = first[l]
    BY <1>2 DEF Range, RelationsIn
  <2>2. Core(r) \in C /\ (~r.exact => r.evidence = <<>>)
    BY <1>2, <2>1 DEF RelationsIn
  <2>3. Core(r).step /\ Core(r).stage \in 1 .. Len(tl)
    BY <1>2, <2>2 DEF TimelineCores
  <2>. QED  BY <1>4, <2>2, <2>3, CoreIs DEF IsOfStage
<1>5. ASSUME NEW r \in Range(relations)
      PROVE  r \in Rel /\ (IsOfStage(tl, C, r) \/ \E i \in 1 .. Len(tl) : IsBridge(tl, r, i))
  <2>1. PICK k \in 1 .. Len(relations) : r = relations[k]
    BY <1>3 DEF Range
  <2>2. r \in Rel
    BY <1>3, <2>1
  <2>3. r \in Range(first) \/ \E i \in 1 .. Len(tl) : IsBridge(tl, r, i)
    BY <1>1, <2>1 DEF Bridged
  <2>. QED  BY <1>4, <2>2, <2>3
<1>6. \A i \in 1 .. Len(tl) : StageCores(tl, i, {c \in C : c.stage = i})
  BY <1>2 DEF TimelineCores
<1>. QED  BY <1>5, <1>6 DEF Related, relations

\* Equal blobs have as many operations, as the operations are the same anyway.
LEMMA BlobsAgreeNow ==
  ASSUME IInv
  PROVE  /\ IsTimeline(stages) /\ BlobsAgree(stages)
         /\ \A i \in 1 .. Len(stages) : StageTrue(stages[i], origin)
         /\ \E now : Continues(stages, now)
BY DEF IInv, StagesInv, TimelineTrue, Continues, SameOps, BlobsAgree

\* The relations of a stage: one successor for each operation, and a match shares its
\* ends with no other.
LEMMA StageIsFunctional ==
  ASSUME NEW tl, IsTimeline(tl), NEW C, Related(tl, C), NEW known,
         NEW i \in 1 .. Len(tl), StageTrue(tl[i], known),
         NEW r \in Range(Relations(tl)), NEW q \in Range(Relations(tl)),
         r.stage = i, r.step, q.stage = i, q.step
  PROVE  /\ (Joins(r) /\ Joins(q) /\ r.from = q.from) => r.to = q.to
         /\ ~r.exact => /\ OperationOf(tl, r.from).name = OperationOf(tl, r.to).name
                        /\ q # r => q.from # r.from /\ q.to # r.to
<1>. DEFINE D == {c \in C : c.stage = i}
            c == Core(r)
            d == Core(q)
<1>1. StageCores(tl, i, D) /\ r \in Rel /\ q \in Rel
  BY DEF Related
<1>2. IsOfStage(tl, C, r) /\ IsOfStage(tl, C, q)
  BY DEF Related, IsBridge
<1>3. /\ c.stage = i /\ c.from = r.from /\ c.to = r.to /\ c.exact = r.exact
      /\ d.stage = i /\ d.from = q.from /\ d.to = q.to /\ d.exact = q.exact
  BY <1>1, CoreIs
<1>4. c \in D /\ d \in D
  BY <1>2, <1>3 DEF IsOfStage
<1>5. (~r.exact => c = r) /\ (~q.exact => d = q)
  BY <1>2 DEF IsOfStage
<1>. HIDE DEF c, d, D
<1>6. ASSUME Joins(r), Joins(q), r.from = q.from
      PROVE  r.to = q.to
  <2>1. Joins(c) /\ Joins(d) /\ c.from = d.from
    BY <1>3, <1>6 DEF Joins
  <2>2. c.to = d.to
    BY <1>1, <1>4, <2>1, CoresFunctional
  <2>. QED  BY <1>3, <2>2
<1>7. ASSUME ~r.exact
      PROVE  /\ OperationOf(tl, r.from).name = OperationOf(tl, r.to).name
             /\ q # r => q.from # r.from /\ q.to # r.to
  <2>1. MatchCore(tl, i, D, c)
    BY <1>1, <1>3, <1>4, <1>7 DEF StageCores, EventCore, AddressCore
  <2>2. OperationOf(tl, r.from).name = OperationOf(tl, r.to).name
    BY <1>3, <2>1 DEF MatchCore
  <2>3. q # r => d # c
    BY <1>3, <1>5, <1>7
  <2>. QED  BY <1>3, <1>4, <2>1, <2>2, <2>3 DEF MatchCore
<1>. QED  BY <1>6, <1>7

\* The ends of an exact relation that joins are one operation, or are known to be.
LEMMA ExactIsTrue ==
  ASSUME NEW tl, IsTimeline(tl), NEW C, Related(tl, C), NEW known,
         \A i \in 1 .. Len(tl) : StageTrue(tl[i], known),
         NEW now, Continues(tl, now),
         NEW r \in Range(Relations(tl)), r.exact, Joins(r)
  PROVE  IdAt(tl, r.from) = IdAt(tl, r.to) \/ <<IdAt(tl, r.from), IdAt(tl, r.to)>> \in known
<1>1. r \in Rel
  BY DEF Related
<1>2. CASE IsOfStage(tl, C, r)
  <2>. DEFINE i == r.stage
              D == {c \in C : c.stage = i}
              c == Core(r)
  <2>1. /\ c.stage = i /\ c.from = r.from /\ c.to = r.to /\ c.exact
    BY <1>1, CoreIs
  <2>2. i \in 1 .. Len(tl) /\ c \in D /\ StageCores(tl, i, D) /\ StageTrue(tl[i], known)
    BY <1>2, <2>1 DEF IsOfStage, Related
  <2>. HIDE DEF c, D, i
  <2>3. Joins(c)
    BY <2>1 DEF Joins
  <2>4. IdAt(tl, c.from) = IdAt(tl, c.to) \/ <<IdAt(tl, c.from), IdAt(tl, c.to)>> \in known
    BY <2>1, <2>2, <2>3, CoresTrue
  <2>. QED  BY <2>1, <2>4
<1>3. ASSUME NEW i \in 1 .. Len(tl), IsBridge(tl, r, i)
      PROVE  IdAt(tl, r.from) = IdAt(tl, r.to)
  <2>1. /\ i # 1 /\ tl[i - 1].after # Missing /\ tl[i].before # Missing
        /\ r.from.snapshot = After(i - 1) /\ r.to.snapshot = Before(i)
        /\ r.from.ordinal = r.to.ordinal
    BY <1>3 DEF IsBridge, OccurrencesAt
  <2>2. i - 1 \in 1 .. Len(tl)
    BY <2>1 DEF IsTimeline
  <2>3. SnapshotAt(tl, After(i - 1)) = tl[i - 1].after /\ SnapshotAt(tl, Before(i)) = tl[i].before
    BY <2>2, SidesAre
  <2>4. SameOps(tl[i - 1].after, tl[i].before)
    BY <2>1 DEF Continues
  <2>. QED  BY <2>1, <2>3, <2>4 DEF IdAt, SameOps
<1>. QED  BY <1>2, <1>3 DEF Related

\* The ends of every link have the same UID, and an occurrence without links its own
\* (property UidsFollowLinks), for every timeline that passes make.
THEOREM UidsTheorem == Spec => []UidsFollowLinks
<1>1. ASSUME IInv
      PROVE  UidsFollowLinks
  <2>1. FollowLinks(Resolve(stages))
    BY <1>1, BlobsAgreeNow, ResolveFollows
  <2>. QED  BY <2>1 DEF UidsFollowLinks
<1>. QED  BY <1>1, LineageInvariant, PTL

\* In a stage an operation has one successor, and a match has the ends of no other link
\* (property LinksAreFunctional).
THEOREM FunctionalTheorem == Spec => []LinksAreFunctional
<1>1. ASSUME IInv
      PROVE  LinksAreFunctional
  <2>. DEFINE relations == Range(Relations(stages))
  <2>1. /\ IsTimeline(stages) /\ BlobsAgree(stages)
        /\ \A i \in 1 .. Len(stages) : StageTrue(stages[i], origin)
        /\ DOMAIN stages = 1 .. Len(stages)
    <3>1. stages \in Seq({stages[i] : i \in 1 .. Len(stages)})
      BY <1>1 DEF IInv, StagesInv, TimelineTrue
    <3>2. DOMAIN stages = 1 .. Len(stages)
      BY <3>1
    <3>. QED  BY <1>1, <3>2, BlobsAgreeNow
  <2>2. PICK C : Related(stages, C)
    BY <2>1, RelatedIs
  <2>3. ASSUME NEW i \in 1 .. Len(stages), NEW r \in relations, NEW q \in relations,
               r.stage = i, r.step, q.stage = i, q.step
        PROVE  /\ (Joins(r) /\ Joins(q) /\ r.from = q.from) => r.to = q.to
               /\ ~r.exact => /\ OperationOf(stages, r.from).name = OperationOf(stages, r.to).name
                              /\ q # r => q.from # r.from /\ q.to # r.to
    BY <2>1, <2>2, <2>3, StageIsFunctional
  <2>. HIDE DEF relations
  <2>4. \A i \in DOMAIN stages :
          LET inStage == {r \in relations : r.stage = i /\ r.step}
              joined  == {r \in inStage : Joins(r)}
          IN /\ \A r, q \in joined : r.from = q.from => r.to = q.to
             /\ \A r \in {q \in inStage : ~q.exact} :
                  /\ OperationOf(stages, r.from).name = OperationOf(stages, r.to).name
                  /\ \A q \in inStage \ {r} : q.from # r.from /\ q.to # r.to
    BY <2>1, <2>3
  <2>. QED  BY <2>4 DEF LinksAreFunctional, relations
<1>. QED  BY <1>1, LineageInvariant, PTL

\* What is shown as exact is true: the ends of the link are the same operation, or the
\* one was replaced by the other (property ExactLinksAreLineage).
THEOREM LineageTheorem == Spec => []ExactLinksAreLineage
<1>1. ASSUME IInv
      PROVE  ExactLinksAreLineage
  <2>1. /\ IsTimeline(stages) /\ BlobsAgree(stages)
        /\ \A i \in 1 .. Len(stages) : StageTrue(stages[i], origin)
    BY <1>1, BlobsAgreeNow
  <2>2. PICK now : Continues(stages, now)
    BY <1>1, BlobsAgreeNow
  <2>3. PICK C : Related(stages, C)
    BY <2>1, RelatedIs
  <2>4. ASSUME NEW r \in Range(Relations(stages)), r.exact, Joins(r)
        PROVE  \/ IdAt(stages, r.from) = IdAt(stages, r.to)
               \/ <<IdAt(stages, r.from), IdAt(stages, r.to)>> \in origin
    BY <2>1, <2>2, <2>3, <2>4, ExactIsTrue
  <2>5. \A o : IdOf(o) = IdAt(stages, o)
    BY DEF IdOf, IdAt
  <2>. QED  BY <2>4, <2>5 DEF ExactLinksAreLineage
<1>. QED  BY <1>1, LineageInvariant, PTL

-----------------------------------------------------------------------------
(* What a stage says of its operations: the steps it has. *)

\* A step that is pushed is there, once.
LEMMA PushHas ==
  ASSUME NEW relations \in Seq(Rel), NEW r \in Rel, r.step
  PROVE  LET new == PushRelation(relations, r) IN
         More(relations, new) /\ Has(new, r.from, r.to)
<1>. DEFINE new == PushRelation(relations, r)
<1>0. Len(relations) \in Nat /\ \A k \in 1 .. Len(relations) : relations[k] \in Rel
  OBVIOUS
<1>1. ASSUME new = Append(relations, r), \A k \in 1 .. Len(relations) : ~SameStep(r, relations[k])
      PROVE  More(relations, new) /\ Has(new, r.from, r.to)
  <2>1. /\ Len(new) = Len(relations) + 1 /\ new[Len(relations) + 1] = r
        /\ \A k \in 1 .. Len(relations) : new[k] = relations[k] /\ k \in 1 .. Len(new)
        /\ Len(relations) + 1 \in 1 .. Len(new)
    BY <1>0, <1>1, AppendProperties
  <2>2. \A k \in 1 .. Len(new) : k = Len(relations) + 1 \/ k \in 1 .. Len(relations)
    BY <1>0, <2>1
  <2>. HIDE DEF new
  <2>3. \A o, p : Has(relations, o, p) => Has(new, o, p)
    BY <2>1 DEF Has
  <2>4. Has(new, r.from, r.to)
    BY <2>1 DEF Has
  <2>5. ASSUME NEW k \in 1 .. Len(relations)
        PROVE  ~SameStep(r, relations[k]) /\ ~SameStep(relations[k], r)
    BY <1>1 DEF SameStep
  <2>6. Unsame(relations) => Unsame(new)
    BY <2>1, <2>2, <2>5 DEF Unsame
  <2>. QED  BY <2>3, <2>4, <2>6 DEF More
<1>2. ASSUME NEW k \in 1 .. Len(relations), SameStep(r, relations[k]),
             new = [relations EXCEPT ![k].evidence = @ \o r.evidence]
      PROVE  More(relations, new) /\ Has(new, r.from, r.to)
  <2>. DEFINE old == relations[k]
              one == [old EXCEPT !.evidence = @ \o r.evidence]
  <2>1. new = [relations EXCEPT ![k] = one]
    BY <1>2
  <2>2. /\ one.stage = old.stage /\ one.from = old.from /\ one.to = old.to
        /\ one.change = old.change /\ one.step = old.step
    BY <1>0 DEF Rel
  <2>. HIDE DEF one
  <2>3. /\ Len(new) = Len(relations)
        /\ \A l \in 1 .. Len(relations) : new[l] = IF l = k THEN one ELSE relations[l]
    <3>1. new \in [1 .. Len(relations) -> {new[l] : l \in 1 .. Len(relations)}]
      BY <2>1
    <3>. QED  BY <1>0, <2>1, <3>1, LenIs
  <2>. HIDE DEF new
  <2>4. ASSUME NEW l \in 1 .. Len(relations)
        PROVE  /\ new[l].stage = relations[l].stage /\ new[l].from = relations[l].from
               /\ new[l].to = relations[l].to /\ new[l].change = relations[l].change
               /\ new[l].step = relations[l].step
    BY <2>2, <2>3
  <2>5. \A o, p : Has(relations, o, p) => Has(new, o, p)
    BY <2>3, <2>4 DEF Has
  <2>6. Has(new, r.from, r.to)
    BY <1>2, <2>3, <2>4 DEF Has, SameStep
  <2>7. Unsame(relations) => Unsame(new)
    BY <2>3, <2>4 DEF Unsame, SameStep
  <2>. QED  BY <2>5, <2>6, <2>7 DEF More
<1>3. CASE new = Append(relations, r) /\ \A k \in 1 .. Len(relations) : ~SameStep(r, relations[k])
  BY <1>1, <1>3
<1>4. CASE \E k \in 1 .. Len(relations) :
             /\ SameStep(r, relations[k])
             /\ new = [relations EXCEPT ![k].evidence = @ \o r.evidence]
  BY <1>2, <1>4
<1>. QED  BY <1>3, <1>4, PushIs

\* A link has its step.
LEMMA LinkHas ==
  ASSUME NEW s \in StageStates, NEW i \in Nat, NEW from \in Occ, NEW to \in Occ,
         NEW change \in ChangeKinds, NEW k \in Nat
  PROVE  LET t == Link(s, i, from, to, change, k) IN
         /\ More(s.relations, t.relations) /\ Has(t.relations, from, to)
         /\ t.used = s.used \union ({from, to} \ {NoOccurrence})
<1>. DEFINE r   == Relation(i, from, to, change, <<k>>, TRUE, TRUE)
            new == PushRelation(s.relations, r)
            used == s.used \union ({from, to} \ {NoOccurrence})
<1>1. r \in Rel /\ r.step = TRUE /\ r.from = from /\ r.to = to /\ s.relations \in Seq(Rel)
  <2>1. <<k>> \in Seq(Nat)
    OBVIOUS
  <2>. QED  BY <2>1 DEF Relation, Rel, StageStates
<1>2. Link(s, i, from, to, change, k) = [s EXCEPT !.used = used, !.relations = new]
  BY DEF Link, Use, StageStates
<1>. HIDE DEF r
<1>3. More(s.relations, new) /\ Has(new, from, to)
  BY <1>1, PushHas
<1>. HIDE DEF new, used
<1>4. LET t == [s EXCEPT !.used = used, !.relations = new] IN t.relations = new /\ t.used = used
  BY DEF StageStates
<1>. QED  BY <1>2, <1>3, <1>4 DEF used

\* A pair that is linked has its step.
LEMMA PairHas ==
  ASSUME NEW tl, NEW i \in Nat, NEW pairs, ArePairs(pairs), NEW exact \in BOOLEAN,
         NEW s \in StageStates, NEW k \in 1 .. Len(pairs)
  PROVE  LET t == LinkPair(tl, i, s, pairs[k][1], pairs[k][2], exact) IN
         More(s.relations, t.relations) /\ Has(t.relations, pairs[k][1], pairs[k][2])
<1>. DEFINE c   == PairCore(tl, i, pairs, exact, k)
            f   == pairs[k][1]
            o   == pairs[k][2]
            new == PushRelation(s.relations, c)
            used == s.used \union ({f, o} \ {NoOccurrence})
<1>1. c \in Rel /\ c.step = TRUE /\ c.from = f /\ c.to = o /\ s.relations \in Seq(Rel)
  <2>1. IsCore(c, i, f, o, exact)
    BY PairCoreIs
  <2>. QED  BY <2>1 DEF IsCore, StageStates
<1>2. LinkPair(tl, i, s, f, o, exact) = [s EXCEPT !.used = used, !.relations = new]
  BY DEF LinkPair, Use, PairCore, StageStates
<1>. HIDE DEF c
<1>3. More(s.relations, new) /\ Has(new, f, o)
  BY <1>1, PushHas
<1>. HIDE DEF new, used
<1>4. [s EXCEPT !.used = used, !.relations = new].relations = new
  BY DEF StageStates
<1>. QED  BY <1>2, <1>3, <1>4

-----------------------------------------------------------------------------
(* What the events of a stage leave out, and what they put in. *)

\* What the first k events have linked, used and inserted.
EventsSaid(tl, i, relations, s, k) ==
  /\ More(relations, s.relations)
  /\ \A l \in 1 .. k :
       (tl[i].events[l].kind = "modified" /\ NoOccurrence \notin {FromOf(tl, i, l), ToOf(tl, i, l)}) =>
         Has(s.relations, FromOf(tl, i, l), ToOf(tl, i, l))
  /\ \A u \in s.used : \E l \in 1 .. k : u \in {FromOf(tl, i, l), ToOf(tl, i, l), NewOf(tl, i, l)}
  /\ \A u \in s.inserted : \E l \in 1 .. k :
       tl[i].events[l].kind = "inserted" /\ ToOf(tl, i, l) = u

\* One more event.
LEMMA EventSays ==
  ASSUME NEW tl, IsTimeline(tl), NEW i \in 1 .. Len(tl), NEW S, AllExact(S, i),
         NEW s \in StageStates, s.relations \in RelationsIn(S), NEW relations,
         NEW k \in 1 .. Len(tl[i].events), EventsSaid(tl, i, relations, s, k - 1)
  PROVE  EventsSaid(tl, i, relations, ApplyEvent(tl, i, s, k), k)
<1>. DEFINE kind == tl[i].events[k].kind
            from == FromOf(tl, i, k)
            to   == ToOf(tl, i, k)
            new  == NewOf(tl, i, k)
            t    == ApplyEvent(tl, i, s, k)
            linked(f, o) == /\ More(s.relations, t.relations) /\ Has(t.relations, f, o)
                            /\ t.used = s.used \union ({f, o} \ {NoOccurrence})
<1>0. i \in Nat /\ k \in Nat /\ kind \in EventKinds
      /\ (\A l \in 1 .. k : l = k \/ l \in 1 .. (k - 1))
      /\ 1 .. (k - 1) \subseteq 1 .. k /\ k \in 1 .. k
  BY DEF IsTimeline, IsStage
<1>1. /\ t \in StageStates
      /\ {from, to, new} \subseteq Occ
      /\ kind = "replaced" =>
           IF from = NoOccurrence \/ from \in s.replaced THEN t = s
           ELSE /\ \E change \in ChangeKinds : Links(tl, i, s, t, from, new, change, k)
                /\ t.replaced = s.replaced \union {from} /\ t.inserted = s.inserted
      /\ kind = "modified" =>
           IF NoOccurrence \in {from, to} THEN t = s
           ELSE /\ Links(tl, i, s, t, from, to, "modified", k)
                /\ t.replaced = s.replaced /\ t.inserted = s.inserted
      /\ kind = "erased" =>
           IF from = NoOccurrence THEN t = s
           ELSE /\ Links(tl, i, s, t, from, NoOccurrence, "erased", k)
                /\ t.replaced = s.replaced /\ t.inserted = s.inserted
      /\ kind = "inserted" =>
           IF to = NoOccurrence THEN t = s
           ELSE /\ Links(tl, i, s, t, NoOccurrence, to, "inserted", k)
                /\ t.replaced = s.replaced /\ t.inserted = s.inserted \union {to}
  BY EventIs
<1>. HIDE DEF t, from, to, new
<1>2. NoOccurrence \in Occ
  BY OccurrenceTyped
<1>3. ASSUME NEW f \in Occ, NEW o \in Occ, NEW change \in ChangeKinds, Links(tl, i, s, t, f, o, change, k)
      PROVE  linked(f, o)
  <2>. DEFINE u == Link(s, i, f, o, change, k)
  <2>1. /\ More(s.relations, u.relations) /\ Has(u.relations, f, o)
        /\ u.used = s.used \union ({f, o} \ {NoOccurrence})
    BY <1>0, LinkHas
  <2>2. t.relations = u.relations /\ t.used = u.used
    BY <1>3 DEF Links
  <2>. HIDE DEF u
  <2>. QED  BY <2>1, <2>2
<1>. HIDE DEF linked
<1>4. {"modified", "erased", "inserted"} \subseteq ChangeKinds
  BY DEF ChangeKinds
<1>5. \/ t = s /\ (kind = "modified" => NoOccurrence \in {from, to})
      \/ kind = "replaced" /\ linked(from, new) /\ t.inserted = s.inserted
      \/ kind = "modified" /\ linked(from, to) /\ t.inserted = s.inserted
      \/ kind = "erased" /\ linked(from, NoOccurrence) /\ t.inserted = s.inserted
      \/ kind = "inserted" /\ linked(NoOccurrence, to) /\ t.inserted = s.inserted \union {to}
  <2>1. CASE kind = "replaced"
    BY <1>1, <1>3, <2>1
  <2>2. CASE kind = "modified"
    BY <1>1, <1>3, <1>4, <2>2
  <2>3. CASE kind = "erased"
    BY <1>1, <1>2, <1>3, <1>4, <2>3
  <2>4. CASE kind = "inserted"
    BY <1>1, <1>2, <1>3, <1>4, <2>4
  <2>. QED  BY <1>0, <2>1, <2>2, <2>3, <2>4 DEF EventKinds
<1>6. /\ More(s.relations, t.relations)
      /\ (kind = "modified" /\ NoOccurrence \notin {from, to}) => Has(t.relations, from, to)
      /\ t.used \subseteq s.used \union ({from, to, new} \ {NoOccurrence})
      /\ t.inserted \subseteq s.inserted \union (IF kind = "inserted" THEN {to} ELSE {})
  BY <1>5, MoreIsTransitive DEF linked
<1>7. More(relations, t.relations)
  BY <1>6, MoreIsTransitive DEF EventsSaid
<1>8. ASSUME NEW l \in 1 .. k, tl[i].events[l].kind = "modified",
             NoOccurrence \notin {FromOf(tl, i, l), ToOf(tl, i, l)}
      PROVE  Has(t.relations, FromOf(tl, i, l), ToOf(tl, i, l))
  <2>1. CASE l = k
    BY <1>6, <1>8, <2>1 DEF from, to
  <2>2. CASE l \in 1 .. (k - 1)
    <3>1. Has(s.relations, FromOf(tl, i, l), ToOf(tl, i, l))
      BY <1>8, <2>2 DEF EventsSaid
    <3>. QED  BY <1>6, <3>1 DEF More
  <2>. QED  BY <1>0, <2>1, <2>2
<1>9. ASSUME NEW u \in t.used
      PROVE  \E l \in 1 .. k : u \in {FromOf(tl, i, l), ToOf(tl, i, l), NewOf(tl, i, l)}
  <2>1. u \in s.used \/ u \in {from, to, new}
    BY <1>6
  <2>. QED  BY <1>0, <2>1 DEF EventsSaid, from, to, new
<1>10. ASSUME NEW u \in t.inserted
       PROVE  \E l \in 1 .. k : tl[i].events[l].kind = "inserted" /\ ToOf(tl, i, l) = u
  <2>1. u \in s.inserted \/ (kind = "inserted" /\ u = to)
    BY <1>6
  <2>. QED  BY <1>0, <2>1 DEF EventsSaid, to
<1>11. EventsSaid(tl, i, relations, t, k)
  BY <1>7, <1>8, <1>9, <1>10 DEF EventsSaid
<1>. QED  BY <1>11 DEF t

\* All events.
LEMMA EventsSay ==
  ASSUME NEW tl, IsTimeline(tl), NEW i \in 1 .. Len(tl), NEW S, AllExact(S, i),
         NEW relations \in RelationsIn(S)
  PROVE  EventsSaid(tl, i, relations, ApplyEvents(tl, i, Fresh(relations)), Len(tl[i].events))
<1>. DEFINE n     == Len(tl[i].events)
            start == Fresh(relations)
            All   == S \union {c \in Rel : c.exact}
            T     == {s \in StageStates : s.relations \in RelationsIn(All)}
<1>0. n \in Nat
  BY DEF IsTimeline, IsStage
<1>1. start \in StageStates /\ start.relations = relations
      /\ start.used = {} /\ start.inserted = {}
  BY DEF Fresh, StageStates, RelationsIn
<1>2. AllExact(All, i)
  BY DEF AllExact
<1>3. start \in T
  <2>1. relations \in RelationsIn(All)
    BY RelationsMonotone
  <2>. HIDE DEF All, start
  <2>. QED  BY <1>1, <2>1
<1>4. {c \in Rel : c.exact} \subseteq All
  OBVIOUS
<1>. HIDE DEF All, start
<1>5. \A s \in T, k \in 1 .. Len(tl[i].events) : ApplyEvent(tl, i, s, k) \in T
  BY <1>2, <1>4, EventTyped
<1>6. \A s \in T : s \in StageStates /\ s.relations \in RelationsIn(All)
  OBVIOUS
<1>. HIDE DEF T
<1>7. PICK g : EventsRun(g, T, tl, i, start)
  BY <1>0, <1>3, <1>5, EventsSteps
<1>. DEFINE G == {k \in 0 .. n : EventsSaid(tl, i, relations, g[k], k)}
<1>8. 0 \in G
  <2>1. g[0] = start
    BY <1>7 DEF EventsRun
  <2>2. EventsSaid(tl, i, relations, start, 0)
    BY <1>1, MoreIsTransitive DEF EventsSaid
  <2>. QED  BY <1>0, <2>1, <2>2
<1>9. ASSUME NEW k \in 1 .. n, k - 1 \in G
      PROVE  k \in G
  <2>1. k - 1 \in 0 .. n /\ g \in [0 .. n -> T] /\ g[k] = ApplyEvent(tl, i, g[k - 1], k)
        /\ EventsSaid(tl, i, relations, g[k - 1], k - 1)
    BY <1>0, <1>7, <1>9 DEF EventsRun
  <2>2. g[k - 1] \in StageStates /\ g[k - 1].relations \in RelationsIn(All)
    BY <1>6, <2>1
  <2>3. EventsSaid(tl, i, relations, ApplyEvent(tl, i, g[k - 1], k), k)
    BY <1>2, <2>1, <2>2, EventSays
  <2>. QED  BY <1>0, <2>1, <2>3
<1>. HIDE DEF G
<1>10. n \in G
  <2>1. 0 .. n \subseteq G
    BY <1>0, <1>8, <1>9, InductionUpTo
  <2>. QED  BY <1>0, <2>1
<1>. QED  BY <1>7, <1>10 DEF G, EventsRun, start

\* All pairs.
LEMMA PairsSay ==
  ASSUME NEW tl, NEW i \in Nat, NEW pairs, ArePairs(pairs), NEW exact \in BOOLEAN,
         NEW S, NEW start \in StageStates, start.relations \in RelationsIn(S)
  PROVE  LET t == LinkPairs(tl, i, start, pairs, exact) IN
         /\ More(start.relations, t.relations)
         /\ \A k \in 1 .. Len(pairs) : Has(t.relations, pairs[k][1], pairs[k][2])
<1>. DEFINE n   == Len(pairs)
            All == S \union PairCores(tl, i, pairs, exact, n)
            T   == {s \in StageStates : s.relations \in RelationsIn(All)}
            Link1(s, k) == LinkPair(tl, i, s, pairs[k][1], pairs[k][2], exact)
            Said(s, k) == /\ More(start.relations, s.relations)
                          /\ \A l \in 1 .. k : Has(s.relations, pairs[l][1], pairs[l][2])
<1>0. n \in Nat
  BY DEF ArePairs
<1>1. start \in T
  <2>1. start.relations \in RelationsIn(All)
    BY RelationsMonotone
  <2>. HIDE DEF All
  <2>. QED  BY <2>1
<1>2. \A R, s, k : (s \in StageStates /\ s.relations \in RelationsIn(R) /\ k \in 1 .. n) =>
        IsPaired(s, Link1(s, k), R, tl, i, pairs, exact, k)
  BY PairIs
<1>3. \A s \in StageStates, k \in 1 .. n :
        /\ More(s.relations, Link1(s, k).relations)
        /\ Has(Link1(s, k).relations, pairs[k][1], pairs[k][2])
  BY PairHas
<1>. HIDE DEF Link1
<1>4. \A k \in 1 .. n : All \union {PairCore(tl, i, pairs, exact, k)} = All
  BY DEF PairCores
<1>. HIDE DEF All
<1>5. \A s \in T, k \in 1 .. n : Link1(s, k) \in T
  BY <1>2, <1>4 DEF IsPaired
<1>6. \A s \in T : s \in StageStates
  OBVIOUS
<1>. HIDE DEF T
<1>7. PICK g : PairsRun(g, T, tl, i, start, pairs, exact)
  <2>1. \A s \in T, k \in 1 .. Len(pairs) : LinkPair(tl, i, s, pairs[k][1], pairs[k][2], exact) \in T
    BY <1>5 DEF Link1
  <2>. QED  BY <1>0, <1>1, <2>1, PairsSteps
<1>. DEFINE G == {k \in 0 .. n : Said(g[k], k)}
<1>8. 0 \in G
  <2>1. g[0] = start
    BY <1>7 DEF PairsRun
  <2>2. Said(start, 0)
    BY MoreIsTransitive
  <2>. HIDE DEF Said
  <2>. QED  BY <1>0, <2>1, <2>2
<1>9. ASSUME NEW k \in 1 .. n, k - 1 \in G
      PROVE  k \in G
  <2>. DEFINE s == g[k - 1]
              t == g[k]
  <2>1. k - 1 \in 0 .. n /\ g \in [0 .. n -> T] /\ t = Link1(s, k) /\ Said(s, k - 1)
    BY <1>0, <1>7, <1>9 DEF PairsRun, Link1
  <2>2. s \in StageStates
    BY <1>6, <2>1
  <2>. HIDE DEF s, t
  <2>3. More(s.relations, t.relations) /\ Has(t.relations, pairs[k][1], pairs[k][2])
    BY <1>3, <2>1, <2>2
  <2>4. \A l \in 1 .. k : l = k \/ l \in 1 .. (k - 1)
    BY <1>0
  <2>5. More(start.relations, t.relations)
    BY <2>1, <2>3, MoreIsTransitive
  <2>6. \A l \in 1 .. k : Has(t.relations, pairs[l][1], pairs[l][2])
    BY <2>1, <2>3, <2>4 DEF More
  <2>. QED  BY <1>0, <2>5, <2>6 DEF t
<1>. HIDE DEF G
<1>10. n \in G
  <2>1. 0 .. n \subseteq G
    BY <1>0, <1>8, <1>9, InductionUpTo
  <2>. QED  BY <1>0, <2>1
<1>11. g[n] = LinkPairs(tl, i, start, pairs, exact)
  BY <1>7 DEF PairsRun
<1>. QED  BY <1>10, <1>11 DEF G

-----------------------------------------------------------------------------
(* Where a stage leaves an operation. *)

\* An address of one name, of which no event says more than that it was modified, has
\* its step.
StageSaid(tl, i, relations) ==
  (tl[i].before # Missing /\ tl[i].after # Missing) =>
    \A a \in BothTokens(tl[i]) :
      LET o == NodeForToken(tl, Before(i), a)
          p == NodeForToken(tl, After(i), a)
      IN (OperationOf(tl, o).name = OperationOf(tl, p).name /\ OnlyModified(tl[i].events, a))
           => Has(relations, o, p)

\* What no event speaks of is not used by events before the stage, nor inserted.
LEMMA SilentUnused ==
  ASSUME NEW tl, IsTimeline(tl), NEW i \in 1 .. Len(tl), NEW relations, NEW s,
         EventsSaid(tl, i, relations, s, Len(tl[i].events)),
         NEW a, Silent(tl, i, a)
  PROVE  LET o == NodeForToken(tl, Before(i), a)
             p == NodeForToken(tl, After(i), a)
         IN /\ o # NoOccurrence => o \notin s.used
            /\ p # NoOccurrence => p \notin s.inserted
<1>. DEFINE o == NodeForToken(tl, Before(i), a)
            p == NodeForToken(tl, After(i), a)
<1>1. /\ Before(i) \in 1 .. 2 * Len(tl) /\ SnapshotAt(tl, Before(i)) = tl[i].before
      /\ After(i) \in 1 .. 2 * Len(tl) /\ SnapshotAt(tl, After(i)) = tl[i].after
  BY SidesAre
<1>2. /\ tl[i].before # Missing => IsSnapshot(tl[i].before)
      /\ tl[i].after # Missing => IsSnapshot(tl[i].after)
  BY DEF IsTimeline, IsStage
<1>3. ASSUME NEW b
      PROVE  /\ NodeForToken(tl, Before(i), b) # NoOccurrence =>
                  NodeForToken(tl, Before(i), b).snapshot = Before(i)
             /\ NodeForToken(tl, After(i), b) # NoOccurrence =>
                  NodeForToken(tl, After(i), b).snapshot = After(i)
  <2>1. /\ NodeForToken(tl, Before(i), b) # NoOccurrence =>
             NodeForToken(tl, Before(i), b) \in OccurrencesAt(tl, Before(i))
        /\ NodeForToken(tl, After(i), b) # NoOccurrence =>
             NodeForToken(tl, After(i), b) \in OccurrencesAt(tl, After(i))
    BY <1>1, <1>2, NodesAre
  <2>. QED  BY <2>1 DEF OccurrencesAt
<1>4. Before(i) # After(i)
  BY DEF Before, After, IsTimeline
<1>5. ASSUME o # NoOccurrence, o \in s.used
      PROVE  FALSE
  <2>1. PICK l \in 1 .. Len(tl[i].events) : o \in {FromOf(tl, i, l), ToOf(tl, i, l), NewOf(tl, i, l)}
    BY <1>5 DEF EventsSaid
  <2>2. o = FromOf(tl, i, l)
    BY <1>3, <1>4, <1>5, <2>1 DEF ToOf, NewOf
  <2>3. tl[i].events[l].address = a
    BY <1>5, <2>2, NodesDiffer DEF FromOf
  <2>. QED  BY <2>3 DEF Silent
<1>6. ASSUME p # NoOccurrence, p \in s.inserted
      PROVE  FALSE
  <2>1. PICK l \in 1 .. Len(tl[i].events) : p = ToOf(tl, i, l)
    BY <1>6 DEF EventsSaid
  <2>2. tl[i].events[l].address = a
    BY <1>1, <1>2, <1>6, <2>1, NodesAre DEF ToOf
  <2>. QED  BY <2>2 DEF Silent
<1>. QED  BY <1>5, <1>6

\* A stage keeps the steps there were, and says of its own addresses what it does.
LEMMA StageSays ==
  ASSUME NEW tl, IsTimeline(tl), NEW i \in 1 .. Len(tl), NEW S,
         \A c \in S : c.step => c.stage # i,
         NEW relations \in RelationsIn(S)
  PROVE  LET result == RelateStage(tl, relations, i) IN
         More(relations, result) /\ StageSaid(tl, i, result)
<1>. DEFINE n  == Len(tl[i].events)
            E  == EventCores(tl, i, n)
            s0 == ApplyEvents(tl, i, Fresh(relations))
            result == RelateStage(tl, relations, i)
<1>0. n \in Nat /\ i \in Nat
  BY DEF IsTimeline, IsStage
<1>1. /\ EventsDone(tl, i, S, s0, n) /\ EventsSaid(tl, i, relations, s0, n)
  <2>1. AllExact(S, i)
    BY DEF AllExact
  <2>. QED  BY <2>1, EventsAre, EventsSay
<1>2. result = IF Missing \in {tl[i].before, tl[i].after} THEN s0.relations
               ELSE LinkMatches(tl, i, LinkSameAddress(tl, i, s0)).relations
  BY DEF RelateStage, Fresh
<1>. HIDE DEF s0, result
<1>3. /\ s0 \in StageStates /\ s0.relations \in RelationsIn(S \union E)
      /\ NoOccurrence \notin s0.used /\ More(relations, s0.relations)
  BY <1>1 DEF EventsDone, EventsSaid
<1>. HIDE DEF E
<1>5. CASE Missing \in {tl[i].before, tl[i].after}
  <2>1. result = s0.relations /\ ~(tl[i].before # Missing /\ tl[i].after # Missing)
    BY <1>2, <1>5
  <2>2. StageSaid(tl, i, result)
    BY <2>1 DEF StageSaid
  <2>3. More(relations, result)
    BY <1>3, <2>1
  <2>. QED  BY <2>2, <2>3 DEF result
<1>6. CASE Missing \notin {tl[i].before, tl[i].after}
  <2>. DEFINE P1 == AddressPairs(tl, i, SameAddress(tl, i, s0))
              s1 == LinkPairs(tl, i, s0, P1, TRUE)
              P2 == MatchedPairs(tl, Before(i), Unused(tl, Before(i), s1.used),
                                 After(i), Unused(tl, After(i), s1.used))
              s2 == LinkPairs(tl, i, s1, P2, FALSE)
              SE == S \union E
              SA == SE \union PairCores(tl, i, P1, TRUE, Len(P1))
  <2>1. result = s2.relations
    BY <1>2, <1>6 DEF LinkSameAddress, LinkMatches
  <2>2. ArePairs(P1) /\ HasAddressPairs(tl, i, SameAddress(tl, i, s0), P1)
    BY <1>1, <1>6, AddressPairsAre
  <2>. HIDE DEF P1
  <2>3. PairsDone(tl, i, SE, s0, P1, TRUE, s1, Len(P1))
    BY <1>0, <1>3, <2>2, PairsAre
  <2>4. /\ More(s0.relations, s1.relations)
        /\ \A k \in 1 .. Len(P1) : Has(s1.relations, P1[k][1], P1[k][2])
    BY <1>0, <1>3, <2>2, PairsSay
  <2>. HIDE DEF s1
  <2>5. s1 \in StageStates /\ s1.relations \in RelationsIn(SA) /\ NoOccurrence \notin s1.used
    BY <2>3 DEF PairsDone
  <2>6. ArePairs(P2)
    BY <1>6, MatchPairsAre
  <2>. HIDE DEF P2, SA
  <2>7. More(s1.relations, s2.relations)
    BY <1>0, <2>5, <2>6, PairsSay
  <2>. HIDE DEF s2
  <2>8. More(relations, result) /\ More(s0.relations, result) /\ More(s1.relations, result)
    BY <1>3, <2>1, <2>4, <2>7, MoreIsTransitive
  <2>9. ASSUME NEW a \in BothTokens(tl[i]), OnlyModified(tl[i].events, a),
               OperationOf(tl, NodeForToken(tl, Before(i), a)).name =
                 OperationOf(tl, NodeForToken(tl, After(i), a)).name
        PROVE  Has(result, NodeForToken(tl, Before(i), a), NodeForToken(tl, After(i), a))
    <3>. DEFINE o == NodeForToken(tl, Before(i), a)
                p == NodeForToken(tl, After(i), a)
    <3>1. o # NoOccurrence /\ p # NoOccurrence
      <4>1. /\ Before(i) \in 1 .. 2 * Len(tl) /\ SnapshotAt(tl, Before(i)) = tl[i].before
            /\ After(i) \in 1 .. 2 * Len(tl) /\ SnapshotAt(tl, After(i)) = tl[i].after
        BY SidesAre
      <4>2. /\ tl[i].before # Missing /\ IsSnapshot(tl[i].before) /\ a \in DOMAIN tl[i].before.tokens
            /\ tl[i].after # Missing /\ IsSnapshot(tl[i].after) /\ a \in DOMAIN tl[i].after.tokens
        BY <1>6 DEF IsTimeline, IsStage, BothTokens
      <4>. QED  BY <4>1, <4>2, NodesAre
    <3>2. CASE Silent(tl, i, a)
      <4>1. o \notin s0.used /\ p \notin s0.inserted
        BY <1>1, <3>1, <3>2, SilentUnused
      <4>2. a \in SameAddress(tl, i, s0)
        BY <2>9, <4>1 DEF SameAddress, BothTokens
      <4>3. PICK k \in 1 .. Len(P1) : P1[k][1] = o /\ P1[k][2] = p
        BY <2>2, <4>2 DEF HasAddressPairs
      <4>4. Has(s1.relations, o, p)
        BY <2>4, <4>3
      <4>. QED  BY <2>8, <4>4 DEF More
    <3>3. CASE ~Silent(tl, i, a)
      <4>1. PICK l \in 1 .. n : tl[i].events[l].address = a
        BY <3>3 DEF Silent
      <4>2. tl[i].events[l].kind = "modified"
        BY <2>9, <4>1 DEF OnlyModified
      <4>3. FromOf(tl, i, l) = o /\ ToOf(tl, i, l) = p
        BY <4>1 DEF FromOf, ToOf
      <4>4. Has(s0.relations, o, p)
        BY <1>1, <3>1, <4>2, <4>3 DEF EventsSaid
      <4>. QED  BY <2>8, <4>4 DEF More
    <3>. QED  BY <3>2, <3>3
  <2>10. StageSaid(tl, i, result)
    BY <2>9 DEF StageSaid
  <2>. QED  BY <2>8, <2>10 DEF result
<1>. QED  BY <1>5, <1>6

\* All stages say what they do, and no step is there twice.
LEMMA StagesSay ==
  ASSUME NEW tl, IsTimeline(tl)
  PROVE  LET relations == RelateStages(tl) IN
         Unsame(relations) /\ \A i \in 1 .. Len(tl) : StageSaid(tl, i, relations)
<1>. DEFINE n == Len(tl)
<1>0. n \in Nat
  BY DEF IsTimeline
<1>1. PICK g : StagesRun(g, AfterStages(tl), tl)
  BY StagesGo
<1>2. /\ g[0] = <<>> /\ g[n] = RelateStages(tl)
      /\ \A i \in 0 .. n : g[i] \in Seq(Rel) /\ StagesDone(tl, g[i], i)
      /\ \A i \in 1 .. n : g[i] = RelateStage(tl, g[i - 1], i)
  BY <1>1 DEF StagesRun, AfterStages
<1>. DEFINE Said(i) == Unsame(g[i]) /\ \A j \in 1 .. i : StageSaid(tl, j, g[i])
            G == {i \in 0 .. n : Said(i)}
<1>3. 0 \in G
  <2>1. Unsame(<<>>)
    BY DEF Unsame
  <2>. QED  BY <1>0, <1>2, <2>1
<1>4. ASSUME NEW i \in 1 .. n, i - 1 \in G
      PROVE  i \in G
  <2>1. i - 1 \in 0 .. n /\ i \in 0 .. n /\ i >= 1 /\ \A j \in 1 .. i : j = i \/ j \in 1 .. (i - 1)
    BY <1>0
  <2>2. g[i] = RelateStage(tl, g[i - 1], i) /\ StagesDone(tl, g[i - 1], i - 1) /\ Said(i - 1)
    BY <1>2, <1>4, <2>1
  <2>3. PICK S : TimelineCores(tl, i - 1, S) /\ g[i - 1] \in RelationsIn(S)
    BY <2>2 DEF StagesDone
  <2>4. \A c \in S : c.step => c.stage # i
    BY <2>1, <2>3 DEF TimelineCores
  <2>5. More(g[i - 1], g[i]) /\ StageSaid(tl, i, g[i])
    BY <2>2, <2>3, <2>4, StageSays
  <2>6. \A j \in 1 .. (i - 1) : StageSaid(tl, j, g[i])
    BY <2>2, <2>5 DEF More, StageSaid
  <2>7. Unsame(g[i])
    BY <2>2, <2>5 DEF More
  <2>8. \A j \in 1 .. i : StageSaid(tl, j, g[i])
    BY <2>1, <2>5, <2>6
  <2>. HIDE DEF G
  <2>. QED  BY <2>1, <2>7, <2>8 DEF G
<1>. HIDE DEF G
<1>5. n \in G
  <2>1. 0 .. n \subseteq G
    BY <1>0, <1>3, <1>4, InductionUpTo
  <2>. QED  BY <1>0, <2>1
<1>. QED  BY <1>2, <1>5 DEF G

-----------------------------------------------------------------------------
(* The steps of a history, in order. *)

\* A strict order of all of a set, as a set of pairs.
IsOrder(S, R) ==
  /\ \A k \in S : <<k, k>> \notin R
  /\ \A k, l \in S : k # l => <<k, l>> \in R \/ <<l, k>> \in R
  /\ \A k, l, m \in S : (<<k, l>> \in R /\ <<l, m>> \in R) => <<k, m>> \in R

Below(S, R, k) == {l \in S : <<l, k>> \in R}

\* In a finite set every place is of one member: the one with as many before it.
LEMMA Ranked ==
  ASSUME NEW S, IsFiniteSet(S), NEW R, IsOrder(S, R)
  PROVE  /\ Cardinality(S) \in Nat
         /\ \A k \in S : Cardinality(Below(S, R, k)) + 1 \in 1 .. Cardinality(S)
         /\ \A k, l \in S : Cardinality(Below(S, R, k)) = Cardinality(Below(S, R, l)) => k = l
         /\ \A n \in 1 .. Cardinality(S) : \E k \in S : Cardinality(Below(S, R, k)) = n - 1
<1>. DEFINE N == Cardinality(S)
            B(k) == Below(S, R, k)
            f == [k \in S |-> Cardinality(B(k)) + 1]
<1>1. N \in Nat
  BY FS_CardinalityType
<1>2. ASSUME NEW T, T \subseteq S, NEW x \in T, NEW V, V \subseteq T \ {x}
      PROVE  /\ IsFiniteSet(T) /\ IsFiniteSet(V) /\ Cardinality(T) \in Nat
             /\ Cardinality(V) \in Nat /\ Cardinality(V) < Cardinality(T)
  <2>1. IsFiniteSet(T)
    BY <1>2, FS_Subset
  <2>2. IsFiniteSet(T \ {x}) /\ Cardinality(T \ {x}) = Cardinality(T) - 1
    BY <2>1, FS_RemoveElement
  <2>3. IsFiniteSet(V) /\ Cardinality(V) <= Cardinality(T \ {x})
    BY <1>2, <2>2, FS_Subset
  <2>4. Cardinality(T) \in Nat /\ Cardinality(V) \in Nat
    BY <2>1, <2>3, FS_CardinalityType
  <2>. QED  BY <2>1, <2>2, <2>3, <2>4
<1>3. ASSUME NEW k \in S
      PROVE  Cardinality(B(k)) \in Nat /\ Cardinality(B(k)) < N
  <2>1. B(k) \subseteq S \ {k}
    BY DEF IsOrder, Below
  <2>. HIDE DEF B
  <2>. QED  BY <1>2, <2>1
<1>4. ASSUME NEW k \in S, NEW l \in S, <<k, l>> \in R
      PROVE  Cardinality(B(k)) < Cardinality(B(l))
  <2>1. k \in B(l) /\ B(l) \subseteq S /\ B(k) \subseteq B(l) \ {k}
    BY <1>4 DEF IsOrder, Below
  <2>. HIDE DEF B
  <2>. QED  BY <1>2, <2>1
<1>5. ASSUME NEW k \in S, NEW l \in S, k # l
      PROVE  Cardinality(B(k)) # Cardinality(B(l))
  <2>1. <<k, l>> \in R \/ <<l, k>> \in R
    BY <1>5 DEF IsOrder
  <2>2. Cardinality(B(k)) < Cardinality(B(l)) \/ Cardinality(B(l)) < Cardinality(B(k))
    BY <1>4, <2>1
  <2>3. Cardinality(B(k)) \in Nat /\ Cardinality(B(l)) \in Nat
    BY <1>3
  <2>. HIDE DEF B
  <2>. QED  BY <2>2, <2>3
<1>. HIDE DEF B, N
<1>6. f \in Injection(S, 1 .. N)
  <2>1. f \in [S -> 1 .. N]
    BY <1>1, <1>3
  <2>2. \A k, l \in S : f[k] = f[l] => k = l
    BY <1>3, <1>5
  <2>. HIDE DEF f
  <2>. QED  BY <2>1, <2>2 DEF Injection, IsInjective
<1>7. IsFiniteSet(1 .. N) /\ Cardinality(1 .. N) = N
  BY <1>1, FS_Interval
<1>8. f \in Surjection(S, 1 .. N)
  BY <1>6, <1>7, FS_Injection DEF N
<1>9. \A n \in 1 .. N : \E k \in S : Cardinality(B(k)) = n - 1
  <2>1. \A n \in 1 .. N : \E k \in S : f[k] = n
    <3>. HIDE DEF f
    <3>. QED  BY <1>8 DEF Surjection
  <2>2. \A k \in S : f[k] = Cardinality(B(k)) + 1 /\ Cardinality(B(k)) \in Nat
    BY <1>3
  <2>. HIDE DEF f, B
  <2>. QED  BY <2>1, <2>2
<1>10. \A k \in S : Cardinality(B(k)) + 1 \in 1 .. N
  BY <1>1, <1>3
<1>. QED  BY <1>1, <1>5, <1>9, <1>10 DEF N, B

\* The step from o to p is the k-th of the relations, and no other.
IsOnlyStep(relations, o, p, k) ==
  \A l \in 1 .. Len(relations) :
    (relations[l].step /\ relations[l].from = o /\ relations[l].to = p) <=> l = k

\* A history has one step from o to p.
HasOneStep(steps, o, p) ==
  Cardinality({n \in DOMAIN steps : steps[n].from = o /\ steps[n].to = p}) = 1

\* A step is in the history of its UID at one place.
LEMMA HistoryHas ==
  ASSUME NEW resolved, resolved.relations \in Seq(Rel), NEW uid,
         NEW o \in Occ, NEW p, o # NoOccurrence, resolved.uids[o] = uid,
         NEW k \in 1 .. Len(resolved.relations),
         IsOnlyStep(resolved.relations, o, p, k)
  PROVE  HasOneStep(History(resolved, uid), o, p)
<1>. DEFINE relations == resolved.relations
            end(x) == IF relations[x].from = NoOccurrence THEN relations[x].to
                      ELSE relations[x].from
            S == {x \in DOMAIN relations : relations[x].step /\ resolved.uids[end(x)] = uid}
            key(x) == <<relations[x].stage, end(x).ordinal, x>>
            less(x, y) == \E n \in 1 .. 3 : /\ key(x)[n] < key(y)[n]
                                            /\ \A m \in 1 .. n - 1 : key(x)[m] = key(y)[m]
            at(n) == CHOOSE x \in S : Cardinality({y \in S : less(y, x)}) = n - 1
            R == {q \in S \X S : less(q[1], q[2])}
            H == History(resolved, uid)
<1>1. H = [n \in 1 .. Cardinality(S) |-> relations[at(n)]]
  BY DEF History
<1>. HIDE DEF H
<1>2. /\ DOMAIN relations = 1 .. Len(relations) /\ Len(relations) \in Nat
      /\ \A x \in DOMAIN relations : relations[x] \in Rel
  OBVIOUS
<1>3. ASSUME NEW x \in S
      PROVE  /\ x \in Nat /\ relations[x].stage \in Nat /\ end(x).ordinal \in Nat
             /\ relations[x] \in Rel /\ x \in 1 .. Len(relations) /\ relations[x].step
  <2>1. x \in 1 .. Len(relations) /\ relations[x] \in Rel /\ relations[x].step
    BY <1>2
  <2>2. relations[x].stage \in Nat /\ relations[x].from \in Occ /\ relations[x].to \in Occ
    BY <2>1 DEF Rel
  <2>3. end(x) \in Occ
    BY <2>2
  <2>4. end(x).ordinal \in Nat
    <3>. HIDE DEF end
    <3>. QED  BY <2>3 DEF Occ
  <2>. HIDE DEF end, relations
  <2>. QED  BY <1>2, <2>1, <2>2, <2>4
<1>4. k \in S
  BY <1>2 DEF IsOnlyStep
<1>5. IsFiniteSet(S)
  <2>1. IsFiniteSet(1 .. Len(relations))
    BY <1>2, FS_Interval
  <2>2. S \subseteq 1 .. Len(relations)
    BY <1>2
  <2>. HIDE DEF S, relations
  <2>. QED  BY <2>1, <2>2, FS_Subset
<1>. HIDE DEF relations
<1>6. ASSUME NEW x \in S, NEW y \in S
      PROVE  less(x, y) <=>
               \/ relations[x].stage < relations[y].stage
               \/ /\ relations[x].stage = relations[y].stage
                  /\ \/ end(x).ordinal < end(y).ordinal
                     \/ end(x).ordinal = end(y).ordinal /\ x < y
  <2>. DEFINE a == key(x)
              b == key(y)
  <2>1. less(x, y) <=>
          \/ a[1] < b[1]
          \/ a[1] = b[1] /\ a[2] < b[2]
          \/ a[1] = b[1] /\ a[2] = b[2] /\ a[3] < b[3]
    <3>. HIDE DEF a, b, key
    <3>1. 1 .. 3 = {1, 2, 3} /\ 1 .. 1 - 1 = {} /\ 1 .. 2 - 1 = {1} /\ 1 .. 3 - 1 = {1, 2}
      OBVIOUS
    <3>2. less(x, y) <=> \E n \in {1, 2, 3} : a[n] < b[n] /\ \A m \in 1 .. n - 1 : a[m] = b[m]
      BY <3>1 DEF a, b
    <3>. HIDE DEF less
    <3>. QED  BY <3>1, <3>2
  <2>. HIDE DEF end, less
  <2>. QED  BY <2>1
<1>. HIDE DEF end, key, S
<1>7. IsOrder(S, R)
  <2>1. \A x, y \in S : <<x, y>> \in R <=> less(x, y)
    OBVIOUS
  <2>. HIDE DEF R, less
  <2>2. \A x \in S : <<x, x>> \notin R
    BY <1>3, <1>6, <2>1
  <2>3. ASSUME NEW x \in S, NEW y \in S, x # y
        PROVE  less(x, y) \/ less(y, x)
    <3>1. /\ x \in Nat /\ relations[x].stage \in Nat /\ end(x).ordinal \in Nat
          /\ y \in Nat /\ relations[y].stage \in Nat /\ end(y).ordinal \in Nat
      BY <1>3
    <3>. QED  BY <1>6, <2>3, <3>1
  <2>4. ASSUME NEW x \in S, NEW y \in S, NEW z \in S, less(x, y), less(y, z)
        PROVE  less(x, z)
    <3>. DEFINE a == relations[x].stage
                b == relations[y].stage
                c == relations[z].stage
                d == end(x).ordinal
                e == end(y).ordinal
                f == end(z).ordinal
    <3>1. /\ x \in Nat /\ a \in Nat /\ d \in Nat /\ y \in Nat /\ b \in Nat /\ e \in Nat
          /\ z \in Nat /\ c \in Nat /\ f \in Nat
      BY <1>3
    <3>2. /\ a < b \/ (a = b /\ (d < e \/ (d = e /\ x < y)))
          /\ b < c \/ (b = c /\ (e < f \/ (e = f /\ y < z)))
      BY <1>6, <2>4
    <3>3. less(x, z) <=> a < c \/ (a = c /\ (d < f \/ (d = f /\ x < z)))
      BY <1>6
    <3>. HIDE DEF a, b, c, d, e, f
    <3>4. a < c \/ (a = c /\ (d < f \/ (d = f /\ x < z)))
      BY <3>1, <3>2
    <3>. QED  BY <3>3, <3>4
  <2>. QED  BY <2>1, <2>2, <2>3, <2>4 DEF IsOrder
<1>8. \A x \in S : {y \in S : less(y, x)} = Below(S, R, x)
  BY DEF Below
<1>. HIDE DEF less, R
<1>9. /\ Cardinality(S) \in Nat
      /\ \A x \in S : Cardinality(Below(S, R, x)) + 1 \in 1 .. Cardinality(S)
      /\ \A x, y \in S : Cardinality(Below(S, R, x)) = Cardinality(Below(S, R, y)) => x = y
      /\ \A n \in 1 .. Cardinality(S) : \E x \in S : Cardinality(Below(S, R, x)) = n - 1
  BY <1>5, <1>7, Ranked
<1>10. ASSUME NEW n \in 1 .. Cardinality(S)
       PROVE  at(n) \in S /\ Cardinality(Below(S, R, at(n))) = n - 1
  <2>1. \E x \in S : Cardinality({y \in S : less(y, x)}) = n - 1
    BY <1>8, <1>9
  <2>2. at(n) \in S /\ Cardinality({y \in S : less(y, at(n))}) = n - 1
    BY <2>1
  <2>. QED  BY <1>8, <2>2
<1>. HIDE DEF at
<1>. DEFINE n0 == Cardinality(Below(S, R, k)) + 1
            N  == {n \in DOMAIN H : H[n].from = o /\ H[n].to = p}
<1>11. n0 \in 1 .. Cardinality(S) /\ n0 - 1 = Cardinality(Below(S, R, k))
  <2>1. Cardinality(Below(S, R, k)) \in Int
    <3>1. IsFiniteSet(Below(S, R, k))
      BY <1>5, FS_Subset DEF Below
    <3>. QED  BY <3>1, FS_CardinalityType
  <2>. QED  BY <1>4, <1>9, <2>1
<1>12. at(n0) = k
  BY <1>4, <1>9, <1>10, <1>11
<1>13. ASSUME NEW n \in 1 .. Cardinality(S)
       PROVE  (H[n].from = o /\ H[n].to = p) <=> n = n0
  <2>1. H[n] = relations[at(n)] /\ at(n) \in 1 .. Len(relations) /\ relations[at(n)].step
    BY <1>1, <1>3, <1>10
  <2>2. (H[n].from = o /\ H[n].to = p) <=> at(n) = k
    BY <2>1 DEF relations, IsOnlyStep
  <2>3. at(n) = k => n = n0
    <3>1. at(n) = k => n - 1 = n0 - 1
      BY <1>10, <1>11
    <3>2. n0 \in Nat /\ n \in Nat
      BY <1>9, <1>11
    <3>. HIDE DEF n0
    <3>. QED  BY <3>1, <3>2
  <2>. QED  BY <1>12, <2>2, <2>3
<1>14. N = {n0}
  <2>1. DOMAIN H = 1 .. Cardinality(S)
    BY <1>1
  <2>. HIDE DEF n0
  <2>. QED  BY <1>11, <1>13, <2>1
<1>15. Cardinality(N) = 1
  <2>. HIDE DEF N, n0
  <2>. QED  BY <1>14, FS_Singleton
<1>. QED  BY <1>15 DEF H, HasOneStep

-----------------------------------------------------------------------------
(* What passes leave where it is. *)

\* Two steps of a stage that lead from an operation to itself say the same of it.
LEMMA CoresAgree ==
  ASSUME NEW tl, IsTimeline(tl), NEW i \in 1 .. Len(tl), NEW C, StageCores(tl, i, C),
         NEW known, StageTrue(tl[i], known),
         NEW c \in C, NEW d \in C, Joins(c), c.from = d.from, c.to = d.to,
         IdAt(tl, c.from) = IdAt(tl, c.to)
  PROVE  c.change = d.change
<1>. DEFINE events == tl[i].events
<1>0. Joins(d) /\ c.from # NoOccurrence /\ c.to # NoOccurrence
  BY DEF Joins
<1>1. \A x \in C : \/ \E l \in 1 .. Len(events) : EventCore(tl, i, l, x)
                   \/ AddressCore(tl, i, x) \/ MatchCore(tl, i, C, x)
  BY DEF StageCores
<1>2. CASE MatchCore(tl, i, C, c) \/ MatchCore(tl, i, C, d)
  <2>1. c = d
    BY <1>2 DEF MatchCore
  <2>. QED  BY <2>1
<1>3. ASSUME NEW x \in C, x.from = c.from, x.to = c.to,
             NEW l \in 1 .. Len(events), EventCore(tl, i, l, x)
      PROVE  x.change = "modified"
  <2>1. Joins(x)
    BY <1>3 DEF Joins
  <2>2. /\ x.from = FromOf(tl, i, l)
        /\ \/ /\ events[l].kind = "replaced" /\ x.to = NewOf(tl, i, l)
              /\ \A m \in 1 .. (l - 1) : events[m].kind = "replaced" => FromOf(tl, i, m) # x.from
           \/ x.change = "modified"
    BY <1>3, <2>1, EventJoins
  <2>3. SUFFICES ASSUME events[l].kind = "replaced", x.to = NewOf(tl, i, l),
                        \A m \in 1 .. (l - 1) :
                          events[m].kind = "replaced" => FromOf(tl, i, m) # x.from
                 PROVE  FALSE
    BY <2>2
  <2>. DEFINE a == events[l].address
              b == events[l].new
  <2>4. Replaces(events, l)
    BY <2>2, <2>3, ReplacementIsFirst
  <2>5. c.from = NodeForToken(tl, Before(i), a) /\ c.to = NodeForToken(tl, After(i), b)
    BY <1>3, <2>2, <2>3 DEF FromOf, NewOf
  <2>6. /\ tl[i].before # Missing /\ a \in DOMAIN tl[i].before.tokens
        /\ IdAt(tl, c.from) = BeforeId(tl[i], a)
        /\ tl[i].after # Missing /\ b \in DOMAIN tl[i].after.tokens
        /\ IdAt(tl, c.to) = AfterId(tl[i], b)
    <3>1. /\ IsNode(tl, Before(i), tl[i].before, a, c.from)
          /\ IsNode(tl, After(i), tl[i].after, b, c.to)
      BY <2>5, NodeOf
    <3>. QED  BY <1>0, <3>1 DEF IsNode, BeforeId, AfterId
  <2>7. ReplacedTrue(tl[i], known)
    BY <2>6 DEF StageTrue
  <2>8. AfterId(tl[i], b) # BeforeId(tl[i], a)
    BY <2>4, <2>6, <2>7 DEF ReplacedTrue
  <2>. QED  BY <2>6, <2>8
<1>4. CASE AddressCore(tl, i, c) /\ AddressCore(tl, i, d)
  BY <1>4 DEF AddressCore
<1>5. ~\E l \in 1 .. Len(events) :
         (EventCore(tl, i, l, c) /\ AddressCore(tl, i, d)) \/ (EventCore(tl, i, l, d) /\ AddressCore(tl, i, c))
  BY <1>0, EventOrAddress
<1>6. CASE /\ \E l \in 1 .. Len(events) : EventCore(tl, i, l, c)
           /\ \E l \in 1 .. Len(events) : EventCore(tl, i, l, d)
  BY <1>3, <1>6
<1>. QED  BY <1>1, <1>2, <1>4, <1>5, <1>6

\* There is at most one step from o to p.
AtMostOnce(relations, o, p) ==
  \A k, l \in 1 .. Len(relations) :
    (/\ relations[k].step /\ relations[k].from = o /\ relations[k].to = p
     /\ relations[l].step /\ relations[l].from = o /\ relations[l].to = p) => k = l

\* From an operation that a pass has left to itself there is at most one step.
LEMMA OneStep ==
  ASSUME NEW tl, IsTimeline(tl), NEW C, Related(tl, C), NEW known,
         NEW i \in 1 .. Len(tl), StageTrue(tl[i], known), Relations(tl) \in Seq(Rel),
         Unsame(Relations(tl)), NEW o, NEW p,
         o # NoOccurrence, o.snapshot = Before(i), p # NoOccurrence, IdAt(tl, o) = IdAt(tl, p)
  PROVE  AtMostOnce(Relations(tl), o, p)
<1>. DEFINE relations == Relations(tl)
            leads(k) == relations[k].step /\ relations[k].from = o /\ relations[k].to = p
            D == {c \in C : c.stage = i}
<1>1. StageCores(tl, i, D)
  BY DEF Related
<1>2. ASSUME NEW k \in 1 .. Len(relations), leads(k)
      PROVE  LET r == relations[k] IN
             /\ r.stage = i /\ Core(r) \in D /\ Core(r).from = o /\ Core(r).to = p
             /\ Core(r).change = r.change
  <2>. DEFINE r == relations[k]
              j == r.stage
  <2>1. r \in Rel /\ r \in Range(relations)
    BY DEF Range
  <2>2. IsOfStage(tl, C, r)
    BY <1>2, <2>1 DEF Related, IsBridge
  <2>3. /\ Core(r).stage = j /\ Core(r).from = o /\ Core(r).to = p /\ Core(r).change = r.change
    BY <1>2, <2>1, CoreIs
  <2>4. j \in 1 .. Len(tl) /\ Core(r) \in {c \in C : c.stage = j}
    BY <2>2, <2>3 DEF IsOfStage
  <2>. HIDE DEF r
  <2>5. StageCores(tl, j, {c \in C : c.stage = j})
    BY <2>4 DEF Related
  <2>6. Core(r).from \in OccurrencesAt(tl, Before(j)) \union {NoOccurrence}
    BY <2>4, <2>5, EndsAre
  <2>7. Before(j) = Before(i)
    BY <2>3, <2>6 DEF OccurrencesAt
  <2>8. j = i
    BY <2>4, <2>7 DEF Before, IsTimeline
  <2>. QED  BY <2>3, <2>4, <2>8 DEF r
<1>. HIDE DEF D, relations
<1>3. ASSUME NEW k \in 1 .. Len(relations), NEW l \in 1 .. Len(relations), leads(k), leads(l)
      PROVE  k = l
  <2>. DEFINE c == Core(relations[k])
              d == Core(relations[l])
  <2>1. /\ relations[k].stage = i /\ c \in D /\ c.from = o /\ c.to = p /\ c.change = relations[k].change
        /\ relations[l].stage = i /\ d \in D /\ d.from = o /\ d.to = p /\ d.change = relations[l].change
    BY <1>2, <1>3
  <2>. HIDE DEF c, d
  <2>2. Joins(c)
    BY <2>1 DEF Joins
  <2>3. c.change = d.change
    BY <1>1, <2>1, <2>2, CoresAgree
  <2>4. SameStep(relations[k], relations[l])
    BY <1>3, <2>1, <2>3 DEF SameStep
  <2>. QED  BY <2>4 DEF Unsame, relations
<1>. QED  BY <1>3 DEF AtMostOnce, relations

\* Where every operation is indexed, the occurrence of one is the node of its address.
LEMMA IndexedIs ==
  ASSUME NEW tl, IsTimeline(tl), NEW n \in 1 .. 2 * Len(tl), NEW s, SnapshotAt(tl, n) = s,
         s # Missing, IsSnapshot(s), Indexed(s), NEW k \in DOMAIN s.ids
  PROVE  \E a \in DOMAIN s.tokens :
           LET o == NodeForToken(tl, n, a) IN
           /\ o = Occurrence(n, k) /\ o # NoOccurrence /\ o \in Occ /\ o.snapshot = n
           /\ s.tokens[a] = k /\ OperationOf(tl, o) = s.ops[k] /\ IdAt(tl, o) = s.ids[k]
<1>1. k \in 1 .. Len(s.ops) /\ k \in Nat /\ n \in Nat
  BY DEF Indexed, IsTimeline, IsSnapshot
<1>2. PICK a \in DOMAIN s.tokens : s.tokens[a] = k
  BY <1>1 DEF Indexed
<1>3. NodeForToken(tl, n, a) # NoOccurrence /\ NodeForToken(tl, n, a) = Occurrence(n, k)
  BY <1>2, NodesAre
<1>4. Occurrence(n, k) \in Occ /\ Occurrence(n, k).snapshot = n /\ Occurrence(n, k).ordinal = k
  BY <1>1, OccurrenceTyped
<1>5. OperationOf(tl, Occurrence(n, k)) = s.ops[k] /\ IdAt(tl, Occurrence(n, k)) = s.ids[k]
  BY <1>4 DEF OperationOf, IdAt
<1>. QED  BY <1>2, <1>3, <1>4, <1>5

\* An operation that a pass has left is traced from its place before to that after.
LEMMA SurvivorIsTraced ==
  ASSUME NEW tl, IsTimeline(tl), BlobsAgree(tl), NEW C, Related(tl, C), NEW known,
         NEW i \in 1 .. Len(tl), StageTrue(tl[i], known), StageIndexed(tl[i]),
         tl[i].after # Missing,
         NEW k \in DOMAIN tl[i].before.ids, NEW l \in DOMAIN tl[i].after.ids,
         tl[i].before.ids[k] = tl[i].after.ids[l], tl[i].before.ids[k] \notin tl[i].moved
  PROVE  LET o == Occurrence(Before(i), k) IN
         Traced(o, Occurrence(After(i), l), Resolve(tl), History(Resolve(tl), Resolve(tl).uids[o]))
<1>. DEFINE st == tl[i]
            o  == Occurrence(Before(i), k)
            p  == Occurrence(After(i), l)
            relations == Relations(tl)
            resolved  == Resolve(tl)
            leads(m)  == relations[m].step /\ relations[m].from = o /\ relations[m].to = p
<1>1. /\ st.before # Missing /\ IsSnapshot(st.before) /\ Indexed(st.before)
      /\ st.after # Missing /\ IsSnapshot(st.after) /\ Indexed(st.after)
  BY DEF StageIndexed, IsTimeline, IsStage
<1>2. /\ Before(i) \in 1 .. 2 * Len(tl) /\ SnapshotAt(tl, Before(i)) = st.before
      /\ After(i) \in 1 .. 2 * Len(tl) /\ SnapshotAt(tl, After(i)) = st.after
  BY SidesAre
<1>3. PICK a \in DOMAIN st.before.tokens :
        /\ NodeForToken(tl, Before(i), a) = o /\ o # NoOccurrence /\ o \in Occ
        /\ o.snapshot = Before(i) /\ st.before.tokens[a] = k
        /\ OperationOf(tl, o) = st.before.ops[k] /\ IdAt(tl, o) = st.before.ids[k]
  BY <1>1, <1>2, IndexedIs
<1>4. PICK b \in DOMAIN st.after.tokens :
        /\ NodeForToken(tl, After(i), b) = p /\ p # NoOccurrence
        /\ st.after.tokens[b] = l
        /\ OperationOf(tl, p) = st.after.ops[l] /\ IdAt(tl, p) = st.after.ids[l]
  BY <1>1, <1>2, IndexedIs
<1>. HIDE DEF o, p
<1>5. a = b /\ OnlyModified(st.events, a) /\ st.before.ops[k].name = st.after.ops[l].name
  <2>1. SurvivorsTrue(st)
    BY <1>1 DEF StageTrue
  <2>2. BeforeId(st, a) = AfterId(st, b) /\ BeforeId(st, a) \notin st.moved
    BY <1>3, <1>4 DEF BeforeId, AfterId
  <2>. QED  BY <1>3, <1>4, <2>1, <2>2 DEF SurvivorsTrue
<1>6. relations \in Seq(Rel) /\ Unsame(relations) /\ Has(relations, o, p)
  <2>1. Bridged(tl, RelateStages(tl), relations)
    BY RelationsAre
  <2>2. Unsame(RelateStages(tl)) /\ StageSaid(tl, i, RelateStages(tl))
    BY StagesSay
  <2>3. a \in BothTokens(st)
    BY <1>5 DEF BothTokens
  <2>4. Has(RelateStages(tl), o, p)
    BY <1>1, <1>3, <1>4, <1>5, <2>2, <2>3 DEF StageSaid
  <2>. QED  BY <2>1, <2>2, <2>4 DEF Bridged, More
<1>7. PICK m \in 1 .. Len(relations) : leads(m)
  BY <1>6 DEF Has
<1>8. IsOnlyStep(relations, o, p, m)
  <2>1. IdAt(tl, o) = IdAt(tl, p)
    BY <1>3, <1>4
  <2>2. AtMostOnce(relations, o, p)
    BY <1>3, <1>4, <1>6, <2>1, OneStep
  <2>. QED  BY <1>7, <2>2 DEF AtMostOnce, IsOnlyStep
<1>9. resolved.relations = relations /\ FollowLinks(resolved)
  <2>1. resolved.relations = relations
    BY DEF Resolve, Resolved
  <2>. QED  BY <2>1, ResolveFollows
<1>. HIDE DEF relations, resolved
<1>10. resolved.uids[o] = resolved.uids[p]
  <2>1. relations[m] \in Range(relations) /\ Joins(relations[m])
    BY <1>3, <1>4, <1>6, <1>7 DEF Range, Joins
  <2>. QED  BY <1>7, <1>9, <2>1 DEF FollowLinks, Follow
<1>11. HasOneStep(History(resolved, resolved.uids[o]), o, p)
  <2>1. /\ resolved.relations \in Seq(Rel) /\ m \in 1 .. Len(resolved.relations)
        /\ IsOnlyStep(resolved.relations, o, p, m)
    BY <1>6, <1>8, <1>9
  <2>. QED  BY <1>3, <2>1, HistoryHas
<1>12. Traced(o, p, resolved, History(resolved, resolved.uids[o]))
  BY <1>10, <1>11 DEF Traced, HasOneStep
<1>. QED  BY <1>12 DEF o, p, resolved

\* An operation that a pass leaves where it is keeps its UID, and its history has one
\* step for that pass (property SurvivorsAreTraced).
THEOREM SurvivorsTheorem == Spec => []SurvivorsAreTraced
<1>1. ASSUME IInv, fidelity = "full"
      PROVE  Survivors(Resolve(stages))
  <2>1. /\ IsTimeline(stages) /\ BlobsAgree(stages)
        /\ \A i \in 1 .. Len(stages) : StageTrue(stages[i], origin)
    BY <1>1, BlobsAgreeNow
  <2>2. PICK C : Related(stages, C)
    BY <2>1, RelatedIs
  <2>3. DOMAIN stages = 1 .. Len(stages)
    <3>1. stages \in Seq({stages[i] : i \in 1 .. Len(stages)})
      BY <1>1 DEF IInv, StagesInv, TimelineTrue
    <3>. QED  BY <3>1
  <2>4. \A i \in 1 .. Len(stages) : StageIndexed(stages[i])
    BY <1>1 DEF IInv, StagesInv
  <2>5. ASSUME NEW i \in 1 .. Len(stages), stages[i].after # Missing,
               NEW k \in DOMAIN stages[i].before.ids, NEW l \in DOMAIN stages[i].after.ids,
               stages[i].before.ids[k] = stages[i].after.ids[l],
               stages[i].before.ids[k] \notin stages[i].moved
        PROVE  LET o == Occurrence(Before(i), k) IN
               Traced(o, Occurrence(After(i), l), Resolve(stages),
                      History(Resolve(stages), Resolve(stages).uids[o]))
    BY <2>1, <2>2, <2>4, <2>5, SurvivorIsTraced
  <2>. QED  BY <2>3, <2>5 DEF Survivors
<1>2. IInv => SurvivorsAreTraced
  BY <1>1 DEF SurvivorsAreTraced
<1>. QED  BY <1>2, LineageInvariant, PTL
=============================================================================
