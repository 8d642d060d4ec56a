------------------------ MODULE CaptureStacksProofs -------------------------
(***************************************************************************)
(* Proofs about the stacks that the recorder keeps for each thread:        *)
(* through nested pipelines, stolen work and interleaved callbacks they    *)
(* list what the thread is inside, so that rows get their true parents and *)
(* operations are charged to the pass that rewrote them.                   *)
(***************************************************************************)
EXTENDS CaptureProofs, FiniteSetTheorems

-----------------------------------------------------------------------------
(* Lists and the depths they follow.                                        *)

\* xs has one element for each depth in D, in the order of the depths; value[d] is
\* the element of depth d.
Lists(xs, D, value) ==
  /\ Len(xs) = Cardinality(D)
  /\ \A d \in D : xs[Cardinality({e \in D : e <= d})] = value[d]

LEMMA ListsEmpty ==
  ASSUME NEW value
  PROVE  /\ Lists(<<>>, {}, value)
         /\ \A S : \A xs \in Seq(S) : Lists(xs, {}, value) => xs = <<>>
<1>1. Cardinality({}) = 0
  BY FS_EmptySet
<1> QED
  BY <1>1, EmptySeq DEF Lists

LEMMA ListsSame ==
  ASSUME NEW xs, NEW D, NEW value, NEW other,
         Lists(xs, D, value), \A d \in D : other[d] = value[d]
  PROVE  Lists(xs, D, other)
BY DEF Lists

\* The depths up to d and those below it.
LEMMA DepthsUpTo ==
  ASSUME NEW D, IsFiniteSet(D), D \subseteq Nat, NEW d \in D
  PROVE  /\ Cardinality({e \in D : e <= d}) \in 1 .. Cardinality(D)
         /\ Cardinality(D) \in Nat \ {0}
         /\ (\A e \in D : e <= d) => {e \in D : e <= d} = D
<1> DEFINE E == {e \in D : e <= d}
<1>1. E \subseteq D /\ d \in E
  OBVIOUS
<1> HIDE DEF E
<1>2. IsFiniteSet(E) /\ Cardinality(E) <= Cardinality(D)
  BY <1>1, FS_Subset
<1>3. Cardinality(E) \in Nat /\ Cardinality(D) \in Nat
  BY <1>2, FS_CardinalityType
<1>4. Cardinality(E) # 0
  BY <1>1, <1>2, FS_EmptySet
<1>5. Cardinality(E) \in 1 .. Cardinality(D) /\ Cardinality(D) \in Nat \ {0}
  BY <1>2, <1>3, <1>4
<1> QED
  BY <1>5 DEF E

LEMMA ListsLast ==
  ASSUME NEW S, NEW xs \in Seq(S), NEW D, NEW value, NEW d \in D,
         IsFiniteSet(D), D \subseteq Nat, \A e \in D : e <= d,
         Lists(xs, D, value)
  PROVE  xs # <<>> /\ LastOf(xs) = value[d]
<1>1. {e \in D : e <= d} = D /\ Cardinality(D) \in Nat \ {0}
  BY DepthsUpTo
<1>2. xs[Cardinality(D)] = value[d] /\ Len(xs) = Cardinality(D)
  BY <1>1 DEF Lists
<1> QED
  BY <1>1, <1>2, EmptySeq DEF LastOf

LEMMA ListsAdd ==
  ASSUME NEW S, NEW xs \in Seq(S), NEW D, NEW value, NEW d \in Nat, NEW x \in S,
         IsFiniteSet(D), D \subseteq Nat, \A e \in D : e < d,
         Lists(xs, D, value),
         NEW new, \A e \in D : new[e] = value[e], new[d] = x
  PROVE  Lists(Push(xs, x), D \union {d}, new)
<1> DEFINE all == D \union {d}
<1>1. d \notin D
  OBVIOUS
<1>2. Cardinality(all) = Cardinality(D) + 1 /\ IsFiniteSet(all) /\ Cardinality(D) \in Nat
  BY <1>1, FS_AddElement, FS_CardinalityType
<1>3. Len(xs) = Cardinality(D)
  BY DEF Lists
<1>4. /\ Len(Push(xs, x)) = Len(xs) + 1
      /\ \A i \in 1 .. Len(xs) : Push(xs, x)[i] = xs[i]
      /\ Push(xs, x)[Len(xs) + 1] = x
  BY PushFacts
<1>5. ASSUME NEW e \in all
      PROVE  Push(xs, x)[Cardinality({f \in all : f <= e})] = new[e]
  <2>1. CASE e = d
    <3>0. \A f \in all : f <= e
      BY <2>1
    <3>1. {f \in all : f <= e} = all
      BY <3>0, Zenon
    <3> QED
      BY <1>2, <1>3, <1>4, <2>1, <3>1
  <2>2. CASE e \in D
    <3>1. {f \in all : f <= e} = {f \in D : f <= e}
      BY <2>2
    <3>2. Cardinality({f \in D : f <= e}) \in 1 .. Cardinality(D)
      BY <2>2, DepthsUpTo
    <3>3. xs[Cardinality({f \in D : f <= e})] = value[e]
      BY <2>2 DEF Lists
    <3> QED
      BY <1>3, <1>4, <2>2, <3>1, <3>2, <3>3
  <2> QED
    BY <2>1, <2>2
<1> QED
  BY <1>2, <1>3, <1>4, <1>5 DEF Lists

LEMMA ListsDrop ==
  ASSUME NEW S, NEW xs \in Seq(S), NEW D, NEW value, NEW d \in D,
         IsFiniteSet(D), D \subseteq Nat, \A e \in D : e <= d,
         Lists(xs, D, value),
         NEW new, \A e \in D \ {d} : new[e] = value[e]
  PROVE  Lists(Pop(xs), D \ {d}, new)
<1> DEFINE rest == D \ {d}
<1>1. IsFiniteSet(rest) /\ Cardinality(rest) = Cardinality(D) - 1
  BY FS_RemoveElement
<1>2. Cardinality(D) \in Nat \ {0} /\ Len(xs) = Cardinality(D)
  BY DepthsUpTo DEF Lists
<1>3. /\ Len(Pop(xs)) = Len(xs) - 1
      /\ \A i \in 1 .. (Len(xs) - 1) : Pop(xs)[i] = xs[i]
  BY <1>2, EmptySeq, PopLength
<1>4. ASSUME NEW e \in rest
      PROVE  Pop(xs)[Cardinality({f \in rest : f <= e})] = new[e]
  <2>1. {f \in rest : f <= e} = {f \in D : f <= e} /\ rest \subseteq Nat /\ e \in D
    OBVIOUS
  <2>2. Cardinality({f \in rest : f <= e}) \in 1 .. Cardinality(rest)
    BY <1>1, <2>1, DepthsUpTo
  <2>3. xs[Cardinality({f \in D : f <= e})] = value[e]
    BY <2>1 DEF Lists
  <2> QED
    BY <1>1, <1>2, <1>3, <2>1, <2>2, <2>3
<1> QED
  BY <1>1, <1>2, <1>3, <1>4 DEF Lists

-----------------------------------------------------------------------------
(* The stacks of the recorder.                                              *)

\* The depths of the passes of t that have an entry; one that returns has left its.
RecordedDepths(t) ==
  {i \in 1 .. (Len(stack[t]) + 1) :
     \/ i \in Depths(t) /\ stack[t][i].kind = "pass" /\ ~Starting(t, stack[t][i].pass)
     \/ i = Len(stack[t]) + 1 /\ Returning(t, call.pass)}
RecordedAt(t) ==
  [i \in 1 .. (Len(stack[t]) + 1) |->
     RecordedId(t, IF i \in Depths(t) THEN stack[t][i].pass ELSE call.pass)]

\* activePassIds lists the ids of those passes, depth by depth.
IdsFollow ==
  Following => \A t \in Threads :
                 Lists(activePassIds[t], RecordedDepths(t), RecordedAt(t))

\* The depths of the patterns of t, and of the passes inside executeAction.
NameOf(t)      == [i \in Depths(t) |-> stack[t][i].pass]
PatternDepths(t) == {i \in Depths(t) : stack[t][i].kind = "pattern"}
ActionDepths(t) ==
  {i \in Depths(t) : actionHandler /\ stack[t][i].kind = "pass"
                     /\ stack[t][i].phase = "running"}

\* currentPatterns and currentActions list the names of those.
NamesFollow ==
  \A t \in Threads :
    /\ Lists(currentPatterns[t], PatternDepths(t), NameOf(t))
    /\ Lists(currentActions[t], ActionDepths(t), NameOf(t))

StacksInv == IdsFollow /\ NamesFollow

\* The pipelines of t, and the ids under which the passes that nest them are recorded.
PipelineDepths(t) == {i \in Depths(t) : stack[t][i].kind = "pipeline"}
PipelinePass(t) ==
  [i \in Depths(t) |-> RecordedId(stack[t][i].owner, stack[t][i].pass)]

-----------------------------------------------------------------------------
(* The depths at which the recorder's stacks have an element.               *)

LEMMA DepthsFinite ==
  ASSUME CaptureInv, NEW t \in Threads, NEW D, D \subseteq 1 .. (Len(stack[t]) + 1)
  PROVE  IsFiniteSet(D) /\ D \subseteq Nat
<1>1. PICK n \in Nat : n = Len(stack[t]) + 1
  BY StackFacts
<1>2. D \in SUBSET (1 .. n)
  BY <1>1
<1>3. IsFiniteSet(1 .. n)
  BY FS_Interval
<1>4. IsFiniteSet(D)
  BY <1>2, <1>3, FS_Subset
<1> QED
  BY <1>2, <1>4

LEMMA KindDepths ==
  ASSUME CaptureInv, NEW t \in Threads
  PROVE  /\ PatternDepths(t) \subseteq Depths(t) /\ ActionDepths(t) \subseteq Depths(t)
         /\ PipelineDepths(t) \subseteq Depths(t)
         /\ IsFiniteSet(PatternDepths(t)) /\ PatternDepths(t) \subseteq Nat
         /\ IsFiniteSet(ActionDepths(t)) /\ ActionDepths(t) \subseteq Nat
         /\ IsFiniteSet(PipelineDepths(t)) /\ PipelineDepths(t) \subseteq Nat
<1>1. /\ PatternDepths(t) \subseteq Depths(t) /\ ActionDepths(t) \subseteq Depths(t)
      /\ PipelineDepths(t) \subseteq Depths(t)
  BY DEF PatternDepths, ActionDepths, PipelineDepths
<1>2. Depths(t) \subseteq 1 .. (Len(stack[t]) + 1)
  BY StackFacts
<1> QED
  BY <1>1, <1>2, DepthsFinite

LEMMA PushedDepths ==
  ASSUME CaptureInv, NEW t \in Threads, NEW frame, Pushed(t, frame), UNCHANGED actionHandler,
         NEW u \in Threads, NEW n \in Nat, n = Len(stack[u])
  PROVE  /\ PatternDepths(u)' = IF u = t /\ frame.kind = "pattern"
                                THEN PatternDepths(u) \union {n + 1} ELSE PatternDepths(u)
         /\ ActionDepths(u)' = IF u = t /\ actionHandler /\ frame.kind = "pass"
                                  /\ frame.phase = "running"
                               THEN ActionDepths(u) \union {n + 1} ELSE ActionDepths(u)
         /\ PipelineDepths(u)' = IF u = t /\ frame.kind = "pipeline"
                                 THEN PipelineDepths(u) \union {n + 1} ELSE PipelineDepths(u)
         /\ \A i \in 1 .. n : NameOf(u)'[i] = NameOf(u)[i]
         /\ u = t => NameOf(u)'[n + 1] = frame.pass
<1>1. Depths(u) = 1 .. n /\ Depths(u)' = IF u = t THEN 1 .. (n + 1) ELSE 1 .. n
  BY DEF Pushed, Depths
<1>2. \A i \in 1 .. n : stack'[u][i] = stack[u][i]
  BY DEF Pushed, Depths
<1>3. u = t => stack'[u][n + 1] = frame
  BY DEF Pushed
<1>4. CASE u = t
  <2>1. \A i : i \in 1 .. (n + 1) <=> i \in 1 .. n \/ i = n + 1
    OBVIOUS
  <2>2. PatternDepths(u)' = IF frame.kind = "pattern"
                            THEN PatternDepths(u) \union {n + 1} ELSE PatternDepths(u)
    BY <1>1, <1>2, <1>3, <1>4, <2>1 DEF PatternDepths
  <2>3. PipelineDepths(u)' = IF frame.kind = "pipeline"
                             THEN PipelineDepths(u) \union {n + 1} ELSE PipelineDepths(u)
    BY <1>1, <1>2, <1>3, <1>4, <2>1 DEF PipelineDepths
  <2>4. ActionDepths(u)' = IF actionHandler /\ frame.kind = "pass" /\ frame.phase = "running"
                           THEN ActionDepths(u) \union {n + 1} ELSE ActionDepths(u)
    BY <1>1, <1>2, <1>3, <1>4, <2>1 DEF ActionDepths
  <2>5. \A i \in 1 .. n : NameOf(u)'[i] = NameOf(u)[i]
    BY <1>1, <1>2, <1>4, <2>1 DEF NameOf
  <2>6. NameOf(u)'[n + 1] = frame.pass
    BY <1>1, <1>3, <1>4, <2>1 DEF NameOf
  <2> QED
    BY <1>4, <2>2, <2>3, <2>4, <2>5, <2>6
<1>5. CASE u # t
  BY <1>1, <1>2, <1>5 DEF PatternDepths, ActionDepths, PipelineDepths, NameOf
<1> QED
  BY <1>4, <1>5

LEMMA PoppedDepths ==
  ASSUME CaptureInv, NEW t \in Threads, stack[t] # <<>>, Popped(t), UNCHANGED actionHandler,
         NEW u \in Threads, NEW n \in Nat, n = Len(stack[u])
  PROVE  /\ PatternDepths(u)' = IF u = t THEN PatternDepths(u) \ {n} ELSE PatternDepths(u)
         /\ ActionDepths(u)' = IF u = t THEN ActionDepths(u) \ {n} ELSE ActionDepths(u)
         /\ PipelineDepths(u)' = IF u = t THEN PipelineDepths(u) \ {n} ELSE PipelineDepths(u)
         /\ \A i \in Depths(u)' : i \in Depths(u) /\ NameOf(u)'[i] = NameOf(u)[i]
         /\ Depths(u)' = IF u = t THEN Depths(u) \ {n} ELSE Depths(u)
<1>1. Depths(u) = 1 .. n /\ Depths(u)' = IF u = t THEN 1 .. (n - 1) ELSE 1 .. n
  BY DEF Popped, Depths
<1>2. \A i \in Depths(u)' : SameFrame(stack'[u][i], stack[u][i])
  BY DEF Popped, Depths
<1>3. \A i : i \in 1 .. (n - 1) <=> i \in 1 .. n /\ i # n
  OBVIOUS
<1>4. PatternDepths(u)' = IF u = t THEN PatternDepths(u) \ {n} ELSE PatternDepths(u)
  BY <1>1, <1>2, <1>3 DEF PatternDepths, SameFrame
<1>5. ActionDepths(u)' = IF u = t THEN ActionDepths(u) \ {n} ELSE ActionDepths(u)
  BY <1>1, <1>2, <1>3 DEF ActionDepths, SameFrame
<1>6. PipelineDepths(u)' = IF u = t THEN PipelineDepths(u) \ {n} ELSE PipelineDepths(u)
  BY <1>1, <1>2, <1>3 DEF PipelineDepths, SameFrame
<1>7. \A i \in Depths(u)' : i \in Depths(u) /\ NameOf(u)'[i] = NameOf(u)[i]
  BY <1>1, <1>2, <1>3 DEF NameOf, SameFrame
<1> QED
  BY <1>1, <1>3, <1>4, <1>5, <1>6, <1>7

LEMMA RephasedDepths ==
  ASSUME CaptureInv, NEW t \in Threads, NEW phase \in {"running", "done"}, Rephased(t, phase),
         stack[t] # <<>>, Top(t).kind = "pass", actionHandler, UNCHANGED actionHandler,
         NEW u \in Threads, NEW n \in Nat, n = Len(stack[u])
  PROVE  /\ PatternDepths(u)' = PatternDepths(u) /\ PipelineDepths(u)' = PipelineDepths(u)
         /\ ActionDepths(u)' = IF u # t THEN ActionDepths(u)
                               ELSE IF phase = "running" THEN ActionDepths(u) \union {n}
                               ELSE ActionDepths(u) \ {n}
         /\ Depths(u)' = Depths(u) /\ \A i \in Depths(u) : NameOf(u)'[i] = NameOf(u)[i]
<1>1. Depths(u) = 1 .. n /\ Depths(u)' = 1 .. n
  BY DEF Rephased, Depths
<1>2. \A i \in 1 .. n : /\ stack'[u][i].kind = stack[u][i].kind
                        /\ stack'[u][i].pass = stack[u][i].pass
                        /\ stack'[u][i].phase = IF u = t /\ i = n THEN phase
                                                ELSE stack[u][i].phase
  <2> SUFFICES ASSUME NEW i \in 1 .. n
               PROVE  /\ stack'[u][i].kind = stack[u][i].kind
                      /\ stack'[u][i].pass = stack[u][i].pass
                      /\ stack'[u][i].phase = IF u = t /\ i = n THEN phase
                                              ELSE stack[u][i].phase
    OBVIOUS
  <2>1. stack[u][i] \in Frame
    BY <1>1, StackFacts
  <2>2. CASE u = t /\ i = n
    <3>1. stack'[u][i] = [stack[u][i] EXCEPT !.phase = phase]
      BY <1>1, <2>2 DEF Rephased
    <3> QED
      BY <2>1, <2>2, <3>1 DEF Frame
  <2>3. CASE ~(u = t /\ i = n)
    <3>1. stack'[u][i] = stack[u][i]
      BY <1>1, <2>3 DEF Rephased
    <3> QED
      BY <2>3, <3>1
  <2> QED
    BY <2>2, <2>3
<1>3. u = t => n \in 1 .. n /\ stack[u][n].kind = "pass"
  BY StackFacts
<1>4. PatternDepths(u)' = PatternDepths(u) /\ PipelineDepths(u)' = PipelineDepths(u)
  BY <1>1, <1>2 DEF PatternDepths, PipelineDepths
<1>5. ActionDepths(u)' = IF u # t THEN ActionDepths(u)
                         ELSE IF phase = "running" THEN ActionDepths(u) \union {n}
                         ELSE ActionDepths(u) \ {n}
  BY <1>1, <1>2, <1>3 DEF ActionDepths
<1>6. \A i \in Depths(u) : NameOf(u)'[i] = NameOf(u)[i]
  BY <1>1, <1>2 DEF NameOf
<1> QED
  BY <1>1, <1>4, <1>5, <1>6

\* The names of the patterns and actions in progress, in the order of the depths.
NamesAt(t) ==
  /\ Lists(currentPatterns[t], PatternDepths(t), NameOf(t))
  /\ Lists(currentActions[t], ActionDepths(t), NameOf(t))

LEMMA NamesTypes ==
  ASSUME CaptureInv
  PROVE  /\ currentPatterns \in [Threads -> Seq(Passes)]
         /\ currentActions \in [Threads -> Seq(Passes)]
         /\ \A t \in Threads : currentPatterns[t] \in Seq(Passes)
                               /\ currentActions[t] \in Seq(Passes)
BY DEF CaptureInv, RecorderInv, RecorderTypeOK

\* Steps that leave the names, and what they follow, alone.
LEMMA NamesStill ==
  ASSUME CaptureInv, NamesFollow, UNCHANGED <<currentPatterns, currentActions>>,
         \A t \in Threads : /\ PatternDepths(t)' = PatternDepths(t)
                            /\ ActionDepths(t)' = ActionDepths(t)
                            /\ \A i \in PatternDepths(t) \union ActionDepths(t) :
                                 NameOf(t)'[i] = NameOf(t)[i]
  PROVE  NamesFollow'
<1> SUFFICES ASSUME NEW t \in Threads PROVE NamesAt(t)'
  BY DEF NamesFollow, NamesAt
<1>0. NamesAt(t)
  BY DEF NamesFollow, NamesAt
<1>1. Lists(currentPatterns[t], PatternDepths(t), NameOf(t)')
  BY <1>0, ListsSame DEF NamesAt
<1>2. Lists(currentActions[t], ActionDepths(t), NameOf(t)')
  BY <1>0, ListsSame DEF NamesAt
<1>3. Lists(currentPatterns[t], PatternDepths(t)', NameOf(t)')
      /\ Lists(currentActions[t], ActionDepths(t)', NameOf(t)')
  BY <1>1, <1>2
<1> QED
  BY <1>3 DEF NamesAt, Lists

\* A frame that carries no name is pushed, or popped.
LEMMA NamelessPush ==
  ASSUME CaptureInv, NamesFollow, NEW t \in Threads, NEW frame, Pushed(t, frame),
         UNCHANGED <<currentPatterns, currentActions, actionHandler>>,
         frame.kind # "pattern",
         ~(actionHandler /\ frame.kind = "pass" /\ frame.phase = "running")
  PROVE  NamesFollow'
<1>1. ASSUME NEW u \in Threads
      PROVE  /\ PatternDepths(u)' = PatternDepths(u) /\ ActionDepths(u)' = ActionDepths(u)
             /\ \A i \in PatternDepths(u) \union ActionDepths(u) : NameOf(u)'[i] = NameOf(u)[i]
  <2>1. PICK n \in Nat : n = Len(stack[u]) /\ Depths(u) = 1 .. n
    BY StackFacts
  <2> QED
    BY <2>1, PushedDepths, KindDepths
<1> QED
  BY <1>1, NamesStill

LEMMA NamelessPop ==
  ASSUME CaptureInv, NamesFollow, NEW t \in Threads, stack[t] # <<>>, Popped(t),
         UNCHANGED <<currentPatterns, currentActions, actionHandler>>,
         Top(t).kind # "pattern",
         ~(actionHandler /\ Top(t).kind = "pass" /\ Top(t).phase = "running")
  PROVE  NamesFollow'
<1>1. ASSUME NEW u \in Threads
      PROVE  /\ PatternDepths(u)' = PatternDepths(u) /\ ActionDepths(u)' = ActionDepths(u)
             /\ \A i \in PatternDepths(u) \union ActionDepths(u) : NameOf(u)'[i] = NameOf(u)[i]
  <2>1. PICK n \in Nat : n = Len(stack[u]) /\ Depths(u) = 1 .. n
    BY StackFacts
  <2>2. u = t => n \notin PatternDepths(u) /\ n \notin ActionDepths(u)
    BY <2>1, StackFacts DEF PatternDepths, ActionDepths
  <2>3. PatternDepths(u)' = PatternDepths(u) /\ ActionDepths(u)' = ActionDepths(u)
    <3>1. /\ PatternDepths(u)' = IF u = t THEN PatternDepths(u) \ {n} ELSE PatternDepths(u)
          /\ ActionDepths(u)' = IF u = t THEN ActionDepths(u) \ {n} ELSE ActionDepths(u)
      BY <2>1, PoppedDepths
    <3> QED
      BY <2>2, <3>1
  <2>4. \A i \in Depths(u)' : NameOf(u)'[i] = NameOf(u)[i]
    BY <2>1, PoppedDepths
  <2>5. \A i \in PatternDepths(u)' \union ActionDepths(u)' : i \in Depths(u)'
    BY DEF PatternDepths, ActionDepths
  <2> QED
    BY <2>3, <2>4, <2>5
<1> QED
  BY <1>1, NamesStill

LEMMA EnterPatternNames ==
  ASSUME CaptureInv, NamesFollow, NEW t \in Threads, EnterPattern(t)
  PROVE  NamesFollow'
<1>0. PICK p : p = Top(t).pass
  OBVIOUS
<1> DEFINE frame == NewFrame("pattern", t, p, "running")
<1>1. /\ stack[t] # <<>> /\ PushFrame(t, frame)
      /\ currentPatterns' = [currentPatterns EXCEPT ![t] = Push(@, p)]
      /\ UNCHANGED currentActions /\ UNCHANGED actionHandler
  BY <1>0 DEF EnterPattern, Rewriting, BeginPattern, UnchangedExceptNames, life
<1>2. frame \in Frame /\ frame.kind = "pattern" /\ frame.pass = p /\ p \in Passes
  BY <1>0, <1>1, TopFacts DEF NewFrame, Frame
<1> HIDE DEF frame
<1>3. Pushed(t, frame)
  BY <1>1, <1>2, PushedFacts
<1> SUFFICES ASSUME NEW u \in Threads PROVE NamesAt(u)'
  BY DEF NamesFollow, NamesAt
<1>4. PICK n \in Nat : n = Len(stack[u]) /\ Depths(u) = 1 .. n
  BY StackFacts
<1>5. NamesAt(u)
  BY DEF NamesFollow, NamesAt
<1>6. /\ PatternDepths(u)' = IF u = t THEN PatternDepths(u) \union {n + 1} ELSE PatternDepths(u)
      /\ ActionDepths(u)' = ActionDepths(u)
      /\ \A i \in 1 .. n : NameOf(u)'[i] = NameOf(u)[i]
      /\ u = t => NameOf(u)'[n + 1] = p
  BY <1>1, <1>2, <1>3, <1>4, PushedDepths
<1>7. /\ PatternDepths(u) \subseteq 1 .. n /\ ActionDepths(u) \subseteq 1 .. n
      /\ IsFiniteSet(PatternDepths(u)) /\ PatternDepths(u) \subseteq Nat
  BY <1>4, KindDepths
<1>8. Lists(currentActions[u], ActionDepths(u)', NameOf(u)')
  <2>1. Lists(currentActions[u], ActionDepths(u), NameOf(u)')
    BY <1>5, <1>6, <1>7, ListsSame DEF NamesAt
  <2> QED
    BY <1>6, <2>1
<1>9. Lists(currentPatterns'[u], PatternDepths(u)', NameOf(u)')
  <2>1. CASE u = t
    <3> DEFINE w == currentPatterns[t]
    <3>1. w \in Seq(Passes) /\ currentPatterns'[t] = Push(w, p)
      BY <1>1, NamesTypes
    <3>2. Lists(w, PatternDepths(t), NameOf(t))
      BY <1>5, <2>1 DEF NamesAt
    <3> HIDE DEF w
    <3>3. \A e \in PatternDepths(t) : e < n + 1 /\ NameOf(t)'[e] = NameOf(t)[e]
      BY <1>6, <1>7, <2>1
    <3>4. /\ n + 1 \in Nat /\ NameOf(t)'[n + 1] = p
          /\ IsFiniteSet(PatternDepths(t)) /\ PatternDepths(t) \subseteq Nat
      BY <1>6, <1>7, <2>1
    <3>5. Lists(Push(w, p), PatternDepths(t) \union {n + 1}, NameOf(t)')
      BY <1>2, <3>1, <3>2, <3>3, <3>4, ListsAdd
    <3> QED
      BY <1>6, <2>1, <3>1, <3>5
  <2>2. CASE u # t
    <3>1. currentPatterns'[u] = currentPatterns[u]
      BY <1>1, <2>2, NamesTypes
    <3>2. Lists(currentPatterns[u], PatternDepths(u), NameOf(u)')
      BY <1>5, <1>6, <1>7, ListsSame DEF NamesAt
    <3> QED
      BY <1>6, <2>2, <3>1, <3>2
  <2> QED
    BY <2>1, <2>2
<1>10. Lists(currentPatterns'[u], PatternDepths(u)', NameOf(u)')
       /\ Lists(currentActions'[u], ActionDepths(u)', NameOf(u)')
  BY <1>1, <1>8, <1>9
<1> QED
  BY <1>10 DEF NamesAt, Lists

LEMMA LeavePatternNames ==
  ASSUME CaptureInv, NamesFollow, NEW t \in Threads, LeavePattern(t)
  PROVE  NamesFollow'
<1>1. /\ stack[t] # <<>> /\ Top(t).kind = "pattern" /\ stack' = [stack EXCEPT ![t] = Pop(@)]
      /\ currentPatterns' = [currentPatterns EXCEPT ![t] = Pop(@)]
      /\ UNCHANGED currentActions /\ UNCHANGED actionHandler
  BY DEF LeavePattern, TopIs, EndPattern, UnchangedExceptNames, life
<1>2. Popped(t)
  BY <1>1, PoppedFacts
<1> SUFFICES ASSUME NEW u \in Threads PROVE NamesAt(u)'
  BY DEF NamesFollow, NamesAt
<1>3. PICK n \in Nat : n = Len(stack[u]) /\ Depths(u) = 1 .. n
  BY StackFacts
<1>4. NamesAt(u)
  BY DEF NamesFollow, NamesAt
<1>5. /\ PatternDepths(u)' = IF u = t THEN PatternDepths(u) \ {n} ELSE PatternDepths(u)
      /\ ActionDepths(u)' = IF u = t THEN ActionDepths(u) \ {n} ELSE ActionDepths(u)
      /\ \A i \in Depths(u)' : NameOf(u)'[i] = NameOf(u)[i]
  BY <1>1, <1>2, <1>3, PoppedDepths
<1>6. /\ PatternDepths(u) \subseteq 1 .. n
      /\ IsFiniteSet(PatternDepths(u)) /\ PatternDepths(u) \subseteq Nat
      /\ PatternDepths(u)' \subseteq Depths(u)' /\ ActionDepths(u)' \subseteq Depths(u)'
  BY <1>3, KindDepths DEF PatternDepths, ActionDepths
<1>7. u = t => n \in PatternDepths(u) /\ n \notin ActionDepths(u)
  BY <1>1, <1>3, StackFacts DEF PatternDepths, ActionDepths
<1>8. Lists(currentActions[u], ActionDepths(u)', NameOf(u)')
  <2>1. ActionDepths(u)' = ActionDepths(u)
    BY <1>5, <1>7
  <2>2. Lists(currentActions[u], ActionDepths(u), NameOf(u)')
    BY <1>4, <1>5, <1>6, <2>1, ListsSame DEF NamesAt
  <2> QED
    BY <2>1, <2>2
<1>9. Lists(currentPatterns'[u], PatternDepths(u)', NameOf(u)')
  <2>1. CASE u = t
    <3> DEFINE w == currentPatterns[t]
    <3>1. w \in Seq(Passes) /\ currentPatterns'[t] = Pop(w)
      BY <1>1, NamesTypes
    <3>2. Lists(w, PatternDepths(t), NameOf(t))
      BY <1>4, <2>1 DEF NamesAt
    <3> HIDE DEF w
    <3>3. /\ PatternDepths(t)' = PatternDepths(t) \ {n} /\ n \in PatternDepths(t)
          /\ IsFiniteSet(PatternDepths(t)) /\ PatternDepths(t) \subseteq Nat
          /\ \A e \in PatternDepths(t) : e <= n
      BY <1>5, <1>6, <1>7, <2>1
    <3>4. \A e \in PatternDepths(t) \ {n} : NameOf(t)'[e] = NameOf(t)[e]
      BY <1>5, <1>6, <2>1, <3>3
    <3>5. Lists(Pop(w), PatternDepths(t) \ {n}, NameOf(t)')
      BY <3>1, <3>2, <3>3, <3>4, ListsDrop
    <3> QED
      BY <2>1, <3>1, <3>3, <3>5
  <2>2. CASE u # t
    <3>1. currentPatterns'[u] = currentPatterns[u] /\ PatternDepths(u)' = PatternDepths(u)
      BY <1>1, <1>5, <2>2, NamesTypes
    <3>2. Lists(currentPatterns[u], PatternDepths(u), NameOf(u)')
      BY <1>4, <1>5, <1>6, <3>1, ListsSame DEF NamesAt
    <3> QED
      BY <3>1, <3>2
  <2> QED
    BY <2>1, <2>2
<1>10. Lists(currentPatterns'[u], PatternDepths(u)', NameOf(u)')
       /\ Lists(currentActions'[u], ActionDepths(u)', NameOf(u)')
  BY <1>1, <1>8, <1>9
<1> QED
  BY <1>10 DEF NamesAt, Lists

\* The action of the innermost pass begins, or ends.
LEMMA ActionNames ==
  ASSUME CaptureInv, NamesFollow, NEW t \in Threads, EnterAction(t) \/ LeaveAction(t)
  PROVE  NamesFollow'
<1>0. PICK p, phase :
        /\ p = Top(t).pass
        /\ phase = IF EnterAction(t) THEN "running" ELSE "done"
  OBVIOUS
<1>1. /\ stack[t] # <<>> /\ Top(t).kind = "pass" /\ SetTopPhase(t, phase)
      /\ Top(t).phase = IF phase = "running" THEN "entered" ELSE "running"
      /\ phase \in {"running", "done"}
      /\ currentActions' = [currentActions EXCEPT ![t] = IF phase = "running"
                                                         THEN Push(@, p) ELSE Pop(@)]
      /\ UNCHANGED currentPatterns /\ UNCHANGED actionHandler /\ actionHandler
  BY <1>0 DEF EnterAction, LeaveAction, BeginAction, EndAction, UnchangedExceptNames, TopIs, life
<1>2. Rephased(t, phase) /\ p \in Passes
  BY <1>0, <1>1, RephasedFacts, TopFacts
<1> SUFFICES ASSUME NEW u \in Threads PROVE NamesAt(u)'
  BY DEF NamesFollow, NamesAt
<1>3. PICK n \in Nat : n = Len(stack[u]) /\ Depths(u) = 1 .. n
  BY StackFacts
<1>4. NamesAt(u)
  BY DEF NamesFollow, NamesAt
<1>5. /\ PatternDepths(u)' = PatternDepths(u)
      /\ ActionDepths(u)' = IF u # t THEN ActionDepths(u)
                            ELSE IF phase = "running" THEN ActionDepths(u) \union {n}
                            ELSE ActionDepths(u) \ {n}
      /\ \A i \in Depths(u) : NameOf(u)'[i] = NameOf(u)[i]
  BY <1>1, <1>2, <1>3, RephasedDepths
<1>6. /\ PatternDepths(u) \subseteq 1 .. n /\ ActionDepths(u) \subseteq 1 .. n
      /\ IsFiniteSet(ActionDepths(u)) /\ ActionDepths(u) \subseteq Nat
  BY <1>3, KindDepths
<1>7. u = t => /\ n \in ActionDepths(u) <=> phase = "done"
               /\ NameOf(u)[n] = p /\ n \in Depths(u)
  BY <1>0, <1>1, <1>3, StackFacts DEF ActionDepths, NameOf
<1>8. Lists(currentPatterns[u], PatternDepths(u)', NameOf(u)')
  <2>1. Lists(currentPatterns[u], PatternDepths(u), NameOf(u)')
    BY <1>3, <1>4, <1>5, <1>6, ListsSame DEF NamesAt
  <2> QED
    BY <1>5, <2>1
<1>9. Lists(currentActions'[u], ActionDepths(u)', NameOf(u)')
  <2>1. CASE u = t
    <3> DEFINE w == currentActions[t]
    <3>1. w \in Seq(Passes)
          /\ currentActions'[t] = IF phase = "running" THEN Push(w, p) ELSE Pop(w)
      BY <1>1, NamesTypes
    <3>2. Lists(w, ActionDepths(t), NameOf(t))
      BY <1>4, <2>1 DEF NamesAt
    <3> HIDE DEF w
    <3>3. /\ IsFiniteSet(ActionDepths(t)) /\ ActionDepths(t) \subseteq Nat
          /\ \A e \in ActionDepths(t) : e <= n /\ NameOf(t)'[e] = NameOf(t)[e]
      BY <1>3, <1>5, <1>6, <2>1
    <3>4. CASE phase = "running"
      <4>1. /\ ActionDepths(t)' = ActionDepths(t) \union {n} /\ NameOf(t)'[n] = p
            /\ n \notin ActionDepths(t)
        BY <1>3, <1>5, <1>7, <2>1, <3>4
      <4>2. \A e \in ActionDepths(t) : e < n
        BY <3>3, <4>1
      <4>3. Lists(Push(w, p), ActionDepths(t) \union {n}, NameOf(t)')
        BY <1>2, <3>1, <3>2, <3>3, <4>1, <4>2, ListsAdd
      <4> QED
        BY <2>1, <3>1, <3>4, <4>1, <4>3
    <3>5. CASE phase = "done"
      <4>1. ActionDepths(t)' = ActionDepths(t) \ {n} /\ n \in ActionDepths(t)
        BY <1>5, <1>7, <2>1, <3>5
      <4>2. Lists(Pop(w), ActionDepths(t) \ {n}, NameOf(t)')
        BY <3>1, <3>2, <3>3, <4>1, ListsDrop
      <4> QED
        BY <2>1, <3>1, <3>5, <4>1, <4>2
    <3> QED
      BY <1>1, <3>4, <3>5
  <2>2. CASE u # t
    <3>1. currentActions'[u] = currentActions[u] /\ ActionDepths(u)' = ActionDepths(u)
      BY <1>1, <1>5, <2>2, NamesTypes
    <3>2. Lists(currentActions[u], ActionDepths(u), NameOf(u)')
      BY <1>3, <1>4, <1>5, <1>6, <3>1, ListsSame DEF NamesAt
    <3> QED
      BY <3>1, <3>2
  <2> QED
    BY <2>1, <2>2
<1>10. Lists(currentPatterns'[u], PatternDepths(u)', NameOf(u)')
       /\ Lists(currentActions'[u], ActionDepths(u)', NameOf(u)')
  BY <1>1, <1>8, <1>9
<1> QED
  BY <1>10 DEF NamesAt, Lists

\* Without frames no name is in progress.
LEMMA NamesEmpty ==
  ASSUME CaptureInv, NamesFollow, UNCHANGED <<currentPatterns, currentActions, stack>>,
         UNCHANGED actionHandler \/ \A t \in Threads : stack[t] = <<>>
  PROVE  NamesFollow'
<1>1. ASSUME NEW t \in Threads
      PROVE  /\ PatternDepths(t)' = PatternDepths(t) /\ ActionDepths(t)' = ActionDepths(t)
             /\ NameOf(t)' = NameOf(t)
  <2>1. Depths(t)' = Depths(t) /\ NameOf(t)' = NameOf(t) /\ PatternDepths(t)' = PatternDepths(t)
    BY DEF Depths, NameOf, PatternDepths
  <2>2. ActionDepths(t)' = ActionDepths(t)
    <3>1. CASE UNCHANGED actionHandler
      BY <2>1, <3>1 DEF ActionDepths
    <3>2. CASE stack[t] = <<>>
      <4>1. Depths(t) = {}
        BY <3>2, EmptySeq DEF Depths
      <4> QED
        BY <2>1, <4>1 DEF ActionDepths
    <3> QED
      BY <3>1, <3>2
  <2> QED
    BY <2>1, <2>2
<1> QED
  BY <1>1, NamesStill

LEMMA NamesNext == CaptureInv /\ NamesFollow /\ [Next]_vars => NamesFollow'
<1> SUFFICES ASSUME CaptureInv, NamesFollow, [Next]_vars PROVE NamesFollow'
  OBVIOUS
<1>1. CASE UNCHANGED <<currentPatterns, currentActions, actionHandler, stack>>
  BY <1>1, NamesEmpty
<1>2. CASE CallFinish
  BY <1>2, NamesEmpty DEF CallFinish, Finish, maps, managerVars
<1>3. CASE Callback
  <2>1. UNCHANGED <<currentPatterns, currentActions, stack>>
    BY <1>3 DEF Callback, RecorderStep, AttachCreate, AttachVersion, AttachProducer,
       AttachFidelity, AttachStatement, BeforeSnapshot, CreateRoot, CreateRow, BeforeIndex,
       AfterSnapshot, AfterIndex, CompleteRow, CompleteRoot, MarkFailed, ForgetPass, maps, stacks,
       managerVars
  <2>2. CASE AttachVersion \/ AttachFidelity
    <3>1. \A t \in Threads : stack[t] = <<>>
      BY <2>2 DEF AttachVersion, AttachFidelity, At, CaptureInv, RecorderInv, CallOK,
                  IdleUntilAttached
    <3> QED
      BY <2>1, <3>1, NamesEmpty
  <2>3. CASE ~AttachVersion /\ ~AttachFidelity
    BY <1>1, <1>3, <2>1, <2>3, CallbackLife DEF Callback, life
  <2> QED
    BY <2>2, <2>3
<1>4. ASSUME NEW t \in Threads, NEW p \in Passes, NEW text, BeforePass(t, p, text),
             PushFrame(t, NewFrame("pass", t, p, EntryPhase))
      PROVE  NamesFollow'
  <2> DEFINE frame == NewFrame("pass", t, p, EntryPhase)
  <2>1. /\ frame \in Frame /\ frame.kind = "pass"
        /\ ~(actionHandler /\ frame.kind = "pass" /\ frame.phase = "running")
    BY DEF NewFrame, Frame, EntryPhase
  <2> HIDE DEF frame
  <2>2. Pushed(t, frame)
    BY <1>4, <2>1, PushedFacts DEF frame
  <2>3. UNCHANGED <<currentPatterns, currentActions, actionHandler>>
    BY <1>4 DEF BeforePass, maps, life
  <2> QED
    BY <2>1, <2>2, <2>3, NamelessPush
<1>5. ASSUME NEW t \in Threads, PassManager(t)
      PROVE  NamesFollow'
  <2>1. ASSUME NEW p \in Passes, StartNestedPass(t, p) PROVE NamesFollow'
    BY <1>4, <2>1 DEF StartNestedPass
  <2>2. ASSUME NEW o \in Threads, NEW i \in Depths(o), StartPipeline(o, i, t)
        PROVE  NamesFollow'
    <3>1. PICK p \in Passes : p = stack[o][i].pass
      BY FrameFacts
    <3> DEFINE frame == NewFrame("pipeline", o, p, "running")
    <3>2. PushFrame(t, frame) /\ UNCHANGED <<currentPatterns, currentActions, actionHandler>>
      BY <2>2, <3>1 DEF StartPipeline, BeforePipeline, life
    <3>3. frame \in Frame /\ frame.kind = "pipeline"
      BY DEF NewFrame, Frame
    <3> HIDE DEF frame
    <3> QED
      BY <3>2, <3>3, PushedFacts, NamelessPush
  <2>3. ASSUME NEW failed \in BOOLEAN, ReturnFromPass(t, failed) PROVE NamesFollow'
    <3>1. /\ stack[t] # <<>> /\ Top(t).kind = "pass"
          /\ ~(actionHandler /\ Top(t).phase = "running")
          /\ UNCHANGED <<currentPatterns, currentActions, actionHandler>>
      BY <2>3 DEF ReturnFromPass, TopIs, ExitPhase, AfterPass, maps, life
    <3> QED
      BY <2>3, <3>1, ReturnFacts, NamelessPop
  <2>4. CASE EndPipeline(t) \/ AbandonPipeline(t)
    <3>1. /\ stack[t] # <<>> /\ Top(t).kind = "pipeline"
          /\ UNCHANGED <<currentPatterns, currentActions, actionHandler>>
      BY <2>4 DEF EndPipeline, AfterPipeline, AbandonPipeline, TopIs, recorderVars, life
    <3>2. Popped(t)
      BY <2>4, <3>1, PoppedFacts, AbandonFacts DEF EndPipeline
    <3> QED
      BY <3>1, <3>2, NamelessPop
  <2>5. CASE NotifyOperation(t)
    BY <1>1, <2>5, NotifyTable DEF life
  <2> QED
    BY <1>5, <2>1, <2>2, <2>3, <2>4, <2>5, EnterPatternNames, LeavePatternNames, ActionNames
       DEF PassManager
<1>6. ASSUME NEW p \in Passes, StartTopLevelPass(p) PROVE NamesFollow'
  <2>1. Main \in Threads
    BY CaptureAssumption DEF CaptureAssumption
  <2> QED
    BY <1>4, <1>6, <2>1 DEF StartTopLevelPass
<1> QED
  BY <1>1, <1>2, <1>3, <1>5, <1>6
     DEF Next, CallAttach, Attach, Rewrite, vars, recorderVars, managerVars, maps, life

-----------------------------------------------------------------------------
(* The ids of the passes a thread is inside.                                *)

LEMMA RecordedFacts ==
  ASSUME CaptureInv, NEW t \in Threads, NEW n \in Nat, n = Len(stack[t])
  PROVE  /\ IsFiniteSet(RecordedDepths(t)) /\ RecordedDepths(t) \subseteq Nat
         /\ RecordedDepths(t) \subseteq 1 .. (n + 1)
         /\ Depths(t) = 1 .. n
         /\ \A i : i \in RecordedDepths(t) <=>
              \/ i \in 1 .. n /\ stack[t][i].kind = "pass" /\ ~Starting(t, stack[t][i].pass)
              \/ i = n + 1 /\ Returning(t, call.pass)
         /\ \A i \in 1 .. n : RecordedAt(t)[i] = activePasses[t][stack[t][i].pass].id
         /\ RecordedAt(t)[n + 1] = activePasses[t][call.pass].id
<1>1. RecordedDepths(t) \subseteq 1 .. (Len(stack[t]) + 1) /\ Depths(t) = 1 .. n
  BY DEF RecordedDepths, Depths
<1>2. IsFiniteSet(RecordedDepths(t)) /\ RecordedDepths(t) \subseteq Nat
  BY <1>1, DepthsFinite
<1>3. \A i : i \in 1 .. (n + 1) <=> i \in 1 .. n \/ i = n + 1
  OBVIOUS
<1>4. n + 1 \notin 1 .. n
  OBVIOUS
<1>5. \A i : i \in RecordedDepths(t) <=>
        \/ i \in 1 .. n /\ stack[t][i].kind = "pass" /\ ~Starting(t, stack[t][i].pass)
        \/ i = n + 1 /\ Returning(t, call.pass)
  BY <1>1, <1>3 DEF RecordedDepths
<1>6. \A i \in 1 .. n : RecordedAt(t)[i] = activePasses[t][stack[t][i].pass].id
  BY <1>1, <1>3 DEF RecordedAt, RecordedId
<1>7. RecordedAt(t)[n + 1] = activePasses[t][call.pass].id
  BY <1>1, <1>3, <1>4 DEF RecordedAt, RecordedId
<1> QED
  BY <1>1, <1>2, <1>5, <1>6, <1>7

LEMMA RecordedNext ==
  ASSUME NEW t \in Threads, NEW n \in Nat, n = Len(stack'[t])
  PROVE  /\ \A i : i \in RecordedDepths(t)' <=>
              \/ i \in 1 .. n /\ stack'[t][i].kind = "pass" /\ ~Starting(t, stack[t][i].pass)'
              \/ i = n + 1 /\ Returning(t, call.pass)'
         /\ \A i \in 1 .. n : RecordedAt(t)'[i] = activePasses'[t][stack'[t][i].pass].id
         /\ RecordedAt(t)'[n + 1] = activePasses'[t][call'.pass].id
<1>1. Depths(t)' = 1 .. n
  BY DEF Depths
<1>2. \A i : i \in 1 .. (n + 1) <=> i \in 1 .. n \/ i = n + 1
  OBVIOUS
<1>3. n + 1 \notin 1 .. n
  OBVIOUS
<1>4. \A i : i \in RecordedDepths(t)' <=>
        \/ i \in 1 .. n /\ stack'[t][i].kind = "pass" /\ ~Starting(t, stack[t][i].pass)'
        \/ i = n + 1 /\ Returning(t, call.pass)'
  BY <1>1, <1>2 DEF RecordedDepths
<1>5. \A i \in 1 .. n : RecordedAt(t)'[i] = activePasses'[t][stack'[t][i].pass].id
  BY <1>1, <1>2 DEF RecordedAt, RecordedId
<1>6. RecordedAt(t)'[n + 1] = activePasses'[t][call'.pass].id
  <2>1. n + 1 \in 1 .. (Len(stack'[t]) + 1) /\ n + 1 \notin Depths(t)'
    BY <1>1, <1>3
  <2> QED
    BY <2>1 DEF RecordedAt, RecordedId
<1> QED
  BY <1>4, <1>5, <1>6

IdsAt(t) == Lists(activePassIds[t], RecordedDepths(t), RecordedAt(t))

\* Thread t keeps its ids, and the passes that they stand for.
SameIdsAt(t) ==
  /\ activePassIds'[t] = activePassIds[t]
  /\ \A i : i \in RecordedDepths(t)' <=> i \in RecordedDepths(t)
  /\ \A i \in RecordedDepths(t) : RecordedAt(t)'[i] = RecordedAt(t)[i]

LEMMA IdsStay ==
  ASSUME NEW t \in Threads, IdsAt(t), SameIdsAt(t)
  PROVE  IdsAt(t)'
<1>1. RecordedDepths(t)' = RecordedDepths(t)
  BY DEF SameIdsAt
<1>2. Lists(activePassIds[t], RecordedDepths(t), RecordedAt(t)')
  BY ListsSame DEF IdsAt, SameIdsAt
<1>3. Lists(activePassIds'[t], RecordedDepths(t)', RecordedAt(t)')
  BY <1>1, <1>2 DEF SameIdsAt
<1> QED
  BY <1>3 DEF IdsAt, Lists

LEMMA IdsStill ==
  ASSUME IdsFollow, Following' => Following /\ \A t \in Threads : SameIdsAt(t)
  PROVE  IdsFollow'
<1> SUFFICES ASSUME Following', NEW t \in Threads PROVE IdsAt(t)'
  BY DEF IdsFollow, IdsAt
<1>1. IdsAt(t)
  BY DEF IdsFollow, IdsAt
<1> QED
  BY <1>1, IdsStay

\* A frame that is not a pass comes or goes while its thread is outside the callbacks.
LEMMA PushedIds ==
  ASSUME CaptureInv, IdsFollow, NEW t \in Threads, NEW frame, Pushed(t, frame),
         frame.kind # "pass", LockFree,
         UNCHANGED <<activePasses, activePassIds, call, firstError, life>>
  PROVE  IdsFollow'
<1>1. Following' <=> Following
  BY DEF Following, Recording, life
<1>2. ASSUME NEW u \in Threads PROVE SameIdsAt(u)
  <2>1. PICK n \in Nat : n = Len(stack[u])
    BY StackFacts
  <2>2. PICK m \in Nat : m = Len(stack'[u]) /\ m = IF u = t THEN n + 1 ELSE n
    BY <2>1 DEF Pushed
  <2>3. \A i \in 1 .. n : i \in 1 .. m /\ stack'[u][i] = stack[u][i]
    BY <2>1, <2>2 DEF Pushed, Depths
  <2>4. u = t => stack'[u][m].kind # "pass"
    BY <2>1, <2>2 DEF Pushed
  <2>5. \A p : ~Starting(u, p) /\ ~Starting(u, p)' /\ ~Returning(u, p) /\ ~Returning(u, p)'
    BY DEF Starting, Returning, LockFree
  <2>6. \A i \in 1 .. m : i \in 1 .. n \/ (u = t /\ i = m)
    BY <2>1, <2>2
  <2>7. /\ \A i : i \in RecordedDepths(u) <=> i \in 1 .. n /\ stack[u][i].kind = "pass"
        /\ \A i \in 1 .. n : RecordedAt(u)[i] = activePasses[u][stack[u][i].pass].id
    BY <2>1, <2>5, RecordedFacts
  <2>8. /\ \A i : i \in RecordedDepths(u)' <=> i \in 1 .. m /\ stack'[u][i].kind = "pass"
        /\ \A i \in 1 .. m : RecordedAt(u)'[i] = activePasses'[u][stack'[u][i].pass].id
    BY <2>2, <2>5, RecordedNext
  <2>9. \A i : i \in RecordedDepths(u)' <=> i \in RecordedDepths(u)
    BY <2>3, <2>4, <2>6, <2>7, <2>8
  <2>10. \A i \in RecordedDepths(u) : RecordedAt(u)'[i] = RecordedAt(u)[i]
    BY <2>3, <2>7, <2>8
  <2> QED
    BY <2>9, <2>10 DEF SameIdsAt
<1> QED
  BY <1>1, <1>2, IdsStill

LEMMA PoppedIds ==
  ASSUME CaptureInv, IdsFollow, NEW t \in Threads, stack[t] # <<>>, Popped(t),
         Top(t).kind # "pass", Free(t),
         UNCHANGED <<activePasses, activePassIds, call, firstError, life>>
  PROVE  IdsFollow'
<1>1. Following' <=> Following
  BY DEF Following, Recording, life
<1>2. ASSUME NEW u \in Threads PROVE SameIdsAt(u)
  <2>1. PICK n \in Nat : n = Len(stack[u]) /\ Depths(u) = 1 .. n
    BY StackFacts
  <2>2. PICK m \in Nat : m = Len(stack'[u]) /\ m = IF u = t THEN n - 1 ELSE n
    <3>1. u = t => n # 0
      BY <2>1, StackFacts
    <3> QED
      BY <2>1, <3>1 DEF Popped
  <2>3. \A i \in 1 .. m : i \in 1 .. n /\ SameFrame(stack'[u][i], stack[u][i])
    BY <2>1, <2>2 DEF Popped
  <2>4. u = t => stack[u][n].kind # "pass"
    BY <2>1, StackFacts
  <2>5. \A p : /\ Starting(u, p)' <=> Starting(u, p)
               /\ Returning(u, p)' <=> Returning(u, p)
               /\ u = t => ~Returning(u, p)
    BY DEF Starting, Returning, LockFree, Free
  <2>6. \A i \in 1 .. n : i \in 1 .. m \/ (u = t /\ i = n)
    BY <2>1, <2>2
  <2>7. /\ \A i : i \in RecordedDepths(u) <=>
             \/ i \in 1 .. n /\ stack[u][i].kind = "pass" /\ ~Starting(u, stack[u][i].pass)
             \/ i = n + 1 /\ Returning(u, call.pass)
        /\ \A i \in 1 .. n : RecordedAt(u)[i] = activePasses[u][stack[u][i].pass].id
        /\ RecordedAt(u)[n + 1] = activePasses[u][call.pass].id
    BY <2>1, RecordedFacts
  <2>8. /\ \A i : i \in RecordedDepths(u)' <=>
             \/ i \in 1 .. m /\ stack'[u][i].kind = "pass" /\ ~Starting(u, stack[u][i].pass)'
             \/ i = m + 1 /\ Returning(u, call.pass)'
        /\ \A i \in 1 .. m : RecordedAt(u)'[i] = activePasses'[u][stack'[u][i].pass].id
        /\ RecordedAt(u)'[m + 1] = activePasses'[u][call'.pass].id
    BY <2>2, RecordedNext
  <2>9. \A i \in 1 .. m : /\ stack'[u][i].kind = stack[u][i].kind
                          /\ stack'[u][i].pass = stack[u][i].pass
                          /\ Starting(u, stack[u][i].pass)' <=> Starting(u, stack[u][i].pass)
    BY <2>3, <2>5 DEF SameFrame, Starting
  <2>10. Returning(u, call.pass)' <=> Returning(u, call.pass)
    BY DEF Returning
  <2>11. CASE u = t
    <3>1. ~Returning(u, call.pass)
      BY <2>5, <2>11
    <3>2. \A i : i \in RecordedDepths(u)' <=> i \in RecordedDepths(u)
      BY <2>3, <2>4, <2>6, <2>7, <2>8, <2>9, <2>10, <2>11, <3>1
    <3>3. \A i \in RecordedDepths(u) : i \in 1 .. m
      BY <2>4, <2>6, <2>7, <2>11, <3>1
    <3>4. \A i \in RecordedDepths(u) : RecordedAt(u)'[i] = RecordedAt(u)[i]
      BY <2>3, <2>7, <2>8, <2>9, <3>3
    <3> QED
      BY <3>2, <3>4 DEF SameIdsAt
  <2>12. CASE u # t
    <3>1. m = n
      BY <2>2, <2>12
    <3>2. \A i : i \in RecordedDepths(u)' <=> i \in RecordedDepths(u)
      BY <2>7, <2>8, <2>9, <2>10, <3>1
    <3>3. \A i \in 1 .. n : RecordedAt(u)'[i] = RecordedAt(u)[i]
      BY <2>7, <2>8, <2>9, <3>1
    <3>4. RecordedAt(u)'[n + 1] = RecordedAt(u)[n + 1]
      BY <2>7, <2>8, <3>1
    <3>5. \A i \in RecordedDepths(u) : RecordedAt(u)'[i] = RecordedAt(u)[i]
      BY <2>7, <3>3, <3>4
    <3> QED
      BY <3>2, <3>5 DEF SameIdsAt
  <2> QED
    BY <2>11, <2>12
<1> QED
  BY <1>1, <1>2, IdsStill

LEMMA RephasedIds ==
  ASSUME CaptureInv, IdsFollow, NEW t \in Threads, NEW phase, Rephased(t, phase),
         UNCHANGED <<activePasses, activePassIds, call, firstError, life>>
  PROVE  IdsFollow'
<1>1. Following' <=> Following
  BY DEF Following, Recording, life
<1>2. ASSUME NEW u \in Threads PROVE SameIdsAt(u)
  <2>1. PICK n \in Nat : n = Len(stack[u]) /\ n = Len(stack'[u]) /\ Depths(u) = 1 .. n
    BY StackFacts DEF Rephased
  <2>2. ASSUME NEW i \in 1 .. n
        PROVE  stack'[u][i].kind = stack[u][i].kind /\ stack'[u][i].pass = stack[u][i].pass
    <3>1. stack[u][i] \in Frame
      BY <2>1, StackFacts
    <3>2. stack'[u][i] = stack[u][i] \/ stack'[u][i] = [stack[u][i] EXCEPT !.phase = phase]
      BY <2>1 DEF Rephased
    <3> QED
      BY <3>1, <3>2 DEF Frame
  <2>3. \A p : (Starting(u, p)' <=> Starting(u, p)) /\ (Returning(u, p)' <=> Returning(u, p))
    BY DEF Starting, Returning
  <2>4. /\ \A i : i \in RecordedDepths(u) <=>
             \/ i \in 1 .. n /\ stack[u][i].kind = "pass" /\ ~Starting(u, stack[u][i].pass)
             \/ i = n + 1 /\ Returning(u, call.pass)
        /\ \A i \in 1 .. n : RecordedAt(u)[i] = activePasses[u][stack[u][i].pass].id
        /\ RecordedAt(u)[n + 1] = activePasses[u][call.pass].id
    BY <2>1, RecordedFacts
  <2>5. /\ \A i : i \in RecordedDepths(u)' <=>
             \/ i \in 1 .. n /\ stack'[u][i].kind = "pass" /\ ~Starting(u, stack[u][i].pass)'
             \/ i = n + 1 /\ Returning(u, call.pass)'
        /\ \A i \in 1 .. n : RecordedAt(u)'[i] = activePasses'[u][stack'[u][i].pass].id
        /\ RecordedAt(u)'[n + 1] = activePasses'[u][call'.pass].id
    BY <2>1, RecordedNext
  <2>6. \A i \in 1 .. n : Starting(u, stack[u][i].pass)' <=> Starting(u, stack[u][i].pass)
    BY <2>2 DEF Starting
  <2>7. Returning(u, call.pass)' <=> Returning(u, call.pass)
    BY DEF Returning
  <2>8. \A i : i \in RecordedDepths(u)' <=> i \in RecordedDepths(u)
    BY <2>2, <2>4, <2>5, <2>6, <2>7
  <2>9. \A i \in RecordedDepths(u) : RecordedAt(u)'[i] = RecordedAt(u)[i]
    BY <2>2, <2>4, <2>5
  <2> QED
    BY <2>8, <2>9 DEF SameIdsAt
<1> QED
  BY <1>1, <1>2, IdsStill

\* A callback that goes on, or ends, without touching the entries.
LEMMA CallIds ==
  ASSUME CaptureInv, IdsFollow, UNCHANGED <<stack, activePasses, activePassIds>>,
         Following' => Following,
         \A t \in Threads, p \in Passes : Starting(t, p)' <=> Starting(t, p),
         \A t \in Threads : /\ Returning(t, call.pass)' <=> Returning(t, call.pass)
                            /\ Returning(t, call.pass) => UNCHANGED call \/ call'.pass = call.pass
  PROVE  IdsFollow'
<1>1. ASSUME NEW u \in Threads PROVE SameIdsAt(u)
  <2>1. PICK n \in Nat : n = Len(stack[u]) /\ n = Len(stack'[u]) /\ Depths(u) = 1 .. n
    BY StackFacts
  <2>2. \A i \in 1 .. n : stack[u][i].pass \in Passes
    BY <2>1, FrameFacts
  <2>3. /\ \A i : i \in RecordedDepths(u) <=>
             \/ i \in 1 .. n /\ stack[u][i].kind = "pass" /\ ~Starting(u, stack[u][i].pass)
             \/ i = n + 1 /\ Returning(u, call.pass)
        /\ \A i \in 1 .. n : RecordedAt(u)[i] = activePasses[u][stack[u][i].pass].id
        /\ RecordedAt(u)[n + 1] = activePasses[u][call.pass].id
    BY <2>1, RecordedFacts
  <2>4. /\ \A i : i \in RecordedDepths(u)' <=>
             \/ i \in 1 .. n /\ stack'[u][i].kind = "pass" /\ ~Starting(u, stack[u][i].pass)'
             \/ i = n + 1 /\ Returning(u, call.pass)'
        /\ \A i \in 1 .. n : RecordedAt(u)'[i] = activePasses'[u][stack'[u][i].pass].id
        /\ RecordedAt(u)'[n + 1] = activePasses'[u][call'.pass].id
    BY <2>1, RecordedNext
  <2>5. \A i \in 1 .. n : Starting(u, stack[u][i].pass)' <=> Starting(u, stack[u][i].pass)
    <3>1. ASSUME NEW i \in 1 .. n
          PROVE  Starting(u, stack[u][i].pass)' <=> Starting(u, stack[u][i].pass)
      <4>1. PICK p \in Passes : p = stack[u][i].pass /\ p = stack'[u][i].pass
        BY <2>2
      <4>2. Starting(u, p)' <=> Starting(u, p)
        OBVIOUS
      <4> QED
        BY <4>1, <4>2 DEF Starting
    <3> QED
      BY <3>1
  <2>6. \A i : i \in RecordedDepths(u)' <=> i \in RecordedDepths(u)
    BY <2>3, <2>4, <2>5
  <2>7. \A i \in RecordedDepths(u) : RecordedAt(u)'[i] = RecordedAt(u)[i]
    BY <2>3, <2>4
  <2> QED
    BY <2>6, <2>7 DEF SameIdsAt
<1> QED
  BY <1>1, IdsStill

LEMMA StartPassIds ==
  ASSUME CaptureInv, IdsFollow, NEW t \in Threads, NEW p \in Passes, NEW text,
         ~Running(p), BeforePass(t, p, text),
         PushFrame(t, NewFrame("pass", t, p, EntryPhase))
  PROVE  IdsFollow'
<1> DEFINE frame == NewFrame("pass", t, p, EntryPhase)
<1>1. frame \in Frame /\ frame.kind = "pass" /\ frame.pass = p
  BY DEF NewFrame, Frame, EntryPhase
<1> HIDE DEF frame
<1>2. Pushed(t, frame)
  BY <1>1, PushedFacts DEF frame
<1>3. LockFree /\ UNCHANGED <<activePasses, activePassIds, life, firstError>>
  BY DEF BeforePass, maps
<1>4. CASE ~Recording
  BY <1>3, <1>4 DEF BeforePass, Following, Recording, life, LockFree, IdsFollow
<1>5. CASE Recording
  <2>1. /\ call'.fn = "beforePass" /\ call'.thread = t /\ call'.pass = p
        /\ call'.step \in {"snapshot", "root", "row"}
    BY <1>5 DEF BeforePass, AfterSnapshotStep
  <2>2. Following
    BY <1>5 DEF Following
  <2>3. ASSUME NEW u \in Threads PROVE SameIdsAt(u)
    <3>1. PICK n \in Nat : n = Len(stack[u]) /\ Depths(u) = 1 .. n
      BY StackFacts
    <3>2. PICK m \in Nat : m = Len(stack'[u]) /\ m = IF u = t THEN n + 1 ELSE n
      BY <1>2, <3>1 DEF Pushed
    <3>3. \A i \in 1 .. n : i \in 1 .. m /\ stack'[u][i] = stack[u][i]
      BY <1>2, <3>1, <3>2 DEF Pushed
    <3>4. u = t => stack'[u][m].pass = p
      BY <1>1, <1>2, <3>1, <3>2 DEF Pushed
    <3>5. \A q : /\ ~Starting(u, q) /\ ~Returning(u, q) /\ ~Returning(u, q)'
                 /\ Starting(u, q)' <=> u = t /\ q = p
      BY <1>3, <2>1 DEF Starting, Returning, LockFree
    <3>6. \A i \in 1 .. m : i \in 1 .. n \/ (u = t /\ i = m)
      BY <3>1, <3>2
    <3>7. /\ \A i : i \in RecordedDepths(u) <=> i \in 1 .. n /\ stack[u][i].kind = "pass"
          /\ \A i \in 1 .. n : RecordedAt(u)[i] = activePasses[u][stack[u][i].pass].id
      BY <3>1, <3>5, RecordedFacts
    <3>8. /\ \A i : i \in RecordedDepths(u)' <=>
               \/ i \in 1 .. m /\ stack'[u][i].kind = "pass" /\ ~Starting(u, stack[u][i].pass)'
               \/ i = m + 1 /\ Returning(u, call.pass)'
          /\ \A i \in 1 .. m : RecordedAt(u)'[i] = activePasses'[u][stack'[u][i].pass].id
      BY <3>2, RecordedNext
    <3>9. \A i \in 1 .. m : Starting(u, stack[u][i].pass)' <=> u = t /\ stack'[u][i].pass = p
      BY <2>1 DEF Starting
    <3>10. ~Returning(u, call.pass)'
      BY <2>1 DEF Returning
    <3>11. \A i \in 1 .. n : stack[u][i].kind = "pass" => stack[u][i].pass # p
      BY <3>1 DEF Running
    <3>12. \A i : i \in RecordedDepths(u)' <=> i \in RecordedDepths(u)
      BY <3>3, <3>4, <3>6, <3>7, <3>8, <3>9, <3>10, <3>11
    <3>13. \A i \in RecordedDepths(u) : RecordedAt(u)'[i] = RecordedAt(u)[i]
      BY <1>3, <3>3, <3>7, <3>8
    <3> QED
      BY <1>3, <3>12, <3>13 DEF SameIdsAt
  <2> QED
    BY <2>2, <2>3, IdsStill
<1> QED
  BY <1>4, <1>5

LEMMA ReturnIds ==
  ASSUME CaptureInv, ManagerInv, EntriesInv, IdsFollow, NEW t \in Threads,
         NEW failed \in BOOLEAN, ReturnFromPass(t, failed)
  PROVE  IdsFollow'
<1>1. PICK p, text : p = Top(t).pass /\ AfterPass(t, p, failed, text)
  BY DEF ReturnFromPass
<1>2. /\ stack[t] # <<>> /\ Top(t).kind = "pass" /\ Popped(t)
  BY ReturnFacts DEF ReturnFromPass, TopIs
<1>3. LockFree /\ UNCHANGED <<activePasses, activePassIds, life, firstError>>
  BY <1>1, ReturnEntries DEF AfterPass, maps
<1>4. CASE ~Recording
  BY <1>1, <1>3, <1>4 DEF AfterPass, Following, Recording, life, LockFree, IdsFollow
<1>5. CASE Recording
  <2>1. /\ call'.fn = "afterPass" /\ call'.thread = t /\ call'.pass = p
    <3>1. call'.fn = "afterPass"
      BY <1>5, ReturnEntries
    <3> QED
      BY <1>1, <1>3, <3>1 DEF AfterPass, LockFree
  <2>2. Following
    BY <1>5 DEF Following
  <2>3. ASSUME NEW u \in Threads PROVE SameIdsAt(u)
    <3>1. PICK n \in Nat : n = Len(stack[u]) /\ Depths(u) = 1 .. n
      BY StackFacts
    <3>2. PICK m \in Nat : m = Len(stack'[u]) /\ m = IF u = t THEN n - 1 ELSE n
      <4>1. u = t => n # 0
        BY <1>2, <3>1, StackFacts
      <4> QED
        BY <1>2, <3>1, <4>1 DEF Popped
    <3>3. \A i \in 1 .. m : /\ i \in 1 .. n /\ stack'[u][i].kind = stack[u][i].kind
                            /\ stack'[u][i].pass = stack[u][i].pass
      BY <1>2, <3>1, <3>2 DEF Popped, SameFrame
    <3>4. u = t => stack[u][n].kind = "pass" /\ stack[u][n].pass = p /\ n = m + 1 /\ n \in 1 .. n
      BY <1>1, <1>2, <3>1, <3>2, StackFacts
    <3>5. \A q : ~Starting(u, q) /\ ~Returning(u, q)
      BY <1>3 DEF Starting, Returning, LockFree
    <3>6. \A i \in 1 .. n : i \in 1 .. m \/ (u = t /\ i = n)
      BY <3>1, <3>2
    <3>7. /\ \A i : i \in RecordedDepths(u) <=> i \in 1 .. n /\ stack[u][i].kind = "pass"
          /\ \A i \in 1 .. n : RecordedAt(u)[i] = activePasses[u][stack[u][i].pass].id
      BY <3>1, <3>5, RecordedFacts
    <3>8. /\ \A i : i \in RecordedDepths(u)' <=>
               \/ i \in 1 .. m /\ stack'[u][i].kind = "pass" /\ ~Starting(u, stack[u][i].pass)'
               \/ i = m + 1 /\ Returning(u, call.pass)'
          /\ \A i \in 1 .. m : RecordedAt(u)'[i] = activePasses'[u][stack'[u][i].pass].id
          /\ RecordedAt(u)'[m + 1] = activePasses'[u][call'.pass].id
      BY <3>2, RecordedNext
    <3>9. \A i : ~Starting(u, stack[u][i].pass)'
      BY <2>1 DEF Starting
    <3>10. Returning(u, call.pass)' <=> u = t
      BY <2>1 DEF Returning
    <3>11. \A i : i \in RecordedDepths(u)' <=> i \in RecordedDepths(u)
      BY <3>2, <3>3, <3>4, <3>6, <3>7, <3>8, <3>9, <3>10
    <3>12. \A i \in RecordedDepths(u) : RecordedAt(u)'[i] = RecordedAt(u)[i]
      <4>1. \A i \in 1 .. m : RecordedAt(u)'[i] = RecordedAt(u)[i]
        BY <1>3, <3>3, <3>7, <3>8
      <4>2. u = t => RecordedAt(u)'[n] = RecordedAt(u)[n]
        BY <1>3, <2>1, <3>4, <3>7, <3>8
      <4> QED
        BY <3>6, <3>7, <4>1, <4>2
    <3> QED
      BY <1>3, <3>11, <3>12 DEF SameIdsAt
  <2> QED
    BY <2>2, <2>3, IdsStill
<1> QED
  BY <1>4, <1>5

LEMMA CreateRowIds ==
  ASSUME CaptureInv, ManagerInv, EntriesInv, IdsFollow, UNCHANGED stack, CreateRow
  PROVE  IdsFollow'
<1>0. PICK t, p, new : t = call.thread /\ p = call.pass /\ new = NextRowId
  OBVIOUS
<1>1. t \in Threads /\ p \in Passes /\ Starting(t, p) /\ Following /\ UNCHANGED life
  BY <1>0, CreateRowFacts
<1>2. CASE StatementFails /\ RememberError /\ Unlock
  BY <1>2, FailedStops DEF IdsFollow
<1>3. CASE ~(StatementFails /\ RememberError /\ Unlock)
  <2>1. /\ \A u \in Threads, q \in Passes :
             activePasses'[u][q] =
               IF u = t /\ q = p
               THEN [id |-> new, parent |-> ParentFor(t), before |-> call.text]
               ELSE activePasses[u][q]
        /\ activePassIds' = [activePassIds EXCEPT ![t] = Push(@, new)]
        /\ IF Fidelity = "full" THEN GoTo("index") ELSE Unlock
    BY <1>0, <1>3, CreateRowFacts
  <2>2. /\ activePasses'[t][p].id = new
        /\ \A u \in Threads, q \in Passes :
             u # t \/ q # p => activePasses'[u][q] = activePasses[u][q]
    BY <1>1, <2>1
  <2>3. /\ call.fn = "beforePass" /\ call.step = "row" /\ new \in Ids
    BY <1>0, RowArguments DEF CreateRow, At
  <2>4. \A u, q : ~Starting(u, q)' /\ ~Returning(u, q)'
    <3>1. CASE Unlock
      BY <3>1, UnlockFacts DEF Starting, Returning
    <3>2. CASE GoTo("index")
      <4>1. SameCall /\ call'.step = "index"
        BY <2>3, <3>2, GoToCall DEF CaptureInv, Steps
      <4> QED
        BY <2>3, <4>1 DEF SameCall, Starting, Returning
    <3> QED
      BY <2>1, <3>1, <3>2
  <2>5. \A i : ~Starting(t, stack[t][i].pass)' /\ ~Returning(t, call.pass)'
    BY <2>4 DEF Starting, Returning
  <2>6. activePassIds \in [Threads -> Seq(Ids)]
    BY DEF CaptureInv, RecorderInv, RecorderTypeOK
  <2>7. PICK n \in Nat : n = Len(stack[t]) /\ n = Len(stack'[t]) /\ Depths(t) = 1 .. n
    BY <1>1, StackFacts
  <2>8. n \in 1 .. n /\ IsPass(stack[t][n], p)
    BY <1>0, <1>1, <2>3, <2>7, StackFacts DEF ManagerInv, CallFollows
  <2>9. \A i \in 1 .. n : IsPass(stack[t][i], p) => i = n
    BY <1>1, <2>7, <2>8 DEF ManagerInv, RunOnce, IsPass
  <2>10. /\ \A i : i \in RecordedDepths(t) <=>
              \/ i \in 1 .. n /\ stack[t][i].kind = "pass" /\ ~Starting(t, stack[t][i].pass)
              \/ i = n + 1 /\ Returning(t, call.pass)
         /\ \A i \in 1 .. n : RecordedAt(t)[i] = activePasses[t][stack[t][i].pass].id
         /\ IsFiniteSet(RecordedDepths(t)) /\ RecordedDepths(t) \subseteq Nat
    BY <1>1, <2>7, RecordedFacts
  <2>11. /\ \A i : i \in RecordedDepths(t)' <=>
              \/ i \in 1 .. n /\ stack'[t][i].kind = "pass" /\ ~Starting(t, stack[t][i].pass)'
              \/ i = n + 1 /\ Returning(t, call.pass)'
         /\ \A i \in 1 .. n : RecordedAt(t)'[i] = activePasses'[t][stack'[t][i].pass].id
    BY <1>1, <2>7, RecordedNext
  <2>12. ~Returning(t, call.pass) /\ \A q : Starting(t, q) <=> q = p
    BY <1>0, <2>3 DEF Returning, Starting
  <2>13. \A i : i \in RecordedDepths(t)' <=> i \in 1 .. n /\ stack[t][i].kind = "pass"
    BY <2>5, <2>11
  <2>14. \A i : i \in RecordedDepths(t) <=> i \in 1 .. n /\ stack[t][i].kind = "pass" /\ i # n
    BY <2>8, <2>9, <2>10, <2>12 DEF IsPass
  <2>15. RecordedDepths(t)' = RecordedDepths(t) \union {n}
    BY <2>8, <2>13, <2>14 DEF IsPass
  <2>16. \A i \in RecordedDepths(t) : i < n /\ RecordedAt(t)'[i] = RecordedAt(t)[i]
    <3> SUFFICES ASSUME NEW i \in RecordedDepths(t)
                 PROVE  i < n /\ RecordedAt(t)'[i] = RecordedAt(t)[i]
      OBVIOUS
    <3>1. i \in 1 .. n /\ stack[t][i].kind = "pass" /\ i < n
      BY <2>14
    <3>2. stack[t][i].pass # p /\ stack[t][i].pass \in Passes
      BY <1>1, <2>7, <2>9, <3>1, FrameFacts DEF IsPass
    <3> QED
      BY <1>1, <2>2, <2>10, <2>11, <3>1, <3>2
  <2>17. RecordedAt(t)'[n] = new
    BY <2>2, <2>8, <2>11 DEF IsPass
  <2>18. IdsAt(t)'
    <3> DEFINE w == activePassIds[t]
    <3>1. w \in Seq(Ids) /\ activePassIds'[t] = Push(w, new)
      BY <1>1, <2>1, <2>6
    <3>2. Lists(w, RecordedDepths(t), RecordedAt(t))
      BY <1>1 DEF IdsFollow
    <3> HIDE DEF w
    <3>3. Lists(Push(w, new), RecordedDepths(t) \union {n}, RecordedAt(t)')
      BY <2>3, <2>10, <2>16, <2>17, <3>1, <3>2, ListsAdd
    <3>4. Lists(activePassIds'[t], RecordedDepths(t)', RecordedAt(t)')
      BY <2>15, <3>1, <3>3
    <3> QED
      BY <3>4 DEF IdsAt, Lists
  <2>19. ASSUME NEW u \in Threads \ {t} PROVE IdsAt(u)'
    <3>1. PICK k \in Nat : k = Len(stack[u]) /\ k = Len(stack'[u]) /\ Depths(u) = 1 .. k
      BY StackFacts
    <3>2. /\ \A i : i \in RecordedDepths(u) <=>
               \/ i \in 1 .. k /\ stack[u][i].kind = "pass" /\ ~Starting(u, stack[u][i].pass)
               \/ i = k + 1 /\ Returning(u, call.pass)
          /\ \A i \in 1 .. k : RecordedAt(u)[i] = activePasses[u][stack[u][i].pass].id
      BY <3>1, RecordedFacts
    <3>3. /\ \A i : i \in RecordedDepths(u)' <=>
               \/ i \in 1 .. k /\ stack'[u][i].kind = "pass" /\ ~Starting(u, stack[u][i].pass)'
               \/ i = k + 1 /\ Returning(u, call.pass)'
          /\ \A i \in 1 .. k : RecordedAt(u)'[i] = activePasses'[u][stack'[u][i].pass].id
      BY <3>1, RecordedNext
    <3>4. \A i : ~Starting(u, stack[u][i].pass)' /\ ~Returning(u, call.pass)'
      BY <2>4 DEF Starting, Returning
    <3>5. ~Returning(u, call.pass) /\ \A q : ~Starting(u, q)
      BY <1>0, <2>3 DEF Returning, Starting
    <3>6. \A i : i \in RecordedDepths(u)' <=> i \in RecordedDepths(u)
      BY <3>2, <3>3, <3>4, <3>5
    <3>7. \A i \in 1 .. k : stack[u][i].pass \in Passes
      BY <3>1, FrameFacts
    <3>8. \A i \in RecordedDepths(u) : RecordedAt(u)'[i] = RecordedAt(u)[i]
      BY <2>2, <3>2, <3>3, <3>5, <3>7
    <3>9. activePassIds'[u] = activePassIds[u]
      BY <1>1, <2>1, <2>6
    <3>10. IdsAt(u) /\ SameIdsAt(u)
      BY <1>1, <3>6, <3>8, <3>9 DEF SameIdsAt, IdsFollow, IdsAt
    <3> QED
      BY <3>10, IdsStay
  <2> QED
    BY <2>18, <2>19 DEF IdsFollow, IdsAt
<1> QED
  BY <1>2, <1>3

LEMMA ForgetIds ==
  ASSUME CaptureInv, ManagerInv, EntriesInv, IdsFollow, UNCHANGED stack, ForgetPass
  PROVE  IdsFollow'
<1>0. PICK t, p : t = call.thread /\ p = call.pass
  OBVIOUS
<1>1. /\ t \in Threads /\ p \in Passes /\ Returning(t, p) /\ Following /\ Unlock
      /\ \A u \in Threads, q \in Passes :
           activePasses'[u][q] = IF u = t /\ q = p THEN NotActive ELSE activePasses[u][q]
      /\ activePassIds' = [activePassIds EXCEPT ![t] = Pop(@)]
  BY <1>0, ForgetFacts
<1>2. call.fn = "afterPass" /\ ~Running(p)
  BY <1>0, <1>1 DEF Returning, ManagerInv, CallFollows
<1>3. activePassIds \in [Threads -> Seq(Ids)]
  BY DEF CaptureInv, RecorderInv, RecorderTypeOK
<1>4. ASSUME NEW u \in Threads
      PROVE  IdsAt(u)'
  <2>1. PICK k \in Nat : k = Len(stack[u]) /\ k = Len(stack'[u]) /\ Depths(u) = 1 .. k
    BY StackFacts
  <2>2. /\ \A i : i \in RecordedDepths(u) <=>
             \/ i \in 1 .. k /\ stack[u][i].kind = "pass" /\ ~Starting(u, stack[u][i].pass)
             \/ i = k + 1 /\ Returning(u, call.pass)
        /\ \A i \in 1 .. k : RecordedAt(u)[i] = activePasses[u][stack[u][i].pass].id
        /\ IsFiniteSet(RecordedDepths(u)) /\ RecordedDepths(u) \subseteq Nat
        /\ RecordedDepths(u) \subseteq 1 .. (k + 1)
    BY <2>1, RecordedFacts
  <2>3. /\ \A i : i \in RecordedDepths(u)' <=>
             \/ i \in 1 .. k /\ stack'[u][i].kind = "pass" /\ ~Starting(u, stack[u][i].pass)'
             \/ i = k + 1 /\ Returning(u, call.pass)'
        /\ \A i \in 1 .. k : RecordedAt(u)'[i] = activePasses'[u][stack'[u][i].pass].id
    BY <2>1, RecordedNext
  <2>4. \A i : ~Starting(u, stack[u][i].pass)' /\ ~Returning(u, call.pass)'
    BY <1>1, UnlockFacts DEF Starting, Returning
  <2>5. /\ \A q : ~Starting(u, q)
        /\ Returning(u, call.pass) <=> u = t
    BY <1>0, <1>1, <1>2 DEF Returning, Starting
  <2>6. \A i : i \in RecordedDepths(u)' <=> i \in RecordedDepths(u) /\ i \in 1 .. k
    BY <2>2, <2>3, <2>4, <2>5
  <2>7. \A i \in 1 .. k : i \in RecordedDepths(u) => RecordedAt(u)'[i] = RecordedAt(u)[i]
    <3> SUFFICES ASSUME NEW i \in 1 .. k, i \in RecordedDepths(u)
                 PROVE  RecordedAt(u)'[i] = RecordedAt(u)[i]
      OBVIOUS
    <3>1. stack[u][i].kind = "pass" /\ stack[u][i].pass \in Passes
      BY <2>1, <2>2, FrameFacts
    <3>2. stack[u][i].pass # p
      BY <1>2, <2>1, <3>1 DEF Running
    <3> QED
      BY <1>1, <2>2, <2>3, <3>1, <3>2
  <2>8. Lists(activePassIds[u], RecordedDepths(u), RecordedAt(u))
    BY <1>1 DEF IdsFollow
  <2>9. CASE u = t
    <3> DEFINE w == activePassIds[u]
    <3>1. w \in Seq(Ids) /\ activePassIds'[u] = Pop(w)
      BY <1>1, <1>3, <2>9
    <3> HIDE DEF w
    <3>2. k + 1 \in RecordedDepths(u) /\ \A e \in RecordedDepths(u) : e <= k + 1
      BY <2>2, <2>5, <2>9
    <3>3. \A e \in RecordedDepths(u) : e # k + 1 <=> e \in 1 .. k
      BY <2>2
    <3>4. RecordedDepths(u)' = RecordedDepths(u) \ {k + 1}
      BY <2>6, <3>3
    <3>5. \A e \in RecordedDepths(u) \ {k + 1} : RecordedAt(u)'[e] = RecordedAt(u)[e]
      BY <2>7, <3>3
    <3>6. Lists(w, RecordedDepths(u), RecordedAt(u))
      BY <2>8 DEF w
    <3>7. Lists(Pop(w), RecordedDepths(u) \ {k + 1}, RecordedAt(u)')
      BY <2>2, <3>1, <3>2, <3>5, <3>6, ListsDrop
    <3>8. Lists(activePassIds'[u], RecordedDepths(u)', RecordedAt(u)')
      BY <3>1, <3>4, <3>7
    <3> QED
      BY <3>8 DEF IdsAt, Lists
  <2>10. CASE u # t
    <3>1. \A i \in RecordedDepths(u) : i \in 1 .. k
      BY <2>2, <2>5, <2>10
    <3>2. IdsAt(u) /\ SameIdsAt(u)
      BY <1>1, <1>3, <2>6, <2>7, <2>8, <2>10, <3>1 DEF IdsAt, SameIdsAt
    <3> QED
      BY <3>2, IdsStay
  <2> QED
    BY <2>9, <2>10
<1> QED
  BY <1>4 DEF IdsFollow, IdsAt

\* Without frames and ids there is nothing to follow.
LEMMA NoIds ==
  ASSUME \A t \in Threads : stack'[t] = <<>> /\ activePassIds'[t] = <<>>, call'.fn # "afterPass"
  PROVE  IdsFollow'
<1> SUFFICES ASSUME NEW t \in Threads PROVE IdsAt(t)'
  BY DEF IdsFollow, IdsAt
<1>1. Len(stack'[t]) = 0
  BY EmptySeq
<1>2. PICK n \in Nat : n = 0 /\ n = Len(stack'[t])
  BY <1>1
<1>3. \A i : i \notin RecordedDepths(t)'
  <2>1. \A i : i \in RecordedDepths(t)' <=>
             \/ i \in 1 .. n /\ stack'[t][i].kind = "pass" /\ ~Starting(t, stack[t][i].pass)'
             \/ i = n + 1 /\ Returning(t, call.pass)'
    BY <1>2, RecordedNext
  <2>2. ~Returning(t, call.pass)'
    BY DEF Returning
  <2> QED
    BY <1>2, <2>1, <2>2
<1>4. RecordedDepths(t)' = {}
  BY <1>3
<1>5. Lists(activePassIds'[t], RecordedDepths(t)', RecordedAt(t)')
  BY <1>4, ListsEmpty
<1> QED
  BY <1>5 DEF IdsAt, Lists

LEMMA AttachIds ==
  ASSUME CaptureInv, ReferencesInv, UNCHANGED stack,
         Attach \/ AttachCreate \/ AttachVersion \/ AttachProducer \/ AttachFidelity
  PROVE  IdsFollow'
<1>1. ~attached /\ UNCHANGED activePassIds /\ passExecution = <<>>
  BY DEF Attach, AttachCreate, AttachVersion, AttachProducer, AttachFidelity, AttachStatement,
         At, CaptureInv, RecorderInv, CallOK, maps
<1>2. \A t \in Threads : stack'[t] = <<>>
  BY <1>1 DEF CaptureInv, IdleUntilAttached
<1>3. \A t \in Threads : activePassIds'[t] = <<>>
  <2>1. RowIds = {}
    BY <1>1, EmptySeq DEF RowIds
  <2> SUFFICES ASSUME NEW t \in Threads PROVE activePassIds[t] = <<>>
    BY <1>1
  <2>2. activePassIds[t] \in Seq(Ids)
    BY DEF CaptureInv, RecorderInv, RecorderTypeOK
  <2>3. \A i : i \notin 1 .. Len(activePassIds[t])
    BY <2>1 DEF ReferencesInv
  <2>4. Len(activePassIds[t]) \in Nat
    BY <2>2, LenProperties
  <2>5. Len(activePassIds[t]) = 0
    <3>1. PICK n \in Nat : n = Len(activePassIds[t])
      BY <2>4
    <3>2. 1 \notin 1 .. n
      BY <2>3, <3>1
    <3> QED
      BY <3>1, <3>2
  <2> QED
    BY <2>2, <2>5, EmptySeq
<1>4. call'.fn # "afterPass"
  <2>1. CASE Attach
    BY <2>1 DEF Attach, NoCall
  <2>2. CASE AttachCreate \/ AttachVersion \/ AttachProducer \/ AttachFidelity
    <3>1. call.fn = "attach" /\ RecorderStep
      BY <2>2 DEF AttachCreate, AttachVersion, AttachProducer, AttachFidelity, AttachStatement,
                  At, RecorderStep
    <3>2. Unlock \/ SameCall
      BY <3>1, CallbackCall DEF CaptureInv
    <3> QED
      BY <3>1, <3>2, UnlockFacts DEF SameCall
  <2> QED
    BY <2>1, <2>2
<1> QED
  BY <1>2, <1>3, <1>4, NoIds

\* The same callback at another statement.
LEMMA SameCallIds ==
  ASSUME CaptureInv, IdsFollow, SameCall, firstError => firstError',
         UNCHANGED <<stack, activePasses, activePassIds, life>>,
         call.fn = "beforePass" => (call.step \in {"snapshot", "root", "row"}
                                      <=> call'.step \in {"snapshot", "root", "row"})
  PROVE  IdsFollow'
<1>1. Following' => Following
  BY DEF Following, Recording, SameCall, life
<1>2. \A t \in Threads, p \in Passes : Starting(t, p)' <=> Starting(t, p)
  BY DEF SameCall, Starting
<1>3. \A t \in Threads : /\ Returning(t, call.pass)' <=> Returning(t, call.pass)
                         /\ Returning(t, call.pass) => call'.pass = call.pass
  BY DEF SameCall, Returning
<1> QED
  BY <1>1, <1>2, <1>3, CallIds

LEMMA BeforeIds ==
  ASSUME CaptureInv, IdsFollow, UNCHANGED stack,
         BeforeSnapshot \/ CreateRoot \/ BeforeIndex
  PROVE  IdsFollow'
<1>1. UNCHANGED <<activePasses, activePassIds, life>> /\ call.fn = "beforePass"
  BY DEF BeforeSnapshot, CreateRoot, BeforeIndex, maps, At
<1>2. CASE Unlock /\ RememberError
  BY <1>2, FailedStops DEF IdsFollow
<1>3. CASE (BeforeSnapshot \/ CreateRoot) /\ ~(Unlock /\ RememberError)
  <2>1. PICK step : step \in {"root", "row"} /\ GoTo(step) /\ UNCHANGED firstError
    BY <1>3 DEF BeforeSnapshot, CreateRoot, AfterSnapshotStep
  <2>2. SameCall /\ call'.step = step /\ call.step \in {"snapshot", "root"}
    <3>1. step \in Steps
      BY <2>1 DEF Steps
    <3>2. call.step \in {"snapshot", "root"}
      BY <1>3 DEF BeforeSnapshot, CreateRoot, At
    <3>3. SameCall /\ call'.step = step
      BY <1>1, <2>1, <3>1, GoToCall DEF CaptureInv
    <3> QED
      BY <3>2, <3>3
  <2> QED
    BY <1>1, <2>1, <2>2, SameCallIds
<1>4. CASE BeforeIndex
  <2>1. IndexRow(0, "idle") /\ call.step = "index"
    BY <1>4 DEF BeforeIndex, At
  <2>2. \/ SameCall /\ call'.step = "index" /\ UNCHANGED firstError
        \/ Unlock /\ UNCHANGED firstError
        \/ Unlock /\ RememberError
    BY <1>1, <2>1, IndexCall DEF CaptureInv
  <2>3. CASE SameCall /\ call'.step = "index" /\ UNCHANGED firstError
    BY <1>1, <2>1, <2>3, SameCallIds
  <2>4. CASE Unlock /\ UNCHANGED firstError
    <3>1. Following' => Following
      BY <1>1, <2>4, UnlockFacts DEF Following, Recording, life
    <3>2. \A t \in Threads, p \in Passes : Starting(t, p)' <=> Starting(t, p)
      BY <1>1, <2>1, <2>4, UnlockFacts DEF Starting
    <3>3. \A t \in Threads : ~Returning(t, call.pass)' /\ ~Returning(t, call.pass)
      BY <1>1, <2>4, UnlockFacts DEF Returning
    <3> QED
      BY <1>1, <3>1, <3>2, <3>3, CallIds
  <2> QED
    BY <1>2, <2>2, <2>3, <2>4
<1> QED
  BY <1>2, <1>3, <1>4

LEMMA AfterIds ==
  ASSUME CaptureInv, EntriesInv, IdsFollow, UNCHANGED stack,
         AfterSnapshot \/ AfterIndex \/ CompleteRow \/ CompleteRoot \/ MarkFailed
  PROVE  IdsFollow'
<1>1. UNCHANGED <<activePasses, activePassIds, life>> /\ call.fn = "afterPass"
      /\ (UNCHANGED firstError \/ firstError' = TRUE) /\ RecorderStep
  BY DEF AfterSnapshot, AfterIndex, IndexRow, CompleteRow, CompleteRoot, MarkFailed, maps, At,
         RememberError, RecorderStep
<1>2. CASE SameCall
  BY <1>1, <1>2, SameCallIds
<1>3. CASE ~SameCall
  <2>1. Unlock
    BY <1>1, <1>3, CallbackCall DEF CaptureInv
  <2>2. CASE RememberError
    BY <2>1, <2>2, FailedStops DEF IdsFollow
  <2>3. CASE ~RememberError
    <3>1. \E step \in Steps : GoTo(step)
      <4>1. CASE AfterSnapshot
        BY <2>3, <4>1 DEF AfterSnapshot, Steps
      <4>2. CASE AfterIndex
        <5>1. SameCall
          BY <1>1, <4>2, IndexCall DEF AfterIndex, CaptureInv
        <5> QED
          BY <1>3, <5>1
      <4>3. CASE CompleteRow
        BY <2>3, <4>3 DEF CompleteRow, AfterEndStep, Steps
      <4>4. CASE CompleteRoot
        BY <2>3, <4>4 DEF CompleteRoot, Steps
      <4>5. CASE MarkFailed
        BY <2>3, <4>5 DEF MarkFailed, Steps
      <4> QED
        BY <4>1, <4>2, <4>3, <4>4, <4>5
    <3> QED
      BY <1>1, <1>3, <3>1, GoToCall DEF CaptureInv
  <2> QED
    BY <2>2, <2>3
<1> QED
  BY <1>2, <1>3

LEMMA IdsNext ==
  CaptureInv /\ ManagerInv /\ EntriesInv /\ ReferencesInv /\ IdsFollow /\ [Next]_vars => IdsFollow'
<1> SUFFICES ASSUME CaptureInv, ManagerInv, EntriesInv, ReferencesInv, IdsFollow, [Next]_vars
             PROVE  IdsFollow'
  OBVIOUS
<1>1. CASE CallAttach
  BY <1>1, AttachIds DEF CallAttach, managerVars
<1>2. CASE CallFinish
  BY <1>2 DEF CallFinish, Finish, IdsFollow, Following, Recording, LockFree
<1>3. CASE Callback
  BY <1>3, AttachIds, BeforeIds, AfterIds, CreateRowIds, ForgetIds
     DEF Callback, RecorderStep, managerVars
<1>4. CASE UNCHANGED <<stack, activePasses, activePassIds, call, firstError, life>>
  <2>1. Following' <=> Following
    BY <1>4 DEF Following, Recording, life
  <2>2. \A t \in Threads, p \in Passes : Starting(t, p)' <=> Starting(t, p)
    BY <1>4 DEF Starting
  <2>3. \A t \in Threads : Returning(t, call.pass)' <=> Returning(t, call.pass)
    BY <1>4 DEF Returning
  <2> QED
    BY <1>4, <2>1, <2>2, <2>3, CallIds
<1>5. ASSUME NEW t \in Threads, PassManager(t) PROVE IdsFollow'
  <2>1. ASSUME NEW p \in Passes, StartNestedPass(t, p) PROVE IdsFollow'
    BY <2>1, StartPassIds DEF StartNestedPass
  <2>2. ASSUME NEW o \in Threads, NEW i \in Depths(o), StartPipeline(o, i, t) PROVE IdsFollow'
    <3>1. PICK p \in Passes : p = stack[o][i].pass
      BY FrameFacts
    <3> DEFINE frame == NewFrame("pipeline", o, p, "running")
    <3>2. PushFrame(t, frame) /\ LockFree
          /\ UNCHANGED <<activePasses, activePassIds, call, firstError, life>>
      BY <2>2, <3>1 DEF StartPipeline, BeforePipeline
    <3>3. frame \in Frame /\ frame.kind # "pass"
      BY DEF NewFrame, Frame
    <3> HIDE DEF frame
    <3> QED
      BY <3>2, <3>3, PushedFacts, PushedIds
  <2>3. ASSUME NEW failed \in BOOLEAN, ReturnFromPass(t, failed) PROVE IdsFollow'
    BY <2>3, ReturnIds
  <2>4. CASE EndPipeline(t) \/ LeavePattern(t) \/ AbandonPipeline(t)
    <3>1. /\ stack[t] # <<>> /\ Top(t).kind # "pass" /\ Free(t)
          /\ UNCHANGED <<activePasses, activePassIds, call, firstError, life>>
      BY <2>4 DEF EndPipeline, AfterPipeline, LeavePattern, EndPattern, UnchangedExceptNames,
                  AbandonPipeline, TopIs, recorderVars, life, Free
    <3>2. Popped(t)
      BY <2>4, <3>1, PoppedFacts, AbandonFacts DEF EndPipeline, LeavePattern
    <3> QED
      BY <3>1, <3>2, PoppedIds
  <2>5. CASE EnterAction(t) \/ LeaveAction(t)
    <3>1. /\ stack[t] # <<>> /\ (SetTopPhase(t, "running") \/ SetTopPhase(t, "done"))
          /\ UNCHANGED <<activePasses, activePassIds, call, firstError, life>>
      BY <2>5 DEF EnterAction, BeginAction, LeaveAction, EndAction, UnchangedExceptNames, TopIs
    <3> QED
      BY <3>1, RephasedFacts, RephasedIds
  <2>6. CASE EnterPattern(t)
    <3> DEFINE frame == NewFrame("pattern", t, Top(t).pass, "running")
    <3>1. /\ stack[t] # <<>> /\ PushFrame(t, frame) /\ LockFree
          /\ UNCHANGED <<activePasses, activePassIds, call, firstError, life>>
      BY <2>6 DEF EnterPattern, Rewriting, BeginPattern, UnchangedExceptNames
    <3>2. frame \in Frame /\ frame.kind # "pass"
      BY <3>1, TopFacts DEF NewFrame, Frame
    <3> HIDE DEF frame
    <3> QED
      BY <3>1, <3>2, PushedFacts, PushedIds
  <2>7. CASE NotifyOperation(t)
    <3>1. /\ UNCHANGED <<activePasses, activePassIds, call, stack, life>>
          /\ firstError' = firstError \/ firstError' = TRUE
          /\ LockFree
      BY <2>7, NotifyTable DEF NotifyOperation, RecordIdentity
    <3>2. firstError' = TRUE => ~Following'
      BY <3>1 DEF Following, Recording, LockFree
    <3> QED
      BY <1>4, <3>1, <3>2 DEF IdsFollow
  <2> QED
    BY <1>5, <2>1, <2>2, <2>3, <2>4, <2>5, <2>6, <2>7 DEF PassManager
<1>6. ASSUME NEW p \in Passes, StartTopLevelPass(p) PROVE IdsFollow'
  <2>1. Main \in Threads
    BY CaptureAssumption DEF CaptureAssumption
  <2> QED
    BY <1>6, <2>1, StartPassIds DEF StartTopLevelPass
<1> QED
  BY <1>1, <1>2, <1>3, <1>4, <1>5, <1>6
     DEF Next, Rewrite, vars, recorderVars, managerVars, life

LEMMA StacksInit == Init => StacksInv
<1> SUFFICES ASSUME Init PROVE StacksInv
  OBVIOUS
<1>1. ~Following
  BY DEF Init, StorageInit, RecorderInit, Following, Recording, NoCall
<1>2. IdsFollow
  BY <1>1 DEF IdsFollow
<1>3. ASSUME NEW t \in Threads
      PROVE  NamesAt(t)
  <2>1. stack[t] = <<>> /\ currentPatterns[t] = <<>> /\ currentActions[t] = <<>>
    BY DEF Init, RecorderInit
  <2>2. PatternDepths(t) = {} /\ ActionDepths(t) = {}
    BY <2>1, EmptySeq DEF PatternDepths, ActionDepths, Depths
  <2> QED
    BY <2>1, <2>2, ListsEmpty DEF NamesAt
<1> QED
  BY <1>2, <1>3 DEF StacksInv, NamesFollow, NamesAt

\* At every statement of every callback the recorder's per-thread stacks list, in
\* order, what the pass manager's stack of that thread is inside: activePassIds the
\* passes being recorded, currentPatterns and currentActions its patterns and actions.
THEOREM StacksInvariant == Spec => []StacksInv
<1>1. CaptureInv /\ ManagerInv /\ EntriesInv /\ ReferencesInv /\ StacksInv /\ [Next]_vars
        => StacksInv'
  BY NamesNext, IdsNext DEF StacksInv
<1> QED
  BY <1>1, StacksInit, CaptureInvariant, ManagerInvariant, EntriesInvariant, FileInvariant, PTL
     DEF Spec, FileInv

LEMMA IdsAreInnermost == CaptureInv /\ IdsFollow => InnermostPassTracked
<1> SUFFICES ASSUME CaptureInv, IdsFollow, Recording, LockFree, NEW t \in Threads
             PROVE  /\ Len(activePassIds[t]) = PassesUpTo(t, Len(stack[t]))
                    /\ \A i \in Depths(t) : stack[t][i].kind = "pass"
                         => activePassIds[t][PassesUpTo(t, i)]
                              = RecordedId(t, stack[t][i].pass)
  BY DEF InnermostPassTracked
<1>1. Lists(activePassIds[t], RecordedDepths(t), RecordedAt(t))
  BY DEF IdsFollow, Following
<1>2. PICK n \in Nat : n = Len(stack[t]) /\ Depths(t) = 1 .. n
  BY StackFacts
<1>3. \A i : i \in RecordedDepths(t) <=> i \in 1 .. n /\ stack[t][i].kind = "pass"
  BY <1>2, RecordedFacts DEF Starting, Returning, LockFree
<1>4. \A i \in 1 .. n : RecordedAt(t)[i] = RecordedId(t, stack[t][i].pass)
  BY <1>2, RecordedFacts DEF RecordedId
<1>5. ASSUME NEW i \in 1 .. n
      PROVE  {j \in 1 .. i : stack[t][j].kind = "pass"} = {e \in RecordedDepths(t) : e <= i}
  <2>1. \A j : j \in 1 .. i <=> j \in 1 .. n /\ j <= i
    OBVIOUS
  <2> QED
    BY <1>3, <2>1
<1>6. {j \in 1 .. n : stack[t][j].kind = "pass"} = RecordedDepths(t)
  BY <1>3
<1>7. Len(activePassIds[t]) = PassesUpTo(t, n)
  BY <1>1, <1>6 DEF PassesUpTo, Lists
<1>8. ASSUME NEW i \in 1 .. n, stack[t][i].kind = "pass"
      PROVE  activePassIds[t][PassesUpTo(t, i)] = RecordedId(t, stack[t][i].pass)
  BY <1>1, <1>3, <1>4, <1>5, <1>8 DEF PassesUpTo, Lists
<1> QED
  BY <1>2, <1>7, <1>8

\* recordIdentity charges an operation to the pass its thread is in: whatever work
\* a thread has stolen, the id it finds on top is that of its innermost pass.
THEOREM OperationsAreCharged == Spec => []InnermostPassTracked
BY IdsAreInnermost, StacksInvariant, CaptureInvariant, PTL DEF StacksInv

-----------------------------------------------------------------------------
(* Parents.                                                                 *)

\* Before the recorder is attached no pipeline has been announced to it.
NothingNested == ~attached => \A t \in Threads : pipelineParents[t] = <<>>

LEMMA NestingWritten ==
  ASSUME [Next]_vars
  PROVE  /\ UNCHANGED activePasses \/ ((CreateRow \/ ForgetPass) /\ UNCHANGED managerVars)
         /\ UNCHANGED rootPass \/ (CreateRoot /\ UNCHANGED managerVars)
         /\ \/ UNCHANGED pipelineParents
            \/ \E t \in Threads :
                 EndPipeline(t) \/ \E o \in Threads : \E i \in Depths(o) : StartPipeline(o, i, t)
<1>1. CASE Callback
  <2>0. UNCHANGED managerVars
    BY <1>1 DEF Callback
  <2>1. CASE AttachCreate \/ AttachVersion \/ AttachProducer \/ AttachFidelity
    <3>1. UNCHANGED <<root, maps>>
      BY <2>1 DEF AttachCreate, AttachVersion, AttachProducer, AttachFidelity, AttachStatement
    <3> QED
      BY <3>1 DEF root, maps
  <2>2. CASE BeforeSnapshot \/ AfterSnapshot \/ BeforeIndex \/ AfterIndex \/ MarkFailed
             \/ CompleteRow \/ CompleteRoot
    <3>1. UNCHANGED <<root, maps>>
      BY <2>2 DEF BeforeSnapshot, AfterSnapshot, BeforeIndex, AfterIndex, MarkFailed,
                  CompleteRow, CompleteRoot
    <3> QED
      BY <3>1 DEF root, maps
  <2>3. CASE CreateRoot
    <3>1. UNCHANGED maps
      BY <2>3 DEF CreateRoot
    <3> QED
      BY <2>0, <2>3, <3>1 DEF maps
  <2>4. CASE CreateRow \/ ForgetPass
    <3>1. UNCHANGED <<root, stacks>>
      BY <2>4 DEF CreateRow, ForgetPass
    <3> QED
      BY <2>0, <2>4, <3>1 DEF stacks, root
  <2> QED
    BY <1>1, <2>1, <2>2, <2>3, <2>4 DEF Callback, RecorderStep
<1>2. ASSUME NEW t \in Threads, PassManager(t)
      PROVE  /\ UNCHANGED <<activePasses, rootPass>>
             /\ UNCHANGED pipelineParents \/ EndPipeline(t)
                \/ \E o \in Threads : \E i \in Depths(o) : StartPipeline(o, i, t)
  <2>1. UNCHANGED <<activePasses, rootPass>>
    BY <1>2, ManagerTable, NotifyTable
  <2>2. ASSUME NEW failed \in BOOLEAN, ReturnFromPass(t, failed) PROVE UNCHANGED pipelineParents
    BY <2>2 DEF ReturnFromPass, AfterPass, maps
  <2>3. ASSUME NEW p \in Passes, StartNestedPass(t, p) PROVE UNCHANGED pipelineParents
    BY <2>3 DEF StartNestedPass, BeforePass, maps
  <2>4. AbandonPipeline(t) \/ EnterAction(t) \/ LeaveAction(t)
          \/ EnterPattern(t) \/ LeavePattern(t) => UNCHANGED pipelineParents
    BY DEF AbandonPipeline, EnterAction, BeginAction, LeaveAction, EndAction, EnterPattern,
           BeginPattern, LeavePattern, EndPattern, UnchangedExceptNames, recorderVars
  <2>5. NotifyOperation(t) => UNCHANGED pipelineParents
    BY NotifyTable
  <2> QED
    BY <1>2, <2>1, <2>2, <2>3, <2>4, <2>5 DEF PassManager
<1> QED
  BY <1>1, <1>2
     DEF Next, CallAttach, Attach, CallFinish, Finish, Rewrite, StartTopLevelPass, BeforePass,
         vars, recorderVars, maps, root

LEMMA MarkWritten ==
  ASSUME [Next]_vars
  PROVE  /\ UNCHANGED meta \/ Callback
         /\ Callback => \/ UNCHANGED meta
                        \/ (meta' = {} /\ At("attach", "create"))
                        \/ (MarkFailed /\ ~Unmarked')
                        \/ \E key : key # "capture_status" /\ meta' = meta \union {key}
<1>1. UNCHANGED meta \/ Callback
  <2>1. ASSUME NEW t \in Threads, PassManager(t) PROVE UNCHANGED meta
    BY <2>1, ManagerTable, NotifyTable
  <2> QED
    BY <2>1 DEF Next, CallAttach, Attach, CallFinish, Finish, SealFile, SealFails, Rewrite,
         StartTopLevelPass, BeforePass, vars, storageVars
<1>2. CASE Callback
  <2>1. CASE AttachCreate
    <3>1. At("attach", "create") /\ (UNCHANGED meta \/ meta' = {})
      BY <2>1 DEF AttachCreate, AttachStatement, CreateFile, StatementFails
    <3> QED
      BY <1>2, <3>1
  <2>2. CASE AttachVersion \/ AttachProducer \/ AttachFidelity
    <3>1. \/ UNCHANGED meta
          \/ meta' = meta \union {"format_version"} \/ meta' = meta \union {"producer"}
          \/ meta' = meta \union {"fidelity"}
      BY <2>2 DEF AttachVersion, AttachProducer, AttachFidelity, AttachStatement, SetMeta,
                  StatementFails
    <3>2. /\ "format_version" # "capture_status" /\ "producer" # "capture_status"
          /\ "fidelity" # "capture_status"
      OBVIOUS
    <3> QED
      BY <1>2, <3>1, <3>2
  <2>3. CASE MarkFailed
    <3>1. UNCHANGED meta \/ meta' = meta \union {"capture_status"}
      BY <2>3 DEF MarkFailed, SetMeta, StatementFails
    <3> QED
      BY <1>2, <2>3, <3>1 DEF Unmarked
  <2>4. CASE BeforeSnapshot \/ AfterSnapshot \/ BeforeIndex \/ AfterIndex \/ CompleteRow
             \/ CompleteRoot \/ CreateRoot \/ CreateRow \/ ForgetPass
    BY <2>4 DEF BeforeSnapshot, AfterSnapshot, BeforeIndex, AfterIndex, CompleteRow,
                CompleteRoot, CreateRoot, CreateRow, ForgetPass, IndexRow, WriteOpIndex,
                WriteBlob, BeginPass, EndPass, StatementFails, storageVars
  <2> QED
    BY <1>2, <2>1, <2>2, <2>3, <2>4 DEF Callback, RecorderStep
<1> QED
  BY <1>1, <1>2 DEF Callback

\* The entry of a pass that nests a pipeline in progress stays.
LEMMA OwnersKept ==
  ASSUME CaptureInv, ManagerInv, EntriesInv, [Next]_vars, NEW t \in Threads, NEW i \in Depths(t),
         stack[t][i].kind = "pipeline", NEW o, NEW p, o = stack[t][i].owner, p = stack[t][i].pass
  PROVE  o \in Threads /\ p \in Passes /\ activePasses'[o][p] = activePasses[o][p]
<1>1. o \in Threads /\ p \in Passes
  BY FrameFacts DEF Frame
<1>2. HasPipelines(o, p) /\ Running(p)
  BY PipelineMeansRunning DEF HasPipelines, ManagerInv
<1>3. CASE CreateRow
  <2>1. call.fn = "beforePass" /\ ~(o = call.thread /\ p = call.pass)
    BY <1>2, <1>3 DEF CreateRow, At, ManagerInv, CallFollows
  <2>2. PICK u, q : u = call.thread /\ q = call.pass
    OBVIOUS
  <2>3. \/ UNCHANGED activePasses
        \/ \A v \in Threads, r \in Passes :
             activePasses'[v][r] =
               IF v = u /\ r = q
               THEN [id |-> NextRowId, parent |-> ParentFor(u), before |-> call.text]
               ELSE activePasses[v][r]
    BY <1>3, <2>2, CreateRowFacts
  <2> QED
    BY <1>1, <2>1, <2>2, <2>3
<1>4. CASE ForgetPass
  <2>1. call.fn = "afterPass" /\ p # call.pass
    BY <1>2, <1>4 DEF ForgetPass, At, ManagerInv, CallFollows
  <2> QED
    BY <1>1, <1>4, <2>1, ForgetFacts
<1> QED
  BY <1>1, <1>3, <1>4, NestingWritten

LEMMA NothingNestedNext ==
  ASSUME CaptureInv, CaptureInv', NothingNested, [Next]_vars
  PROVE  NothingNested'
<1> SUFFICES ASSUME ~attached' PROVE \A t \in Threads : pipelineParents'[t] = <<>>
  BY DEF NothingNested
<1>1. ASSUME NEW t \in Threads, PassManager(t) PROVE attached'
  <2>1. UNCHANGED attached
    BY <1>1, ManagerLife DEF life
  <2>2. ~attached => \A u \in Threads : stack[u] = <<>>
    BY DEF CaptureInv, IdleUntilAttached
  <2>3. ASSUME ~attached PROVE FALSE
    <3>1. \A u \in Threads : \A i \in Depths(u) : FALSE
      BY <2>2, <2>3, EmptySeq DEF Depths
    <3>2. NotifyOperation(t) => activePassIds[t] # <<>> /\ stack[t] # <<>>
      BY DEF NotifyOperation, RecordIdentity, Listens, Rewriting
    <3> QED
      BY <1>1, <2>2, <2>3, <3>1, <3>2
         DEF PassManager, StartNestedPass, StartPipeline, ReturnFromPass, EndPipeline,
             AbandonPipeline, EnterAction, LeaveAction, EnterPattern, LeavePattern, Rewriting,
             TopIs
  <2> QED
    BY <2>1, <2>3
<1>2. UNCHANGED pipelineParents
  BY <1>1, NestingWritten DEF PassManager
<1>3. ~attached
  <2>1. CASE Callback
    BY <2>1, CallbackLife DEF Callback, AttachVersion, AttachFidelity, At, CaptureInv,
                              RecorderInv, CallOK, life
  <2>2. CASE ~Callback
    BY <1>1, <2>2 DEF Next, CallAttach, Attach, CallFinish, Finish, Rewrite,
         StartTopLevelPass, BeforePass, vars, recorderVars, life
  <2> QED
    BY <2>1, <2>2
<1> QED
  BY <1>2, <1>3 DEF NothingNested

\* How the stacks change when the recorder is not the one to step.
Entered(t, frame) ==
  /\ Pushed(t, frame) /\ frame \in Frame /\ ~frame.bad /\ LockFree
  /\ \/ frame.kind = "pattern" /\ UNCHANGED <<call, pipelineParents>>
     \/ \E o \in Threads : \E i \in Depths(o) :
          StartPipeline(o, i, t) /\ frame = NewFrame("pipeline", o, stack[o][i].pass, "running")
     \/ /\ frame.kind = "pass" /\ ~Running(frame.pass)
        /\ \E text : BeforePass(t, frame.pass, text)

Left(t) ==
  /\ stack[t] # <<>> /\ Popped(t)
  /\ \/ \E failed \in BOOLEAN : ReturnFromPass(t, failed)
     \/ AbandonPipeline(t)
     \/ EndPipeline(t)
     \/ LeavePattern(t) /\ Top(t).kind = "pattern"

LEMMA StackSteps ==
  ASSUME CaptureInv, [Next]_vars
  PROVE  \/ UNCHANGED stack
         \/ \E t \in Threads, frame \in Frame : Entered(t, frame)
         \/ \E t \in Threads : Left(t)
         \/ /\ \E t \in Threads, phase \in {"running", "done"} : Rephased(t, phase)
            /\ LockFree /\ UNCHANGED <<call, pipelineParents>>
<1>1. ASSUME NEW t \in Threads, NEW p \in Passes, NEW text,
             BeforePass(t, p, text), ~Running(p),
             PushFrame(t, NewFrame("pass", t, p, EntryPhase))
      PROVE  \E frame \in Frame : Entered(t, frame)
  <2> DEFINE frame == NewFrame("pass", t, p, EntryPhase)
  <2>1. frame \in Frame /\ frame.kind = "pass" /\ frame.pass = p /\ ~frame.bad
    BY DEF NewFrame, Frame, EntryPhase
  <2>2. PushFrame(t, frame)
    BY <1>1
  <2> HIDE DEF frame
  <2>3. Pushed(t, frame) /\ LockFree
    BY <1>1, <2>1, <2>2, PushedFacts DEF BeforePass
  <2>4. \E x : BeforePass(t, frame.pass, x)
    BY <1>1, <2>1
  <2> QED
    BY <1>1, <2>1, <2>3, <2>4 DEF Entered
<1>2. ASSUME NEW p \in Passes, StartTopLevelPass(p)
      PROVE  \E t \in Threads, frame \in Frame : Entered(t, frame)
  <2>1. Main \in Threads
    BY CaptureAssumption DEF CaptureAssumption
  <2> QED
    BY <1>1, <1>2, <2>1 DEF StartTopLevelPass
<1>3. ASSUME NEW t \in Threads, PassManager(t)
      PROVE  \/ UNCHANGED stack
             \/ \E frame \in Frame : Entered(t, frame)
             \/ Left(t)
             \/ /\ \E phase \in {"running", "done"} : Rephased(t, phase)
                /\ LockFree /\ UNCHANGED <<call, pipelineParents>>
  <2>1. ASSUME NEW p \in Passes, StartNestedPass(t, p)
        PROVE  \E frame \in Frame : Entered(t, frame)
    <3>1. PICK text : BeforePass(t, p, text)
      BY <2>1 DEF StartNestedPass
    <3> QED
      BY <1>1, <2>1, <3>1 DEF StartNestedPass
  <2>2. ASSUME NEW o \in Threads, NEW i \in Depths(o), StartPipeline(o, i, t)
        PROVE  \E frame \in Frame : Entered(t, frame)
    <3>1. PICK p \in Passes : p = stack[o][i].pass
      BY FrameFacts
    <3> DEFINE frame == NewFrame("pipeline", o, p, "running")
    <3>2. PushFrame(t, frame) /\ LockFree
      BY <2>2, <3>1 DEF StartPipeline, BeforePipeline
    <3>3. frame \in Frame /\ ~frame.bad
      BY DEF NewFrame, Frame
    <3>4. frame = NewFrame("pipeline", o, stack[o][i].pass, "running")
      BY <3>1
    <3> HIDE DEF frame
    <3>5. Pushed(t, frame)
      BY <3>2, <3>3, PushedFacts
    <3> QED
      BY <2>2, <3>2, <3>3, <3>4, <3>5 DEF Entered
  <2>3. ASSUME NEW failed \in BOOLEAN, ReturnFromPass(t, failed) PROVE Left(t)
    BY <2>3, ReturnFacts DEF Left, ReturnFromPass, TopIs
  <2>4. CASE EndPipeline(t) \/ LeavePattern(t)
    <3>1. /\ stack[t] # <<>> /\ stack' = [stack EXCEPT ![t] = Pop(@)]
          /\ LeavePattern(t) => Top(t).kind = "pattern"
      BY <2>4 DEF EndPipeline, LeavePattern, TopIs
    <3>2. Popped(t)
      BY <3>1, PoppedFacts
    <3> QED
      BY <2>4, <3>1, <3>2 DEF Left
  <2>5. CASE AbandonPipeline(t)
    BY <2>5, AbandonFacts DEF Left, AbandonPipeline, TopIs
  <2>6. CASE EnterAction(t) \/ LeaveAction(t)
    <3>1. /\ stack[t] # <<>> /\ (SetTopPhase(t, "running") \/ SetTopPhase(t, "done"))
          /\ LockFree /\ UNCHANGED <<call, pipelineParents>>
      BY <2>6 DEF EnterAction, BeginAction, LeaveAction, EndAction, UnchangedExceptNames, TopIs
    <3> QED
      BY <3>1, RephasedFacts
  <2>7. CASE EnterPattern(t)
    <3> DEFINE frame == NewFrame("pattern", t, Top(t).pass, "running")
    <3>1. stack[t] # <<>> /\ PushFrame(t, frame) /\ LockFree /\ UNCHANGED <<call, pipelineParents>>
      BY <2>7 DEF EnterPattern, Rewriting, BeginPattern, UnchangedExceptNames
    <3>2. frame \in Frame /\ frame.kind = "pattern" /\ ~frame.bad
      BY <3>1, TopFacts DEF NewFrame, Frame
    <3> HIDE DEF frame
    <3>3. Pushed(t, frame)
      BY <3>1, <3>2, PushedFacts
    <3> QED
      BY <3>1, <3>2, <3>3 DEF Entered
  <2>8. CASE NotifyOperation(t)
    BY <2>8 DEF NotifyOperation, managerVars
  <2> QED
    BY <1>3, <2>1, <2>2, <2>3, <2>4, <2>5, <2>6, <2>7, <2>8 DEF PassManager
<1> QED
  BY <1>2, <1>3
     DEF Next, CallAttach, CallFinish, Callback, Rewrite, managerVars, vars

\* The frames that stay keep their kind, owner and pass.
LEMMA FramesKept ==
  ASSUME CaptureInv, [Next]_vars, NEW u \in Threads, NEW i \in Depths(u), i \in Depths(u)'
  PROVE  /\ stack'[u][i].kind = stack[u][i].kind /\ stack'[u][i].owner = stack[u][i].owner
         /\ stack'[u][i].pass = stack[u][i].pass
<1>1. stack[u][i] \in Frame
  BY StackFacts
<1>2. ASSUME NEW t \in Threads, NEW frame \in Frame, Entered(t, frame)
      PROVE  stack'[u][i] = stack[u][i]
  BY <1>2 DEF Entered, Pushed
<1>3. ASSUME NEW t \in Threads, Left(t)
      PROVE  SameFrame(stack'[u][i], stack[u][i])
  BY <1>3 DEF Left, Popped, Depths
<1>4. ASSUME NEW t \in Threads, NEW phase \in {"running", "done"}, Rephased(t, phase)
      PROVE  SameFrame(stack'[u][i], stack[u][i]) \/
             stack'[u][i] = [stack[u][i] EXCEPT !.phase = phase]
  BY <1>4 DEF Rephased, SameFrame
<1>5. ASSUME NEW phase, stack'[u][i] = [stack[u][i] EXCEPT !.phase = phase]
      PROVE  /\ stack'[u][i].kind = stack[u][i].kind /\ stack'[u][i].owner = stack[u][i].owner
             /\ stack'[u][i].pass = stack[u][i].pass
  BY <1>1, <1>5 DEF Frame
<1> QED
  BY <1>2, <1>3, <1>4, <1>5, StackSteps DEF SameFrame

LEMMA StillFollowing ==
  ASSUME CaptureInv, ManagerInv, EntriesInv, ErrorsInv, [Next]_vars, attached
  PROVE  Following' /\ Unmarked' => Following /\ Unmarked
<1> SUFFICES ASSUME Following', Unmarked' PROVE Following /\ Unmarked
  OBVIOUS
<1>1. CASE Callback
  <2>1. call.fn # "attach"
    BY DEF CaptureInv, RecorderInv, CallOK
  <2>2. UNCHANGED life /\ (Unlock \/ SameCall)
    BY <1>1, <2>1, CallbackLife, CallbackCall
       DEF Callback, AttachVersion, AttachFidelity, At, CaptureInv
  <2>3. ErrorsAgree
    <3>1. ~finished
      BY <1>1, CallbackCall DEF Callback, CaptureInv, ErrorsInv, LockFree
    <3> QED
      BY <1>1, <2>1, <3>1, CallbackErrors DEF Callback
  <2>4. firstError => firstError'
    BY <2>3 DEF ErrorsAgree
  <2>5. Following
    BY <2>2, <2>4, UnlockFacts DEF SameCall, Following, Recording, life
  <2>6. Unmarked
    BY <1>1, <2>1, MarkWritten DEF Unmarked, At
  <2> QED
    BY <2>5, <2>6
<1>2. ASSUME NEW t \in Threads, PassManager(t) PROVE Following /\ Unmarked
  <2>1. UNCHANGED life /\ UNCHANGED meta
    BY <1>2, ManagerLife, ManagerTable, NotifyTable
  <2>2. firstError => firstError'
    BY <1>2, ManagerErrors DEF ErrorsAgree
  <2>3. \/ UNCHANGED call
        \/ \E p, text : BeforePass(t, p, text)
        \/ \E p, failed, text : AfterPass(t, p, failed, text)
    BY <1>2, ManagerCall
  <2>4. call'.fn = "afterPass" => call.fn = "afterPass" \/ Recording
    BY <2>3 DEF BeforePass, AfterPass
  <2>5. Following
    BY <2>1, <2>2, <2>4 DEF Following, Recording, life
  <2> QED
    BY <2>1, <2>5 DEF Unmarked
<1>3. ASSUME NEW p \in Passes, StartTopLevelPass(p) PROVE Following /\ Unmarked
  <2>1. UNCHANGED <<meta, life, firstError>> /\ (UNCHANGED call \/ Recording)
    BY <1>3 DEF StartTopLevelPass, BeforePass, storageVars
  <2> QED
    BY <2>1 DEF Following, Recording, Unmarked, life
<1>4. CASE CallFinish
  BY <1>4 DEF CallFinish, Finish, Following, Recording, LockFree
<1>5. CASE UNCHANGED <<meta, life, firstError, call>>
  BY <1>5 DEF Following, Recording, Unmarked, life
<1> QED
  BY <1>1, <1>2, <1>3, <1>4, <1>5
     DEF Next, CallAttach, Attach, Rewrite, vars, storageVars, recorderVars, life

\* A callback that ends while a failed pass is being completed has forgotten it, or
\* stops the recording.
LEMMA CallbackEnds ==
  ASSUME CaptureInv, Callback, call.fn = "afterPass"
  PROVE  ForgetPass \/ RememberError \/ SameCall
<1>1. CASE AfterSnapshot \/ CompleteRow \/ CompleteRoot \/ MarkFailed
  <2>1. RememberError \/ \E step \in Steps : GoTo(step)
    BY <1>1 DEF AfterSnapshot, CompleteRow, CompleteRoot, MarkFailed, AfterEndStep, Steps
  <2> QED
    BY <2>1, GoToCall DEF CaptureInv
<1>2. CASE AfterIndex
  BY <1>2, IndexCall DEF AfterIndex, CaptureInv
<1> QED
  BY <1>1, <1>2 DEF Callback, RecorderStep, AttachCreate, AttachVersion, AttachProducer,
                    AttachFidelity, AttachStatement, At, BeforeSnapshot, CreateRoot, CreateRow,
                    BeforeIndex

\* A failed pass is forgotten only once that is in the trace.
CleanupMarked ==
  call.fn = "afterPass" /\ call.failed /\ call.step = "cleanup" => ~Unmarked \/ firstError

\* Until the trace is marked the only frame that knows of a failure is the one below
\* the pass whose afterPass is about to mark it.
BadFrames ==
  Following /\ Unmarked => \A t \in Threads : \A i \in Depths(t) :
    stack[t][i].bad => /\ call.fn = "afterPass" /\ call.thread = t /\ call.failed
                       /\ i = Len(stack[t])

LEMMA CleanupNext ==
  ASSUME CaptureInv, CaptureInv', ManagerInv, EntriesInv, CleanupMarked, [Next]_vars
  PROVE  CleanupMarked'
<1> SUFFICES ASSUME call'.fn = "afterPass", call'.failed, call'.step = "cleanup"
             PROVE  ~Unmarked' \/ firstError'
  BY DEF CleanupMarked
<1>1. CASE Callback
  <2>1. call.fn = "afterPass" /\ SameCall
    BY <1>1, CallbackCall, UnlockFacts DEF Callback, CaptureInv, SameCall
  <2>2. call.failed
    BY <2>1 DEF SameCall
  <2>3. CASE CompleteRow
    <3>1. GoTo("cleanup") \/ GoTo("status") \/ GoTo("rootEnd")
      BY <2>3 DEF CompleteRow, AfterEndStep
    <3>2. call'.step \in {"status", "rootEnd"} \/ firstError'
      <4>1. CASE RememberError
        BY <4>1 DEF RememberError
      <4>2. CASE UNCHANGED firstError /\ GoTo(AfterEndStep(firstError)) /\ ~firstError
        <5>1. GoTo("status") \/ GoTo("rootEnd")
          BY <2>2, <4>2 DEF AfterEndStep
        <5> QED
          BY <2>1, <5>1, GoToCall DEF Steps, CaptureInv
      <4>3. CASE UNCHANGED firstError /\ firstError
        BY <4>3
      <4> QED
        BY <2>3, <4>1, <4>2, <4>3 DEF CompleteRow
    <3> QED
      BY <3>2
  <2>4. CASE CompleteRoot
    <3>1. RememberError \/ GoTo("status")
      BY <2>2, <2>4 DEF CompleteRoot
    <3>2. GoTo("status") => call'.step = "status"
      BY <2>1, GoToCall DEF Steps, CaptureInv
    <3> QED
      BY <3>1, <3>2 DEF RememberError
  <2>5. CASE MarkFailed
    BY <2>5 DEF MarkFailed, RememberError, SetMeta, Unmarked
  <2>6. CASE AfterSnapshot
    <3>1. RememberError \/ GoTo("index") \/ GoTo("end")
      BY <2>6 DEF AfterSnapshot
    <3>2. GoTo("index") \/ GoTo("end") => call'.step \in {"index", "end"}
      BY <2>1, GoToCall DEF Steps, CaptureInv
    <3> QED
      BY <3>1, <3>2 DEF RememberError
  <2>7. CASE AfterIndex
    <3>1. call'.step \in {"index", "end"} \/ RememberError
      BY <2>1, <2>7, IndexCall DEF AfterIndex, At, CaptureInv
    <3> QED
      BY <3>1 DEF RememberError
  <2> QED
    BY <1>1, <2>1, <2>3, <2>4, <2>5, <2>6, <2>7, UnlockFacts
       DEF Callback, RecorderStep, AttachCreate, AttachVersion, AttachProducer,
                    AttachFidelity, AttachStatement, At, BeforeSnapshot, CreateRoot, CreateRow,
                    BeforeIndex, ForgetPass
<1>2. ASSUME NEW t \in Threads, PassManager(t) PROVE ~Unmarked' \/ firstError'
  <2>1. UNCHANGED meta
    BY <1>2, ManagerTable, NotifyTable
  <2>2. firstError => firstError'
    BY <1>2, ManagerErrors DEF ErrorsAgree
  <2>3. UNCHANGED call
    BY <1>2, ManagerCall DEF BeforePass, AfterPass, AfterEntryStep
  <2> QED
    BY <2>1, <2>2, <2>3 DEF CleanupMarked, Unmarked
<1>3. ASSUME NEW p \in Passes, StartTopLevelPass(p) PROVE ~Unmarked' \/ firstError'
  BY <1>3 DEF StartTopLevelPass, BeforePass, LockFree
<1>4. CASE CallFinish \/ CallAttach
  BY <1>4 DEF CallFinish, Finish, CallAttach, Attach, LockFree, NoCall
<1>5. CASE UNCHANGED <<meta, firstError, call>>
  BY <1>5 DEF CleanupMarked, Unmarked
<1> QED
  BY <1>1, <1>2, <1>3, <1>4, <1>5
     DEF Next, Rewrite, vars, storageVars, recorderVars

LEMMA UnmarkedNext ==
  ASSUME CaptureInv, [Next]_vars, ~attached => Unmarked
  PROVE  ~attached' => Unmarked'
<1> SUFFICES ASSUME ~attached' PROVE Unmarked'
  OBVIOUS
<1>1. CASE Callback
  <2>1. ~attached
    BY <1>1, CallbackLife DEF Callback, AttachVersion, AttachFidelity, At, CaptureInv,
                              RecorderInv, CallOK, life
  <2>2. ~MarkFailed
    BY <2>1 DEF MarkFailed, At, CaptureInv, RecorderInv, CallOK
  <2> QED
    BY <1>1, <2>1, <2>2, MarkWritten DEF Unmarked
<1>2. CASE ~Callback
  <2>1. UNCHANGED meta
    BY <1>2, MarkWritten
  <2>2. ASSUME NEW t \in Threads, PassManager(t) PROVE UNCHANGED attached
    BY <2>2, ManagerLife DEF life
  <2>3. UNCHANGED attached
    BY <1>2, <2>2 DEF Next, CallAttach, Attach, CallFinish, Finish, Rewrite,
         StartTopLevelPass, BeforePass, vars, recorderVars, life
  <2> QED
    BY <2>1, <2>3 DEF Unmarked
<1> QED
  BY <1>1, <1>2

LEMMA BadNext ==
  ASSUME CaptureInv, ManagerInv, EntriesInv, ErrorsInv, CleanupMarked, BadFrames, attached,
         [Next]_vars
  PROVE  BadFrames'
<1> SUFFICES ASSUME Following', Unmarked', NEW u \in Threads, NEW i \in Depths(u)',
                    stack'[u][i].bad
             PROVE  /\ call'.fn = "afterPass" /\ call'.thread = u /\ call'.failed
                    /\ i = Len(stack'[u])
  BY DEF BadFrames
<1>1. /\ Following /\ Unmarked
      /\ \A t \in Threads : \A d \in Depths(t) : stack[t][d].bad =>
           call.fn = "afterPass" /\ call.thread = t /\ call.failed /\ d = Len(stack[t])
  BY StillFollowing DEF BadFrames
<1>2. CASE UNCHANGED <<stack, call>>
  BY <1>1, <1>2 DEF Depths
<1>3. CASE Callback
  <2>1. UNCHANGED stack /\ i \in Depths(u) /\ stack[u][i].bad
    BY <1>3 DEF Callback, managerVars, Depths
  <2>2. call.fn = "afterPass" /\ call.thread = u /\ call.failed /\ i = Len(stack[u])
    BY <1>1, <2>1
  <2>3. ForgetPass \/ RememberError \/ SameCall
    BY <1>3, <2>2, CallbackEnds
  <2>4. ~ForgetPass
    <3>1. ForgetPass => call.step = "cleanup" /\ UNCHANGED firstError /\ Unlock
      BY DEF ForgetPass, At
    <3>2. ForgetPass => firstError
      BY <1>1, <2>2, <3>1 DEF CleanupMarked
    <3> QED
      BY <3>1, <3>2, UnlockFacts DEF Recording
  <2>5. SameCall
    <3>1. RememberError => call'.fn # "none"
      BY DEF RememberError, Following, Recording
    <3>2. Unlock \/ SameCall
      BY <1>3, CallbackCall DEF Callback, CaptureInv
    <3> QED
      BY <2>3, <2>4, <3>1, <3>2, UnlockFacts
  <2> QED
    BY <2>1, <2>2, <2>5 DEF SameCall
<1>4. ASSUME NEW t \in Threads, NEW frame \in Frame, Entered(t, frame) PROVE FALSE
  <2>1. LockFree /\ ~frame.bad /\ Pushed(t, frame)
    BY <1>4 DEF Entered
  <2>2. PICK n \in Nat : n = Len(stack[u]) /\ Depths(u) = 1 .. n
    BY StackFacts
  <2>3. PICK m \in Nat : m = Len(stack'[u]) /\ m = IF u = t THEN n + 1 ELSE n
    BY <2>1, <2>2 DEF Pushed
  <2>4. i \in 1 .. n \/ (u = t /\ i = n + 1)
    BY <2>3 DEF Depths
  <2>5. i \notin 1 .. n
    BY <1>1, <2>1, <2>2 DEF Pushed, LockFree
  <2> QED
    BY <2>1, <2>2, <2>4, <2>5 DEF Pushed
<1>5. ASSUME NEW t \in Threads, Left(t)
      PROVE  /\ call'.fn = "afterPass" /\ call'.thread = u /\ call'.failed
             /\ i = Len(stack'[u])
  <2>1. ~AbandonPipeline(t)
    <3>1. AbandonPipeline(t) => stack[t] # <<>> /\ Top(t).bad /\ Free(t)
      BY DEF AbandonPipeline, TopIs
    <3>2. stack[t] # <<>> => Len(stack[t]) \in Depths(t) /\ Top(t) = stack[t][Len(stack[t])]
      BY StackFacts
    <3> QED
      BY <1>1, <3>1, <3>2 DEF Free, LockFree
  <2>2. CASE EndPipeline(t) \/ LeavePattern(t)
    <3>1. LockFree /\ stack[t] # <<>> /\ stack' = [stack EXCEPT ![t] = Pop(@)]
      BY <2>2 DEF EndPipeline, LeavePattern, AfterPipeline, EndPattern, TopIs
    <3>2. i \in Depths(u) /\ stack'[u][i] = stack[u][i]
      <4>1. PICK n \in Nat : n = Len(stack[u]) /\ Depths(u) = 1 .. n
        BY StackFacts
      <4>2. Len(stack'[u]) = n - 1 \/ Len(stack'[u]) = n
        BY <3>1, <4>1, PoppedFacts DEF Popped
      <4>3. i \in 1 .. Len(stack'[u])
        BY DEF Depths
      <4>4. stack'[u][i] = stack[u][i]
        BY <3>1, <4>3, PoppedFacts
      <4> QED
        BY <4>1, <4>2, <4>3, <4>4
    <3> QED
      BY <1>1, <3>1, <3>2 DEF LockFree
  <2>3. ASSUME NEW failed \in BOOLEAN, ReturnFromPass(t, failed)
        PROVE  /\ call'.fn = "afterPass" /\ call'.thread = u /\ call'.failed
               /\ i = Len(stack'[u])
    <3>1. PICK p, text : AfterPass(t, p, failed, text)
      BY <2>3 DEF ReturnFromPass
    <3>2. LockFree /\ Popped(t) /\ stack[t] # <<>>
      BY <1>5, <3>1 DEF AfterPass, Left
    <3>3. i \in Depths(u)
      <4>1. PICK n \in Nat : n = Len(stack[u]) /\ Depths(u) = 1 .. n
        BY StackFacts
      <4>2. Len(stack'[u]) = n - 1 \/ Len(stack'[u]) = n
        BY <3>2, <4>1 DEF Popped
      <4> QED
        BY <4>1, <4>2 DEF Depths
    <3>4. failed /\ u = t /\ i = Len(stack'[t])
      BY <1>1, <2>3, <3>2, <3>3, ReturnFacts DEF LockFree, Depths
    <3>5. Recording
      BY <1>1, <3>2 DEF Following, LockFree
    <3>6. call'.fn = "afterPass"
      BY <2>3, <3>5, ReturnEntries
    <3>7. call'.thread = t /\ call'.failed = failed
      BY <3>1, <3>2, <3>6 DEF AfterPass, LockFree
    <3> QED
      BY <3>4, <3>6, <3>7
  <2> QED
    BY <1>5, <2>1, <2>2, <2>3 DEF Left
<1>6. ASSUME NEW t \in Threads, NEW phase, Rephased(t, phase), LockFree PROVE FALSE
  <2>1. i \in Depths(u)
    BY <1>6 DEF Rephased, Depths
  <2>2. stack[u][i] \in Frame
    BY <2>1, StackFacts
  <2>3. stack'[u][i] = stack[u][i] \/ stack'[u][i] = [stack[u][i] EXCEPT !.phase = phase]
    BY <1>6, <2>1 DEF Rephased
  <2>4. stack'[u][i].bad = stack[u][i].bad
    BY <2>2, <2>3 DEF Frame
  <2> QED
    BY <1>1, <1>6, <2>1, <2>4 DEF LockFree
<1>7. CASE UNCHANGED stack /\ LockFree
  <2>1. i \in Depths(u) /\ stack[u][i].bad
    BY <1>7 DEF Depths
  <2> QED
    BY <1>1, <1>7, <2>1 DEF LockFree
<1>8. UNCHANGED stack => LockFree \/ UNCHANGED <<stack, call>> \/ Callback
  <2>1. ASSUME NEW t \in Threads, PassManager(t), UNCHANGED stack
        PROVE  LockFree \/ UNCHANGED call
    BY <2>1, ManagerCall DEF BeforePass, AfterPass
  <2>2. ASSUME NEW p \in Passes, StartTopLevelPass(p) PROVE LockFree
    BY <2>2 DEF StartTopLevelPass
  <2> QED
    BY <2>1, <2>2 DEF Next, CallAttach, Attach, CallFinish, Finish, Rewrite, vars, recorderVars,
                      managerVars
<1> QED
  BY <1>2, <1>3, <1>4, <1>5, <1>6, <1>7, <1>8, StackSteps

PassParents ==
  Following /\ Unmarked => \A t \in Threads :
    /\ \A i \in Depths(t) : \A p \in Passes :
         IsPass(stack[t][i], p) /\ ~Starting(t, p)
           => activePasses[t][p].parent = EnclosingRow(t, i)
    /\ \A p \in Passes :
         Returning(t, p)
           => activePasses[t][p].parent = EnclosingRow(t, Len(stack[t]) + 1)

\* pipelineParents lists the passes that nest the pipelines of t, depth by depth.
PipesAt(t) == Lists(pipelineParents[t], PipelineDepths(t), PipelinePass(t))
PipelineParents == Following /\ Unmarked => \A t \in Threads : PipesAt(t)

\* The row that encloses a pass stays the same as long as the frame below it stays.
LEMMA EnclosingKept ==
  ASSUME CaptureInv, ManagerInv, EntriesInv, [Next]_vars, UNCHANGED rootPass,
         NEW t \in Threads, NEW i \in Nat \ {0},
         i = 1 \/ (i - 1 \in Depths(t) /\ i - 1 \in Depths(t)' /\ stack[t][i - 1].kind = "pipeline")
  PROVE  EnclosingRow(t, i)' = EnclosingRow(t, i)
<1>1. CASE i = 1
  BY <1>1 DEF EnclosingRow
<1>2. CASE i # 1
  <2>1. PICK d : d = i - 1 /\ d \in Depths(t) /\ d \in Depths(t)'
                  /\ stack[t][d].kind = "pipeline"
    BY <1>2
  <2>2. PICK o, p : o = stack[t][d].owner /\ p = stack[t][d].pass
    OBVIOUS
  <2>3. stack'[t][d].owner = o /\ stack'[t][d].pass = p
    BY <2>1, <2>2, FramesKept
  <2>4. activePasses'[o][p] = activePasses[o][p]
    BY <2>1, <2>2, OwnersKept
  <2>5. EnclosingRow(t, i) = activePasses[o][p].id
    BY <1>2, <2>1, <2>2 DEF EnclosingRow, RecordedId
  <2>6. EnclosingRow(t, i)' = activePasses'[o][p].id
    BY <1>2, <2>1, <2>3 DEF EnclosingRow, RecordedId
  <2> QED
    BY <2>4, <2>5, <2>6
<1> QED
  BY <1>1, <1>2

\* The frame below a pass is that of its pipeline.
LEMMA BelowPass ==
  ASSUME CaptureInv, ManagerInv, NEW t \in Threads, NEW i \in Depths(t),
         stack[t][i].kind = "pass"
  PROVE  /\ i \in Nat \ {0}
         /\ i = 1 \/ (i - 1 \in Depths(t) /\ stack[t][i - 1].kind = "pipeline")
<1>1. PICK n \in Nat : n = Len(stack[t]) /\ Depths(t) = 1 .. n
  BY StackFacts
<1>2. i \in 1 .. n /\ (i # 1 => i - 1 \in 1 .. n)
  BY <1>1
<1> QED
  BY <1>1, <1>2 DEF ManagerInv, FramesOK, PassFrameOK

\* Where beforePass records a pass: under the pass whose pipeline it is in.
LEMMA ParentIsEnclosingRow ==
  ASSUME CaptureInv, ManagerInv, EntriesInv, PipelineParents, Following, Unmarked, CreateRow,
         NEW t, NEW n, t = call.thread, n = Len(stack[t])
  PROVE  ParentFor(t) = EnclosingRow(t, n)
<1>0. t \in Threads /\ call.fn = "beforePass" /\ stack[t] # <<>> /\ n \in Depths(t)
  BY CreateRowFacts, StackFacts DEF CreateRow, At, ManagerInv, CallFollows
<1>1. PICK m \in Nat : m = n /\ Depths(t) = 1 .. m
  BY <1>0, StackFacts
<1>2. stack[t][m].kind = "pass" /\ m # 0 /\ IsPass(stack[t][m], call.pass)
  BY <1>0, <1>1, StackFacts DEF ManagerInv, CallFollows, IsPass
<1>3. Lists(pipelineParents[t], PipelineDepths(t), PipelinePass(t))
  BY <1>0 DEF PipelineParents, PipesAt
<1>4. PICK w : w = pipelineParents[t] /\ w \in Seq(Ids \union {NoId})
  BY <1>0 DEF CaptureInv, RecorderInv, RecorderTypeOK
<1>5. PICK D, v : D = PipelineDepths(t) /\ v = PipelinePass(t) /\ Lists(w, D, v)
  BY <1>3, <1>4
<1>6. PICK S : S = Ids \union {NoId}
  OBVIOUS
<1>7. w \in Seq(S) /\ Lists(w, D, v)
  BY <1>4, <1>5, <1>6
<1>8. m \notin PipelineDepths(t)
  BY <1>2 DEF PipelineDepths
<1>9. CASE m = 1
  <2>1. PipelineDepths(t) = {}
    <3>1. \A e \in PipelineDepths(t) : e \in 1 .. m /\ e # m
      BY <1>1, <1>8 DEF PipelineDepths
    <3> QED
      BY <1>9, <3>1
  <2>2. pipelineParents[t] = <<>>
    <3>1. Lists(w, {}, v)
      BY <1>5, <2>1
    <3>2. w = <<>>
      BY <1>4, <3>1, ListsEmpty
    <3> QED
      BY <1>4, <3>2
  <2> QED
    BY <1>1, <1>9, <2>2 DEF ParentFor, EnclosingRow
<1>10. CASE m # 1
  <2>0. m - 1 \in Depths(t) /\ stack[t][m - 1].kind = "pipeline" /\ m - 1 \in Nat
    <3>1. m \in Depths(t) /\ stack[t][m].kind = "pass" /\ m - 1 \in Nat
      BY <1>0, <1>1, <1>2
    <3> QED
      BY <1>0, <1>10, <3>1, BelowPass
  <2>1. PICK d \in Nat : d = m - 1 /\ d \in Depths(t) /\ stack[t][d].kind = "pipeline"
    BY <2>0
  <2>2. d \in PipelineDepths(t) /\ \A e \in PipelineDepths(t) : e <= d
    <3>1. \A e \in PipelineDepths(t) : e \in 1 .. m /\ e # m
      BY <1>1, <1>8 DEF PipelineDepths
    <3>2. \A e \in 1 .. m : e # m => e <= d
      BY <2>1
    <3>3. d \in PipelineDepths(t)
      BY <2>1 DEF PipelineDepths
    <3> QED
      BY <3>1, <3>2, <3>3
  <2>3. PICK o, p : o = stack[t][d].owner /\ p = stack[t][d].pass
    OBVIOUS
  <2>4. PipelinePass(t)[d] = activePasses[o][p].id
    BY <2>1, <2>3 DEF PipelinePass, RecordedId
  <2>5. IsFiniteSet(PipelineDepths(t)) /\ PipelineDepths(t) \subseteq Nat
    BY <1>0, KindDepths
  <2>6. pipelineParents[t] # <<>> /\ LastOf(pipelineParents[t]) = activePasses[o][p].id
    <3>1. d \in D /\ IsFiniteSet(D) /\ D \subseteq Nat /\ \A e \in D : e <= d
      BY <1>5, <2>2, <2>5
    <3>2. w # <<>> /\ LastOf(w) = v[d]
      BY <1>7, <3>1, ListsLast
    <3>3. v[d] = activePasses[o][p].id
      BY <1>5, <2>4
    <3> QED
      BY <1>4, <3>2, <3>3, Zenon
  <2>7. activePasses[o][p].id # NoId
    <3>1. o \in Threads /\ p \in Passes
      BY <1>0, <2>1, <2>3, FrameFacts DEF Frame
    <3>2. Inside(o, p)
      BY <1>0, <2>1, <2>3 DEF ManagerInv, FramesOK, PipelineFrameOK, Inside
    <3>3. HasPipelines(o, p)
      BY <1>0, <2>1, <2>3 DEF HasPipelines
    <3>4. ~Starting(o, p)
      BY <1>0, <3>3 DEF Starting, ManagerInv, CallFollows
    <3> QED
      BY <3>1, <3>2, <3>4 DEF EntriesInv, EntriesFollow, IsRecorded
  <2> QED
    BY <1>1, <1>10, <2>1, <2>3, <2>6, <2>7 DEF ParentFor, EnclosingRow, RecordedId
<1> QED
  BY <1>9, <1>10

\* The step of the recorder alone.
LEMMA CallbackParents ==
  ASSUME CaptureInv, ManagerInv, EntriesInv, ErrorsInv, PassParents, PipelineParents, attached,
         Callback, [Next]_vars
  PROVE  PassParents'
<1> SUFFICES ASSUME Following', Unmarked', NEW t \in Threads, NEW p \in Passes
             PROVE  /\ \A i \in Depths(t)' :
                         IsPass(stack'[t][i], p) /\ ~Starting(t, p)'
                           => activePasses'[t][p].parent = EnclosingRow(t, i)'
                    /\ Returning(t, p)'
                         => activePasses'[t][p].parent = EnclosingRow(t, Len(stack[t]) + 1)'
  BY DEF PassParents
<1>1. /\ Following /\ Unmarked /\ UNCHANGED stack
      /\ call.fn # "attach" /\ UNCHANGED life /\ (Unlock \/ SameCall) /\ call.fn # "none"
  <2>1. call.fn # "attach"
    BY DEF CaptureInv, RecorderInv, CallOK
  <2>2. UNCHANGED life /\ (Unlock \/ SameCall) /\ call.fn # "none"
    BY <2>1, CallbackLife, CallbackCall
       DEF Callback, AttachVersion, AttachFidelity, At, CaptureInv
  <2> QED
    BY <2>1, <2>2, StillFollowing DEF Callback, managerVars
<1>2. PICK n \in Nat : n = Len(stack[t]) /\ n = Len(stack'[t]) /\ Depths(t) = 1 .. n
                        /\ Depths(t)' = 1 .. n
  <2>1. Depths(t)' = Depths(t)
    BY <1>1 DEF Depths
  <2> QED
    BY <1>1, <2>1, StackFacts
<1>3. ASSUME NEW i \in 1 .. n, IsPass(stack[t][i], p), ~Starting(t, p)'
      PROVE  activePasses'[t][p].parent = EnclosingRow(t, i)'
  <2>1. i \in Nat \ {0} /\ (i = 1 \/ (i - 1 \in Depths(t) /\ stack[t][i - 1].kind = "pipeline"))
    BY <1>2, <1>3, BelowPass DEF IsPass
  <2>2. UNCHANGED rootPass => EnclosingRow(t, i)' = EnclosingRow(t, i)
    BY <1>2, <2>1, EnclosingKept
  <2>3. CASE Starting(t, p)
    <3>1. CreateRow /\ ~RememberError
      <4>1. call.fn = "beforePass" /\ call.step \in {"snapshot", "root", "row"}
        BY <2>3 DEF Starting
      <4>2. ~RememberError
        <5>1. call'.fn # "afterPass"
          BY <1>1, <4>1, UnlockFacts DEF SameCall
        <5> QED
          BY <5>1 DEF Following, Recording, RememberError
      <4>3. ~BeforeSnapshot /\ ~CreateRoot
        <5>1. BeforeSnapshot \/ CreateRoot => GoTo("root") \/ GoTo("row")
          BY <4>2 DEF BeforeSnapshot, CreateRoot, AfterSnapshotStep
        <5>2. GoTo("root") \/ GoTo("row") => Starting(t, p)'
          <6>1. GoTo("root") \/ GoTo("row") => SameCall /\ call'.step \in {"root", "row"}
            BY <4>1, GoToCall DEF Steps, CaptureInv
          <6> QED
            BY <2>3, <6>1 DEF SameCall, Starting
        <5> QED
          BY <1>3, <5>1, <5>2
      <4> QED
        BY <4>1, <4>2, <4>3
           DEF Callback, RecorderStep, AttachCreate, AttachVersion, AttachProducer,
               AttachFidelity, AttachStatement, At, BeforeIndex, AfterSnapshot, AfterIndex,
               CompleteRow, CompleteRoot, MarkFailed, ForgetPass
    <3>2. t = call.thread /\ p = call.pass
      BY <2>3 DEF Starting
    <3>3. /\ activePasses'[t][p].parent = ParentFor(t) /\ UNCHANGED root
      <4>1. UNCHANGED root
        BY <3>1, <3>2, CreateRowFacts
      <4>2. \A u \in Threads, q \in Passes :
               activePasses'[u][q] =
                 IF u = t /\ q = p
                 THEN [id |-> NextRowId, parent |-> ParentFor(t), before |-> call.text]
                 ELSE activePasses[u][q]
        BY <3>1, <3>2, CreateRowFacts
      <4>3. activePasses'[t][p]
              = [id |-> NextRowId, parent |-> ParentFor(t), before |-> call.text]
        BY <4>2
      <4> QED
        BY <4>1, <4>3
    <3>4. ParentFor(t) = EnclosingRow(t, n)
      BY <1>1, <1>2, <3>1, <3>2, ParentIsEnclosingRow
    <3>5. i = n
      <4>1. n \in 1 .. n /\ IsPass(stack[t][n], p)
        BY <1>2, <2>3, StackFacts DEF Starting, ManagerInv, CallFollows
      <4> QED
        BY <1>2, <1>3, <4>1 DEF ManagerInv, RunOnce, IsPass
    <3> QED
      BY <2>2, <3>3, <3>4, <3>5 DEF root
  <2>4. CASE ~Starting(t, p)
    <3>1. activePasses[t][p].parent = EnclosingRow(t, i)
      BY <1>1, <1>2, <1>3, <2>4 DEF PassParents
    <3>2. Inside(t, p) /\ activePasses[t][p].id # NoId
      BY <1>1, <1>2, <1>3, <2>4 DEF Inside, EntriesInv, EntriesFollow, IsRecorded
    <3>3. UNCHANGED rootPass
      <4>1. CreateRoot => passExecution = <<>>
        BY DEF CreateRoot, At, CaptureInv, RecorderInv, CallOK, IdsOK, NoId
      <4>2. passExecution # <<>>
        BY <3>2, EntryFacts
      <4> QED
        BY <4>1, <4>2, NestingWritten
    <3>4. activePasses'[t][p] = activePasses[t][p]
      <4>1. CASE CreateRow
        <5>1. PICK u, q : u = call.thread /\ q = call.pass
          OBVIOUS
        <5>2. Starting(u, q)
          BY <4>1, <5>1, CreateRowFacts
        <5>3. ~(t = u /\ p = q)
          BY <2>4, <5>2
        <5>4. \/ UNCHANGED activePasses
              \/ \A v \in Threads, r \in Passes :
                   activePasses'[v][r] =
                     IF v = u /\ r = q
                     THEN [id |-> NextRowId, parent |-> ParentFor(u), before |-> call.text]
                     ELSE activePasses[v][r]
          BY <4>1, <5>1, CreateRowFacts
        <5> QED
          BY <5>3, <5>4
      <4>2. CASE ForgetPass
        <5>1. p # call.pass
          BY <1>2, <1>3, <4>2 DEF ForgetPass, At, ManagerInv, CallFollows, Running, IsPass
        <5> QED
          BY <4>2, <5>1, ForgetFacts
      <4> QED
        BY <4>1, <4>2, NestingWritten
    <3> QED
      BY <2>2, <3>1, <3>3, <3>4
  <2> QED
    BY <2>3, <2>4
<1>4. ASSUME Returning(t, p)'
      PROVE  activePasses'[t][p].parent = EnclosingRow(t, n + 1)'
  <2>1. SameCall
    BY <1>1, <1>4, UnlockFacts DEF Returning
  <2>2. Returning(t, p) /\ call.fn = "afterPass"
    BY <1>4, <2>1 DEF SameCall, Returning
  <2>3. UNCHANGED <<activePasses, rootPass>>
    <3>1. ~CreateRow /\ ~CreateRoot
      BY <2>2 DEF CreateRow, CreateRoot, At
    <3>2. ~ForgetPass
      BY <2>1, UnlockFacts DEF ForgetPass, SameCall
    <3> QED
      BY <3>1, <3>2, NestingWritten
  <2>4. activePasses[t][p].parent = EnclosingRow(t, n + 1)
    BY <1>1, <1>2, <2>2 DEF PassParents
  <2>5. n + 1 = 1 \/ (n + 1 - 1 \in Depths(t) /\ stack[t][n + 1 - 1].kind = "pipeline")
    <3>1. n = 0 \/ (n \in Depths(t) /\ stack[t][n].kind = "pipeline")
      BY <1>2, <2>2, StackFacts DEF Returning, ManagerInv, CallFollows
    <3>2. n + 1 - 1 = n
      OBVIOUS
    <3> QED
      BY <3>1, <3>2
  <2>6. EnclosingRow(t, n + 1)' = EnclosingRow(t, n + 1)
    BY <1>2, <2>3, <2>5, EnclosingKept
  <2> QED
    BY <2>3, <2>4, <2>6
<1> QED
  BY <1>1, <1>2, <1>3, <1>4

\* While a callback runs the pass manager starts and ends nothing, unless it
\* abandons a pipeline.
LEMMA HeldManager ==
  ASSUME CaptureInv, ManagerInv, BadFrames, Following, Unmarked, [Next]_vars, ~Callback
  PROVE  /\ UNCHANGED <<activePasses, rootPass>>
         /\ ~LockFree => UNCHANGED <<stack, call>>
         /\ \A t \in Threads : ~AbandonPipeline(t)
<1>1. UNCHANGED <<activePasses, rootPass>>
  <2>1. (CreateRow \/ ForgetPass \/ CreateRoot) /\ UNCHANGED managerVars => Callback
    BY DEF Callback, RecorderStep
  <2> QED
    BY <2>1, NestingWritten
<1>2. ASSUME NEW t \in Threads PROVE ~AbandonPipeline(t)
  <2>1. AbandonPipeline(t) => stack[t] # <<>> /\ Top(t).bad /\ Free(t)
    BY DEF AbandonPipeline, TopIs
  <2>2. stack[t] # <<>> => Len(stack[t]) \in Depths(t) /\ Top(t) = stack[t][Len(stack[t])]
    BY StackFacts
  <2> QED
    BY <2>1, <2>2 DEF Free, LockFree, BadFrames
<1>3. ASSUME ~LockFree PROVE UNCHANGED stack
  <2>1. ASSUME NEW t \in Threads, Left(t) PROVE FALSE
    BY <1>2, <1>3, <2>1 DEF Left, ReturnFromPass, AfterPass, EndPipeline, AfterPipeline,
                            LeavePattern, EndPattern
  <2> QED
    BY <1>3, <2>1, StackSteps DEF Entered
<1>4. ASSUME ~LockFree PROVE UNCHANGED call
  <2>1. ASSUME NEW t \in Threads, PassManager(t) PROVE UNCHANGED call
    BY <1>4, <2>1, ManagerCall DEF BeforePass, AfterPass
  <2> QED
    BY <1>4, <2>1 DEF Next, CallAttach, Attach, CallFinish, Finish, Rewrite, vars, recorderVars,
                      StartTopLevelPass, BeforePass
<1> QED
  BY <1>1, <1>2, <1>3, <1>4

\* The steps of the pass manager.
LEMMA ManagerParents ==
  ASSUME CaptureInv, ManagerInv, EntriesInv, ErrorsInv, PassParents, BadFrames, attached,
         [Next]_vars, ~Callback
  PROVE  PassParents'
<1> SUFFICES ASSUME Following', Unmarked', NEW t \in Threads, NEW p \in Passes
             PROVE  /\ \A i \in Depths(t)' :
                         IsPass(stack'[t][i], p) /\ ~Starting(t, p)'
                           => activePasses'[t][p].parent = EnclosingRow(t, i)'
                    /\ Returning(t, p)'
                         => activePasses'[t][p].parent = EnclosingRow(t, Len(stack[t]) + 1)'
  BY DEF PassParents
<1>1. Following /\ Unmarked
  BY StillFollowing
<1>2. /\ UNCHANGED <<activePasses, rootPass>>
      /\ ~LockFree => UNCHANGED <<stack, call>>
      /\ \A u \in Threads : ~AbandonPipeline(u)
  BY <1>1, HeldManager
<1>3. PICK n \in Nat : n = Len(stack[t]) /\ Depths(t) = 1 .. n
  BY StackFacts
<1>4. PICK m : m = Len(stack'[t]) /\ Depths(t)' = 1 .. m
  BY DEF Depths
<1>5. ASSUME NEW u \in Threads, Left(u) PROVE m \in {n, n - 1} /\ (m = n - 1 => n # 0)
  BY <1>3, <1>4, <1>5, StackFacts DEF Left, Popped
<1>6. ASSUME NEW u \in Threads, NEW frame \in Frame, Entered(u, frame)
       PROVE  m = (IF u = t THEN n + 1 ELSE n) /\ stack'[u][Len(stack[u]) + 1] = frame
  BY <1>3, <1>4, <1>6 DEF Entered, Pushed
<1>7. UNCHANGED stack \/ (\E u \in Threads, phase \in {"running", "done"} : Rephased(u, phase))
         => m = n
  BY <1>3, <1>4 DEF Rephased
<1>8. m \in Nat /\ m <= n + 1
  <2>1. m \in {n, n + 1, n - 1} /\ (m = n - 1 => n # 0)
    BY <1>3, <1>5, <1>6, <1>7, StackSteps
  <2> QED
    BY <1>3, <2>1
<1>9. ASSUME NEW i \in 1 .. n, i <= m + 1, IsPass(stack[t][i], p)
      PROVE  EnclosingRow(t, i)' = EnclosingRow(t, i)
  <2>1. i \in Nat \ {0} /\ (i = 1 \/ (i - 1 \in Depths(t) /\ stack[t][i - 1].kind = "pipeline"))
    BY <1>3, <1>9, BelowPass DEF IsPass
  <2>2. i = 1 \/ i - 1 \in Depths(t)'
    BY <1>4, <1>8, <1>9
  <2> QED
    BY <1>2, <2>1, <2>2, EnclosingKept
<1>10. ASSUME NEW i \in 1 .. m, IsPass(stack'[t][i], p), ~Starting(t, p)'
      PROVE  activePasses'[t][p].parent = EnclosingRow(t, i)'
  <2>1. CASE i \in 1 .. n
    <3>1. IsPass(stack[t][i], p)
      BY <1>3, <1>4, <1>10, <2>1, FramesKept DEF IsPass
    <3>2. ~Starting(t, p)
      BY <1>2, <1>10 DEF Starting, LockFree
    <3>3. activePasses[t][p].parent = EnclosingRow(t, i)
      BY <1>1, <1>3, <2>1, <3>1, <3>2 DEF PassParents
    <3>4. EnclosingRow(t, i)' = EnclosingRow(t, i)
      BY <1>8, <1>9, <2>1, <3>1
    <3> QED
      BY <1>2, <3>3, <3>4
  <2>2. CASE i \notin 1 .. n
    <3>1. i = n + 1 /\ m = n + 1
      BY <1>8, <1>10, <2>2
    <3>2. PICK u \in Threads : \E frame \in Frame : Entered(u, frame)
      <4>1. m # n /\ m \notin {n, n - 1}
        BY <1>3, <3>1
      <4> QED
        BY <1>5, <1>7, <4>1, StackSteps
    <3>9. PICK frame \in Frame : Entered(u, frame)
      BY <3>2
    <3>3. u = t /\ stack'[t][i] = frame
      <4>1. m = (IF u = t THEN n + 1 ELSE n) /\ stack'[u][Len(stack[u]) + 1] = frame
        BY <1>6, <3>9
      <4>2. n + 1 # n
        BY <1>3
      <4> QED
        BY <1>3, <3>1, <4>1, <4>2
    <3>4. PICK text : BeforePass(t, p, text)
      BY <1>10, <3>3, <3>9 DEF Entered, IsPass, NewFrame
    <3>5. Recording
      BY <1>1, <3>4 DEF BeforePass, Following, LockFree
    <3>6. Starting(t, p)'
      BY <3>4, <3>5 DEF BeforePass, Starting, AfterSnapshotStep
    <3> QED
      BY <1>10, <3>6
  <2> QED
    BY <2>1, <2>2
<1>11. ASSUME Returning(t, p)'
      PROVE  activePasses'[t][p].parent = EnclosingRow(t, m + 1)'
  <2>1. CASE UNCHANGED call
    <3>1. Returning(t, p) /\ ~LockFree
      BY <1>11, <2>1 DEF Returning, LockFree
    <3>2. UNCHANGED stack /\ m = n
      BY <1>2, <1>3, <1>4, <3>1
    <3>3. activePasses[t][p].parent = EnclosingRow(t, n + 1)
      BY <1>1, <1>3, <3>1 DEF PassParents
    <3>4. n = 0 \/ (n \in Depths(t) /\ n \in Depths(t)' /\ stack[t][n].kind = "pipeline")
      BY <1>3, <1>4, <3>1, <3>2, StackFacts DEF Returning, ManagerInv, CallFollows
    <3>5. n + 1 - 1 = n /\ n + 1 \in Nat \ {0}
      BY <1>3
    <3>6. n + 1 = 1 \/ (n + 1 - 1 \in Depths(t) /\ n + 1 - 1 \in Depths(t)'
                        /\ stack[t][n + 1 - 1].kind = "pipeline")
      BY <3>4, <3>5
    <3>7. EnclosingRow(t, n + 1)' = EnclosingRow(t, n + 1)
      BY <1>2, <3>5, <3>6, EnclosingKept
    <3> QED
      BY <1>2, <3>2, <3>3, <3>7
  <2>2. CASE ~UNCHANGED call
    <3>1. PICK u \in Threads, failed \in BOOLEAN : ReturnFromPass(u, failed)
      <4>1. ASSUME NEW u \in Threads, PassManager(u)
            PROVE  \E failed \in BOOLEAN : ReturnFromPass(u, failed)
        <5>1. ASSUME NEW q \in Passes, StartNestedPass(u, q) PROVE FALSE
          <6>1. call'.fn = "beforePass"
            BY <2>2, <5>1 DEF StartNestedPass, BeforePass
          <6> QED
            BY <1>11, <6>1 DEF Returning
        <5>2. ASSUME NEW o \in Threads, NEW j \in Depths(o), StartPipeline(o, j, u)
              PROVE  UNCHANGED call
          BY <5>2 DEF StartPipeline, BeforePipeline
        <5>3. NotifyOperation(u) => UNCHANGED call
          BY NotifyTable
        <5> QED
          BY <2>2, <4>1, <5>1, <5>2, <5>3
             DEF PassManager, EndPipeline, AfterPipeline, AbandonPipeline, EnterAction,
                 BeginAction, LeaveAction, EndAction, EnterPattern, BeginPattern, LeavePattern,
                 EndPattern, UnchangedExceptNames, recorderVars
      <4>2. ASSUME NEW q \in Passes, StartTopLevelPass(q) PROVE FALSE
        <5>1. call'.fn = "beforePass"
          BY <2>2, <4>2 DEF StartTopLevelPass, BeforePass
        <5> QED
          BY <1>11, <5>1 DEF Returning
      <4>3. CASE CallAttach
        BY <1>11, <4>3 DEF CallAttach, Attach, NoCall, Returning
      <4> QED
        BY <2>2, <4>1, <4>2, <4>3
           DEF Next, CallFinish, Finish, Rewrite, vars, recorderVars
    <3>2. PICK q, text : q = Top(u).pass /\ AfterPass(u, q, failed, text)
      BY <3>1 DEF ReturnFromPass
    <3>3. u = t /\ q = p
      BY <1>11, <2>2, <3>2 DEF AfterPass, Returning
    <3>4. stack[t] # <<>> /\ Popped(t) /\ Top(t).kind = "pass"
      BY <3>1, <3>3, ReturnFacts DEF ReturnFromPass, TopIs
    <3>5. n \in 1 .. n /\ m + 1 = n /\ IsPass(stack[t][n], p)
      <4>1. n # 0 /\ Top(t) = stack[t][n]
        BY <1>3, <3>4, StackFacts
      <4>2. m = n - 1
        BY <1>3, <1>4, <3>4 DEF Popped
      <4> QED
        BY <1>3, <3>2, <3>3, <3>4, <4>1, <4>2 DEF IsPass
    <3>6. ~Starting(t, p)
      BY <3>2 DEF AfterPass, LockFree, Starting
    <3>7. activePasses[t][p].parent = EnclosingRow(t, n)
      BY <1>1, <1>3, <3>5, <3>6 DEF PassParents
    <3>8. EnclosingRow(t, n)' = EnclosingRow(t, n)
      BY <1>8, <1>9, <3>5
    <3> QED
      BY <1>2, <3>5, <3>7, <3>8
  <2> QED
    BY <2>1, <2>2
<1> QED
  BY <1>4, <1>10, <1>11

\* A thread's stack of parents after a step that pushes or pops no pipeline there.
LEMMA PipesStill ==
  ASSUME CaptureInv, ManagerInv, EntriesInv, [Next]_vars, NEW u \in Threads, PipesAt(u),
         pipelineParents'[u] = pipelineParents[u], PipelineDepths(u)' = PipelineDepths(u)
  PROVE  PipesAt(u)'
<1>1. ASSUME NEW i \in PipelineDepths(u)
      PROVE  PipelinePass(u)'[i] = PipelinePass(u)[i]
  <2>1. i \in Depths(u) /\ i \in Depths(u)' /\ stack[u][i].kind = "pipeline"
    <3>1. i \in PipelineDepths(u)'
      OBVIOUS
    <3> QED
      BY <3>1 DEF PipelineDepths
  <2>2. PICK o, p : o = stack[u][i].owner /\ p = stack[u][i].pass
    OBVIOUS
  <2>3. stack'[u][i].owner = o /\ stack'[u][i].pass = p
    BY <2>1, <2>2, FramesKept
  <2>4. activePasses'[o][p] = activePasses[o][p]
    BY <2>1, <2>2, OwnersKept
  <2>5. PipelinePass(u)[i] = activePasses[o][p].id
    BY <2>1, <2>2 DEF PipelinePass, RecordedId
  <2>6. PipelinePass(u)'[i] = activePasses'[o][p].id
    BY <2>1, <2>3 DEF PipelinePass, RecordedId
  <2> QED
    BY <2>4, <2>5, <2>6
<1>2. PICK w, D, v, x : /\ w = pipelineParents[u] /\ D = PipelineDepths(u)
                        /\ v = PipelinePass(u) /\ x = PipelinePass(u)'
  OBVIOUS
<1>3. Lists(w, D, v) /\ \A d \in D : x[d] = v[d]
  BY <1>1, <1>2 DEF PipesAt
<1>4. Lists(w, D, x)
  BY <1>3, ListsSame
<1> QED
  BY <1>2, <1>4 DEF PipesAt, Lists

LEMMA StartPipes ==
  ASSUME CaptureInv, ManagerInv, EntriesInv, [Next]_vars, Following, NEW t \in Threads,
         NEW o \in Threads, NEW i \in Depths(o), StartPipeline(o, i, t), PipesAt(t)
  PROVE  PipesAt(t)'
<1>1. PICK p \in Passes : p = stack[o][i].pass
  BY FrameFacts
<1> DEFINE frame == NewFrame("pipeline", o, p, "running")
<1>2. PushFrame(t, frame) /\ BeforePipeline(t, o, p)
  BY <1>1 DEF StartPipeline
<1>3. frame \in Frame /\ frame.kind = "pipeline" /\ frame.owner = o /\ frame.pass = p
  BY DEF NewFrame, Frame
<1> HIDE DEF frame
<1>4. Pushed(t, frame)
  BY <1>2, <1>3, PushedFacts
<1>5. PICK n \in Nat : n = Len(stack[t]) /\ Depths(t) = 1 .. n
  BY StackFacts
<1>6. PICK x : x = activePasses[o][p].id
  OBVIOUS
<1>7. x \in Ids \union {NoId}
  BY <1>6, EntryFacts DEF CaptureInv, RecorderInv, RecorderTypeOK, ActivePass
<1>8. pipelineParents'[t] = Push(pipelineParents[t], x) /\ UNCHANGED activePasses
  <2>1. pipelineParents \in [Threads -> Seq(Ids \union {NoId})]
    BY DEF CaptureInv, RecorderInv, RecorderTypeOK
  <2>2. Recording
    BY <1>2 DEF BeforePipeline, Following, LockFree
  <2>3. UNCHANGED activePasses /\ pipelineParents' = [pipelineParents EXCEPT ![t] = Push(@, x)]
    BY <1>2, <1>6, <2>2 DEF BeforePipeline, Recording
  <2> QED
    BY <2>1, <2>3
<1>9. Depths(t)' = 1 .. (n + 1) /\ stack'[t][n + 1] = frame
      /\ \A j \in 1 .. n : stack'[t][j] = stack[t][j]
  BY <1>4, <1>5 DEF Pushed, Depths
<1>10. PICK w, D, v, y : /\ w = pipelineParents[t] /\ D = PipelineDepths(t)
                         /\ v = PipelinePass(t) /\ y = PipelinePass(t)'
  OBVIOUS
<1>11. PipelineDepths(t)' = D \union {n + 1}
  <2>1. \A j : j \in PipelineDepths(t)' <=>
                 j \in 1 .. (n + 1) /\ stack'[t][j].kind = "pipeline"
    BY <1>9 DEF PipelineDepths
  <2>2. \A j : j \in D <=> j \in 1 .. n /\ stack[t][j].kind = "pipeline"
    BY <1>5, <1>10 DEF PipelineDepths
  <2>3. \A j : j \in 1 .. (n + 1) <=> j \in 1 .. n \/ j = n + 1
    OBVIOUS
  <2>4. \A j : j \in PipelineDepths(t)' <=> j \in D \union {n + 1}
    BY <1>3, <1>9, <2>1, <2>2, <2>3
  <2> QED
    BY <2>4, Zenon
<1>12. y[n + 1] = x /\ \A d \in D : y[d] = v[d]
  <2>1. y[n + 1] = x
    <3>1. n + 1 \in Depths(t)'
      BY <1>9
    <3>2. y[n + 1] = activePasses'[stack'[t][n + 1].owner][stack'[t][n + 1].pass].id
      BY <1>10, <3>1 DEF PipelinePass, RecordedId
    <3> QED
      BY <1>3, <1>6, <1>8, <1>9, <3>2
  <2>2. ASSUME NEW d \in D PROVE y[d] = v[d]
    <3>1. d \in Depths(t) /\ d \in Depths(t)' /\ d \in 1 .. n
      BY <1>5, <1>9, <1>10, <2>2 DEF PipelineDepths
    <3>2. y[d] = activePasses'[stack'[t][d].owner][stack'[t][d].pass].id
      BY <1>10, <3>1 DEF PipelinePass, RecordedId
    <3>3. v[d] = activePasses[stack[t][d].owner][stack[t][d].pass].id
      BY <1>10, <3>1 DEF PipelinePass, RecordedId
    <3> QED
      BY <1>8, <1>9, <3>1, <3>2, <3>3
  <2> QED
    BY <2>1, <2>2
<1>13. IsFiniteSet(D) /\ D \subseteq Nat /\ (\A e \in D : e < n + 1) /\ n + 1 \in Nat
  <2>1. D \subseteq 1 .. n
    BY <1>5, <1>10, KindDepths
  <2> QED
    BY <1>10, <2>1, KindDepths
<1>14. PICK S : S = Ids \union {NoId}
  OBVIOUS
<1>15. w \in Seq(S) /\ x \in S /\ Lists(w, D, v)
  BY <1>7, <1>10, <1>14 DEF CaptureInv, RecorderInv, RecorderTypeOK, PipesAt
<1>16. Lists(Push(w, x), D \union {n + 1}, y)
  BY <1>12, <1>13, <1>15, ListsAdd
<1>17. pipelineParents'[t] = Push(w, x)
  BY <1>8, <1>10
<1> QED
  BY <1>10, <1>11, <1>16, <1>17 DEF PipesAt, Lists

LEMMA EndPipes ==
  ASSUME CaptureInv, ManagerInv, EntriesInv, [Next]_vars, NEW t \in Threads,
         EndPipeline(t), PipesAt(t)
  PROVE  PipesAt(t)'
<1>1. PICK n \in Nat : n = Len(stack[t]) /\ Depths(t) = 1 .. n
  BY StackFacts
<1>2. /\ stack[t] # <<>> /\ n \in 1 .. n /\ stack[t][n].kind = "pipeline"
      /\ UNCHANGED activePasses
      /\ pipelineParents' = [pipelineParents EXCEPT ![t] = Pop(@)]
      /\ stack' = [stack EXCEPT ![t] = Pop(@)]
  <2>1. stack[t] # <<>> /\ Top(t).kind = "pipeline"
    BY DEF EndPipeline, TopIs
  <2>2. n \in 1 .. n /\ Top(t) = stack[t][n]
    BY <1>1, <2>1, StackFacts
  <2> QED
    BY <2>1, <2>2 DEF EndPipeline, AfterPipeline
<1>3. PICK w, D, v, y : /\ w = pipelineParents[t] /\ D = PipelineDepths(t)
                        /\ v = PipelinePass(t) /\ y = PipelinePass(t)'
  OBVIOUS
<1>4. pipelineParents'[t] = Pop(w)
  <2>1. pipelineParents \in [Threads -> Seq(Ids \union {NoId})]
    BY DEF CaptureInv, RecorderInv, RecorderTypeOK
  <2> QED
    BY <1>2, <1>3, <2>1
<1>5. Depths(t)' = 1 .. (n - 1) /\ \A j \in 1 .. (n - 1) : stack'[t][j] = stack[t][j]
  <2>1. Popped(t) /\ \A j \in 1 .. Len(stack'[t]) : stack'[t][j] = stack[t][j]
    BY <1>2, PoppedFacts
  <2>2. Len(stack'[t]) = n - 1
    BY <1>1, <2>1 DEF Popped
  <2> QED
    BY <2>1, <2>2 DEF Depths
<1>6. PipelineDepths(t)' = D \ {n}
  <2>1. \A j : j \in PipelineDepths(t)' <=>
                 j \in 1 .. (n - 1) /\ stack'[t][j].kind = "pipeline"
    BY <1>5 DEF PipelineDepths
  <2>2. \A j : j \in D <=> j \in 1 .. n /\ stack[t][j].kind = "pipeline"
    BY <1>1, <1>3 DEF PipelineDepths
  <2>3. \A j : j \in 1 .. (n - 1) <=> j \in 1 .. n /\ j # n
    OBVIOUS
  <2>4. \A j : j \in PipelineDepths(t)' <=> j \in D \ {n}
    BY <1>5, <2>1, <2>2, <2>3
  <2> QED
    BY <2>4, Zenon
<1>7. ASSUME NEW d \in D \ {n} PROVE y[d] = v[d]
  <2>1. d \in Depths(t) /\ d \in Depths(t)' /\ d \in 1 .. (n - 1)
    BY <1>1, <1>3, <1>5, <1>7 DEF PipelineDepths
  <2>2. y[d] = activePasses'[stack'[t][d].owner][stack'[t][d].pass].id
    BY <1>3, <2>1 DEF PipelinePass, RecordedId
  <2>3. v[d] = activePasses[stack[t][d].owner][stack[t][d].pass].id
    BY <1>3, <2>1 DEF PipelinePass, RecordedId
  <2> QED
    BY <1>2, <1>5, <2>1, <2>2, <2>3
<1>8. n \in D /\ IsFiniteSet(D) /\ D \subseteq Nat /\ \A e \in D : e <= n
  <2>1. D \subseteq 1 .. n
    BY <1>1, <1>3, KindDepths
  <2>2. n \in D
    BY <1>1, <1>2, <1>3 DEF PipelineDepths
  <2> QED
    BY <1>3, <2>1, <2>2, KindDepths
<1>9. PICK S : S = Ids \union {NoId}
  OBVIOUS
<1>10. w \in Seq(S) /\ Lists(w, D, v)
  BY <1>3, <1>9 DEF CaptureInv, RecorderInv, RecorderTypeOK, PipesAt
<1>11. Lists(Pop(w), D \ {n}, y)
  BY <1>7, <1>8, <1>10, ListsDrop
<1> QED
  BY <1>3, <1>4, <1>6, <1>11 DEF PipesAt, Lists

\* The pipelines a thread is in change with pipelineParents alone.
LEMMA PipelineSteps ==
  ASSUME CaptureInv, [Next]_vars, \A t \in Threads : ~AbandonPipeline(t)
  PROVE  \/ /\ UNCHANGED pipelineParents
            /\ \A u \in Threads : PipelineDepths(u)' = PipelineDepths(u)
         \/ \E t \in Threads :
              /\ EndPipeline(t) \/ \E o \in Threads : \E i \in Depths(o) : StartPipeline(o, i, t)
              /\ \A u \in Threads \ {t} : /\ pipelineParents'[u] = pipelineParents[u]
                                          /\ PipelineDepths(u)' = PipelineDepths(u)
<1>1. ASSUME NEW u \in Threads, NEW m, m = Len(stack'[u])
      PROVE  \A j : j \in PipelineDepths(u)' <=>
                      j \in 1 .. m /\ stack'[u][j].kind = "pipeline"
  BY <1>1 DEF PipelineDepths, Depths
<1>2. ASSUME NEW u \in Threads, Len(stack'[u]) = Len(stack[u])
      PROVE  PipelineDepths(u)' = PipelineDepths(u)
  <2>1. Depths(u)' = Depths(u)
    BY <1>2 DEF Depths
  <2>2. \A j \in Depths(u) : stack'[u][j].kind = stack[u][j].kind
    BY <2>1, FramesKept
  <2>3. \A j : j \in PipelineDepths(u)' <=> j \in PipelineDepths(u)
    BY <2>1, <2>2 DEF PipelineDepths
  <2> QED
    BY <2>3, Zenon
<1>3. ASSUME NEW t \in Threads, NEW frame \in Frame, Entered(t, frame)
      PROVE  /\ \A u \in Threads \ {t} : Len(stack'[u]) = Len(stack[u])
             /\ frame.kind # "pipeline" => PipelineDepths(t)' = PipelineDepths(t)
  <2>1. PICK n \in Nat : n = Len(stack[t]) /\ Depths(t) = 1 .. n
    BY StackFacts
  <2>2. /\ Len(stack'[t]) = n + 1 /\ stack'[t][n + 1] = frame
        /\ \A j \in 1 .. n : stack'[t][j] = stack[t][j]
    BY <1>3, <2>1 DEF Entered, Pushed
  <2>3. \A j : j \in 1 .. (n + 1) <=> j \in 1 .. n \/ j = n + 1
    BY <2>1
  <2>4. n + 1 \notin PipelineDepths(t)
    BY <2>1 DEF PipelineDepths
  <2>5. ASSUME frame.kind # "pipeline"
        PROVE  \A j : j \in PipelineDepths(t)' <=> j \in PipelineDepths(t)
    <3>1. \A j : j \in PipelineDepths(t) <=> j \in 1 .. n /\ stack[t][j].kind = "pipeline"
      BY <2>1 DEF PipelineDepths
    <3>2. \A j : j \in PipelineDepths(t)' <=>
                   j \in 1 .. (n + 1) /\ stack'[t][j].kind = "pipeline"
      BY <1>1, <2>2
    <3> QED
      BY <2>2, <2>3, <2>5, <3>1, <3>2
  <2>6. frame.kind # "pipeline" => PipelineDepths(t)' = PipelineDepths(t)
    BY <2>5, Zenon
  <2> QED
    BY <1>3, <2>6 DEF Entered, Pushed
<1>4. ASSUME NEW t \in Threads, Left(t)
      PROVE  /\ \A u \in Threads \ {t} : Len(stack'[u]) = Len(stack[u])
             /\ ~EndPipeline(t) => /\ UNCHANGED pipelineParents
                                   /\ PipelineDepths(t)' = PipelineDepths(t)
  <2>1. PICK n \in Nat : n = Len(stack[t]) /\ Depths(t) = 1 .. n
    BY StackFacts
  <2>2. n # 0 /\ Len(stack'[t]) = n - 1 /\ n - 1 \in Nat /\ Top(t) = stack[t][n]
    BY <1>4, <2>1, StackFacts DEF Left, Popped
  <2>3. \A j : j \in 1 .. n <=> j \in 1 .. (n - 1) \/ j = n
    BY <2>1, <2>2
  <2>4. ASSUME ~EndPipeline(t) PROVE UNCHANGED pipelineParents /\ stack[t][n].kind # "pipeline"
    <3>1. LeavePattern(t) => UNCHANGED pipelineParents
      BY DEF LeavePattern, EndPattern, UnchangedExceptNames
    <3>2. ASSUME NEW failed \in BOOLEAN, ReturnFromPass(t, failed)
          PROVE  UNCHANGED pipelineParents /\ Top(t).kind = "pass"
      BY <3>2 DEF ReturnFromPass, TopIs, AfterPass, maps
    <3> QED
      BY <1>4, <2>2, <2>4, <3>1, <3>2 DEF Left
  <2>5. ASSUME ~EndPipeline(t)
        PROVE  \A j : j \in PipelineDepths(t)' <=> j \in PipelineDepths(t)
    <3>1. \A j : j \in PipelineDepths(t) <=> j \in 1 .. n /\ stack[t][j].kind = "pipeline"
      BY <2>1 DEF PipelineDepths
    <3>2. \A j : j \in PipelineDepths(t)' <=>
                   j \in 1 .. (n - 1) /\ stack'[t][j].kind = "pipeline"
      BY <1>1, <2>2
    <3>3. \A j \in 1 .. (n - 1) : stack'[t][j].kind = stack[t][j].kind
      <4>1. \A j \in 1 .. (n - 1) : j \in Depths(t) /\ j \in Depths(t)'
        BY <2>1, <2>2 DEF Depths
      <4> QED
        BY <4>1, FramesKept
    <3> QED
      BY <2>3, <2>4, <2>5, <3>1, <3>2, <3>3
  <2>6. ~EndPipeline(t) => PipelineDepths(t)' = PipelineDepths(t)
    BY <2>5, Zenon
  <2> QED
    BY <1>4, <2>4, <2>6 DEF Left, Popped
<1>5. ASSUME NEW t \in Threads, EndPipeline(t) \/
               \E o \in Threads : \E i \in Depths(o) : StartPipeline(o, i, t)
      PROVE  \A u \in Threads \ {t} : pipelineParents'[u] = pipelineParents[u]
  <2>1. pipelineParents \in [Threads -> Seq(Ids \union {NoId})]
    BY DEF CaptureInv, RecorderInv, RecorderTypeOK
  <2>2. EndPipeline(t) => pipelineParents' = [pipelineParents EXCEPT ![t] = Pop(@)]
    BY DEF EndPipeline, AfterPipeline
  <2>3. ASSUME NEW o \in Threads, NEW i \in Depths(o), StartPipeline(o, i, t)
        PROVE  \E x : UNCHANGED pipelineParents \/
                      pipelineParents' = [pipelineParents EXCEPT ![t] = Push(@, x)]
    BY <2>3 DEF StartPipeline, BeforePipeline
  <2> QED
    BY <1>5, <2>1, <2>2, <2>3
<1>6. ASSUME UNCHANGED stack PROVE UNCHANGED pipelineParents
  <2>1. ASSUME NEW t \in Threads, EndPipeline(t) PROVE FALSE
    <3>1. stack[t] # <<>> /\ stack' = [stack EXCEPT ![t] = Pop(@)]
      BY <2>1 DEF EndPipeline, TopIs
    <3>2. Popped(t) /\ Len(stack[t]) \in Nat
      BY <3>1, PoppedFacts, StackFacts
    <3> QED
      BY <1>6, <3>2 DEF Popped
  <2>2. ASSUME NEW t \in Threads, NEW o \in Threads, NEW i \in Depths(o), StartPipeline(o, i, t)
        PROVE  FALSE
    <3>1. PICK p \in Passes : p = stack[o][i].pass
      BY FrameFacts
    <3> DEFINE frame == NewFrame("pipeline", o, p, "running")
    <3>2. PushFrame(t, frame) /\ frame \in Frame
      BY <2>2, <3>1 DEF StartPipeline, NewFrame, Frame
    <3> HIDE DEF frame
    <3>3. Pushed(t, frame) /\ Len(stack[t]) \in Nat
      BY <3>2, PushedFacts, StackFacts
    <3> QED
      BY <1>6, <3>3 DEF Pushed
  <2> QED
    BY <2>1, <2>2, NestingWritten
<1>7. CASE UNCHANGED stack
  BY <1>2, <1>6, <1>7
<1>8. ASSUME NEW t \in Threads, NEW frame \in Frame, Entered(t, frame)
      PROVE  \/ /\ UNCHANGED pipelineParents
                /\ \A u \in Threads : PipelineDepths(u)' = PipelineDepths(u)
             \/ /\ \E o \in Threads : \E i \in Depths(o) : StartPipeline(o, i, t)
                /\ \A u \in Threads \ {t} : PipelineDepths(u)' = PipelineDepths(u)
  <2>1. \A u \in Threads \ {t} : PipelineDepths(u)' = PipelineDepths(u)
    BY <1>2, <1>3, <1>8
  <2>2. CASE \E o \in Threads : \E i \in Depths(o) : StartPipeline(o, i, t)
    BY <2>1, <2>2
  <2>3. CASE ~\E o \in Threads : \E i \in Depths(o) : StartPipeline(o, i, t)
    <3>1. frame.kind # "pipeline" /\ UNCHANGED pipelineParents
      BY <1>8, <2>3 DEF Entered, BeforePass, maps
    <3>2. PipelineDepths(t)' = PipelineDepths(t)
      BY <1>3, <1>8, <3>1
    <3> QED
      BY <2>1, <3>1, <3>2
  <2> QED
    BY <2>2, <2>3
<1>9. ASSUME NEW t \in Threads, Left(t)
      PROVE  \/ /\ UNCHANGED pipelineParents
                /\ \A u \in Threads : PipelineDepths(u)' = PipelineDepths(u)
             \/ /\ EndPipeline(t)
                /\ \A u \in Threads \ {t} : PipelineDepths(u)' = PipelineDepths(u)
  <2>1. \A u \in Threads \ {t} : PipelineDepths(u)' = PipelineDepths(u)
    BY <1>2, <1>4, <1>9
  <2> QED
    BY <1>4, <1>9, <2>1
<1>10. ASSUME NEW t \in Threads, NEW phase, Rephased(t, phase)
       PROVE  \A u \in Threads : PipelineDepths(u)' = PipelineDepths(u)
  BY <1>2, <1>10 DEF Rephased
<1> QED
  BY <1>5, <1>7, <1>8, <1>9, <1>10, StackSteps

LEMMA PipelineNext ==
  ASSUME CaptureInv, ManagerInv, EntriesInv, ErrorsInv, PipelineParents, BadFrames, attached,
         [Next]_vars
  PROVE  PipelineParents'
<1> SUFFICES ASSUME Following', Unmarked', NEW u \in Threads PROVE PipesAt(u)'
  BY DEF PipelineParents
<1>1. Following /\ Unmarked /\ \A t \in Threads : PipesAt(t)
  BY StillFollowing DEF PipelineParents
<1>2. \A t \in Threads : ~AbandonPipeline(t)
  <2>1. CASE Callback
    <3>1. UNCHANGED stack
      BY <2>1 DEF Callback, managerVars
    <3>2. ASSUME NEW t \in Threads, AbandonPipeline(t) PROVE FALSE
      <4>1. Popped(t) /\ Len(stack[t]) \in Nat
        BY <3>2, AbandonFacts, StackFacts
      <4> QED
        BY <3>1, <4>1 DEF Popped
    <3> QED
      BY <3>2
  <2> QED
    BY <1>1, <2>1, HeldManager
<1>3. ASSUME pipelineParents'[u] = pipelineParents[u], PipelineDepths(u)' = PipelineDepths(u)
      PROVE  PipesAt(u)'
  BY <1>1, <1>3, PipesStill
<1>4. ASSUME EndPipeline(u) \/ \E o \in Threads : \E i \in Depths(o) : StartPipeline(o, i, u)
      PROVE  PipesAt(u)'
  BY <1>1, <1>4, StartPipes, EndPipes
<1> QED
  BY <1>2, <1>3, <1>4, PipelineSteps

\* The parents follow the execution until a failed pass is marked, which happens in the
\* same callback that completes it.
OwnersInv ==
  /\ CleanupMarked /\ BadFrames /\ (~attached => Unmarked) /\ NothingNested
  /\ PassParents /\ PipelineParents

\* Nothing runs before the recorder is attached.
LEMMA UnattachedSteps ==
  ASSUME CaptureInv, [Next]_vars, ~attached
  PROVE  /\ \A t \in Threads : stack'[t] = <<>>
         /\ UNCHANGED pipelineParents /\ call'.fn # "afterPass"
<1>1. /\ \A t \in Threads : stack[t] = <<>> /\ \A i \in Depths(t) : FALSE
      /\ call.fn \notin {"beforePass", "afterPass"}
  BY EmptySeq DEF CaptureInv, IdleUntilAttached, Depths, RecorderInv, CallOK
<1>2. ASSUME NEW t \in Threads, PassManager(t) PROVE FALSE
  <2>1. NotifyOperation(t) => stack[t] # <<>>
    BY DEF NotifyOperation, Rewriting
  <2> QED
    BY <1>1, <1>2, <2>1
       DEF PassManager, StartNestedPass, StartPipeline, ReturnFromPass, EndPipeline,
           AbandonPipeline, EnterAction, LeaveAction, EnterPattern, LeavePattern, Rewriting, TopIs
<1>3. UNCHANGED pipelineParents
  BY <1>2, NestingWritten DEF PassManager
<1>4. UNCHANGED stack
  BY <1>2 DEF Next, CallAttach, CallFinish, Callback, StartTopLevelPass, Rewrite, managerVars, vars
<1>5. call'.fn # "afterPass"
  <2>1. CASE Callback
    BY <1>1, <2>1, CallbackCall, UnlockFacts DEF Callback, CaptureInv, SameCall
  <2>2. CASE ~Callback
    BY <1>1, <1>2, <2>2 DEF Next, CallAttach, Attach, NoCall, CallFinish, Finish,
         StartTopLevelPass, Rewrite, vars, recorderVars
  <2> QED
    BY <2>1, <2>2
<1> QED
  BY <1>1, <1>3, <1>4, <1>5

\* No pass and no pipeline is in execution.
NothingRuns ==
  /\ \A t \in Threads : stack[t] = <<>> /\ pipelineParents[t] = <<>>
  /\ call.fn # "afterPass"

LEMMA NothingToOwn ==
  NothingRuns => BadFrames /\ PassParents /\ PipelineParents /\ CleanupMarked
<1> SUFFICES ASSUME NothingRuns
             PROVE  BadFrames /\ PassParents /\ PipelineParents /\ CleanupMarked
  OBVIOUS
<1> USE DEF NothingRuns
<1>1. \A t \in Threads : Depths(t) = {}
  BY EmptySeq DEF Depths
<1>2. ASSUME NEW t \in Threads PROVE PipesAt(t)
  <2>1. PipelineDepths(t) = {}
    BY <1>1 DEF PipelineDepths
  <2> QED
    BY <2>1, ListsEmpty DEF PipesAt
<1> QED
  BY <1>1, <1>2 DEF BadFrames, PassParents, PipelineParents, CleanupMarked, Returning

LEMMA OwnersInit == Init => OwnersInv
<1> SUFFICES ASSUME Init PROVE OwnersInv
  OBVIOUS
<1>1. (\A t \in Threads : stack[t] = <<>> /\ pipelineParents[t] = <<>>) /\ call.fn # "afterPass"
  BY DEF Init, RecorderInit, NoCall
<1>2. BadFrames /\ PassParents /\ PipelineParents /\ CleanupMarked
  BY <1>1, NothingToOwn DEF NothingRuns
<1>3. Unmarked /\ NothingNested
  BY <1>1 DEF Init, StorageInit, Unmarked, NothingNested
<1> QED
  BY <1>2, <1>3 DEF OwnersInv

LEMMA OwnersNext ==
  CaptureInv /\ CaptureInv' /\ ManagerInv /\ EntriesInv /\ ErrorsInv /\ OwnersInv /\ [Next]_vars
    => OwnersInv'
<1> SUFFICES ASSUME CaptureInv, CaptureInv', ManagerInv, EntriesInv, ErrorsInv, OwnersInv,
                    [Next]_vars
             PROVE  OwnersInv'
  OBVIOUS
<1>1. CleanupMarked' /\ (~attached' => Unmarked') /\ NothingNested'
  BY CleanupNext, UnmarkedNext, NothingNestedNext DEF OwnersInv
<1>2. CASE attached
  <2>1. BadFrames' /\ PipelineParents'
    BY <1>2, BadNext, PipelineNext DEF OwnersInv
  <2>2. PassParents'
    <3>1. PassParents /\ PipelineParents /\ BadFrames
      BY DEF OwnersInv
    <3>2. Callback => PassParents'
      BY <1>2, <3>1, CallbackParents
    <3>3. ~Callback => PassParents'
      BY <1>2, <3>1, ManagerParents
    <3> QED
      BY <3>2, <3>3
  <2> QED
    BY <1>1, <2>1, <2>2 DEF OwnersInv
<1>3. CASE ~attached
  <2>1. NothingRuns'
    BY <1>3, UnattachedSteps DEF OwnersInv, NothingNested, NothingRuns
  <2>2. BadFrames' /\ PassParents' /\ PipelineParents'
    BY <2>1, NothingToOwn, PTL
  <2> QED
    BY <1>1, <2>2 DEF OwnersInv
<1> QED
  BY <1>2, <1>3

\* What the recorder and the pass manager agree on about who nests what, until a
\* failed pass is marked.
THEOREM OwnersInvariant == Spec => []OwnersInv
BY OwnersInit, OwnersNext, CaptureInvariant, ManagerInvariant, EntriesInvariant, ErrorsInvariant,
   PTL DEF Spec

LEMMA OwnersAreParents ==
  CaptureInv /\ EntriesInv /\ PassParents => UnmarkedParents
<1> SUFFICES ASSUME CaptureInv, EntriesInv, PassParents, Unmarked, Recording,
                    NEW t \in Threads, NEW i \in Depths(t), NEW p, p = stack[t][i].pass,
                    stack[t][i].kind = "pass", RecordedId(t, p) # NoId
             PROVE  passExecution[RecordedId(t, p)].parent = EnclosingRow(t, i)
  BY DEF UnmarkedParents, ParentIsEnclosing
<1>1. p \in Passes /\ IsPass(stack[t][i], p) /\ Following /\ activePasses[t][p].id # NoId
  BY FrameFacts DEF Frame, IsPass, Following, RecordedId
<1>2. IsRecorded(t, p)
  BY <1>1 DEF EntriesInv, EntriesFollow
<1>3. ~Starting(t, p)
  BY <1>2 DEF IsRecorded, Starting, Returning
<1>4. activePasses[t][p].parent = EnclosingRow(t, i)
  BY <1>1, <1>3 DEF PassParents
<1>5. passExecution[activePasses[t][p].id].parent = activePasses[t][p].parent
  BY <1>1 DEF EntriesInv, EntriesDescribe
<1> QED
  BY <1>4, <1>5 DEF RecordedId

\* As long as no pass has been reported as failed, each pass in execution is recorded
\* under the pass that nested its pipeline, whichever thread runs it, and top-level
\* passes under the root row.
THEOREM ParentsAreEnclosing == Spec => []UnmarkedParents
BY OwnersAreParents, OwnersInvariant, CaptureInvariant, EntriesInvariant, PTL DEF OwnersInv

-----------------------------------------------------------------------------
(* What is left when every stack has unwound.                               *)

\* An entry is empty as a whole.
EntriesWhole ==
  \A t \in Threads, p \in Passes :
    activePasses[t][p].id = NoId => activePasses[t][p] = NotActive

LEMMA WholeNext == CaptureInv /\ EntriesInv /\ EntriesWhole /\ [Next]_vars => EntriesWhole'
<1> SUFFICES ASSUME CaptureInv, EntriesInv, EntriesWhole, [Next]_vars,
                    NEW t \in Threads, NEW p \in Passes, activePasses'[t][p].id = NoId
             PROVE  activePasses'[t][p] = NotActive
  BY DEF EntriesWhole
<1>1. PICK u, q : u = call.thread /\ q = call.pass
  OBVIOUS
<1>2. CASE CreateRow
  <2>1. NextRowId # NoId
    BY DEF CaptureInv, StorageTypeOK, NextRowId, NoId, Ids
  <2>2. \/ UNCHANGED activePasses
        \/ \A v \in Threads, r \in Passes :
             activePasses'[v][r] =
               IF v = u /\ r = q
               THEN [id |-> NextRowId, parent |-> ParentFor(u), before |-> call.text]
               ELSE activePasses[v][r]
    BY <1>1, <1>2, CreateRowFacts
  <2> QED
    BY <2>1, <2>2 DEF EntriesWhole
<1>3. CASE ForgetPass
  <2>1. \A v \in Threads, r \in Passes :
          activePasses'[v][r] = IF v = u /\ r = q THEN NotActive ELSE activePasses[v][r]
    BY <1>1, <1>3, ForgetFacts
  <2> QED
    BY <2>1 DEF EntriesWhole
<1> QED
  BY <1>2, <1>3, NestingWritten DEF EntriesWhole

\* An entry is empty as a whole.
THEOREM EntriesAreWhole == Spec => []EntriesWhole
<1>1. Init => EntriesWhole
  BY DEF Init, RecorderInit, EntriesWhole
<1> QED
  BY <1>1, WholeNext, CaptureInvariant, EntriesInvariant, PTL DEF Spec

LEMMA EmptyList ==
  ASSUME NEW S, NEW xs \in Seq(S), NEW D, NEW v, D = {}, Lists(xs, D, v)
  PROVE  xs = <<>>
BY ListsEmpty

LEMMA NothingLeft ==
  CaptureInv /\ EntriesInv /\ StacksInv /\ OwnersInv /\ EntriesWhole => StacksDrain
<1> SUFFICES ASSUME CaptureInv, EntriesInv, StacksInv, OwnersInv, EntriesWhole,
                    Recording, Unmarked, LockFree, \A t \in Threads : stack[t] = <<>>,
                    NEW t \in Threads
             PROVE  /\ \A p \in Passes : activePasses[t][p] = NotActive
                    /\ activePassIds[t] = <<>> /\ pipelineParents[t] = <<>>
                    /\ currentPatterns[t] = <<>> /\ currentActions[t] = <<>>
  BY DEF StacksDrain
<1>1. Following /\ Depths(t) = {} /\ Len(stack[t]) = 0
  BY EmptySeq DEF Following, Depths
<1>2. ASSUME NEW p \in Passes PROVE activePasses[t][p] = NotActive
  <2>1. ~IsRecorded(t, p)
    BY <1>1 DEF IsRecorded, Inside, Returning, LockFree
  <2> QED
    BY <1>1, <2>1 DEF EntriesInv, EntriesFollow, EntriesWhole
<1>3. activePassIds[t] = <<>>
  <2>1. RecordedDepths(t) = {}
    <3>1. \A i : i \notin RecordedDepths(t)
      BY <1>1 DEF RecordedDepths, LockFree, Returning
    <3> QED
      BY <3>1, Zenon
  <2>2. activePassIds[t] \in Seq(Ids) /\ Lists(activePassIds[t], RecordedDepths(t), RecordedAt(t))
    BY <1>1 DEF StacksInv, IdsFollow, CaptureInv, RecorderInv, RecorderTypeOK
  <2> QED
    BY <2>1, <2>2, EmptyList, Zenon
<1>4. pipelineParents[t] = <<>>
  <2>1. PipelineDepths(t) = {}
    BY <1>1 DEF PipelineDepths
  <2>2. /\ pipelineParents[t] \in Seq(Ids \union {NoId})
        /\ Lists(pipelineParents[t], PipelineDepths(t), PipelinePass(t))
    BY <1>1 DEF OwnersInv, PipelineParents, PipesAt, CaptureInv, RecorderInv, RecorderTypeOK
  <2> QED
    BY <2>1, <2>2, EmptyList, Zenon
<1>5. currentPatterns[t] = <<>> /\ currentActions[t] = <<>>
  <2>1. PatternDepths(t) = {} /\ ActionDepths(t) = {}
    BY <1>1 DEF PatternDepths, ActionDepths
  <2>2. /\ currentPatterns[t] \in Seq(Passes) /\ currentActions[t] \in Seq(Passes)
        /\ Lists(currentPatterns[t], PatternDepths(t), NameOf(t))
        /\ Lists(currentActions[t], ActionDepths(t), NameOf(t))
    BY NamesTypes DEF StacksInv, NamesFollow
  <2> QED
    BY <2>1, <2>2, EmptyList, Zenon
<1> QED
  BY <1>2, <1>3, <1>4, <1>5

\* When every stack has unwound and nothing failed, the recorder has forgotten all
\* executions: no entry of any of its maps is left to misattribute a later pass.
THEOREM NothingIsLeftBehind == Spec => []StacksDrain
BY NothingLeft, CaptureInvariant, EntriesInvariant, StacksInvariant, OwnersInvariant,
   EntriesAreWhole, PTL

-----------------------------------------------------------------------------
(* The events.                                                              *)

\* The events of a row.
EventsOf(id) == {k \in 1 .. Len(opIdentity) : opIdentity[k].pass = id}

\* A frame that was not there has just been pushed.
LEMMA NewFrames ==
  ASSUME CaptureInv, [Next]_vars, NEW u \in Threads, NEW j \in Depths(u)', j \notin Depths(u)
  PROVE  /\ j = Len(stack[u]) + 1 /\ j = Len(stack'[u])
         /\ \E frame \in Frame : Entered(u, frame) /\ stack'[u][j] = frame
<1>1. PICK n \in Nat : n = Len(stack[u]) /\ Depths(u) = 1 .. n
  BY StackFacts
<1>2. PICK m : m = Len(stack'[u]) /\ Depths(u)' = 1 .. m
  BY DEF Depths
<1>3. ASSUME NEW t \in Threads, Left(t) PROVE m \in {n, n - 1}
  BY <1>1, <1>2, <1>3 DEF Left, Popped
<1>4. ASSUME NEW t \in Threads, NEW frame \in Frame, Entered(t, frame)
      PROVE  m = (IF t = u THEN n + 1 ELSE n) /\ stack'[t][Len(stack[t]) + 1] = frame
  BY <1>1, <1>2, <1>4 DEF Entered, Pushed
<1>5. UNCHANGED stack \/ (\E t \in Threads, phase \in {"running", "done"} : Rephased(t, phase))
        => m = n
  BY <1>1, <1>2 DEF Rephased
<1>6. m # n /\ m # n - 1
  BY <1>1, <1>2
<1>7. PICK t \in Threads : \E frame \in Frame : Entered(t, frame)
  BY <1>3, <1>5, <1>6, StackSteps
<1>8. PICK frame \in Frame : Entered(t, frame)
  BY <1>7
<1>9. t = u /\ m = n + 1 /\ stack'[u][n + 1] = frame
  BY <1>1, <1>4, <1>6, <1>8
<1>10. j = n + 1
  BY <1>1, <1>2, <1>9
<1> QED
  BY <1>1, <1>2, <1>8, <1>9, <1>10

\* Above a pattern there are patterns only.
PatternsOnTop ==
  \A t \in Threads : \A i, j \in Depths(t) :
    i < j /\ stack[t][i].kind = "pattern" => stack[t][j].kind = "pattern"

LEMMA PatternsNext ==
  CaptureInv /\ ManagerInv' /\ PatternsOnTop /\ [Next]_vars => PatternsOnTop'
<1> SUFFICES ASSUME CaptureInv, ManagerInv', PatternsOnTop, [Next]_vars,
                    NEW t \in Threads, NEW i \in Depths(t)', NEW j \in Depths(t)',
                    i < j, stack'[t][i].kind = "pattern"
             PROVE  stack'[t][j].kind = "pattern"
  BY DEF PatternsOnTop
<1>1. PICK n \in Nat : n = Len(stack[t]) /\ Depths(t) = 1 .. n
  BY StackFacts
<1>2. CASE j \in Depths(t)
  <2>1. i \in Depths(t)
    BY <1>1, <1>2 DEF Depths
  <2> QED
    BY <1>2, <2>1, FramesKept DEF PatternsOnTop
<1>3. CASE j \notin Depths(t)
  <2>1. /\ j = n + 1 /\ j = Len(stack'[t])
        /\ \E frame \in Frame : Entered(t, frame) /\ stack'[t][j] = frame
    BY <1>1, <1>3, NewFrames
  <2>2. PICK frame \in Frame : Entered(t, frame) /\ stack'[t][j] = frame
    BY <2>1
  <2>3. i \in 1 .. n /\ n \in 1 .. n /\ n \in Depths(t)' /\ j # 1 /\ j - 1 = n
    BY <1>1, <2>1 DEF Depths
  <2>4. stack[t][i].kind = "pattern" /\ stack'[t][n].kind = stack[t][n].kind
    BY <1>1, <2>3, FramesKept
  <2>5. stack[t][n].kind = "pattern"
    BY <1>1, <2>3, <2>4 DEF PatternsOnTop
  <2>6. PassFrameOK(t, j)' /\ PipelineFrameOK(t, j)'
    BY DEF ManagerInv, FramesOK
  <2>7. stack'[t][j].kind = "pass" => stack'[t][n].kind = "pipeline"
    BY <2>3, <2>6 DEF PassFrameOK
  <2>8. stack'[t][j].kind = "pipeline" => stack'[t][n].kind = "pass"
    BY <2>3, <2>6 DEF PipelineFrameOK
  <2> QED
    BY <2>2, <2>4, <2>5, <2>7, <2>8 DEF Frame
<1> QED
  BY <1>2, <1>3

\* Patterns nest no pass and no pipeline.
THEOREM PatternsInvariant == Spec => []PatternsOnTop
<1>1. Init => PatternsOnTop
  BY EmptySeq DEF Init, PatternsOnTop, Depths
<1> QED
  BY <1>1, PatternsNext, CaptureInvariant, ManagerInvariant, PTL DEF Spec

\* The row that an operation is charged to, and the name it is given, are those of
\* the innermost pass.
LEMMA ChargedPass ==
  ASSUME CaptureInv, ManagerInv, EntriesInv, StacksInv, PatternsOnTop,
         NEW t \in Threads, Rewriting(t), Listens(t), LockFree,
         NEW id, id = LastOf(activePassIds[t]), NEW p, p = Top(t).pass
  PROVE  /\ passExecution[id].name = p
         /\ Attribution(t) = p \/ (ForeignHandler /\ Attribution(t) = NoPass)
<1>1. /\ stack[t] # <<>> /\ Top(t).phase = "running" /\ Top(t).kind # "pipeline"
      /\ Following /\ ~finished /\ attached /\ Fidelity = "full"
  BY RunningMeansAttached DEF Rewriting, Listens, Recording, Following
<1>2. PICK n \in Nat : n = Len(stack[t]) /\ Depths(t) = 1 .. n
  BY StackFacts
<1>3. n # 0 /\ n \in 1 .. n /\ Top(t) = stack[t][n] /\ stack[t][n] \in Frame /\ p \in Passes
  BY <1>1, <1>2, StackFacts, FrameFacts
<1>4. stack[t][n].kind \in {"pass", "pattern"}
  BY <1>1, <1>3 DEF Frame
<1>5. PICK m \in 1 .. n : /\ IsPass(stack[t][m], p)
                          /\ \A j \in (m + 1) .. n : stack[t][j].kind = "pattern"
  <2>1. CASE stack[t][n].kind = "pass"
    BY <1>3, <2>1 DEF IsPass
  <2>2. CASE stack[t][n].kind = "pattern"
    BY <1>2, <1>3, <2>2 DEF ManagerInv, FramesOK, PatternFrameOK
  <2> QED
    BY <1>4, <2>1, <2>2
<1>6. id = activePasses[t][p].id /\ activePasses[t][p].id # NoId
  <2>1. PICK w, D, v : w = activePassIds[t] /\ D = RecordedDepths(t) /\ v = RecordedAt(t)
    OBVIOUS
  <2>2. PICK S : S = Ids
    OBVIOUS
  <2>3. w \in Seq(S) /\ Lists(w, D, v)
    BY <1>1, <2>1, <2>2 DEF StacksInv, IdsFollow, CaptureInv, RecorderInv, RecorderTypeOK
  <2>4. \A i : i \in D <=> i \in 1 .. n /\ stack[t][i].kind = "pass"
    BY <1>2, <2>1, RecordedFacts DEF Starting, Returning, LockFree
  <2>5. m \in D /\ v[m] = activePasses[t][p].id
    <3>1. m \in D /\ stack[t][m].pass = p
      BY <1>5, <2>4 DEF IsPass
    <3>2. RecordedAt(t)[m] = activePasses[t][stack[t][m].pass].id
      BY <1>2, RecordedFacts
    <3> QED
      BY <2>1, <3>1, <3>2
  <2>6. ASSUME NEW e \in D PROVE e <= m
    <3>1. e \in 1 .. n /\ stack[t][e].kind = "pass"
      BY <2>4
    <3>2. e \notin (m + 1) .. n
      BY <1>5, <3>1
    <3> QED
      BY <3>1, <3>2
  <2>7. IsFiniteSet(D) /\ D \subseteq Nat
    <3>1. IsFiniteSet(RecordedDepths(t)) /\ RecordedDepths(t) \subseteq Nat
      BY <1>2, RecordedFacts
    <3> QED
      BY <2>1, <3>1
  <2>8. LastOf(w) = v[m]
    <3>1. m \in D /\ \A e \in D : e <= m
      BY <2>5, <2>6
    <3>2. w # <<>> /\ LastOf(w) = v[m]
      BY <2>3, <2>7, <3>1, ListsLast
    <3> QED
      BY <3>2
  <2>9. IsRecorded(t, p)
    BY <1>2, <1>5 DEF IsRecorded, Inside, Starting, LockFree
  <2>10. activePasses[t][p].id # NoId
    BY <1>1, <1>3, <2>9 DEF EntriesInv, EntriesFollow
  <2> QED
    BY <2>1, <2>5, <2>8, <2>10
<1>7. passExecution[id].name = p
  BY <1>3, <1>6 DEF EntriesInv, EntriesDescribe
<1>8. /\ currentPatterns[t] \in Seq(Passes) /\ currentActions[t] \in Seq(Passes)
      /\ Lists(currentPatterns[t], PatternDepths(t), NameOf(t))
      /\ Lists(currentActions[t], ActionDepths(t), NameOf(t))
      /\ NameOf(t)[n] = p
  BY <1>2, <1>3, NamesTypes DEF StacksInv, NamesFollow, NameOf
<1>9. ASSUME NEW w \in Seq(Passes), NEW D, NEW v, D \subseteq Depths(t), n \in D, Lists(w, D, v)
      PROVE  w # <<>> /\ LastOf(w) = v[n]
  <2>1. \A e \in D : e <= n
    BY <1>2, <1>9
  <2>2. IsFiniteSet(D) /\ D \subseteq Nat
    <3>1. D \subseteq 1 .. (Len(stack[t]) + 1)
      BY <1>2, <1>9
    <3> QED
      BY <3>1, DepthsFinite
  <2> QED
    BY <1>9, <2>1, <2>2, ListsLast
<1>10. CASE stack[t][n].kind = "pattern"
  <2>1. n \in PatternDepths(t) /\ PatternDepths(t) \subseteq Depths(t)
    BY <1>2, <1>3, <1>10 DEF PatternDepths
  <2>2. currentPatterns[t] # <<>> /\ LastOf(currentPatterns[t]) = p
    BY <1>8, <1>9, <2>1, Zenon
  <2> QED
    BY <1>7, <2>2 DEF Attribution
<1>11. CASE stack[t][n].kind = "pass"
  <2>1. PatternDepths(t) = {}
    <3>1. ASSUME NEW i \in PatternDepths(t) PROVE FALSE
      <4>1. i \in Depths(t) /\ stack[t][i].kind = "pattern" /\ n \in Depths(t)
        BY <1>2, <1>3 DEF PatternDepths
      <4>2. i # n /\ i \in 1 .. n
        BY <1>2, <1>11, <4>1
      <4>3. i < n
        BY <4>2
      <4> QED
        BY <1>11, <4>1, <4>3 DEF PatternsOnTop
    <3> QED
      BY <3>1
  <2>2. currentPatterns[t] = <<>>
    BY <1>8, <2>1, EmptyList, Zenon
  <2>3. CASE actionHandler
    <3>1. n \in ActionDepths(t) /\ ActionDepths(t) \subseteq Depths(t)
      BY <1>1, <1>2, <1>3, <1>11, <2>3 DEF ActionDepths
    <3>2. currentActions[t] # <<>> /\ LastOf(currentActions[t]) = p
      BY <1>8, <1>9, <3>1, Zenon
    <3> QED
      BY <1>7, <2>2, <3>2 DEF Attribution
  <2>4. CASE ~actionHandler
    <3>1. ActionDepths(t) = {}
      BY <2>4 DEF ActionDepths
    <3>2. currentActions[t] = <<>>
      BY <1>8, <3>1, EmptyList, Zenon
    <3>3. ForeignHandler
      BY <1>1, <2>4 DEF ManagerInv, HandlerInstalled
    <3> QED
      BY <1>7, <2>2, <3>2, <3>3 DEF Attribution
  <2> QED
    BY <2>3, <2>4
<1> QED
  BY <1>4, <1>10, <1>11

LEMMA AttachedStays ==
  ASSUME [Next]_vars
  PROVE  attached => attached'
<1>1. Callback => (attached => attached')
  BY DEF Callback, RecorderStep, AttachCreate, AttachProducer, AttachStatement,
         AttachVersion, AttachFidelity, BeforeSnapshot, CreateRoot, CreateRow,
         BeforeIndex, AfterSnapshot, AfterIndex, CompleteRow, CompleteRoot,
         MarkFailed, ForgetPass, life
<1>2. ASSUME NEW t \in Threads, PassManager(t) PROVE UNCHANGED attached
  BY <1>2, ManagerLife DEF life
<1> QED
  BY <1>1, <1>2 DEF Next, CallAttach, Attach, CallFinish, Finish, Rewrite, StartTopLevelPass,
                    BeforePass, vars, recorderVars, life

\* Once attached, a recorder that has stopped recording does not start again.
LEMMA StillRecording ==
  ASSUME CaptureInv, ManagerInv, EntriesInv, ErrorsInv, [Next]_vars, attached
  PROVE  Recording' => Recording
<1>1. CASE Callback
  <2>1. call.fn # "attach"
    BY DEF CaptureInv, RecorderInv, CallOK
  <2>2. ~finished
    BY <1>1, CallbackCall DEF Callback, CaptureInv, ErrorsInv, LockFree
  <2>3. UNCHANGED life /\ (firstError => firstError')
    <3>1. UNCHANGED <<life, journal>> /\ ErrorsAgree
      BY <1>1, <2>1, <2>2, CallbackErrors DEF Callback
    <3> QED
      BY <3>1 DEF ErrorsAgree
  <2> QED
    BY <2>3 DEF Recording, life
<1>2. ASSUME NEW t \in Threads, PassManager(t) PROVE Recording' => Recording
  BY <1>2, ManagerErrors DEF ErrorsAgree, Recording, life
<1>3. CASE CallFinish
  BY <1>3 DEF CallFinish, Finish, Recording
<1>4. CASE UNCHANGED <<life, firstError>>
  BY <1>4 DEF Recording, life
<1> QED
  BY <1>1, <1>2, <1>3, <1>4
     DEF Next, CallAttach, Attach, Rewrite, StartTopLevelPass, BeforePass, vars, recorderVars, life

\* The next number of a row is how many events it has.
CountsInv ==
  /\ ~attached => opIdentity = <<>> /\ \A id \in Ids : nextIdentitySequence[id] = 0
  /\ Recording => \A id \in Ids : nextIdentitySequence[id] = Cardinality(EventsOf(id))

\* The two halves of EventsAttributed: the number of an event, and its name.
NamedEvent(e) ==
  \/ opIdentity[e].pattern = passExecution[opIdentity[e].pass].name
  \/ ForeignHandler /\ opIdentity[e].pattern = NoPass
Earlier(e) == {k \in 1 .. (e - 1) : opIdentity[k].pass = opIdentity[e].pass}

LEMMA NamedEvents ==
  EventsAttributed <=> \A e \in 1 .. Len(opIdentity) :
                         opIdentity[e].seq = Cardinality(Earlier(e)) /\ NamedEvent(e)
BY DEF EventsAttributed, NamedEvent, Earlier

\* Without a new event only the rows change, and a row keeps its name.
LEMMA EventsStay ==
  ASSUME CaptureInv, ReferencesInv, EventsAttributed, [Next]_vars, UNCHANGED opIdentity
  PROVE  EventsAttributed'
<1>1. ASSUME NEW e \in 1 .. Len(opIdentity)
      PROVE  passExecution'[opIdentity[e].pass].name = passExecution[opIdentity[e].pass].name
  BY RowsKept DEF RowsKeep, ReferencesInv
<1> QED
  BY <1>1 DEF EventsAttributed

LEMMA EventWritten ==
  ASSUME CaptureInv, ReferencesInv, EventsAttributed, UNCHANGED passExecution,
         NEW id \in Ids, NEW seq, NEW pattern, NEW source,
         WriteIdentityEvent(id, seq, pattern, source),
         seq = Cardinality(EventsOf(id)),
         pattern = passExecution[id].name \/ (ForeignHandler /\ pattern = NoPass)
  PROVE  /\ EventsAttributed'
         /\ \A other \in Ids : Cardinality(EventsOf(other))'
                                 = Cardinality(EventsOf(other)) + (IF other = id THEN 1 ELSE 0)
<1>1. PICK n \in Nat : n = Len(opIdentity)
  BY LenProperties DEF CaptureInv, RecorderInv, StorageTypeOK
<1> DEFINE event == [pass |-> id, seq |-> seq, pattern |-> pattern, source |-> source]
<1>2. /\ opIdentity' = Append(opIdentity, event)
      /\ event.pass = id /\ event.seq = seq /\ event.pattern = pattern
  BY DEF WriteIdentityEvent
<1> HIDE DEF event
<1>3. /\ Len(opIdentity') = n + 1 /\ opIdentity'[n + 1] = event
      /\ \A e \in 1 .. n : opIdentity'[e] = opIdentity[e]
  <2>1. opIdentity \in Seq(Event)
    BY DEF CaptureInv, RecorderInv, StorageTypeOK
  <2> QED
    BY <1>1, <1>2, <2>1, AppendProperties
<1>4. ASSUME NEW e \in 1 .. n
      PROVE  opIdentity'[e].seq = Cardinality(Earlier(e))' /\ NamedEvent(e)'
  <2>1. opIdentity[e].seq = Cardinality(Earlier(e)) /\ NamedEvent(e)
    BY <1>1, NamedEvents
  <2>2. Earlier(e)' = Earlier(e)
    <3>1. \A k \in 1 .. (e - 1) : k \in 1 .. n
      OBVIOUS
    <3>2. \A k : k \in Earlier(e)' <=> k \in Earlier(e)
      BY <1>3, <3>1 DEF Earlier
    <3> QED
      BY <3>2, Zenon
  <2> QED
    BY <1>3, <2>1, <2>2 DEF NamedEvent
<1>5. ASSUME NEW other \in Ids
      PROVE  /\ IsFiniteSet(EventsOf(other)) /\ EventsOf(other) \subseteq 1 .. n
             /\ EventsOf(other)' = IF other = id THEN EventsOf(other) \union {n + 1}
                                   ELSE EventsOf(other)
  <2>1. EventsOf(other) \in SUBSET (1 .. n)
    BY <1>1 DEF EventsOf
  <2>2. IsFiniteSet(1 .. n)
    BY FS_Interval
  <2>3. IsFiniteSet(EventsOf(other))
    BY <2>1, <2>2, FS_Subset
  <2>4. \A k : k \in EventsOf(other) <=> k \in 1 .. n /\ opIdentity[k].pass = other
    BY <1>1 DEF EventsOf
  <2>5. \A k : k \in EventsOf(other)' <=> k \in 1 .. (n + 1) /\ opIdentity'[k].pass = other
    BY <1>3 DEF EventsOf
  <2>6. \A k : k \in 1 .. (n + 1) <=> k \in 1 .. n \/ k = n + 1
    BY <1>1
  <2>7. \A k : k \in EventsOf(other)' <=> k \in EventsOf(other) \/ (k = n + 1 /\ other = id)
    BY <1>2, <1>3, <2>4, <2>5, <2>6
  <2>8. other = id => EventsOf(other)' = EventsOf(other) \union {n + 1}
    BY <2>7
  <2>9. other # id => EventsOf(other)' = EventsOf(other)
    BY <2>7
  <2> QED
    BY <2>1, <2>3, <2>8, <2>9
<1>6. ASSUME NEW other \in Ids
      PROVE  Cardinality(EventsOf(other))'
               = Cardinality(EventsOf(other)) + (IF other = id THEN 1 ELSE 0)
  <2>1. n + 1 \notin EventsOf(other)
    BY <1>1, <1>5
  <2>2. Cardinality(EventsOf(other)) \in Nat
    BY <1>5, FS_CardinalityType
  <2>3. CASE other = id
    BY <1>5, <2>1, <2>3, FS_AddElement
  <2>4. CASE other # id
    BY <1>5, <2>2, <2>4
  <2> QED
    BY <2>3, <2>4
<1>7. opIdentity'[n + 1].seq = Cardinality(Earlier(n + 1))' /\ NamedEvent(n + 1)'
  <2>1. Earlier(n + 1)' = EventsOf(id)
    <3>1. n + 1 - 1 = n
      BY <1>1
    <3>2. \A k : k \in Earlier(n + 1)' <=> k \in 1 .. n /\ opIdentity'[k].pass = id
      BY <1>2, <1>3, <3>1 DEF Earlier
    <3>3. \A k : k \in EventsOf(id) <=> k \in 1 .. n /\ opIdentity[k].pass = id
      BY <1>1 DEF EventsOf
    <3>4. \A k : k \in Earlier(n + 1)' <=> k \in EventsOf(id)
      BY <1>3, <3>2, <3>3
    <3> QED
      BY <3>4, Zenon
  <2>2. NamedEvent(n + 1)'
    BY <1>2, <1>3 DEF NamedEvent
  <2> QED
    BY <1>2, <1>3, <2>1, <2>2
<1>8. ASSUME NEW e \in 1 .. Len(opIdentity')
      PROVE  opIdentity'[e].seq = Cardinality(Earlier(e))' /\ NamedEvent(e)'
  <2>1. e \in 1 .. n \/ e = n + 1
    BY <1>1, <1>3
  <2> QED
    BY <1>4, <1>7, <2>1
<1>9. EventsAttributed'
  BY <1>8 DEF EventsAttributed, NamedEvent, Earlier
<1> QED
  BY <1>6, <1>9

LEMMA NoEvents ==
  ASSUME opIdentity = <<>>
  PROVE  EventsAttributed /\ \A id : Cardinality(EventsOf(id)) = 0
<1>1. \A k : k \notin 1 .. Len(opIdentity)
  BY EmptySeq
<1>2. \A id : EventsOf(id) = {}
  BY <1>1 DEF EventsOf
<1> QED
  BY <1>1, <1>2, FS_EmptySet DEF EventsAttributed

LEMMA NotifyEvents ==
  ASSUME CaptureInv, ManagerInv, EntriesInv, StacksInv, ReferencesInv, PatternsOnTop,
         CountsInv, EventsAttributed, [Next]_vars, NEW t \in Threads, NotifyOperation(t)
  PROVE  /\ EventsAttributed'
         /\ Recording' => \A id \in Ids : nextIdentitySequence'[id] = Cardinality(EventsOf(id))'
<1>1. PICK id : id = LastOf(activePassIds[t])
  OBVIOUS
<1>2. /\ id \in Ids /\ id \in RowIds /\ Listens(t) /\ LockFree
      /\ nextIdentitySequence' =
           [nextIdentitySequence EXCEPT ![id] = nextIdentitySequence[id] + 1]
      /\ \/ /\ WriteIdentityEvent(id, nextIdentitySequence[id], Attribution(t),
                                  IF currentActions[t] # <<>> THEN "action" ELSE "listener")
            /\ UNCHANGED firstError
         \/ UNCHANGED opIdentity /\ firstError' = TRUE
  BY <1>1, NotifyFacts
<1>3. CASE UNCHANGED opIdentity /\ firstError' = TRUE
  BY <1>3, EventsStay DEF Recording
<1>4. ASSUME NEW seq, NEW pattern, NEW source, WriteIdentityEvent(id, seq, pattern, source),
             seq = nextIdentitySequence[id], pattern = Attribution(t)
      PROVE  EventsAttributed' /\ \A other \in Ids :
               nextIdentitySequence'[other] = Cardinality(EventsOf(other))'
  <2>1. \A other \in Ids : nextIdentitySequence[other] = Cardinality(EventsOf(other))
    BY <1>2 DEF CountsInv, Listens
  <2>2. nextIdentitySequence \in [Ids -> Nat]
    BY DEF CaptureInv, RecorderInv, RecorderTypeOK
  <2>3. pattern = passExecution[id].name \/ (ForeignHandler /\ pattern = NoPass)
    <3>1. PICK p : p = Top(t).pass
      OBVIOUS
    <3>2. /\ passExecution[id].name = p
          /\ Attribution(t) = p \/ (ForeignHandler /\ Attribution(t) = NoPass)
      BY <1>1, <1>2, <3>1, ChargedPass DEF NotifyOperation
    <3> QED
      BY <1>4, <3>2
  <2>4. UNCHANGED passExecution
    BY <1>4 DEF WriteIdentityEvent
  <2>5. /\ EventsAttributed'
        /\ \A other \in Ids : Cardinality(EventsOf(other))'
                                = Cardinality(EventsOf(other)) + (IF other = id THEN 1 ELSE 0)
    BY <1>2, <1>4, <2>1, <2>3, <2>4, EventWritten
  <2>6. ASSUME NEW other \in Ids
        PROVE  nextIdentitySequence'[other]
                 = nextIdentitySequence[other] + (IF other = id THEN 1 ELSE 0)
    BY <1>2, <2>2
  <2> QED
    BY <2>1, <2>5, <2>6
<1> QED
  BY <1>2, <1>3, <1>4

LEMMA EventsNext ==
  CaptureInv /\ ManagerInv /\ EntriesInv /\ StacksInv /\ ErrorsInv /\ ReferencesInv
    /\ PatternsOnTop /\ CountsInv /\ EventsAttributed /\ [Next]_vars
    => CountsInv' /\ EventsAttributed'
<1> SUFFICES ASSUME CaptureInv, ManagerInv, EntriesInv, StacksInv, ErrorsInv, ReferencesInv,
                    PatternsOnTop, CountsInv, EventsAttributed, [Next]_vars
             PROVE  CountsInv' /\ EventsAttributed'
  OBVIOUS
<1>1. ~attached' => ~attached
  BY AttachedStays
<1>2. CASE UNCHANGED <<opIdentity, nextIdentitySequence>>
  <2>1. \A id : EventsOf(id)' = EventsOf(id)
    BY <1>2 DEF EventsOf
  <2>2. EventsAttributed'
    BY <1>2, EventsStay
  <2>3. CASE attached
    BY <1>1, <1>2, <2>1, <2>2, <2>3, AttachedStays, StillRecording DEF CountsInv
  <2>4. CASE ~attached
    <3>1. opIdentity = <<>> /\ \A id \in Ids : nextIdentitySequence[id] = 0
      BY <2>4 DEF CountsInv
    <3>2. \A id \in Ids : Cardinality(EventsOf(id)) = 0
      BY <3>1, NoEvents
    <3> QED
      BY <1>2, <2>1, <2>2, <3>1, <3>2 DEF CountsInv
  <2> QED
    BY <2>3, <2>4
<1>3. CASE At("attach", "create") /\ opIdentity' = <<>> /\ UNCHANGED nextIdentitySequence
  <2>1. ~attached
    BY <1>3 DEF At, CaptureInv, RecorderInv, CallOK
  <2>2. \A id \in Ids : nextIdentitySequence'[id] = 0
    BY <1>3, <2>1 DEF CountsInv
  <2>3. opIdentity' = <<>> => EventsAttributed' /\ \A id : Cardinality(EventsOf(id))' = 0
    <3>1. ASSUME opIdentity' = <<>> PROVE \A k : k \notin 1 .. Len(opIdentity')
      BY <3>1, EmptySeq
    <3>2. ASSUME opIdentity' = <<>> PROVE \A id : EventsOf(id)' = {}
      BY <3>1, <3>2 DEF EventsOf
    <3> QED
      BY <3>1, <3>2, FS_EmptySet DEF EventsAttributed
  <2> QED
    BY <1>3, <2>2, <2>3 DEF CountsInv
<1>4. ASSUME NEW t \in Threads, NotifyOperation(t) PROVE CountsInv' /\ EventsAttributed'
  <2>1. attached'
    BY <1>4, RunningMeansAttached, AttachedStays DEF NotifyOperation, Rewriting
  <2>2. /\ EventsAttributed'
        /\ Recording' => \A id \in Ids : nextIdentitySequence'[id] = Cardinality(EventsOf(id))'
    BY <1>4, NotifyEvents
  <2> QED
    BY <2>1, <2>2 DEF CountsInv
<1> QED
  BY <1>2, <1>3, <1>4, WhoWrites

\* The events of a pass are numbered without a gap in the order of their rows, and each
\* names the pass that its thread was running, never another one on its stack.
THEOREM EventsAreAttributed == Spec => []EventsAttributed
<1>1. Init => CountsInv /\ EventsAttributed
  <2> SUFFICES ASSUME Init PROVE CountsInv /\ EventsAttributed
    OBVIOUS
  <2>1. opIdentity = <<>> /\ \A id \in Ids : nextIdentitySequence[id] = 0
    BY DEF Init, StorageInit, RecorderInit
  <2> QED
    BY <2>1, NoEvents DEF CountsInv
<1>2. FileInv => ReferencesInv
  BY DEF FileInv
<1> QED
  BY <1>1, <1>2, EventsNext, CaptureInvariant, ManagerInvariant, EntriesInvariant,
     StacksInvariant, ErrorsInvariant, FileInvariant, PatternsInvariant, PTL DEF Spec

-----------------------------------------------------------------------------
(***************************************************************************)
(* The rows that the recorder completes: a snapshot that is there is fully *)
(* indexed, the root row summarises the pipeline, and the table of rows    *)
(* implements PassTree.                                                    *)
(***************************************************************************)

-----------------------------------------------------------------------------
(* Indexes.                                                                 *)

\* A failed pass has no after snapshot, and no walk goes beyond its operations.
CallBounds ==
  /\ call.fn = "afterPass" /\ call.failed => call.text = NoText
  /\ call.step = "index" => call.ordinal < OpsPerSnapshot

\* What happens to the counter of the walks.
LEMMA StepsOfCall ==
  ASSUME CaptureInv, RecorderStep
  PROVE  \/ Unlock \/ (SameCall /\ call'.ordinal = 0)
         \/ SameCall /\ call'.ordinal = call.ordinal + 1 /\ MoreOps
<1>1. ASSUME NEW step \in Steps, GoTo(step) PROVE SameCall /\ call'.ordinal = 0
  <2>1. call.fn # "none"
    BY CallbackCall DEF CaptureInv
  <2> QED
    BY <1>1, <2>1, GoToCall DEF CaptureInv
<1>2. CASE AttachCreate \/ AttachVersion \/ AttachProducer \/ AttachFidelity
  <2>1. Unlock \/ GoTo("version") \/ GoTo("producer") \/ GoTo("fidelity")
    BY <1>2 DEF AttachCreate, AttachVersion, AttachProducer, AttachFidelity, AttachStatement
  <2> QED
    BY <1>1, <2>1 DEF Steps
<1>3. CASE BeforeSnapshot \/ CreateRoot \/ CreateRow
  <2>1. Unlock \/ GoTo("row") \/ GoTo("root") \/ GoTo("index")
    BY <1>3 DEF BeforeSnapshot, CreateRoot, CreateRow, RegisterPass, AfterSnapshotStep
  <2> QED
    BY <1>1, <2>1 DEF Steps
<1>4. CASE AfterSnapshot \/ CompleteRow \/ CompleteRoot \/ MarkFailed \/ ForgetPass
  <2>1. \/ Unlock \/ GoTo("index") \/ GoTo("end") \/ GoTo("rootEnd") \/ GoTo("status")
        \/ GoTo("cleanup")
    BY <1>4 DEF AfterSnapshot, CompleteRow, CompleteRoot, MarkFailed, ForgetPass, AfterEndStep
  <2> QED
    BY <1>1, <2>1 DEF Steps
<1>5. CASE BeforeIndex \/ AfterIndex
  <2>1. IndexRow(0, "idle") \/ IndexRow(1, "end")
    BY <1>5 DEF BeforeIndex, AfterIndex
  <2>2. "end" \in Steps
    BY DEF Steps
  <2>3. call.fn # "none"
    BY CallbackCall DEF CaptureInv
  <2>4. \/ Unlock \/ GoTo("end")
        \/ MoreOps /\ \E side \in {0, 1}, next \in {"idle", "end"} : IndexRow(side, next)
              /\ ~Unlock /\ ~GoTo("end")
    BY <2>1 DEF IndexRow
  <2>5. ASSUME NEW side \in {0, 1}, NEW next \in {"idle", "end"}, IndexRow(side, next),
               ~Unlock, ~GoTo("end")
        PROVE  SameCall /\ call'.ordinal = call.ordinal + 1 /\ MoreOps
    <3>1. call' = [call EXCEPT !.ordinal = @ + 1] /\ MoreOps
      BY <2>5 DEF IndexRow
    <3>2. call \in Call /\ call.ordinal \in Nat
      BY DEF CaptureInv, RecorderInv, RecorderTypeOK, Call
    <3>3. call' \in Call /\ call'.ordinal = call.ordinal + 1
      BY <3>1, <3>2 DEF Call
    <3>4. /\ call'.fn = call.fn /\ call'.thread = call.thread /\ call'.pass = call.pass
          /\ call'.failed = call.failed /\ call'.text = call.text
      BY <3>1, <3>2 DEF Call
    <3> QED
      BY <2>3, <3>1, <3>3, <3>4 DEF SameCall
  <2> QED
    BY <1>1, <2>2, <2>4, <2>5
<1> QED
  BY <1>2, <1>3, <1>4, <1>5 DEF RecorderStep

LEMMA BoundsNext == CaptureInv /\ CallBounds /\ [Next]_vars => CallBounds'
<1> SUFFICES ASSUME CaptureInv, CallBounds, [Next]_vars PROVE CallBounds'
  OBVIOUS
<1>0. call.ordinal \in Nat /\ OpsPerSnapshot \in Nat \ {0}
  BY RecorderAssumption DEF RecorderAssumption, CaptureInv, RecorderInv, RecorderTypeOK, Call
<1>1. CASE Callback
  <2>1. \/ Unlock \/ (SameCall /\ call'.ordinal = 0)
        \/ SameCall /\ call'.ordinal = call.ordinal + 1 /\ MoreOps
    BY <1>1, StepsOfCall DEF Callback
  <2>2. CASE Unlock
    <3>1. call'.fn = "none" /\ call'.step = "idle"
      BY <2>2 DEF Unlock, NoCall
    <3> QED
      BY <3>1 DEF CallBounds
  <2>3. CASE SameCall /\ call'.ordinal < OpsPerSnapshot
    BY <2>3 DEF SameCall, CallBounds
  <2> QED
    BY <1>0, <2>1, <2>2, <2>3 DEF MoreOps
<1>2. CASE UNCHANGED call
  BY <1>2 DEF CallBounds
<1>3. CASE CallAttach
  <2>1. call'.fn = "attach" /\ call'.step = "create"
    BY <1>3 DEF CallAttach, Attach, NoCall
  <2> QED
    BY <2>1 DEF CallBounds
<1>4. ASSUME NEW t, NEW p, NEW text, BeforePass(t, p, text) PROVE CallBounds'
  <2>1. CASE Recording
    <3>1. call'.fn = "beforePass" /\ call'.step \in {"root", "row", "snapshot"}
      BY <1>4, <2>1 DEF BeforePass, AfterSnapshotStep
    <3> QED
      BY <3>1 DEF CallBounds
  <2> QED
    BY <1>2, <1>4, <2>1 DEF BeforePass
<1>5. ASSUME NEW t, NEW p, NEW failed, NEW text, AfterPass(t, p, failed, text)
      PROVE  CallBounds'
  <2>1. CASE ~UNCHANGED call
    <3>1. /\ call'.failed = failed /\ call'.step \in {"end", "snapshot"}
          /\ failed => call'.text = NoText
      BY <1>5, <2>1 DEF AfterPass, AfterEntryStep
    <3> QED
      BY <3>1 DEF CallBounds
  <2> QED
    BY <1>2, <2>1
<1>6. ASSUME NEW t \in Threads, PassManager(t) PROVE CallBounds'
  BY <1>2, <1>4, <1>5, <1>6, ManagerCall
<1> QED
  BY <1>1, <1>2, <1>3, <1>4, <1>6
     DEF Next, CallFinish, Finish, StartTopLevelPass, Rewrite, vars, recorderVars

\* What a step may do to the rows: nothing, create the file, begin one, or end one.
RowBegun ==
  /\ RowIds' = RowIds \union {NextRowId} /\ NextRowId \notin RowIds
  /\ \A r \in RowIds : passExecution'[r] = passExecution[r]
  /\ passExecution'[NextRowId].after = NoText
  /\ passExecution'[NextRowId].open

RowEnded(id) ==
  /\ id \in RowIds /\ RowIds' = RowIds /\ RowsKeep
  /\ \A r \in RowIds \ {id} : passExecution'[r] = passExecution[r]
  /\ passExecution'[id].after = call.text
  /\ ~passExecution'[id].open

LEMMA CreateRootRow ==
  ASSUME CaptureInv, CreateRoot
  PROVE  \/ UNCHANGED <<passExecution, rootPass, rootBefore>> /\ RememberError /\ Unlock
         \/ /\ RowBegun /\ UNCHANGED firstError /\ passExecution = <<>> /\ rootPass = NoId
            /\ rootPass' = NextRowId /\ rootBefore' = call.text
            /\ passExecution'[NextRowId].parent = NoId
            /\ passExecution'[NextRowId].before = call.text
            /\ SameCall /\ call'.step = "row"
<1>1. CASE BeginPass(NoId, 0, NoPass, call.text) /\ rootPass' = NextRowId /\ GoTo("row")
           /\ rootBefore' = call.text /\ UNCHANGED firstError
  <2>1. NoId \in Ids \union {NoId} /\ 0 \in Nat /\ NoPass \in Names /\ StorageTypeOK
    BY DEF Names, CaptureInv, RecorderInv
  <2>2. call.text \in OptTexts
    BY RowArguments
  <2>3. /\ RowBegun /\ passExecution'[NextRowId].parent = NoId
        /\ passExecution'[NextRowId].before = call.text
    BY <1>1, <2>1, <2>2, BeginPassRow DEF RowBegun
  <2>4. passExecution = <<>> /\ rootPass = NoId
    BY DEF CreateRoot, At, CaptureInv, RecorderInv, CallOK, IdsOK, NoId
  <2>5. "row" \in Steps /\ call.fn # "none"
    BY DEF Steps, CreateRoot, At
  <2>6. SameCall /\ call'.step = "row"
    BY <1>1, <2>5, GoToCall DEF CaptureInv
  <2> QED
    BY <1>1, <2>3, <2>4, <2>6
<1>2. CASE StatementFails /\ RememberError /\ Unlock /\ UNCHANGED root
  BY <1>2 DEF StatementFails, root
<1> QED
  BY <1>1, <1>2 DEF CreateRoot

LEMMA CompleteRootRow ==
  ASSUME CaptureInv, CompleteRoot
  PROVE  /\ SameCall /\ call'.step \in {"status", "cleanup"}
         /\ UNCHANGED <<rootPass, rootBefore, activePasses, finished, hasStorage>>
         /\ \/ UNCHANGED passExecution /\ RememberError /\ call'.step = "cleanup"
            \/ /\ RowEnded(rootPass) /\ UNCHANGED firstError
               /\ passExecution'[rootPass].changed = RootChanged
               /\ call'.step = IF call.failed THEN "status" ELSE "cleanup"
<1>1. CASE EndPass(rootPass, call.text, RootChanged) /\ UNCHANGED firstError
           /\ GoTo(IF call.failed THEN "status" ELSE "cleanup")
  <2>1. call.text \in OptTexts /\ RootChanged \in BOOLEAN /\ StorageTypeOK
    BY RowArguments DEF CaptureInv, RecorderInv
  <2>2. RowEnded(rootPass) /\ passExecution'[rootPass].changed = RootChanged
    BY <1>1, <2>1, EndPassRow DEF RowEnded
  <2>3. (IF call.failed THEN "status" ELSE "cleanup") \in Steps /\ call.fn # "none"
    BY DEF Steps, CompleteRoot, At
  <2>4. SameCall /\ call'.step = IF call.failed THEN "status" ELSE "cleanup"
    BY <1>1, <2>3, GoToCall DEF CaptureInv
  <2> QED
    BY <1>1, <2>2, <2>4 DEF CompleteRoot, root, maps, life
<1>2. CASE StatementFails /\ RememberError /\ GoTo("cleanup")
  <2>1. "cleanup" \in Steps /\ call.fn # "none"
    BY DEF Steps, CompleteRoot, At
  <2>2. SameCall /\ call'.step = "cleanup"
    BY <1>2, <2>1, GoToCall DEF CaptureInv
  <2> QED
    BY <1>2, <2>2 DEF StatementFails, CompleteRoot, root, maps, life
<1> QED
  BY <1>1, <1>2 DEF CompleteRoot

LEMMA CreateRowRow ==
  ASSUME CaptureInv, EntriesInv, CreateRow
  PROVE  \/ UNCHANGED <<passExecution, activePasses>> /\ RememberError /\ Unlock
         \/ /\ RowBegun /\ passExecution'[NextRowId].parent = ParentFor(call.thread)
            /\ UNCHANGED <<opIndex, faulted, meta>>
<1>0. PICK t, p : t = call.thread /\ p = call.pass
  OBVIOUS
<1>1. CASE BeginPass(ParentFor(t), SequenceOf(ParentFor(t)), p, call.text)
  <2>1. At("beforePass", "row") /\ StorageTypeOK
    BY DEF CreateRow, CaptureInv, RecorderInv
  <2>2. /\ ParentFor(t) \in Ids \union {NoId} /\ SequenceOf(ParentFor(t)) \in Nat
        /\ p \in Names /\ call.text \in OptTexts
    BY <1>0, <2>1, RowArguments DEF At
  <2>3. RowBegun /\ passExecution'[NextRowId].parent = ParentFor(t)
    BY <1>1, <2>1, <2>2, BeginPassRow DEF RowBegun
  <2>4. UNCHANGED <<opIndex, faulted, meta>>
    BY <1>1 DEF BeginPass
  <2> QED
    BY <1>0, <2>3, <2>4
<1>2. CASE StatementFails /\ RememberError /\ Unlock /\ UNCHANGED activePasses
  BY <1>2 DEF StatementFails
<1> QED
  BY <1>0, <1>1, <1>2, CreateRowFacts

LEMMA CompleteRowRow ==
  ASSUME CaptureInv, EntriesInv, CompleteRow, NEW id, id = Current.id
  PROVE  \/ UNCHANGED passExecution /\ RememberError
         \/ RowEnded(id) /\ UNCHANGED <<opIndex, faulted, meta, firstError>>
<1>0. PICK t, p : t = call.thread /\ p = call.pass
  OBVIOUS
<1>1. CASE EndPass(id, call.text, call.failed \/ Differs(Current.before, call.text))
           /\ UNCHANGED firstError
  <2>1. call.text \in OptTexts /\ StorageTypeOK
        /\ (call.failed \/ Differs(Current.before, call.text)) \in BOOLEAN
    BY RowArguments DEF CompleteRow, At, CaptureInv, RecorderInv
  <2>2. RowEnded(id)
    BY <1>1, <2>1, EndPassRow DEF RowEnded
  <2> QED
    BY <1>1, <2>2 DEF EndPass
<1>2. CASE StatementFails /\ firstError' = TRUE
  BY <1>2 DEF StatementFails, RememberError
<1> QED
  BY <1>0, <1>1, <1>2, CompleteRowFacts DEF Current

LEMMA RowsWritten ==
  ASSUME CaptureInv, EntriesInv, [Next]_vars
  PROVE  \/ UNCHANGED passExecution
         \/ ~attached /\ RowIds = {} /\ RowIds' = {}
         \/ (CreateRoot \/ CreateRow) /\ RowBegun /\ Callback
         \/ CompleteRow /\ RowEnded(Current.id) /\ Callback
         \/ CompleteRoot /\ RowEnded(rootPass) /\ Callback
<1>1. CASE Callback
  <2>1. CASE AttachCreate
    <3>1. passExecution' = passExecution \/ passExecution' = <<>>
      BY <2>1 DEF AttachCreate, AttachStatement, CreateFile, StatementFails
    <3>2. ~attached /\ passExecution = <<>>
      BY <2>1 DEF AttachCreate, AttachStatement, At, CaptureInv, RecorderInv, CallOK
    <3> QED
      BY <3>1, <3>2, EmptySeq DEF RowIds
  <2>2. CASE AttachVersion \/ AttachProducer \/ AttachFidelity
    BY <2>2 DEF AttachVersion, AttachProducer, AttachFidelity, AttachStatement, SetMeta,
                StatementFails
  <2>3. CASE BeforeSnapshot \/ BeforeIndex \/ AfterSnapshot \/ AfterIndex \/ MarkFailed
             \/ ForgetPass
    BY <2>3 DEF BeforeSnapshot, BeforeIndex, AfterSnapshot, AfterIndex, MarkFailed, ForgetPass,
                IndexRow, WriteBlob, WriteOpIndex, SetMeta, StatementFails, storageVars
  <2> QED
    BY <1>1, <2>1, <2>2, <2>3, CreateRootRow, CreateRowRow, CompleteRowRow, CompleteRootRow
       DEF Callback, RecorderStep
<1>2. ASSUME NEW t \in Threads, PassManager(t) PROVE UNCHANGED passExecution
  BY <1>2, ManagerTable, NotifyTable
<1> QED
  BY <1>1, <1>2
     DEF Next, CallAttach, Attach, CallFinish, Finish, SealFile, SealFails, Rewrite,
         StartTopLevelPass, BeforePass, vars, storageVars

\* A row gets its after snapshot when it is completed.
OpenRows == \A r \in RowIds : passExecution[r].open => passExecution[r].after = NoText

LEMMA OpenRowsNext == CaptureInv /\ EntriesInv /\ OpenRows /\ [Next]_vars => OpenRows'
<1> SUFFICES ASSUME CaptureInv, EntriesInv, OpenRows, [Next]_vars PROVE OpenRows'
  OBVIOUS
<1>1. CASE UNCHANGED passExecution
  BY <1>1 DEF OpenRows, RowIds
<1>2. CASE RowIds' = {}
  BY <1>2 DEF OpenRows
<1>3. CASE RowBegun
  BY <1>3 DEF OpenRows, RowBegun
<1>4. ASSUME NEW id, RowEnded(id) PROVE OpenRows'
  BY <1>4 DEF OpenRows, RowEnded
<1> QED
  BY <1>1, <1>2, <1>3, <1>4, RowsWritten

\* The table has room for its rows.
RowsFit == RowIds \subseteq Ids

LEMMA RowsFitNext == CaptureInv /\ EntriesInv /\ RowsFit /\ [Next]_vars => RowsFit'
<1> SUFFICES ASSUME CaptureInv, EntriesInv, RowsFit, [Next]_vars PROVE RowsFit'
  OBVIOUS
<1>1. CASE RowIds' \subseteq RowIds
  BY <1>1 DEF RowsFit, Ids
<1>2. CASE (CreateRoot \/ CreateRow) /\ RowBegun
  <2>1. NextRowId \in Ids
    <3>1. CASE CreateRow
      BY <3>1, RowArguments DEF CreateRow
    <3>2. CASE CreateRoot
      <4>1. Len(passExecution) + 2 <= MaxRows
        BY <3>2 DEF CreateRoot, At, CaptureInv, RecorderInv, CallOK
      <4>2. Len(passExecution) \in Nat /\ MaxRows \in Nat
        BY LenProperties, StorageAssumption
           DEF StorageAssumption, CaptureInv, RecorderInv, StorageTypeOK
      <4> QED
        BY <4>1, <4>2 DEF NextRowId, Ids
    <3> QED
      BY <1>2, <3>1, <3>2
  <2> QED
    BY <1>2, <2>1 DEF RowBegun, RowsFit, Ids
<1> QED
  BY <1>1, <1>2, RowsWritten, SameTable DEF RowEnded

\* The walks that an entry's row is behind of: the one in progress has reached the
\* ordinal of the callback.
Indexing(t, p) ==
  call.fn = "beforePass" /\ call.step = "index" /\ call.thread = t /\ call.pass = p

\* How many operations of each side are in op_index for the entry of p.
FirstSide(t, p) == IF Indexing(t, p) THEN call.ordinal ELSE OpsPerSnapshot
SecondSide(t, p) ==
  IF ~Returning(t, p) \/ call.step = "snapshot" \/ call.failed THEN 0
  ELSE IF call.step = "index" THEN call.ordinal ELSE OpsPerSnapshot

EntriesIndexed ==
  \A t \in Threads, p \in Passes :
    LET id == activePasses[t][p].id IN
    id # NoId => opIndex[id][0] = FirstSide(t, p) /\ opIndex[id][1] = SecondSide(t, p)

\* A row that has its after snapshot has been walked twice to the end.
FullyIndexed(r) == opIndex[r][0] = OpsPerSnapshot /\ opIndex[r][1] = OpsPerSnapshot

RowsIndexed ==
  \A r \in RowIds : passExecution[r].after # NoText /\ r # rootPass => FullyIndexed(r)

\* Counting goes wrong only where a statement has failed.
IndexInv ==
  /\ CallBounds /\ OpenRows /\ RowsFit
  /\ Fidelity = "full" /\ ~faulted => EntriesIndexed /\ RowsIndexed

\* A latched fault stays.
LEMMA FaultStays ==
  ASSUME CaptureInv, ManagerInv, EntriesInv, ErrorsInv, [Next]_vars, attached, ~faulted'
  PROVE  ~faulted
<1>1. CASE Callback
  <2>1. call.fn # "attach"
    BY DEF CaptureInv, RecorderInv, CallOK
  <2>2. ~finished
    BY <1>1, CallbackCall DEF Callback, CaptureInv, ErrorsInv, LockFree
  <2> QED
    BY <1>1, <2>1, <2>2, CallbackErrors DEF Callback, ErrorsAgree
<1>2. ASSUME NEW t \in Threads, PassManager(t) PROVE ~faulted
  BY <1>2, ManagerErrors DEF ErrorsAgree
<1> QED
  BY <1>1, <1>2
     DEF Next, CallAttach, Attach, CallFinish, Finish, SealFile, SealFails, Rewrite,
         StartTopLevelPass, BeforePass, vars, storageVars

LEMMA UnattachedIndexes ==
  ASSUME CaptureInv, EntriesInv, [Next]_vars, ~attached
  PROVE  EntriesIndexed' /\ RowsIndexed'
<1>1. RowIds = {} /\ passExecution = <<>> /\ call.fn \notin {"beforePass", "afterPass"}
  BY EmptySeq DEF CaptureInv, RecorderInv, CallOK, RowIds
<1>2. UNCHANGED activePasses
  BY <1>1, NestingWritten DEF CreateRow, ForgetPass, At
<1>3. \A t \in Threads, p \in Passes : activePasses'[t][p].id = NoId
  BY <1>1, <1>2, EntryFacts
<1>4. RowIds' = {}
  <2>1. ~CreateRoot /\ ~CreateRow /\ ~CompleteRow /\ ~CompleteRoot
    BY <1>1 DEF CreateRoot, CreateRow, CompleteRow, CompleteRoot, At
  <2> QED
    BY <1>1, <2>1, RowsWritten, SameTable
<1> QED
  BY <1>3, <1>4 DEF EntriesIndexed, RowsIndexed

\* Steps that write neither rows nor indexes.
LEMMA IndexesStay ==
  ASSUME EntriesIndexed, RowsIndexed, UNCHANGED <<activePasses, opIndex, passExecution>>,
         rootPass' = rootPass \/ RowIds = {},
         \A t \in Threads, p \in Passes :
           activePasses[t][p].id # NoId =>
             FirstSide(t, p)' = FirstSide(t, p) /\ SecondSide(t, p)' = SecondSide(t, p)
  PROVE  EntriesIndexed' /\ RowsIndexed'
<1>1. EntriesIndexed'
  BY DEF EntriesIndexed
<1>2. RowsIndexed'
  BY DEF RowsIndexed, RowIds, FullyIndexed
<1> QED
  BY <1>1, <1>2

\* The steps of the pass manager and of the compiler.
LEMMA OthersIndexes ==
  ASSUME CaptureInv, EntriesIndexed, RowsIndexed, Fidelity = "full", attached,
         [Next]_vars, ~Callback
  PROVE  EntriesIndexed' /\ RowsIndexed'
<1>1. ASSUME NEW t \in Threads, PassManager(t)
      PROVE  UNCHANGED <<activePasses, opIndex, passExecution, rootPass>>
  BY <1>1, ManagerTable, NotifyTable
<1>2. UNCHANGED <<activePasses, opIndex, passExecution, rootPass>>
  BY <1>1 DEF Next, CallAttach, Attach, CallFinish, Finish, SealFile, SealFails, Rewrite,
              StartTopLevelPass, BeforePass, vars, storageVars, recorderVars, maps, root
<1>3. ASSUME UNCHANGED call PROVE EntriesIndexed' /\ RowsIndexed'
  <2>1. \A t \in Threads, p \in Passes :
          FirstSide(t, p)' = FirstSide(t, p) /\ SecondSide(t, p)' = SecondSide(t, p)
    BY <1>3 DEF FirstSide, SecondSide, Indexing, Returning
  <2> QED
    BY <1>2, <2>1, IndexesStay
<1>4. ASSUME LockFree, call'.fn = "beforePass" => call'.step # "index",
             call'.fn = "afterPass" => call'.step = "snapshot" \/ call'.failed
      PROVE  EntriesIndexed' /\ RowsIndexed'
  <2>1. \A t \in Threads, p \in Passes :
          FirstSide(t, p)' = FirstSide(t, p) /\ SecondSide(t, p)' = SecondSide(t, p)
    BY <1>4 DEF FirstSide, SecondSide, Indexing, Returning, LockFree
  <2> QED
    BY <1>2, <2>1, IndexesStay
<1>5. ASSUME NEW t, NEW p, NEW text, BeforePass(t, p, text)
      PROVE  EntriesIndexed' /\ RowsIndexed'
  <2>1. CASE Recording
    <3>1. LockFree /\ call'.fn = "beforePass" /\ call'.step \in {"root", "row", "snapshot"}
      BY <1>5, <2>1 DEF BeforePass, AfterSnapshotStep
    <3> QED
      BY <1>4, <3>1
  <2> QED
    BY <1>3, <1>5, <2>1 DEF BeforePass
<1>6. ASSUME NEW t, NEW p, NEW failed, NEW text, AfterPass(t, p, failed, text)
      PROVE  EntriesIndexed' /\ RowsIndexed'
  <2>1. CASE ~UNCHANGED call
    <3>1. /\ LockFree /\ call'.fn = "afterPass" /\ call'.failed = failed
          /\ ~failed => call'.step = "snapshot"
      BY <1>6, <2>1 DEF AfterPass, AfterEntryStep
    <3> QED
      BY <1>4, <3>1
  <2> QED
    BY <1>3, <2>1
<1>7. ASSUME NEW t \in Threads, PassManager(t) PROVE EntriesIndexed' /\ RowsIndexed'
  BY <1>3, <1>5, <1>6, <1>7, ManagerCall
<1> QED
  BY <1>3, <1>5, <1>7 DEF Next, CallAttach, Attach, CallFinish, Finish, Rewrite,
                          StartTopLevelPass, vars, recorderVars

LEMMA OutsideIndexes ==
  ASSUME CaptureInv, EntriesInv, EntriesIndexed, RowsIndexed, Fidelity = "full", ~faulted',
         BeforeSnapshot \/ AfterSnapshot \/ CreateRoot \/ CompleteRoot \/ MarkFailed
  PROVE  EntriesIndexed' /\ RowsIndexed'
<1>0. ~StatementFails
  BY DEF StatementFails
<1>1. CASE BeforeSnapshot \/ AfterSnapshot \/ MarkFailed
  <2>1. UNCHANGED <<activePasses, opIndex, passExecution, rootPass>>
    BY <1>0, <1>1 DEF BeforeSnapshot, AfterSnapshot, MarkFailed, WriteBlob, SetMeta, maps, root
  <2>2. /\ BeforeSnapshot => call.fn = "beforePass" /\ call.step = "snapshot"
                              /\ SameCall /\ call'.step \in {"root", "row"}
        /\ AfterSnapshot => call.fn = "afterPass" /\ call.step = "snapshot"
                              /\ SameCall /\ call'.step = "index" /\ call'.ordinal = 0
        /\ MarkFailed => call.fn = "afterPass" /\ call.step = "status"
                              /\ SameCall /\ call'.step = "cleanup"
    <3>1. ASSUME NEW step \in Steps, GoTo(step), call.fn # "none"
          PROVE  SameCall /\ call'.step = step /\ call'.ordinal = 0
      BY <3>1, GoToCall DEF CaptureInv
    <3>2. /\ BeforeSnapshot => GoTo("root") \/ GoTo("row")
          /\ AfterSnapshot => GoTo("index")
          /\ MarkFailed => GoTo("cleanup")
      BY <1>0 DEF BeforeSnapshot, AfterSnapshot, MarkFailed, AfterSnapshotStep
    <3> QED
      BY <3>1, <3>2 DEF BeforeSnapshot, AfterSnapshot, MarkFailed, At, Steps
  <2>3. \A t \in Threads, p \in Passes :
          FirstSide(t, p)' = FirstSide(t, p) /\ SecondSide(t, p)' = SecondSide(t, p)
    BY <1>1, <2>2 DEF FirstSide, SecondSide, Indexing, Returning, SameCall
  <2> QED
    BY <2>1, <2>3, IndexesStay
<1>2. CASE CreateRoot
  <2>0. BeginPass(NoId, 0, NoPass, call.text)
    BY <1>0, <1>2 DEF CreateRoot
  <2>1. UNCHANGED <<activePasses, opIndex>>
    BY <1>2, <2>0 DEF CreateRoot, BeginPass, maps
  <2>2. RowBegun /\ rootPass' = NextRowId /\ passExecution = <<>>
    <3>1. Len(passExecution') = Len(passExecution) + 1
      BY <2>0, AppendProperties DEF BeginPass, CaptureInv, RecorderInv, StorageTypeOK
    <3>2. ~UNCHANGED passExecution
      BY <3>1, LenProperties DEF CaptureInv, RecorderInv, StorageTypeOK
    <3> QED
      BY <1>2, <3>2, CreateRootRow
  <2>3. \A t \in Threads, p \in Passes : activePasses[t][p].id = NoId
    BY <2>2, EntryFacts
  <2>4. RowIds' = {rootPass'}
    BY <2>2, EmptySeq DEF RowBegun, RowIds
  <2> QED
    BY <2>1, <2>3, <2>4 DEF EntriesIndexed, RowsIndexed
<1>3. CASE CompleteRoot
  <2>1. UNCHANGED <<activePasses, opIndex, rootPass>>
    BY <1>0, <1>3 DEF CompleteRoot, EndPass, maps, root
  <2>2. SameCall /\ call.step = "rootEnd" /\ call.fn = "afterPass"
        /\ call'.step \in {"status", "cleanup"}
    BY <1>3, CompleteRootRow DEF CompleteRoot, At
  <2>3. EntriesIndexed'
    BY <2>1, <2>2
       DEF EntriesIndexed, FirstSide, SecondSide, Indexing, Returning, SameCall
  <2>4. UNCHANGED passExecution \/ RowEnded(rootPass)
    BY <1>3, CompleteRootRow
  <2>5. RowsIndexed'
    BY <2>1, <2>4 DEF RowsIndexed, RowEnded, RowIds, FullyIndexed
  <2> QED
    BY <2>3, <2>5
<1> QED
  BY <1>1, <1>2, <1>3

LEMMA BeginIndexes ==
  ASSUME CaptureInv, EntriesInv, ReferencesInv, EntriesIndexed, RowsIndexed,
         Fidelity = "full", ~faulted', CreateRow
  PROVE  EntriesIndexed' /\ RowsIndexed'
<1>0. PICK t, p, n : t = call.thread /\ p = call.pass /\ n = NextRowId
  OBVIOUS
<1>1. ~StatementFails
  BY DEF StatementFails
<1>2. /\ t \in Threads /\ p \in Passes /\ activePasses[t][p].id = NoId
      /\ UNCHANGED <<life, root, pipelineParents>>
      /\ \A u \in Threads, q \in Passes :
           activePasses'[u][q] =
             IF u = t /\ q = p
             THEN [id |-> n, parent |-> ParentFor(t), before |-> call.text]
             ELSE activePasses[u][q]
      /\ GoTo("index")
      /\ BeginPass(ParentFor(t), SequenceOf(ParentFor(t)), p, call.text)
      /\ Starting(t, p)
  BY <1>0, <1>1, CreateRowFacts
<1>3. UNCHANGED <<opIndex, rootPass>>
  BY <1>2 DEF BeginPass, root
<1>4. RowBegun
  <2>1. Len(passExecution') = Len(passExecution) + 1
    BY <1>2, AppendProperties DEF BeginPass, CaptureInv, RecorderInv, StorageTypeOK
  <2>2. ~UNCHANGED passExecution
    BY <2>1, LenProperties DEF CaptureInv, RecorderInv, StorageTypeOK
  <2> QED
    BY <2>2, CreateRowRow
<1>5. n \in Ids /\ n \notin RowIds
  BY <1>0, <1>4, RowArguments DEF RowBegun, CreateRow
<1>6. opIndex[n][0] = 0 /\ opIndex[n][1] = 0
  BY <1>5 DEF ReferencesInv, NoOpIndex
<1>7. SameCall /\ call'.step = "index" /\ call'.ordinal = 0 /\ call.fn = "beforePass"
      /\ call.step = "row"
  <2>1. "index" \in Steps /\ call.fn = "beforePass" /\ call.step = "row"
    BY DEF Steps, CreateRow, At
  <2> QED
    BY <1>2, <2>1, GoToCall DEF CaptureInv
<1>8. ASSUME NEW u \in Threads, NEW q \in Passes, activePasses'[u][q].id # NoId
      PROVE  /\ opIndex'[activePasses'[u][q].id][0] = FirstSide(u, q)'
             /\ opIndex'[activePasses'[u][q].id][1] = SecondSide(u, q)'
  <2>1. SecondSide(u, q)' = 0 /\ SecondSide(u, q) = 0
    BY <1>7 DEF SecondSide, Returning, SameCall
  <2>2. CASE u = t /\ q = p
    <3>1. FirstSide(u, q)' = 0
      BY <1>0, <1>7, <2>2 DEF FirstSide, Indexing, SameCall
    <3>2. activePasses'[u][q].id = n
      BY <1>2, <2>2
    <3> QED
      BY <1>3, <1>6, <2>1, <3>1, <3>2
  <2>3. CASE ~(u = t /\ q = p)
    <3>1. FirstSide(u, q)' = OpsPerSnapshot /\ FirstSide(u, q) = OpsPerSnapshot
      BY <1>0, <1>7, <2>3 DEF FirstSide, Indexing, SameCall
    <3>2. activePasses'[u][q] = activePasses[u][q]
      BY <1>2, <2>3
    <3> QED
      BY <1>3, <1>8, <2>1, <3>1, <3>2 DEF EntriesIndexed
  <2> QED
    BY <2>2, <2>3
<1>9. RowsIndexed'
  BY <1>3, <1>4 DEF RowsIndexed, RowBegun, FullyIndexed
<1> QED
  BY <1>8, <1>9 DEF EntriesIndexed

LEMMA ForgetIndexes ==
  ASSUME CaptureInv, EntriesInv, EntriesIndexed, RowsIndexed, ForgetPass
  PROVE  EntriesIndexed' /\ RowsIndexed'
<1>0. PICK t, p : t = call.thread /\ p = call.pass
  OBVIOUS
<1>1. /\ call.fn = "afterPass" /\ call.step = "cleanup" /\ call'.fn = "none"
      /\ UNCHANGED <<storageVars, root>>
      /\ \A u \in Threads, q \in Passes :
           activePasses'[u][q] = IF u = t /\ q = p THEN NotActive ELSE activePasses[u][q]
  <2>1. At("afterPass", "cleanup")
    BY DEF ForgetPass
  <2> QED
    BY <1>0, <2>1, ForgetFacts DEF At
<1>2. UNCHANGED <<opIndex, passExecution, rootPass>>
  BY <1>1 DEF storageVars, root
<1>3. ASSUME NEW u \in Threads, NEW q \in Passes, activePasses'[u][q].id # NoId
      PROVE  /\ opIndex'[activePasses'[u][q].id][0] = FirstSide(u, q)'
             /\ opIndex'[activePasses'[u][q].id][1] = SecondSide(u, q)'
  <2>1. ~(u = t /\ q = p) /\ activePasses'[u][q] = activePasses[u][q]
    BY <1>1, <1>3 DEF NotActive
  <2>2. FirstSide(u, q)' = FirstSide(u, q) /\ SecondSide(u, q)' = SecondSide(u, q)
    BY <1>0, <1>1, <2>1 DEF FirstSide, SecondSide, Indexing, Returning
  <2> QED
    BY <1>2, <1>3, <2>1, <2>2 DEF EntriesIndexed
<1> QED
  BY <1>2, <1>3 DEF EntriesIndexed, RowsIndexed, RowIds, FullyIndexed

\* The entry of the pass that is being indexed; its row is still open.
LEMMA WalkedEntry ==
  ASSUME CaptureInv, ManagerInv, EntriesInv, ErrorsInv, OpenRows, ~faulted,
         BeforeIndex \/ AfterIndex, NEW t, NEW p, t = call.thread, p = call.pass,
         NEW id, id = activePasses[t][p].id
  PROVE  /\ t \in Threads /\ p \in Passes /\ id \in RowIds /\ id \in Ids /\ id # NoId
         /\ passExecution[id].after = NoText
         /\ \A u \in Threads, q \in Passes :
              activePasses[u][q].id = id => u = t /\ q = p
<1>1. /\ call.fn \in {"beforePass", "afterPass"} /\ call.step = "index"
      /\ t \in Threads /\ p \in Passes
  BY RowArguments DEF BeforeIndex, AfterIndex, At
<1>2. id # NoId /\ id \in RowIds
  BY <1>1, EntryFacts DEF CaptureInv, RecorderInv, CallOK
<1>3. Following
  <2>1. attached /\ ~finished
    BY <1>1 DEF CaptureInv, RecorderInv, CallOK, ErrorsInv, LockFree
  <2> QED
    BY <2>1 DEF ErrorsInv, ManagerInv, HandlerInstalled, Following, Recording
<1>4. ~Closing(t, p)
  BY <1>1 DEF Closing
<1>5. passExecution[id].after = NoText
  BY <1>1, <1>2, <1>3, <1>4 DEF EntriesInv, OpenFollows, OpenRows
<1>6. id \in Ids
  BY <1>1, <1>2 DEF CaptureInv, RecorderInv, RecorderTypeOK, ActivePass
<1> QED
  BY <1>1, <1>2, <1>5, <1>6 DEF EntriesInv, EntriesDescribe

LEMMA WriteFacts ==
  ASSUME CaptureInv, NEW id \in Ids, NEW side \in {0, 1}, WriteOpIndex(id, side)
  PROVE  /\ opIndex'[id][side] = opIndex[id][side] + 1
         /\ opIndex'[id][1 - side] = opIndex[id][1 - side]
         /\ \A i \in Ids \ {id} : opIndex'[i] = opIndex[i]
         /\ UNCHANGED passExecution
<1>1. opIndex \in [Ids -> [{0, 1} -> Nat]]
  BY DEF CaptureInv, RecorderInv, StorageTypeOK
<1> QED
  BY <1>1 DEF WriteOpIndex

LEMMA WalkIndexes ==
  ASSUME CaptureInv, ManagerInv, EntriesInv, ErrorsInv, CallBounds, OpenRows, RowsFit,
         EntriesIndexed, RowsIndexed, ~faulted, ~faulted', BeforeIndex \/ AfterIndex
  PROVE  EntriesIndexed' /\ RowsIndexed'
<1>0. PICK t, p, id, side : /\ t = call.thread /\ p = call.pass /\ id = activePasses[t][p].id
                            /\ side = IF BeforeIndex THEN 0 ELSE 1
  OBVIOUS
<1>1. /\ t \in Threads /\ p \in Passes /\ id \in RowIds /\ id \in Ids /\ id # NoId
      /\ passExecution[id].after = NoText
      /\ \A u \in Threads, q \in Passes : activePasses[u][q].id = id => u = t /\ q = p
  BY <1>0, WalkedEntry
<1>2. ~StatementFails
  BY DEF StatementFails
<1>3. /\ side \in {0, 1} /\ call.step = "index"
      /\ IF side = 0 THEN call.fn = "beforePass" ELSE call.fn = "afterPass"
      /\ UNCHANGED <<activePasses, rootPass>>
  BY <1>0 DEF BeforeIndex, AfterIndex, At, maps, root
<1>4. /\ WriteOpIndex(id, side)
      /\ \/ /\ SameCall /\ call'.step = "index" /\ call'.ordinal = call.ordinal + 1
         \/ /\ ~MoreOps
            /\ IF side = 0 THEN Unlock ELSE SameCall /\ call'.step = "end"
  <2>1. CASE BeforeIndex
    <3>1. IndexRow(0, "idle") /\ side = 0 /\ call.fn # "none" /\ "idle" \in {"idle", "end"}
      BY <1>0, <1>3, <2>1 DEF BeforeIndex
    <3> QED
      BY <1>0, <1>2, <1>3, <3>1, IndexCall DEF CaptureInv
  <2>2. CASE ~BeforeIndex
    <3>1. IndexRow(1, "end") /\ side = 1 /\ call.fn # "none" /\ "end" \in {"idle", "end"}
      BY <1>0, <1>3, <2>2 DEF AfterIndex
    <3> QED
      BY <1>0, <1>2, <1>3, <3>1, IndexCall DEF CaptureInv
  <2> QED
    BY <2>1, <2>2
<1>5. /\ opIndex'[id][side] = opIndex[id][side] + 1
      /\ opIndex'[id][1 - side] = opIndex[id][1 - side]
      /\ \A i \in Ids \ {id} : opIndex'[i] = opIndex[i]
      /\ UNCHANGED passExecution
  BY <1>1, <1>3, <1>4, WriteFacts
<1>6. call.ordinal \in Nat /\ OpsPerSnapshot \in Nat /\ call.ordinal < OpsPerSnapshot
  BY <1>3, RecorderAssumption
     DEF RecorderAssumption, CaptureInv, RecorderInv, RecorderTypeOK, Call, CallBounds
<1>7. /\ opIndex[id][0] = FirstSide(t, p) /\ opIndex[id][1] = SecondSide(t, p)
  BY <1>0, <1>1 DEF EntriesIndexed
<1>8. opIndex'[id][0] = FirstSide(t, p)' /\ opIndex'[id][1] = SecondSide(t, p)'
  <2>1. CASE side = 0
    <3>1. FirstSide(t, p) = call.ordinal /\ SecondSide(t, p) = 0
      BY <1>0, <1>3, <2>1 DEF FirstSide, SecondSide, Indexing, Returning
    <3>2. opIndex'[id][0] = call.ordinal + 1 /\ opIndex'[id][1] = 0
      BY <1>5, <1>7, <2>1, <3>1
    <3>3. CASE SameCall /\ call'.step = "index" /\ call'.ordinal = call.ordinal + 1
      <4>1. FirstSide(t, p)' = call.ordinal + 1 /\ SecondSide(t, p)' = 0
        BY <1>0, <1>3, <2>1, <3>3 DEF FirstSide, SecondSide, Indexing, Returning, SameCall
      <4> QED
        BY <3>2, <4>1
    <3>4. CASE ~MoreOps /\ Unlock
      <4>1. call'.fn = "none"
        BY <3>4, UnlockFacts
      <4>2. FirstSide(t, p)' = OpsPerSnapshot /\ SecondSide(t, p)' = 0
        BY <4>1 DEF FirstSide, SecondSide, Indexing, Returning
      <4>3. call.ordinal + 1 = OpsPerSnapshot
        BY <1>6, <3>4 DEF MoreOps
      <4> QED
        BY <3>2, <4>2, <4>3
    <3> QED
      BY <1>4, <2>1, <3>3, <3>4
  <2>2. CASE side = 1
    <3>0. ~call.failed
      BY <1>3, <2>2 DEF EntriesInv, CallSteps
    <3>1. FirstSide(t, p) = OpsPerSnapshot /\ SecondSide(t, p) = call.ordinal
      BY <1>0, <1>3, <2>2, <3>0 DEF FirstSide, SecondSide, Indexing, Returning
    <3>2. opIndex'[id][0] = OpsPerSnapshot /\ opIndex'[id][1] = call.ordinal + 1
      BY <1>5, <1>7, <2>2, <3>1
    <3>3. CASE SameCall /\ call'.step = "index" /\ call'.ordinal = call.ordinal + 1
      <4>1. FirstSide(t, p)' = OpsPerSnapshot /\ SecondSide(t, p)' = call.ordinal + 1
        BY <1>0, <1>3, <2>2, <3>0, <3>3 DEF FirstSide, SecondSide, Indexing, Returning, SameCall
      <4> QED
        BY <3>2, <4>1
    <3>4. CASE ~MoreOps /\ SameCall /\ call'.step = "end"
      <4>1. FirstSide(t, p)' = OpsPerSnapshot /\ SecondSide(t, p)' = OpsPerSnapshot
        BY <1>0, <1>3, <2>2, <3>0, <3>4 DEF FirstSide, SecondSide, Indexing, Returning, SameCall
      <4>2. call.ordinal + 1 = OpsPerSnapshot
        BY <1>6, <3>4 DEF MoreOps
      <4> QED
        BY <3>2, <4>1, <4>2
    <3> QED
      BY <1>4, <2>2, <3>3, <3>4
  <2> QED
    BY <1>3, <2>1, <2>2
<1>9. ASSUME NEW u \in Threads, NEW q \in Passes, activePasses'[u][q].id # NoId
      PROVE  /\ opIndex'[activePasses'[u][q].id][0] = FirstSide(u, q)'
             /\ opIndex'[activePasses'[u][q].id][1] = SecondSide(u, q)'
  <2>1. CASE u = t /\ q = p
    BY <1>0, <1>3, <1>8, <2>1
  <2>2. CASE ~(u = t /\ q = p)
    <3>1. activePasses[u][q].id \in Ids \ {id} /\ activePasses'[u][q] = activePasses[u][q]
      BY <1>1, <1>3, <1>9, <2>2 DEF CaptureInv, RecorderInv, RecorderTypeOK, ActivePass
    <3>2. FirstSide(u, q)' = FirstSide(u, q) /\ SecondSide(u, q)' = SecondSide(u, q)
      <4>1. FirstSide(u, q) = OpsPerSnapshot /\ SecondSide(u, q) = 0
        BY <1>0, <2>2 DEF FirstSide, SecondSide, Indexing, Returning
      <4>2. FirstSide(u, q)' = OpsPerSnapshot /\ SecondSide(u, q)' = 0
        BY <1>0, <1>4, <2>2, UnlockFacts DEF FirstSide, SecondSide, Indexing, Returning, SameCall
      <4> QED
        BY <4>1, <4>2
    <3> QED
      BY <1>5, <1>9, <3>1, <3>2 DEF EntriesIndexed
  <2> QED
    BY <2>1, <2>2
<1>10. ASSUME NEW r \in RowIds, passExecution[r].after # NoText, r # rootPass
       PROVE  FullyIndexed(r)'
  <2>1. r # id /\ r \in Ids
    <3>1. r # id
      BY <1>1, <1>10
    <3>2. RowIds \subseteq Ids
      BY DEF RowsFit
    <3> QED
      BY <3>1, <3>2
  <2>2. opIndex'[r] = opIndex[r] /\ FullyIndexed(r)
    BY <1>5, <1>10, <2>1 DEF RowsIndexed
  <2> QED
    BY <2>2 DEF FullyIndexed
<1> QED
  BY <1>3, <1>5, <1>9, <1>10, SameTable DEF EntriesIndexed, RowsIndexed

LEMMA EndIndexes ==
  ASSUME CaptureInv, EntriesInv, CallBounds, EntriesIndexed, RowsIndexed, Fidelity = "full",
         ~faulted', CompleteRow
  PROVE  EntriesIndexed' /\ RowsIndexed'
<1>0. PICK t, p, id : t = call.thread /\ p = call.pass /\ id = Current.id
  OBVIOUS
<1>1. /\ t \in Threads /\ p \in Passes /\ id # rootPass /\ id = activePasses[t][p].id
      /\ id \in RowIds /\ id # NoId
      /\ UNCHANGED <<activePasses, rootPass>>
      /\ Returning(t, p) /\ call.fn = "afterPass" /\ call.step = "end"
      /\ SameCall /\ call'.step = AfterEndStep(firstError')
  <2>1. At("afterPass", "end")
    BY DEF CompleteRow
  <2>2. UNCHANGED <<root, activePasses>>
    BY <1>0, CompleteRowFacts
  <2>3. id = activePasses[t][p].id
    BY <1>0 DEF Current
  <2>4. /\ t \in Threads /\ p \in Passes /\ Returning(t, p) /\ SameCall
        /\ activePasses[t][p].id \in RowIds /\ activePasses[t][p].id # rootPass
        /\ call'.step = AfterEndStep(firstError')
    BY <1>0, CompleteRowFacts
  <2>5. NoId \notin RowIds
    BY <2>4, EntryFacts
  <2> QED
    BY <2>1, <2>2, <2>3, <2>4, <2>5 DEF At, root
<1>2. ~StatementFails
  BY DEF StatementFails
<1>3. EndPass(id, call.text, call.failed \/ Differs(Current.before, call.text))
  BY <1>0, <1>2 DEF CompleteRow
<1>4. UNCHANGED opIndex
  BY <1>3 DEF EndPass
<1>5. RowEnded(id)
  <2>1. call.text \in OptTexts /\ StorageTypeOK
        /\ (call.failed \/ Differs(Current.before, call.text)) \in BOOLEAN
    BY <1>1, RowArguments DEF CaptureInv, RecorderInv
  <2> QED
    BY <1>3, <2>1, EndPassRow DEF RowEnded
<1>6. call'.step \in {"rootEnd", "status", "cleanup"}
  BY <1>1 DEF AfterEndStep
<1>7. EntriesIndexed'
  BY <1>1, <1>4, <1>6 DEF EntriesIndexed, FirstSide, SecondSide, Indexing, Returning, SameCall
<1>8. ASSUME call.text # NoText PROVE FullyIndexed(id)
  <2>1. ~call.failed
    BY <1>1, <1>8 DEF CallBounds
  <2>2. FirstSide(t, p) = OpsPerSnapshot /\ SecondSide(t, p) = OpsPerSnapshot
    BY <1>1, <2>1 DEF FirstSide, SecondSide, Indexing
  <2> QED
    BY <1>1, <2>2 DEF EntriesIndexed, FullyIndexed
<1>9. RowsIndexed'
  <2>1. ASSUME NEW r \in RowIds, passExecution'[r].after # NoText, r # rootPass
        PROVE  FullyIndexed(r)
    BY <1>5, <1>8, <2>1 DEF RowsIndexed, RowEnded
  <2> QED
    BY <1>1, <1>4, <1>5, <2>1 DEF RowsIndexed, RowEnded, FullyIndexed
<1> QED
  BY <1>7, <1>9

LEMMA IndexNext ==
  /\ CaptureInv /\ ManagerInv /\ EntriesInv /\ ErrorsInv /\ ReferencesInv
  /\ IndexInv /\ [Next]_vars
  => IndexInv'
<1> SUFFICES ASSUME CaptureInv, ManagerInv, EntriesInv, ErrorsInv, ReferencesInv,
                    IndexInv, [Next]_vars
             PROVE  IndexInv'
  OBVIOUS
<1>1. CallBounds /\ OpenRows /\ RowsFit
  BY DEF IndexInv
<1>2. CallBounds' /\ OpenRows' /\ RowsFit'
  BY <1>1, BoundsNext, OpenRowsNext, RowsFitNext
<1>3. ASSUME Fidelity = "full", ~faulted' PROVE EntriesIndexed' /\ RowsIndexed'
  <2>1. CASE ~attached
    BY <2>1, UnattachedIndexes
  <2>2. CASE attached
    <3>1. ~faulted
      BY <1>3, <2>2, FaultStays
    <3>2. EntriesIndexed /\ RowsIndexed
      BY <1>3, <3>1 DEF IndexInv
    <3>3. CASE Callback
      <4>1. RecorderStep /\ call.fn # "attach"
        BY <2>2, <3>3 DEF Callback, CaptureInv, RecorderInv, CallOK
      <4>2. \/ BeforeSnapshot \/ AfterSnapshot \/ CreateRoot \/ CompleteRoot \/ MarkFailed
            \/ CreateRow \/ ForgetPass \/ BeforeIndex \/ AfterIndex \/ CompleteRow
        BY <4>1 DEF RecorderStep, AttachCreate, AttachVersion, AttachProducer,
                    AttachFidelity, AttachStatement, At
      <4> QED
        BY <1>1, <1>3, <3>1, <3>2, <4>2, OutsideIndexes, BeginIndexes, ForgetIndexes,
           WalkIndexes, EndIndexes
    <3>4. CASE ~Callback
      BY <1>3, <2>2, <3>2, <3>4, OthersIndexes
    <3> QED
      BY <3>3, <3>4
  <2> QED
    BY <2>1, <2>2
<1> QED
  BY <1>2, <1>3 DEF IndexInv

LEMMA IndexInit == Init => IndexInv
<1> SUFFICES ASSUME Init PROVE IndexInv
  OBVIOUS
<1>1. RowIds = {} /\ \A t \in Threads, p \in Passes : activePasses[t][p].id = NoId
  BY EmptySeq DEF Init, StorageInit, RecorderInit, RowIds, NotActive
<1>2. call.fn = "none" /\ call.step = "idle"
  BY DEF Init, RecorderInit, NoCall
<1> QED
  BY <1>1, <1>2 DEF IndexInv, CallBounds, OpenRows, RowsFit, EntriesIndexed, RowsIndexed

\* The walk of each snapshot is accounted for, operation by operation.
THEOREM IndexInvariant == Spec => []IndexInv
<1>1. FileInv => ReferencesInv
  BY DEF FileInv
<1> QED
  BY <1>1, IndexInit, IndexNext, CaptureInvariant, ManagerInvariant, EntriesInvariant,
     ErrorsInvariant, FileInvariant, PTL DEF Spec

\* A completed snapshot is a fully indexed one, or finish() tells: as long as no error is
\* latched or has been returned, a row that has its after snapshot has every operation of
\* both its snapshots in op_index.
THEOREM SnapshotsAreIndexed == Spec => []CompletedIsIndexed
<1>1. CaptureInv /\ ErrorsInv /\ IndexInv => CompletedIsIndexed
  <2> SUFFICES ASSUME CaptureInv, ErrorsInv, IndexInv, Fidelity = "full",
                      ~firstError, reported # "error", NEW r \in RowIds,
                      passExecution[r].after # NoText, r # rootPass
               PROVE  opIndex[r] = [side \in {0, 1} |-> OpsPerSnapshot]
    BY DEF CompletedIsIndexed
  <2>1. attached
    BY EmptySeq DEF CaptureInv, RecorderInv, RecorderTypeOK, RowIds
  <2>2. ~faulted
    BY <2>1 DEF ErrorsInv, ErrorsSurface
  <2>3. FullyIndexed(r) /\ r \in Ids
    BY <2>2 DEF IndexInv, RowsIndexed, RowsFit
  <2>4. opIndex[r] \in [{0, 1} -> Nat]
    BY <2>3 DEF CaptureInv, RecorderInv, StorageTypeOK
  <2> QED
    BY <2>3, <2>4 DEF FullyIndexed
<1> QED
  BY <1>1, IndexInvariant, CaptureInvariant, ErrorsInvariant, PTL

-----------------------------------------------------------------------------
(* The root row.                                                            *)

\* The other threads work for Main: among any of them that are busy there is one
\* whose outermost pipeline belongs to a thread outside of them.
WorkIsRooted ==
  \A S \in SUBSET Threads :
    S # {} /\ Main \notin S /\ (\A t \in S : stack[t] # <<>>)
      => \E t \in S : stack[t][1].owner \notin S

\* The outermost pass has returned to the compiler, which waits for its callback.
MainReturned == call.fn = "afterPass" /\ call.thread = Main /\ stack[Main] = <<>>

\* The root row and rootBefore agree on the text the first pass was given.
RootRow == passExecution[rootPass]

RootStart ==
  /\ call.fn = "beforePass" =>
       call.text \in IF Fidelity = "timeline" THEN {NoText} ELSE Texts
  /\ rootPass # NoId =>
       /\ RootRow.before = rootBefore
       /\ rootBefore \in IF Fidelity = "timeline" THEN {NoText} ELSE Texts

\* That callback carries the module as it is, unless the pass failed.
MainText ==
  MainReturned /\ Fidelity # "timeline" /\ ~call.failed => call.text = moduleText

\* The root row describes the pipeline so far.
RootEnded ==
  /\ ~RootRow.open
  /\ Fidelity # "timeline" =>
       RootRow.after = moduleText /\ RootRow.changed = (RootRow.before # moduleText)

\* Once the callback of the outermost pass is about to end, the root is up to date.
RootSettled ==
  /\ Recording /\ Unmarked /\ stack[Main] = <<>> /\ rootPass # NoId
  /\ MainReturned => call.step = "cleanup"
  => RootEnded

RootInv == WorkIsRooted /\ RootStart /\ MainText /\ RootSettled

\* The outermost frame of another thread is a pipeline of a thread that is busy.
LEMMA OutermostFrame ==
  ASSUME CaptureInv, ManagerInv, NEW t \in Threads, t # Main, stack[t] # <<>>
  PROVE  /\ 1 \in Depths(t) /\ stack[t][1].kind = "pipeline"
         /\ stack[t][1].owner \in Threads /\ stack[stack[t][1].owner] # <<>>
<1>1. PICK n \in Nat : n = Len(stack[t]) /\ Depths(t) = 1 .. n /\ n # 0
  BY StackFacts
<1>2. 1 \in Depths(t) /\ stack[t][1] \in Frame
  BY <1>1, StackFacts
<1>3. stack[t][1].kind = "pipeline"
  BY <1>2 DEF ManagerInv, FramesOK, PassFrameOK, PatternFrameOK, Frame
<1>4. PICK o : o = stack[t][1].owner /\ o \in Threads
  BY <1>2 DEF Frame
<1>5. \E j \in Depths(o) : TRUE
  BY <1>2, <1>3, <1>4 DEF ManagerInv, FramesOK, PipelineFrameOK
<1>6. stack[o] # <<>>
  BY <1>4, <1>5, FrameFacts
<1> QED
  BY <1>2, <1>3, <1>4, <1>6

LEMMA RootedNext ==
  CaptureInv /\ ManagerInv /\ ManagerInv' /\ CaptureInv' /\ WorkIsRooted /\ [Next]_vars
    => WorkIsRooted'
<1> SUFFICES ASSUME CaptureInv, ManagerInv, ManagerInv', CaptureInv', WorkIsRooted, [Next]_vars,
                    NEW S \in SUBSET Threads, S # {}, Main \notin S,
                    \A t \in S : stack'[t] # <<>>
             PROVE  \E t \in S : stack'[t][1].owner \notin S
  BY DEF WorkIsRooted
<1> DEFINE R == {t \in S : stack[t] # <<>>}
<1>0. \A t \in S : stack'[t] \in Seq(Frame) /\ 1 \in Depths(t)'
  <2>1. \A t \in S : stack'[t] \in Seq(Frame)
    BY DEF CaptureInv, CaptureTypeOK
  <2>2. \A t \in S : Len(stack'[t]) \in Nat \ {0}
    BY <2>1, EmptySeq
  <2> QED
    BY <2>1, <2>2 DEF Depths
<1>1. CASE R # {}
  <2>1. R \in SUBSET Threads /\ Main \notin R /\ \A t \in R : stack[t] # <<>>
    OBVIOUS
  <2>2. PICK t \in R : stack[t][1].owner \notin R
    BY <1>1, <2>1 DEF WorkIsRooted
  <2>3. /\ t \in S /\ t \in Threads /\ t # Main /\ stack[t] # <<>>
    BY <2>2
  <2>4. 1 \in Depths(t) /\ stack[stack[t][1].owner] # <<>>
    BY <2>3, OutermostFrame
  <2>5. stack'[t][1].owner = stack[t][1].owner
    BY <1>0, <2>3, <2>4, FramesKept
  <2>6. stack[t][1].owner \notin S
    BY <2>2, <2>4
  <2> QED
    BY <2>3, <2>5, <2>6
<1>2. CASE R = {}
  <2>1. PICK t \in S : TRUE
    OBVIOUS
  <2>2. t \in Threads /\ t # Main /\ stack[t] = <<>> /\ 1 \in Depths(t)' /\ 1 \notin Depths(t)
    BY <1>0, <1>2, <2>1, EmptySeq DEF Depths
  <2>3. PICK frame \in Frame : Entered(t, frame) /\ stack'[t][1] = frame
    BY <2>2, NewFrames
  <2>4. frame.kind = "pipeline"
    BY <2>2, <2>3 DEF ManagerInv, FramesOK, PassFrameOK, PatternFrameOK, Frame
  <2>5. PICK o \in Threads : \E i \in Depths(o) :
          frame = NewFrame("pipeline", o, stack[o][i].pass, "running")
    BY <2>3, <2>4 DEF Entered
  <2>6. frame.owner = o /\ stack[o] # <<>>
    BY <2>5, FrameFacts DEF NewFrame
  <2>7. o \notin S
    BY <1>2, <2>6
  <2> QED
    BY <2>1, <2>3, <2>6, <2>7
<1> QED
  BY <1>1, <1>2

\* When the outermost pass has returned nothing else runs.
LEMMA MainIsLast ==
  ASSUME CaptureInv, ManagerInv, WorkIsRooted, stack[Main] = <<>>, NEW t \in Threads
  PROVE  stack[t] = <<>>
<1> DEFINE S == {u \in Threads : stack[u] # <<>>}
<1>1. S \in SUBSET Threads /\ Main \notin S /\ \A u \in S : stack[u] # <<>>
  OBVIOUS
<1>2. ASSUME NEW u \in S PROVE stack[u][1].owner \in S
  BY <1>1, <1>2, OutermostFrame
<1>3. S = {}
  BY <1>1, <1>2 DEF WorkIsRooted
<1> QED
  BY <1>3

LEMMA RootWritten ==
  ASSUME [Next]_vars
  PROVE  UNCHANGED <<rootPass, rootBefore>> \/ (CreateRoot /\ Callback)
<1>1. CASE Callback
  <2>1. UNCHANGED root \/ CreateRoot
    BY <1>1 DEF Callback, RecorderStep, AttachCreate, AttachProducer, AttachStatement,
         AttachVersion, AttachFidelity, BeforeSnapshot, CreateRow,
         BeforeIndex, AfterSnapshot, AfterIndex, CompleteRow, CompleteRoot,
         MarkFailed, ForgetPass
  <2> QED
    BY <1>1, <2>1 DEF root
<1>2. ASSUME NEW t \in Threads, PassManager(t) PROVE UNCHANGED <<rootPass, rootBefore>>
  BY <1>2, ManagerTable, NotifyTable
<1> QED
  BY <1>1, <1>2 DEF Next, CallAttach, Attach, CallFinish, Finish, Rewrite, StartTopLevelPass,
                    BeforePass, vars, recorderVars, root

LEMMA ModuleWritten ==
  ASSUME [Next]_vars
  PROVE  UNCHANGED moduleText \/ (Rewrite /\ UNCHANGED <<call, stack>>)
<1>1. ASSUME NEW t \in Threads, PassManager(t) PROVE UNCHANGED moduleText
  BY <1>1 DEF PassManager, StartNestedPass, StartPipeline, ReturnFromPass, EndPipeline,
              AbandonPipeline, EnterAction, LeaveAction, EnterPattern, LeavePattern,
              NotifyOperation, managerVars
<1> QED
  BY <1>1 DEF Next, CallAttach, CallFinish, Callback, Rewrite, StartTopLevelPass, managerVars,
              recorderVars, vars

LEMMA RootStartNext == CaptureInv /\ RootStart /\ [Next]_vars => RootStart'
<1> SUFFICES ASSUME CaptureInv, RootStart, [Next]_vars PROVE RootStart'
  OBVIOUS
<1> DEFINE Valid == IF Fidelity = "timeline" THEN {NoText} ELSE Texts
<1>1. call'.fn = "beforePass" => call'.text \in Valid
  <2>1. CASE Callback
    <3>1. (SameCall \/ Unlock) /\ (Unlock => call'.fn = "none")
      BY <2>1, CallbackCall, UnlockFacts DEF Callback, CaptureInv
    <3> QED
      BY <3>1 DEF SameCall, RootStart
  <2>2. CASE UNCHANGED call
    BY <2>2 DEF RootStart
  <2>3. ASSUME NEW t, NEW p, NEW text \in Texts, BeforePass(t, p, text)
        PROVE  call'.fn = "beforePass" => call'.text \in Valid
    <3>1. CASE Recording
      <4>1. call'.text = IF Fidelity = "timeline" THEN NoText ELSE text
        BY <2>3, <3>1 DEF BeforePass
      <4> QED
        BY <4>1
    <3> QED
      BY <2>2, <2>3, <3>1 DEF BeforePass
  <2>4. ASSUME NEW t, NEW p, NEW failed, NEW text, AfterPass(t, p, failed, text)
        PROVE  call'.fn = "beforePass" => call'.text \in Valid
    BY <2>2, <2>4 DEF AfterPass
  <2>5. ASSUME NEW t \in Threads, PassManager(t)
        PROVE  call'.fn = "beforePass" => call'.text \in Valid
    BY <2>2, <2>3, <2>4, <2>5, ManagerCall
  <2>6. moduleText \in Texts
    BY DEF CaptureInv, CaptureTypeOK
  <2>7. CallAttach => call'.fn = "attach"
    BY DEF CallAttach, Attach, NoCall
  <2> QED
    BY <2>1, <2>2, <2>3, <2>5, <2>6, <2>7
       DEF Next, CallFinish, Finish, Rewrite, StartTopLevelPass, vars, recorderVars
<1>2. ASSUME rootPass' # NoId
      PROVE  passExecution'[rootPass'].before = rootBefore' /\ rootBefore' \in Valid
  <2>1. CASE UNCHANGED <<rootPass, rootBefore>>
    <3>1. rootPass \in RowIds
      <4>1. passExecution # <<>> /\ passExecution \in Seq(Row) /\ rootPass = 1
        BY <1>2, <2>1 DEF CaptureInv, RecorderInv, IdsOK, StorageTypeOK
      <4>2. Len(passExecution) \in Nat \ {0}
        BY <4>1, EmptySeq
      <4> QED
        BY <4>1, <4>2 DEF RowIds
    <3>2. passExecution'[rootPass].before = passExecution[rootPass].before
      BY <3>1, RowsKept DEF RowsKeep
    <3> QED
      BY <1>2, <2>1, <3>2 DEF RootStart, RootRow
  <2>2. CASE CreateRoot /\ ~UNCHANGED <<rootPass, rootBefore>>
    <3>1. /\ rootPass' = NextRowId /\ rootBefore' = call.text
          /\ passExecution'[NextRowId].before = call.text
      BY <2>2, CreateRootRow
    <3>2. call.text \in Valid
      BY <2>2 DEF CreateRoot, At, RootStart
    <3> QED
      BY <3>1, <3>2
  <2> QED
    BY <2>1, <2>2, RootWritten
<1> QED
  BY <1>1, <1>2 DEF RootStart, RootRow

LEMMA ReturnText ==
  ASSUME CaptureInv, NEW t \in Threads, NEW failed \in BOOLEAN, ReturnFromPass(t, failed)
  PROVE  MainText'
<1> SUFFICES ASSUME MainReturned', Fidelity # "timeline", ~call'.failed
             PROVE  call'.text = moduleText'
  BY DEF MainText
<1>1. PICK n : n = Len(stack[t]) /\ n \in Nat
  BY StackFacts
<1>2. PICK text \in Printed(n) : AfterPass(t, Top(t).pass, failed, text)
  BY <1>1 DEF ReturnFromPass
<1>3. call'.thread = t /\ call'.failed = failed /\ call'.text = IF failed THEN NoText ELSE text
  BY <1>2 DEF AfterPass, MainReturned, LockFree
<1>4. t = Main
  BY <1>3 DEF MainReturned
<1>5. Popped(t) /\ stack'[t] = <<>>
  BY <1>4, ReturnFacts DEF MainReturned
<1>6. Len(stack'[t]) = 0 /\ Len(stack'[t]) = n - 1
  BY <1>1, <1>5, EmptySeq DEF Popped
<1>7. n = 1
  BY <1>1, <1>6
<1>8. text = moduleText
  BY <1>2, <1>7 DEF Printed
<1> QED
  BY <1>3, <1>8 DEF ReturnFromPass

LEMMA MainTextNext == CaptureInv /\ ManagerInv /\ MainText /\ [Next]_vars => MainText'
<1> SUFFICES ASSUME CaptureInv, ManagerInv, MainText, [Next]_vars PROVE MainText'
  OBVIOUS
<1>1. CASE Callback
  <2>1. (SameCall \/ Unlock) /\ (Unlock => call'.fn = "none") /\ UNCHANGED managerVars
    BY <1>1, CallbackCall, UnlockFacts DEF Callback, CaptureInv
  <2> QED
    BY <2>1 DEF SameCall, MainText, MainReturned, managerVars
<1>2. CASE UNCHANGED <<call, stack, moduleText>>
  BY <1>2 DEF MainText, MainReturned
<1>3. ASSUME call'.fn # "afterPass" PROVE MainText'
  BY <1>3 DEF MainText, MainReturned
<1>4. CASE Rewrite
  BY <1>3, <1>4 DEF Rewrite, recorderVars, LockFree
<1>5. ASSUME NEW p \in Passes, StartTopLevelPass(p) PROVE MainText'
  BY <1>3, <1>5 DEF StartTopLevelPass, BeforePass, LockFree
<1>6. ASSUME NEW t \in Threads, PassManager(t) PROVE MainText'
  <2>1. CASE \E failed \in BOOLEAN : ReturnFromPass(t, failed)
    BY <2>1, ReturnText
  <2>2. CASE AbandonPipeline(t)
    <3> SUFFICES ASSUME MainReturned' PROVE MainReturned /\ UNCHANGED <<call, moduleText>>
      BY DEF MainText
    <3>1. UNCHANGED <<call, moduleText>> /\ Popped(t) /\ Free(t)
      BY <2>2, AbandonFacts DEF AbandonPipeline, recorderVars
    <3>2. t # Main
      BY <3>1 DEF MainReturned, Free, LockFree
    <3>3. Main \in Threads /\ stack'[Main] = <<>>
      BY CaptureAssumption DEF MainReturned
    <3>4. Len(stack'[Main]) = 0 /\ Len(stack'[Main]) = Len(stack[Main])
      BY <3>1, <3>2, <3>3, EmptySeq DEF Popped
    <3>5. stack[Main] = <<>>
      BY <3>3, <3>4, StackFacts
    <3> QED
      BY <3>1, <3>5 DEF MainReturned
  <2>3. CASE \E p \in Passes : StartNestedPass(t, p)
    BY <1>3, <2>3 DEF StartNestedPass, BeforePass, LockFree
  <2>4. CASE \E o \in Threads : \E i \in Depths(o) : StartPipeline(o, i, t)
    BY <1>3, <2>4 DEF StartPipeline, BeforePipeline, LockFree
  <2>5. CASE EndPipeline(t)
    BY <1>3, <2>5 DEF EndPipeline, AfterPipeline, LockFree
  <2>6. CASE EnterAction(t) \/ LeaveAction(t) \/ EnterPattern(t) \/ LeavePattern(t)
    BY <1>3, <2>6 DEF EnterAction, LeaveAction, EnterPattern, LeavePattern, BeginAction,
          EndAction, BeginPattern, EndPattern, UnchangedExceptNames, LockFree
  <2>7. CASE NotifyOperation(t)
    BY <1>2, <2>7, NotifyTable DEF NotifyOperation, managerVars
  <2> QED
    BY <1>6, <2>1, <2>2, <2>3, <2>4, <2>5, <2>6, <2>7 DEF PassManager
<1>7. CASE CallAttach
  BY <1>3, <1>7 DEF CallAttach, Attach, NoCall
<1> QED
  BY <1>1, <1>2, <1>4, <1>5, <1>6, <1>7 DEF Next, CallFinish, Finish, vars, recorderVars,
     managerVars

\* Every statement of the callback of the outermost pass keeps the root settled.
LEMMA CallbackSettled ==
  ASSUME CaptureInv, ManagerInv, EntriesInv, WorkIsRooted, RootStart, MainText, RootSettled,
         PassParents, Following, Recording, Unmarked, attached, Callback, [Next]_vars,
         Recording', Unmarked', stack'[Main] = <<>>, rootPass' # NoId,
         MainReturned' => call'.step = "cleanup"
  PROVE  RootEnded'
<1>1. UNCHANGED stack /\ UNCHANGED moduleText /\ stack[Main] = <<>> /\ Main \in Threads
  BY CaptureAssumption DEF Callback, managerVars
<1>2. call.fn # "none" /\ call.fn # "attach"
  BY CallbackCall DEF Callback, CaptureInv, RecorderInv, CallOK
<1>3. call.fn \in {"beforePass", "afterPass"} /\ call \in Call
  BY <1>2 DEF CaptureInv, RecorderInv, RecorderTypeOK, Call
<1>4. stack[call.thread] = <<>>
  BY <1>1, <1>3, RowArguments, MainIsLast
<1>5. call.fn = "afterPass" /\ call.thread = Main
  BY <1>3, <1>4 DEF ManagerInv, CallFollows
<1>6. MainReturned
  BY <1>1, <1>5 DEF MainReturned
<1>7. ASSUME SameCall PROVE call'.step = "cleanup"
  BY <1>1, <1>6, <1>7 DEF MainReturned, SameCall
<1>8. rootPass' = rootPass /\ rootPass # NoId
  BY <1>5, RootWritten DEF CreateRoot, At
<1>9. ~firstError' /\ ~firstError
  BY DEF Recording
<1>10. RecorderInv
  BY DEF CaptureInv
<1>11. CASE AfterSnapshot
  <2>1. (Fidelity = "full" => "index" \in Steps) /\ "end" \in Steps
    BY DEF Steps
  <2>2. \E step \in {"index", "end"} : GoTo(step)
    BY <1>9, <1>11 DEF AfterSnapshot, RememberError
  <2>3. PICK step \in {"index", "end"} : GoTo(step)
    BY <2>2
  <2>4. step \in Steps
    BY <2>3 DEF Steps
  <2>5. SameCall /\ call'.step = step
    BY <1>2, <1>10, <2>3, <2>4, GoToCall
  <2> QED
    BY <1>7, <2>3, <2>5
<1>12. CASE AfterIndex
  <2>1. IndexRow(1, "end") /\ call.step = "index"
    BY <1>12 DEF AfterIndex, At
  <2>2. SameCall /\ call'.step \in {"index", "end"}
    BY <1>2, <1>10, <2>1, IndexCall
  <2> QED
    BY <1>7, <2>2
<1>13. CASE CompleteRow
  <2>1. PICK t, p : t = call.thread /\ p = call.pass
    OBVIOUS
  <2>2. t \in Threads /\ p \in Passes /\ Returning(t, p)
    BY <1>13, <2>1, CompleteRowFacts
  <2>3. activePasses[t][p].parent = EnclosingRow(t, Len(stack[t]) + 1)
    BY <2>2 DEF PassParents
  <2>4. Len(stack[t]) + 1 = 1
    BY <1>1, <1>5, <2>1, StackFacts
  <2>5. Current.parent = rootPass
    BY <2>1, <2>3, <2>4 DEF EnclosingRow, Current
  <2>6. GoTo(AfterEndStep(firstError))
    BY <1>9, <1>13 DEF CompleteRow, RememberError
  <2>7. AfterEndStep(firstError) = "rootEnd"
    BY <1>9, <2>5 DEF AfterEndStep
  <2>8. "rootEnd" \in Steps
    BY DEF Steps
  <2>9. SameCall /\ call'.step = "rootEnd"
    BY <1>2, <1>10, <2>6, <2>7, <2>8, GoToCall
  <2> QED
    BY <1>7, <2>9
<1>14. CASE CompleteRoot
  <2>1. /\ SameCall /\ RowEnded(rootPass) /\ passExecution'[rootPass].changed = RootChanged
        /\ call'.step = IF call.failed THEN "status" ELSE "cleanup"
    BY <1>9, <1>14, CompleteRootRow DEF RememberError
  <2>2. ~call.failed
    BY <1>7, <2>1
  <2>3. passExecution'[rootPass].before = rootBefore
    BY <1>8, <2>1 DEF RowEnded, RowsKeep, RootStart, RootRow
  <2>4. ASSUME Fidelity # "timeline"
        PROVE  /\ passExecution'[rootPass].after = moduleText
               /\ passExecution'[rootPass].changed = (passExecution'[rootPass].before # moduleText)
    <3>1. call.text = moduleText
      BY <1>6, <2>2, <2>4 DEF MainText
    <3>2. rootBefore \in Texts /\ moduleText \in Texts
      BY <1>8, <2>4 DEF RootStart, CaptureInv, CaptureTypeOK
    <3>3. rootBefore # NoText /\ moduleText # NoText
      BY <3>2, StorageAssumption
    <3>4. RootChanged = (rootBefore # moduleText)
      BY <2>2, <3>1, <3>3 DEF RootChanged, Differs, CaptureInv, RecorderInv, RecorderTypeOK, Call
    <3> QED
      BY <2>1, <2>3, <3>1, <3>4 DEF RowEnded
  <2> QED
    BY <1>1, <1>8, <2>1, <2>4 DEF RootEnded, RootRow, RowEnded
<1>15. CASE MarkFailed
  BY <1>9, <1>15 DEF MarkFailed, SetMeta, Unmarked, RememberError
<1>16. CASE ForgetPass
  <2>1. PICK t, p : t = call.thread /\ p = call.pass
    OBVIOUS
  <2>2. call.step = "cleanup" /\ UNCHANGED passExecution
    BY <1>16, <2>1, ForgetFacts DEF storageVars
  <2>3. RootEnded
    BY <1>1, <1>8, <2>2 DEF RootSettled
  <2> QED
    BY <1>1, <1>8, <2>2, <2>3 DEF RootEnded, RootRow
<1> QED
  BY <1>5, <1>11, <1>12, <1>13, <1>14, <1>15, <1>16
     DEF Callback, RecorderStep, AttachCreate, AttachStatement, AttachVersion, AttachProducer,
         AttachFidelity, BeforeSnapshot, CreateRoot, CreateRow, BeforeIndex, At

\* A pass that returns to the compiler enters its callback; the root is not settled yet.
LEMMA ReturnUnsettled ==
  ASSUME CaptureInv, ManagerInv, EntriesInv, Following, Recording, [Next]_vars,
         LockFree, stack[Main] # <<>>, stack'[Main] = <<>>
  PROVE  MainReturned' /\ call'.step # "cleanup"
<1>1. Main \in Threads
  BY CaptureAssumption
<1>2. PICK n \in Nat : n = Len(stack[Main]) /\ n # 0
  BY <1>1, StackFacts
<1>3. Len(stack'[Main]) = 0
  BY EmptySeq
<1>4. PICK t \in Threads : Left(t)
  BY <1>1, <1>2, <1>3, StackSteps DEF Entered, Pushed, Rephased
<1>5. t = Main /\ n = 1
  <2>1. Popped(t)
    BY <1>4 DEF Left
  <2>2. Len(stack'[Main]) = IF Main = t THEN n - 1 ELSE n
    BY <1>1, <1>2, <2>1 DEF Popped
  <2> QED
    BY <1>2, <1>3, <2>2
<1>6. 1 \in Depths(Main) /\ Top(Main) = stack[Main][1] /\ stack[Main][1] \in Frame
  BY <1>1, <1>2, <1>5, StackFacts
<1>7. Top(Main).kind = "pass"
  BY <1>1, <1>6 DEF ManagerInv, FramesOK, PipelineFrameOK, PatternFrameOK, Frame
<1>8. PICK failed \in BOOLEAN : ReturnFromPass(Main, failed)
  BY <1>4, <1>5, <1>7 DEF Left, AbandonPipeline, EndPipeline, TopIs
<1>9. PICK p \in Passes : p = Top(Main).pass /\ Inside(Main, p)
  BY <1>1, <1>6, <1>7 DEF Frame, Inside, IsPass
<1>10. activePasses[Main][p].id # NoId
  BY <1>1, <1>9, FollowingFacts DEF EntriesInv, EntriesFollow
<1>11. PICK text : AfterPass(Main, p, failed, text)
  BY <1>8, <1>9 DEF ReturnFromPass
<1>12. call'.fn = "afterPass" /\ call'.thread = Main /\ call'.step = AfterEntryStep(failed)
  BY <1>10, <1>11 DEF AfterPass
<1> QED
  BY <1>12 DEF MainReturned, AfterEntryStep

LEMMA RootSettledNext ==
  /\ CaptureInv /\ CaptureInv' /\ ManagerInv /\ EntriesInv /\ ErrorsInv /\ OwnersInv /\ RootInv
  /\ [Next]_vars
  => RootSettled'
<1> SUFFICES ASSUME CaptureInv, CaptureInv', ManagerInv, EntriesInv, ErrorsInv, OwnersInv, RootInv,
                    [Next]_vars, Recording', Unmarked', stack'[Main] = <<>>, rootPass' # NoId,
                    MainReturned' => call'.step = "cleanup"
             PROVE  RootEnded'
  BY DEF RootSettled
<1>1. attached
  <2>1. ASSUME ~attached PROVE rootPass = NoId /\ rootPass' # rootPass
    BY <2>1 DEF CaptureInv, RecorderInv, IdsOK
  <2>2. ASSUME CreateRoot PROVE attached
    BY <2>2 DEF CreateRoot, At, CaptureInv, RecorderInv, CallOK
  <2> QED
    BY <2>1, <2>2, RootWritten
<1>2. Recording /\ Following /\ Unmarked
  <2>1. Recording
    BY <1>1, StillRecording
  <2>2. Following'
    BY DEF Following
  <2> QED
    BY <1>1, <2>1, <2>2, StillFollowing
<1>3. CASE Callback
  BY <1>1, <1>2, <1>3, CallbackSettled DEF RootInv, OwnersInv
<1>4. CASE ~Callback
  <2>1. UNCHANGED rootPass /\ (~LockFree => UNCHANGED <<stack, call>>)
    BY <1>2, <1>4, HeldManager DEF OwnersInv
  <2>2. UNCHANGED passExecution
    BY <1>1, <1>4, RowsWritten
  <2>3. stack[Main] = <<>>
    <3>1. ASSUME stack[Main] # <<>> PROVE FALSE
      <4>1. LockFree
        BY <2>1, <3>1
      <4> QED
        BY <1>2, <3>1, <4>1, ReturnUnsettled
    <3> QED
      BY <3>1
  <2>4. UNCHANGED moduleText
    BY <2>3, ModuleWritten DEF Rewrite
  <2>5. MainReturned => call.step = "cleanup"
    <3>1. ASSUME MainReturned PROVE MainReturned' /\ call' = call
      BY <2>1, <3>1 DEF MainReturned, LockFree
    <3> QED
      BY <3>1
  <2>6. RootEnded
    BY <1>2, <2>1, <2>3, <2>5 DEF RootInv, RootSettled
  <2> QED
    BY <2>1, <2>2, <2>4, <2>6 DEF RootEnded, RootRow
<1> QED
  BY <1>3, <1>4

LEMMA RootInit == Init => RootInv
<1> SUFFICES ASSUME Init PROVE RootInv
  OBVIOUS
<1>1. /\ \A t \in Threads : stack[t] = <<>>
      /\ rootPass = NoId /\ call.fn = "none"
  BY DEF Init, RecorderInit, NoCall
<1>2. WorkIsRooted
  <2> SUFFICES ASSUME NEW S \in SUBSET Threads, S # {}, \A t \in S : stack[t] # <<>>
               PROVE  FALSE
    BY DEF WorkIsRooted
  <2> QED
    BY <1>1
<1> QED
  BY <1>1, <1>2 DEF RootInv, RootStart, MainText, MainReturned, RootSettled

\* The root row, the text of the callback of the outermost pass and the module
\* agree at every statement.
THEOREM RootInvariant == Spec => []RootInv
<1>1. CaptureInv /\ CaptureInv' /\ ManagerInv /\ ManagerInv' /\ EntriesInv /\ ErrorsInv
        /\ OwnersInv /\ RootInv /\ [Next]_vars
      => RootInv'
  BY RootedNext, RootStartNext, MainTextNext, RootSettledNext DEF RootInv
<1> QED
  BY <1>1, RootInit, CaptureInvariant, ManagerInvariant, EntriesInvariant, ErrorsInvariant,
     OwnersInvariant, PTL DEF Spec

\* RootSummarises: between two top-level passes the root row describes the pipeline so
\* far: it is closed, it ends with the module as it is now, and changed compares that
\* with the module its first pass was given.
THEOREM RootIsSummary == Spec => []RootSummarises
<1>1. RootInv => RootSummarises
  BY DEF RootInv, RootSettled, RootEnded, RootRow, RootSummarises, MainReturned, LockFree
<1> QED
  BY <1>1, RootInvariant, PTL

-----------------------------------------------------------------------------
(* The rows implement PassTree.                                             *)

\* The rows, as the nodes that Capture!Tree sees.
RowNode(r) == [parent |-> passExecution[r].parent, open |-> passExecution[r].open]
RowTree    == [r \in RowIds |-> RowNode(r)]

LEMMA FunctionsAreSequences ==
  ASSUME NEW S, NEW n \in Nat, NEW f \in [1 .. n -> S]
  PROVE  f \in Seq(S) /\ Len(f) = n
<1>1. f \in Seq(S)
  BY SeqDef
<1>2. DOMAIN f = 1 .. Len(f) /\ Len(f) \in Nat
  BY <1>1, LenProperties
<1> QED
  BY <1>2

LEMMA RowTreeFacts ==
  ASSUME StorageTypeOK
  PROVE  /\ RowTree \in Seq(Tree!Node) /\ Len(RowTree) = Len(passExecution)
         /\ Tree!NodeIds = RowIds /\ \A r \in RowIds : RowTree[r] = RowNode(r)
<1>1. passExecution \in Seq(Row) /\ Len(passExecution) \in Nat
  BY LenProperties DEF StorageTypeOK
<1>2. \A r \in RowIds : passExecution[r] \in Row
  BY <1>1, ElementOfSeq DEF RowIds
<1>3. \A r \in RowIds : RowNode(r) \in Tree!Node
  BY <1>2 DEF RowNode, Row, Tree!Node, Ids, NoId
<1>4. RowTree \in [1 .. Len(passExecution) -> Tree!Node]
  BY <1>3 DEF RowTree, RowIds
<1>5. RowTree \in Seq(Tree!Node) /\ Len(RowTree) = Len(passExecution)
  BY <1>1, <1>4, FunctionsAreSequences
<1>6. Tree!NodeIds = 1 .. Len(RowTree)
  BY DEF Tree!NodeIds, RowTree, RowNode
<1> QED
  BY <1>5, <1>6 DEF RowTree, RowIds

\* A row more is a node more, open and below the parent of the row.
LEMMA RowBegunTree ==
  ASSUME StorageTypeOK, StorageTypeOK', RowBegun,
         NEW p, passExecution'[NextRowId].parent = p
  PROVE  RowTree' = Append(RowTree, [parent |-> p, open |-> TRUE])
<1>1. PICK n \in Nat : n = Len(passExecution)
  BY LenProperties DEF StorageTypeOK
<1>2. PICK m \in Nat : m = Len(passExecution')
  BY LenProperties DEF StorageTypeOK
<1>3. 1 .. m = (1 .. n) \union {n + 1}
  BY <1>1, <1>2 DEF RowBegun, RowIds, NextRowId
<1>4. m = n + 1
  <2>1. n + 1 \in 1 .. m
    BY <1>3
  <2>2. m \in 1 .. m
    BY <1>2, <2>1
  <2>3. m \in (1 .. n) \union {n + 1}
    BY <1>3, <2>2
  <2> QED
    BY <1>2, <2>1, <2>3
<1>5. /\ RowTree \in Seq(Tree!Node) /\ Len(RowTree) = n
      /\ \A r \in 1 .. n : RowTree[r] = RowNode(r)
  BY <1>1, RowTreeFacts DEF RowIds
<1>6. /\ RowTree' \in Seq(Tree!Node) /\ Len(RowTree') = n + 1
      /\ \A r \in 1 .. (n + 1) : RowTree'[r] = RowNode(r)'
  <2>1. \A r \in RowIds' : RowTree'[r] = RowNode(r)'
    BY DEF RowTree
  <2>2. RowTree' \in Seq(Tree!Node) /\ Len(RowTree') = Len(passExecution')
    <3>1. passExecution' \in Seq(Row) /\ Len(passExecution') \in Nat
      BY LenProperties DEF StorageTypeOK
    <3>2. \A r \in RowIds' : passExecution'[r] \in Row
      BY <3>1, ElementOfSeq DEF RowIds
    <3>3. \A r \in RowIds' : RowNode(r)' \in Tree!Node
      BY <3>2 DEF RowNode, Row, Tree!Node, Ids, NoId
    <3>4. RowTree' \in [1 .. Len(passExecution') -> Tree!Node]
      BY <3>3 DEF RowTree, RowIds
    <3> QED
      BY <3>1, <3>4, FunctionsAreSequences
  <2> QED
    BY <1>2, <1>4, <2>1, <2>2 DEF RowIds
<1> DEFINE node == [parent |-> p, open |-> TRUE]
<1>7. passExecution'[n + 1].open = TRUE
  <2>1. n + 1 \in RowIds' /\ passExecution' \in Seq(Row)
    BY <1>2, <1>4 DEF RowIds, StorageTypeOK
  <2>2. passExecution'[n + 1] \in Row
    BY <2>1, ElementOfSeq DEF RowIds
  <2> QED
    BY <1>1, <2>2 DEF RowBegun, NextRowId, Row
<1>8. RowTree'[n + 1] = node
  <2>1. passExecution'[n + 1].parent = p
    BY <1>1 DEF NextRowId
  <2>2. RowNode(n + 1)' = node
    BY <1>7, <2>1 DEF RowNode
  <2>3. n + 1 \in 1 .. (n + 1)
    BY <1>1
  <2> QED
    BY <1>6, <2>2, <2>3
<1>9. \A r \in 1 .. n : RowTree'[r] = RowTree[r]
  BY <1>1, <1>5, <1>6 DEF RowNode, RowBegun, RowIds
<1>10. node \in Tree!Node
  BY <1>6, <1>8, ElementOfSeq
<1>11. Append(RowTree, node) \in Seq(Tree!Node) /\ Len(Append(RowTree, node)) = n + 1
       /\ Append(RowTree, node)[n + 1] = node
       /\ \A r \in 1 .. n : Append(RowTree, node)[r] = RowTree[r]
  BY <1>5, <1>10, AppendProperties
<1>12. \A r \in 1 .. (n + 1) : RowTree'[r] = Append(RowTree, node)[r]
  BY <1>8, <1>9, <1>11
<1> HIDE DEF node
<1>13. RowTree' = Append(RowTree, node)
  BY <1>6, <1>11, <1>12, SeqEqual
<1> QED
  BY <1>13 DEF node

\* Ending a row closes its node.
LEMMA RowEndedTree ==
  ASSUME StorageTypeOK, StorageTypeOK', NEW id, RowEnded(id)
  PROVE  RowTree' = [RowTree EXCEPT ![id].open = FALSE]
<1>1. RowTree' = [r \in RowIds |-> RowNode(r)']
  BY DEF RowTree, RowEnded
<1>2. passExecution'[id].open = FALSE
  <2>1. id \in 1 .. Len(passExecution') /\ passExecution' \in Seq(Row)
    BY DEF RowEnded, RowIds, StorageTypeOK
  <2>2. passExecution'[id] \in Row
    BY <2>1, ElementOfSeq
  <2> QED
    BY <2>2 DEF RowEnded, Row
<1>3. \A r \in RowIds : RowNode(r)' = IF r = id THEN [RowNode(r) EXCEPT !.open = FALSE]
                                              ELSE RowNode(r)
  BY <1>2 DEF RowNode, RowEnded, RowsKeep
<1>4. [RowTree EXCEPT ![id].open = FALSE]
        = [r \in RowIds |-> IF r = id THEN [RowNode(r) EXCEPT !.open = FALSE] ELSE RowNode(r)]
  BY DEF RowTree
<1> QED
  BY <1>1, <1>3, <1>4

\* The root is only ever completed after one of its children.
RootEndOwn == At("afterPass", "rootEnd") => Current.parent = rootPass

LEMMA RootEndNext == CaptureInv /\ RootEndOwn /\ [Next]_vars => RootEndOwn'
<1> SUFFICES ASSUME CaptureInv, RootEndOwn, [Next]_vars,
                    call'.fn = "afterPass", call'.step = "rootEnd"
             PROVE  Current.parent' = rootPass'
  BY DEF RootEndOwn, At
<1>1. CASE Callback
  <2>1. SameCall /\ call.fn = "afterPass" /\ RecorderInv /\ call.fn # "none"
    BY <1>1, CallbackCall, UnlockFacts DEF Callback, CaptureInv, SameCall
  <2>2. ASSUME NEW step \in Steps, GoTo(step) PROVE step = "rootEnd"
    BY <2>1, <2>2, GoToCall
  <2>3. /\ "index" \in Steps /\ "end" \in Steps /\ "rootEnd" \in Steps
        /\ "status" \in Steps /\ "cleanup" \in Steps
    BY DEF Steps
  <2>4. ~Unlock
    BY UnlockFacts
  <2>5. ~AfterSnapshot
    BY <2>2, <2>3, <2>4 DEF AfterSnapshot
  <2>6. ~AfterIndex
    <3>1. AfterIndex => IndexRow(1, "end") /\ call.step = "index"
      BY DEF AfterIndex, At
    <3> QED
      BY <2>1, <3>1, IndexCall
  <2>7. ~CompleteRoot
    BY <2>2, <2>3 DEF CompleteRoot
  <2>8. ~MarkFailed
    BY <2>2, <2>3 DEF MarkFailed
  <2>9. ~ForgetPass
    BY <2>4 DEF ForgetPass
  <2>10. CompleteRow
    BY <1>1, <2>1, <2>5, <2>6, <2>7, <2>8, <2>9
       DEF Callback, RecorderStep, AttachCreate, AttachStatement, AttachVersion, AttachProducer,
           AttachFidelity, BeforeSnapshot, CreateRoot, CreateRow, BeforeIndex, At
  <2>11. UNCHANGED <<root, maps>>
    BY <2>10 DEF CompleteRow
  <2>12. Current.parent' = Current.parent /\ rootPass' = rootPass
    BY <2>1, <2>11 DEF root, maps, Current, SameCall
  <2>13. AfterEndStep(firstError) \in Steps /\ AfterEndStep(TRUE) \in Steps
    BY <2>3 DEF AfterEndStep
  <2>14. AfterEndStep(firstError) = "rootEnd" \/ AfterEndStep(TRUE) = "rootEnd"
    BY <2>2, <2>10, <2>13 DEF CompleteRow
  <2>15. Current.parent = rootPass
    BY <2>14 DEF AfterEndStep
  <2> QED
    BY <2>12, <2>15
<1>2. ASSUME ~Callback, UNCHANGED call PROVE Current.parent' = rootPass'
  <2>1. UNCHANGED <<activePasses, rootPass>>
    BY <1>2, NestingWritten DEF Callback, RecorderStep
  <2> QED
    BY <1>2, <2>1 DEF RootEndOwn, At, Current
<1>3. ASSUME NEW t, NEW p, NEW text, BeforePass(t, p, text) PROVE UNCHANGED call
  BY <1>3 DEF BeforePass
<1>4. ASSUME NEW t, NEW p, NEW failed, NEW text, AfterPass(t, p, failed, text) PROVE UNCHANGED call
  BY <1>4 DEF AfterPass, AfterEntryStep
<1>5. ASSUME NEW t \in Threads, PassManager(t) PROVE UNCHANGED call
  BY <1>3, <1>4, <1>5, ManagerCall
<1>6. CallAttach => call'.fn = "attach"
  BY DEF CallAttach, Attach, NoCall
<1>7. ASSUME NEW p \in Passes, StartTopLevelPass(p) PROVE UNCHANGED call
  BY <1>3, <1>7 DEF StartTopLevelPass
<1> QED
  BY <1>1, <1>2, <1>5, <1>6, <1>7 DEF Next, CallFinish, Finish, Rewrite, vars, recorderVars

LEMMA RootEndInvariant == Spec => []RootEndOwn
<1>1. Init => RootEndOwn
  BY DEF Init, RecorderInit, NoCall, RootEndOwn, At
<1> QED
  BY <1>1, RootEndNext, CaptureInvariant, PTL DEF Spec

\* A row that is open belongs to a pass that has not been completed.
LEMMA OpenRowOwner ==
  ASSUME CaptureInv, EntriesInv, Following, Forest, NEW m \in RowIds, passExecution[m].open,
         NEW id, id # NoId, passExecution[m].parent = id
  PROVE  \E t \in Threads, p \in Passes :
           /\ activePasses[t][p].id = m /\ activePasses[t][p].parent = id
           /\ IsRecorded(t, p) /\ (Closing(t, p) => firstError) /\ m # id
<1>1. rootPass = 1 \/ RowIds = {}
  <2>1. passExecution = <<>> => RowIds = {}
    BY EmptySeq DEF RowIds
  <2> QED
    BY <2>1 DEF CaptureInv, RecorderInv, IdsOK
<1>2. m # rootPass /\ m # id /\ m # NoId
  BY <1>1 DEF Forest, RowIds, NoId
<1>3. PICK t \in Threads, p \in Passes :
        activePasses[t][p].id = m /\ (Closing(t, p) => firstError)
  BY <1>2 DEF EntriesInv, OpenFollows
<1>4. activePasses[t][p].parent = id /\ IsRecorded(t, p)
  BY <1>2, <1>3 DEF EntriesInv, EntriesDescribe, EntriesFollow
<1> QED
  BY <1>2, <1>3, <1>4

\* The enclosing row of a pass within a pipeline is that of a pass in execution.
LEMMA EnclosingEntry ==
  ASSUME CaptureInv, ManagerInv, NEW t \in Threads, NEW d \in Depths(t),
         stack[t][d].kind = "pipeline"
  PROVE  \E o \in Threads, p \in Passes :
           EnclosingRow(t, d + 1) = activePasses[o][p].id /\ Running(p)
<1>1. PICK o, p : o = stack[t][d].owner /\ p = stack[t][d].pass
  OBVIOUS
<1>2. o \in Threads /\ p \in Passes
  BY <1>1, FrameFacts DEF Frame
<1>3. Running(p)
  BY <1>1, PipelineMeansRunning DEF ManagerInv
<1>4. d + 1 # 1 /\ (d + 1) - 1 = d
  BY DEF Depths
<1>5. EnclosingRow(t, d + 1) = activePasses[o][p].id
  BY <1>1, <1>4 DEF EnclosingRow, RecordedId
<1> QED
  BY <1>2, <1>3, <1>5

\* A row is completed after those of the passes it contains, unless one has failed.
LEMMA ChildrenClosed ==
  ASSUME CaptureInv, ManagerInv, EntriesInv, PassParents, RootEndOwn, Forest, Unmarked,
         NEW id, id # NoId,
         (CompleteRow /\ id = Current.id) \/ (CompleteRoot /\ id = rootPass),
         NEW m \in RowIds, passExecution[m].parent = id
  PROVE  ~passExecution[m].open
<1> SUFFICES ASSUME passExecution[m].open PROVE FALSE
  OBVIOUS
<1>1. PICK t, p : t = call.thread /\ p = call.pass
  OBVIOUS
<1>2. /\ t \in Threads /\ p \in Passes /\ call.fn = "afterPass" /\ Following
      /\ call.step = IF CompleteRow THEN "end" ELSE "rootEnd"
  BY <1>1, RowArguments DEF CompleteRow, CompleteRoot, At, Following
<1>3. /\ ~Running(p) /\ activePasses[t][p].id # NoId /\ activePasses[t][p].id # rootPass
      /\ IF stack[t] = <<>> THEN t = Main ELSE Top(t).kind = "pipeline"
  <2>1. activePasses[t][p].id # NoId
    BY <1>1, <1>2 DEF CaptureInv, RecorderInv, CallOK
  <2> QED
    BY <1>1, <1>2, <2>1 DEF ManagerInv, CallFollows, EntriesInv, EntriesDescribe
<1>4. PICK u \in Threads, q \in Passes :
        /\ activePasses[u][q].id = m /\ activePasses[u][q].parent = id
        /\ IsRecorded(u, q) /\ (Closing(u, q) => firstError) /\ m # id
  BY <1>2, OpenRowOwner
<1>5. ~Returning(u, q)
  <2>1. ASSUME Returning(u, q) PROVE u = t /\ q = p
    BY <1>1, <2>1 DEF Returning
  <2>2. ASSUME CompleteRoot, Returning(u, q) PROVE FALSE
    BY <1>2, <1>4, <2>2 DEF EntriesInv, CallSteps, Closing, CompleteRoot, At
  <2>3. ASSUME CompleteRow, id = Current.id, Returning(u, q) PROVE FALSE
    BY <1>1, <1>4, <2>1, <2>3 DEF Current
  <2> QED
    BY <2>2, <2>3
<1>6. PICK i \in Depths(u) : IsPass(stack[u][i], q) /\ ~Starting(u, q)
  BY <1>4, <1>5 DEF IsRecorded, Inside
<1>7. EnclosingRow(u, i) = id
  BY <1>2, <1>4, <1>6 DEF PassParents
<1>8. CASE CompleteRow /\ id = Current.id
  <2>1. id = activePasses[t][p].id
    BY <1>1, <1>8 DEF Current
  <2>2. i # 1
    BY <1>3, <1>7, <2>1 DEF EnclosingRow
  <2>3. PICK d : d = i - 1 /\ d \in Depths(u) /\ stack[u][d].kind = "pipeline"
    BY <1>6, <2>2, BelowPass DEF IsPass
  <2>4. i = d + 1
    BY <1>6, <2>3 DEF Depths
  <2>5. PICK o \in Threads, r \in Passes : EnclosingRow(u, i) = activePasses[o][r].id /\ Running(r)
    BY <2>3, <2>4, EnclosingEntry
  <2>6. r = p
    BY <1>2, <1>3, <1>7, <2>1, <2>5 DEF EntriesInv, EntriesDescribe
  <2> QED
    BY <1>3, <2>5, <2>6
<1>9. CASE CompleteRoot /\ id = rootPass
  <2>1. ASSUME NEW v \in Threads, NEW d \in Depths(v), stack[v][d].kind = "pipeline"
        PROVE  EnclosingRow(v, d + 1) # rootPass
    <3>1. PICK o \in Threads, r \in Passes : EnclosingRow(v, d + 1) = activePasses[o][r].id
      BY <2>1, EnclosingEntry
    <3> QED
      BY <1>9, <3>1 DEF EntriesInv, EntriesDescribe
  <2>2. i = 1
    <3>1. ASSUME i # 1 PROVE FALSE
      <4>1. PICK d : d = i - 1 /\ d \in Depths(u) /\ stack[u][d].kind = "pipeline"
        BY <1>6, <3>1, BelowPass DEF IsPass
      <4>2. i = d + 1
        BY <1>6, <4>1 DEF Depths
      <4> QED
        BY <1>7, <1>9, <2>1, <4>1, <4>2
    <3> QED
      BY <3>1
  <2>3. u = Main /\ stack[Main] # <<>>
    <3>1. u = Main
      BY <1>6, <2>2 DEF IsPass, ManagerInv, FramesOK, PassFrameOK
    <3> QED
      BY <1>6, <3>1, FrameFacts
  <2>4. EnclosingRow(t, Len(stack[t]) + 1) = rootPass
    <3>1. activePasses[t][p].parent = rootPass
      BY <1>1, <1>9 DEF RootEndOwn, Current, CompleteRoot
    <3>2. Returning(t, p)
      BY <1>1, <1>2 DEF Returning
    <3> QED
      BY <1>2, <3>1, <3>2 DEF PassParents
  <2>5. stack[t] = <<>>
    <3>1. ASSUME stack[t] # <<>> PROVE FALSE
      <4>1. PICK d : d = Len(stack[t]) /\ d \in Depths(t) /\ stack[t][d].kind = "pipeline"
        BY <1>2, <1>3, <3>1, StackFacts
      <4> QED
        BY <1>2, <2>1, <2>4, <4>1
    <3> QED
      BY <3>1
  <2> QED
    BY <1>3, <2>3, <2>5
<1> QED
  BY <1>8, <1>9

\* A row begins below the root or below one that is open, unless a pass has failed.
LEMMA ParentIsOpen ==
  ASSUME CaptureInv, ManagerInv, EntriesInv, PipelineParents, Unmarked, CreateRow,
         NEW r, r = ParentFor(call.thread)
  PROVE  r \in RowIds /\ (r = 1 \/ passExecution[r].open = TRUE)
<1>1. PICK t, p : t = call.thread /\ p = call.pass
  OBVIOUS
<1>2. /\ t \in Threads /\ call.fn = "beforePass" /\ Recording /\ r \in RowIds /\ rootPass = 1
  BY <1>1, RowArguments DEF CreateRow, At
<1>3. r # NoId /\ Following
  BY <1>2, EntryFacts DEF Following, RowIds, NoId
<1>4. stack[t] # <<>> /\ Top(t).kind = "pass"
  BY <1>1, <1>2 DEF ManagerInv, CallFollows, IsPass
<1>5. PICK n : n = Len(stack[t]) /\ n \in Depths(t) /\ stack[t][n].kind = "pass"
  BY <1>2, <1>4, StackFacts
<1>6. r = EnclosingRow(t, n)
  BY <1>1, <1>3, <1>5, ParentIsEnclosingRow
<1>7. CASE n = 1
  BY <1>2, <1>6, <1>7 DEF EnclosingRow
<1>8. CASE n # 1
  <2>1. PICK d : d = n - 1 /\ d \in Depths(t) /\ stack[t][d].kind = "pipeline"
    BY <1>2, <1>5, <1>8, BelowPass
  <2>2. n = d + 1
    BY <1>5, <2>1 DEF Depths
  <2>3. PICK o \in Threads, q \in Passes : r = activePasses[o][q].id
    BY <1>2, <1>6, <2>1, <2>2, EnclosingEntry
  <2>4. ~Closing(o, q)
    BY <1>2 DEF Closing, Returning
  <2>5. passExecution[r].open
    BY <1>3, <2>3, <2>4 DEF EntriesInv, OpenFollows
  <2>6. passExecution[r].open \in BOOLEAN
    <3>1. passExecution \in Seq(Row)
      BY DEF CaptureInv, RecorderInv, StorageTypeOK
    <3>2. passExecution[r] \in Row
      BY <1>2, <3>1, ElementOfSeq DEF RowIds
    <3> QED
      BY <3>2 DEF Row
  <2> QED
    BY <1>2, <2>5, <2>6
<1> QED
  BY <1>7, <1>8

\* The steps of PassTree, in terms of RowTree.
LEMMA TreeSteps ==
  /\ UNCHANGED RowTree /\ Unmarked' = Unmarked => UNCHANGED Tree!treeVars
  /\ UNCHANGED RowTree /\ ~Unmarked' => Tree!Fail
  /\ RowTree = <<>> /\ RowTree' = <<[parent |-> 0, open |-> TRUE]>> /\ Unmarked' = Unmarked
       => Tree!BeginRoot
  /\ \A p : /\ p = 1 \/ RowTree[p].open \/ ~Unmarked
            /\ RowTree' = Append(RowTree, [parent |-> p, open |-> TRUE])
            /\ Unmarked' = Unmarked
            => Tree!Begin(p)
  /\ \A n : /\ ~Unmarked \/ \A m \in Tree!NodeIds : RowTree[m].parent = n => ~RowTree[m].open
            /\ RowTree' = [RowTree EXCEPT ![n].open = FALSE]
            /\ Unmarked' = Unmarked
            => Tree!End(n)
<1>1. UNCHANGED RowTree /\ Unmarked' = Unmarked => UNCHANGED Tree!treeVars
  BY DEF Tree!treeVars, RowTree, RowNode
<1>2. UNCHANGED RowTree /\ ~Unmarked' => Tree!Fail
  BY DEF Tree!Fail, RowTree, RowNode
<1>3. RowTree = <<>> /\ RowTree' = <<[parent |-> 0, open |-> TRUE]>> /\ Unmarked' = Unmarked
        => Tree!BeginRoot
  BY DEF Tree!BeginRoot, RowTree, RowNode
<1>4. ASSUME NEW p, p = 1 \/ RowTree[p].open \/ ~Unmarked,
             RowTree' = Append(RowTree, [parent |-> p, open |-> TRUE]), Unmarked' = Unmarked
      PROVE  Tree!Begin(p)
  BY <1>4, Zenon DEF Tree!Begin, RowTree, RowNode
<1>5. ASSUME NEW n, ~Unmarked \/ \A m \in Tree!NodeIds : RowTree[m].parent = n => ~RowTree[m].open,
             RowTree' = [RowTree EXCEPT ![n].open = FALSE], Unmarked' = Unmarked
      PROVE  Tree!End(n)
  BY <1>5, Zenon DEF Tree!End, RowTree, RowNode
<1> QED
  BY <1>1, <1>2, <1>3, <1>4, <1>5

\* The statements that write rows do not mark the trace.
LEMMA RowsLeaveMark ==
  ASSUME CreateRoot \/ CreateRow \/ CompleteRow \/ CompleteRoot
  PROVE  Unmarked' = Unmarked
BY DEF CreateRoot, CreateRow, CompleteRow, CompleteRoot, BeginPass, EndPass,
       StatementFails, Unmarked

LEMMA MarkStep ==
  ASSUME CaptureInv, ~attached => Unmarked, [Next]_vars
  PROVE  Unmarked' = Unmarked \/ ~Unmarked'
<1>1. CASE UNCHANGED meta
  BY <1>1 DEF Unmarked
<1>2. CASE At("attach", "create")
  <2>1. Unmarked
    BY <1>2 DEF At, CaptureInv, RecorderInv, CallOK
  <2> QED
    BY <2>1 DEF Unmarked
<1>3. ASSUME NEW key, key # "capture_status", meta' = meta \union {key} PROVE Unmarked' = Unmarked
  BY <1>3 DEF Unmarked
<1> QED
  BY <1>1, <1>2, <1>3, MarkWritten

LEMMA RowBegunGrows ==
  ASSUME RowBegun
  PROVE  passExecution' # passExecution
<1>1. UNCHANGED passExecution => RowIds' = RowIds
  BY DEF RowIds
<1>2. NextRowId \in RowIds' /\ NextRowId \notin RowIds
  BY DEF RowBegun
<1> QED
  BY <1>1, <1>2

LEMMA TreeNext ==
  /\ CaptureInv /\ CaptureInv' /\ ManagerInv /\ EntriesInv /\ OwnersInv /\ RootEndOwn /\ Forest
  /\ [Next]_vars
  => [Tree!Next]_(Tree!treeVars)
<1> SUFFICES ASSUME CaptureInv, CaptureInv', ManagerInv, EntriesInv, OwnersInv, RootEndOwn, Forest,
                    [Next]_vars
             PROVE  Tree!Next \/ UNCHANGED Tree!treeVars
  OBVIOUS
<1>0. /\ StorageTypeOK /\ StorageTypeOK'
      /\ Tree!NodeIds = RowIds /\ \A r \in RowIds : RowTree[r] = RowNode(r)
  BY RowTreeFacts DEF CaptureInv, RecorderInv
<1>1. \A r \in RowIds : /\ RowTree[r].parent = passExecution[r].parent
                          /\ RowTree[r].open = passExecution[r].open
  <2> SUFFICES ASSUME NEW r \in RowIds
               PROVE  /\ RowTree[r].parent = passExecution[r].parent
                      /\ RowTree[r].open = passExecution[r].open
    OBVIOUS
  <2>1. RowTree[r] = RowNode(r)
    BY <1>0
  <2>2. RowNode(r).parent = passExecution[r].parent /\ RowNode(r).open = passExecution[r].open
    BY DEF RowNode
  <2> QED
    BY <2>1, <2>2
<1>2. ASSUME UNCHANGED RowTree PROVE Tree!Next \/ UNCHANGED Tree!treeVars
  BY <1>2, MarkStep, TreeSteps DEF OwnersInv, Tree!Next
<1>3. CASE UNCHANGED passExecution
  BY <1>2, <1>3 DEF RowTree, RowNode, RowIds
<1>4. CASE RowIds = {} /\ RowIds' = {}
  BY <1>2, <1>4 DEF RowTree
<1>5. CASE CreateRoot /\ RowBegun
  <2>1. passExecution = <<>> /\ passExecution'[NextRowId].parent = 0
    BY <1>5, RowBegunGrows, CreateRootRow DEF NoId
  <2>2. RowTree' = Append(RowTree, [parent |-> 0, open |-> TRUE])
    BY <1>0, <1>5, <2>1, RowBegunTree
  <2>3. RowTree = <<>>
    <3>1. RowTree \in Seq(Tree!Node) /\ Len(RowTree) = 0
      BY <1>0, <2>1, RowTreeFacts, EmptySeq
    <3> QED
      BY <3>1, EmptySeq
  <2>4. RowTree' = <<[parent |-> 0, open |-> TRUE]>>
    BY <2>2, <2>3
  <2> QED
    BY <1>5, <2>3, <2>4, TreeSteps, RowsLeaveMark DEF Tree!Next
<1>6. CASE CreateRow /\ RowBegun
  <2>1. PICK p : p = ParentFor(call.thread)
    OBVIOUS
  <2>2. p \in RowIds
    BY <1>6, <2>1, RowArguments DEF CreateRow
  <2>3. Unmarked => p = 1 \/ passExecution[p].open = TRUE
    BY <1>6, <2>1, ParentIsOpen DEF OwnersInv
  <2>4. p = 1 \/ RowTree[p].open \/ ~Unmarked
    BY <1>1, <2>2, <2>3
  <2>5. passExecution'[NextRowId].parent = p
    BY <1>6, <2>1, RowBegunGrows, CreateRowRow
  <2>6. RowTree' = Append(RowTree, [parent |-> p, open |-> TRUE])
    BY <1>0, <1>6, <2>5, RowBegunTree
  <2>7. Tree!Begin(p)
    BY <1>6, <2>4, <2>6, TreeSteps, RowsLeaveMark
  <2> QED
    BY <1>0, <2>2, <2>7 DEF Tree!Next
<1>7. ASSUME NEW id, RowEnded(id),
             (CompleteRow /\ id = Current.id) \/ (CompleteRoot /\ id = rootPass)
      PROVE  Tree!Next
  <2>1. id \in RowIds /\ id # NoId
    BY <1>7 DEF RowEnded, RowIds, NoId
  <2>2. Unmarked => \A m \in RowIds : passExecution[m].parent = id => ~passExecution[m].open
    BY <1>7, <2>1, ChildrenClosed DEF OwnersInv
  <2>3. ~Unmarked \/ \A m \in Tree!NodeIds : RowTree[m].parent = id => ~RowTree[m].open
    BY <1>0, <1>1, <2>2
  <2>4. RowTree' = [RowTree EXCEPT ![id].open = FALSE]
    BY <1>0, <1>7, RowEndedTree
  <2>5. Unmarked' = Unmarked
    BY <1>7, RowsLeaveMark
  <2>6. Tree!End(id)
    BY <2>3, <2>4, <2>5, TreeSteps
  <2> QED
    BY <1>0, <2>1, <2>6 DEF Tree!Next
<1>8. CASE CompleteRow /\ RowEnded(Current.id)
  BY <1>7, <1>8
<1>9. CASE CompleteRoot /\ RowEnded(rootPass)
  BY <1>7, <1>9
<1> QED
  BY <1>3, <1>4, <1>5, <1>6, <1>8, <1>9, RowsWritten

LEMMA TreeInit == Init => Tree!Init
<1> SUFFICES ASSUME Init PROVE Tree!Init
  OBVIOUS
<1>1. passExecution = <<>> /\ meta = {}
  BY DEF Init, StorageInit
<1>2. RowTree = <<>>
  <2>1. CaptureInv
    BY CaptureInit
  <2>2. RowTree \in Seq(Tree!Node) /\ Len(RowTree) = 0
    BY <1>1, <2>1, RowTreeFacts, EmptySeq DEF CaptureInv, RecorderInv
  <2> QED
    BY <2>2, EmptySeq
<1>3. Unmarked
  BY <1>1 DEF Unmarked
<1> QED
  BY <1>2, <1>3 DEF Tree!Init, RowTree, RowNode

\* The recorder implements PassTree: whatever the threads interleave, its rows only
\* ever grow below open passes and close from the leaves up until one is marked failed.
THEOREM RowsImplementPassTree == Spec => ImplementsPassTree
<1>1. Spec => [](CaptureInv /\ ManagerInv /\ EntriesInv /\ OwnersInv /\ RootEndOwn /\ Forest)
  BY CaptureInvariant, ManagerInvariant, EntriesInvariant, OwnersInvariant, RootEndInvariant,
     RowsFormATree, PTL
<1> QED
  BY <1>1, TreeInit, TreeNext, PTL DEF Spec, ImplementsPassTree, Tree!Spec
=============================================================================
