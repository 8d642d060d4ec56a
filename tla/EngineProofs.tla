----------------------------- MODULE EngineProofs ------------------------------
(***************************************************************************)
(* Proofs about Engine, for any texts: whatever is printed and edited, and *)
(* whatever functions, operations and budgets there are, the parser yields *)
(* operations that the diffs and the graphs of DataflowProofs are about.   *)
(***************************************************************************)
EXTENDS Engine, DataflowProofs

\* The lines as they are assembled.
AssembleRun(g, T, lines) ==
  /\ g \in [0 .. Len(lines) -> T] /\ g[0] = <<>> /\ g[Len(lines)] = Assemble(lines)
  /\ \A i \in 1 .. Len(lines) : g[i] = AddLine(lines, g[i - 1], i)

\* There is a run of those steps through any set that they do not leave.
LEMMA AssembleSteps ==
  ASSUME NEW lines,
         NEW T, <<>> \in T, Len(lines) \in Nat,
         \A t \in T, i \in 1 .. Len(lines) : AddLine(lines, t, i) \in T
  PROVE  \E g : AssembleRun(g, T, lines)
<1>. DEFINE n    == Len(lines)
            base == <<>>
            Step(t, i) == AddLine(lines, t, i)
            step == [i \in 1 .. n |-> [t \in T |-> Step(t, i)]]
            Body(f) == [s \in SUBSET (1 .. n) |->
                          IF s = {} THEN base
                          ELSE Step(f[s \ {Max(s)}], UpTo(n)[Max(s)])]
            iter == CHOOSE f : f = Body(f)
            g    == [i \in 0 .. n |-> iter[1 .. i]]
<1>1. Assemble(lines) = iter[1 .. n]
  BY DEF Assemble, FoldLeft, MapThenFoldSet, UpTo
<1>. HIDE DEF n, base, Step
<1>2. n \in Nat /\ base \in T /\ \A t \in T, i \in 1 .. n : Step(t, i) \in T
  BY DEF n, base, Step
<1>3. \A i \in 1 .. n : UpTo(n)[i] = i
  BY DEF UpTo
<1>4. \E f : f = Body(f)
  <2>1. step \in [1 .. n -> [T -> T]]
    BY <1>2
  <2>2. \A i \in 1 .. n, t \in T : step[i][t] = Step(t, i)
    OBVIOUS
  <2>. HIDE DEF step
  <2>3. PICK f : FoldOK(T, base, step, n, f)
    BY <1>2, <2>1, FoldExists
  <2>4. ASSUME NEW s \in SUBSET (1 .. n), s # {}
        PROVE  Max(s) \in 1 .. n /\ s \ {Max(s)} \in SUBSET (1 .. n)
    BY <1>2, <2>4, MaxIsMember
  <2>5. ASSUME NEW s \in SUBSET (1 .. n)
        PROVE  f[s] = Body(f)[s]
    <3>1. CASE s = {}
      BY <2>3, <3>1 DEF FoldOK
    <3>2. CASE s # {}
      <4>1. f[s \ {Max(s)}] \in T /\ f[s] = step[Max(s)][f[s \ {Max(s)}]]
        BY <2>3, <2>4, <3>2 DEF FoldOK
      <4>. QED  BY <1>3, <2>2, <2>4, <3>2, <4>1
    <3>. QED  BY <3>1, <3>2
  <2>6. f = Body(f)
    BY <2>3, <2>5 DEF FoldOK
  <2>. QED  BY <2>6
<1>5. iter = Body(iter)
  BY <1>4
<1>. HIDE DEF iter
<1>6. g[0] = base
  <2>1. 1 .. 0 = {} /\ 0 \in 0 .. n
    BY <1>2
  <2>2. Body(iter)[{}] = base
    OBVIOUS
  <2>. QED  BY <1>5, <2>1, <2>2
<1>7. ASSUME NEW i \in 1 .. n
      PROVE  g[i] = Step(g[i - 1], i)
  <2>1. Body(iter)[1 .. i] = Step(iter[1 .. (i - 1)], i)
    BY <1>2, <1>3, Intervals
  <2>2. i - 1 \in 0 .. n /\ i \in 0 .. n
    BY <1>2
  <2>. QED  BY <1>5, <2>1, <2>2
<1>. HIDE DEF g
<1>8. \A i \in 0 .. n : g[i] \in T
  <2>. DEFINE S == {i \in 0 .. n : g[i] \in T}
  <2>1. 0 \in S
    BY <1>2, <1>6
  <2>2. ASSUME NEW i \in 1 .. n, i - 1 \in S
        PROVE  i \in S
    BY <1>2, <1>7, <2>2
  <2>. HIDE DEF S
  <2>3. 0 .. n \subseteq S
    BY <1>2, <2>1, <2>2, InductionUpTo
  <2>. QED  BY <2>3 DEF S
<1>9. g \in [0 .. n -> T] /\ g[n] = Assemble(lines)
  BY <1>1, <1>2, <1>8 DEF g
<1>10. AssembleRun(g, T, lines)
  BY <1>6, <1>7, <1>9 DEF n, base, Step, AssembleRun
<1>. QED  BY <1>10

\* Some regions entered one after the other.
EnterRun(g, T, s0, k) ==
  /\ g \in [0 .. k -> T] /\ g[0] = s0 /\ g[k] = EnterRegions(s0, k)
  /\ \A i \in 1 .. k : g[i] = EnterRegion(g[i - 1])

\* There is a run of those steps through any set that they do not leave.
LEMMA EnterSteps ==
  ASSUME NEW s0, NEW k,
         NEW T, s0 \in T, k \in Nat,
         \A t \in T, i \in 1 .. k : EnterRegion(t) \in T
  PROVE  \E g : EnterRun(g, T, s0, k)
<1>. DEFINE n    == k
            base == s0
            Step(t, i) == EnterRegion(t)
            step == [i \in 1 .. n |-> [t \in T |-> Step(t, i)]]
            Body(f) == [s \in SUBSET (1 .. n) |->
                          IF s = {} THEN base
                          ELSE Step(f[s \ {Max(s)}], UpTo(n)[Max(s)])]
            iter == CHOOSE f : f = Body(f)
            g    == [i \in 0 .. n |-> iter[1 .. i]]
<1>1. EnterRegions(s0, k) = iter[1 .. n]
  BY DEF EnterRegions, FoldLeft, MapThenFoldSet, UpTo
<1>. HIDE DEF n, base, Step
<1>2. n \in Nat /\ base \in T /\ \A t \in T, i \in 1 .. n : Step(t, i) \in T
  BY DEF n, base, Step
<1>3. \A i \in 1 .. n : UpTo(n)[i] = i
  BY DEF UpTo
<1>4. \E f : f = Body(f)
  <2>1. step \in [1 .. n -> [T -> T]]
    BY <1>2
  <2>2. \A i \in 1 .. n, t \in T : step[i][t] = Step(t, i)
    OBVIOUS
  <2>. HIDE DEF step
  <2>3. PICK f : FoldOK(T, base, step, n, f)
    BY <1>2, <2>1, FoldExists
  <2>4. ASSUME NEW s \in SUBSET (1 .. n), s # {}
        PROVE  Max(s) \in 1 .. n /\ s \ {Max(s)} \in SUBSET (1 .. n)
    BY <1>2, <2>4, MaxIsMember
  <2>5. ASSUME NEW s \in SUBSET (1 .. n)
        PROVE  f[s] = Body(f)[s]
    <3>1. CASE s = {}
      BY <2>3, <3>1 DEF FoldOK
    <3>2. CASE s # {}
      <4>1. f[s \ {Max(s)}] \in T /\ f[s] = step[Max(s)][f[s \ {Max(s)}]]
        BY <2>3, <2>4, <3>2 DEF FoldOK
      <4>. QED  BY <1>3, <2>2, <2>4, <3>2, <4>1
    <3>. QED  BY <3>1, <3>2
  <2>6. f = Body(f)
    BY <2>3, <2>5 DEF FoldOK
  <2>. QED  BY <2>6
<1>5. iter = Body(iter)
  BY <1>4
<1>. HIDE DEF iter
<1>6. g[0] = base
  <2>1. 1 .. 0 = {} /\ 0 \in 0 .. n
    BY <1>2
  <2>2. Body(iter)[{}] = base
    OBVIOUS
  <2>. QED  BY <1>5, <2>1, <2>2
<1>7. ASSUME NEW i \in 1 .. n
      PROVE  g[i] = Step(g[i - 1], i)
  <2>1. Body(iter)[1 .. i] = Step(iter[1 .. (i - 1)], i)
    BY <1>2, <1>3, Intervals
  <2>2. i - 1 \in 0 .. n /\ i \in 0 .. n
    BY <1>2
  <2>. QED  BY <1>5, <2>1, <2>2
<1>. HIDE DEF g
<1>8. \A i \in 0 .. n : g[i] \in T
  <2>. DEFINE S == {i \in 0 .. n : g[i] \in T}
  <2>1. 0 \in S
    BY <1>2, <1>6
  <2>2. ASSUME NEW i \in 1 .. n, i - 1 \in S
        PROVE  i \in S
    BY <1>2, <1>7, <2>2
  <2>. HIDE DEF S
  <2>3. 0 .. n \subseteq S
    BY <1>2, <2>1, <2>2, InductionUpTo
  <2>. QED  BY <2>3 DEF S
<1>9. g \in [0 .. n -> T] /\ g[n] = EnterRegions(s0, k)
  BY <1>1, <1>2, <1>8 DEF g
<1>10. EnterRun(g, T, s0, k)
  BY <1>6, <1>7, <1>9 DEF n, base, Step, EnterRun
<1>. QED  BY <1>10

\* Some regions left one after the other.
LeaveRun(g, T, s0, last, k) ==
  /\ g \in [0 .. k -> T] /\ g[0] = s0 /\ g[k] = LeaveRegions(s0, last, k)
  /\ \A i \in 1 .. k : g[i] = LeaveRegion(g[i - 1], last)

\* There is a run of those steps through any set that they do not leave.
LEMMA LeaveSteps ==
  ASSUME NEW s0, NEW last, NEW k,
         NEW T, s0 \in T, k \in Nat,
         \A t \in T, i \in 1 .. k : LeaveRegion(t, last) \in T
  PROVE  \E g : LeaveRun(g, T, s0, last, k)
<1>. DEFINE n    == k
            base == s0
            Step(t, i) == LeaveRegion(t, last)
            step == [i \in 1 .. n |-> [t \in T |-> Step(t, i)]]
            Body(f) == [s \in SUBSET (1 .. n) |->
                          IF s = {} THEN base
                          ELSE Step(f[s \ {Max(s)}], UpTo(n)[Max(s)])]
            iter == CHOOSE f : f = Body(f)
            g    == [i \in 0 .. n |-> iter[1 .. i]]
<1>1. LeaveRegions(s0, last, k) = iter[1 .. n]
  BY DEF LeaveRegions, FoldLeft, MapThenFoldSet, UpTo
<1>. HIDE DEF n, base, Step
<1>2. n \in Nat /\ base \in T /\ \A t \in T, i \in 1 .. n : Step(t, i) \in T
  BY DEF n, base, Step
<1>3. \A i \in 1 .. n : UpTo(n)[i] = i
  BY DEF UpTo
<1>4. \E f : f = Body(f)
  <2>1. step \in [1 .. n -> [T -> T]]
    BY <1>2
  <2>2. \A i \in 1 .. n, t \in T : step[i][t] = Step(t, i)
    OBVIOUS
  <2>. HIDE DEF step
  <2>3. PICK f : FoldOK(T, base, step, n, f)
    BY <1>2, <2>1, FoldExists
  <2>4. ASSUME NEW s \in SUBSET (1 .. n), s # {}
        PROVE  Max(s) \in 1 .. n /\ s \ {Max(s)} \in SUBSET (1 .. n)
    BY <1>2, <2>4, MaxIsMember
  <2>5. ASSUME NEW s \in SUBSET (1 .. n)
        PROVE  f[s] = Body(f)[s]
    <3>1. CASE s = {}
      BY <2>3, <3>1 DEF FoldOK
    <3>2. CASE s # {}
      <4>1. f[s \ {Max(s)}] \in T /\ f[s] = step[Max(s)][f[s \ {Max(s)}]]
        BY <2>3, <2>4, <3>2 DEF FoldOK
      <4>. QED  BY <1>3, <2>2, <2>4, <3>2, <4>1
    <3>. QED  BY <3>1, <3>2
  <2>6. f = Body(f)
    BY <2>3, <2>5 DEF FoldOK
  <2>. QED  BY <2>6
<1>5. iter = Body(iter)
  BY <1>4
<1>. HIDE DEF iter
<1>6. g[0] = base
  <2>1. 1 .. 0 = {} /\ 0 \in 0 .. n
    BY <1>2
  <2>2. Body(iter)[{}] = base
    OBVIOUS
  <2>. QED  BY <1>5, <2>1, <2>2
<1>7. ASSUME NEW i \in 1 .. n
      PROVE  g[i] = Step(g[i - 1], i)
  <2>1. Body(iter)[1 .. i] = Step(iter[1 .. (i - 1)], i)
    BY <1>2, <1>3, Intervals
  <2>2. i - 1 \in 0 .. n /\ i \in 0 .. n
    BY <1>2
  <2>. QED  BY <1>5, <2>1, <2>2
<1>. HIDE DEF g
<1>8. \A i \in 0 .. n : g[i] \in T
  <2>. DEFINE S == {i \in 0 .. n : g[i] \in T}
  <2>1. 0 \in S
    BY <1>2, <1>6
  <2>2. ASSUME NEW i \in 1 .. n, i - 1 \in S
        PROVE  i \in S
    BY <1>2, <1>7, <2>2
  <2>. HIDE DEF S
  <2>3. 0 .. n \subseteq S
    BY <1>2, <2>1, <2>2, InductionUpTo
  <2>. QED  BY <2>3 DEF S
<1>9. g \in [0 .. n -> T] /\ g[n] = LeaveRegions(s0, last, k)
  BY <1>1, <1>2, <1>8 DEF g
<1>10. LeaveRun(g, T, s0, last, k)
  BY <1>6, <1>7, <1>9 DEF n, base, Step, LeaveRun
<1>. QED  BY <1>10

\* The statements as they are parsed.
EndRun(g, T, stmts) ==
  /\ g \in [0 .. Len(stmts) -> T] /\ g[0] = StartOfText /\ g[Len(stmts)] = EndOf(stmts)
  /\ \A i \in 1 .. Len(stmts) : g[i] = ParseStatement(g[i - 1], stmts[i])

\* There is a run of those steps through any set that they do not leave.
LEMMA EndSteps ==
  ASSUME NEW stmts,
         DOMAIN stmts = 1 .. Len(stmts),
         NEW T, StartOfText \in T, Len(stmts) \in Nat,
         \A t \in T, i \in 1 .. Len(stmts) : ParseStatement(t, stmts[i]) \in T
  PROVE  \E g : EndRun(g, T, stmts)
<1>. DEFINE n    == Len(stmts)
            base == StartOfText
            Step(t, i) == ParseStatement(t, stmts[i])
            step == [i \in 1 .. n |-> [t \in T |-> Step(t, i)]]
            Body(f) == [s \in SUBSET (DOMAIN stmts) |->
                          IF s = {} THEN base
                          ELSE Step(f[s \ {Max(s)}], Max(s))]
            iter == CHOOSE f : f = Body(f)
            g    == [i \in 0 .. n |-> iter[1 .. i]]
<1>1. EndOf(stmts) = iter[1 .. n]
  <2>1. EndOf(stmts) = iter[DOMAIN stmts]
    BY DEF EndOf, FoldLeft, MapThenFoldSet
  <2>. QED  BY <2>1
<1>. HIDE DEF n, base, Step
<1>2. n \in Nat /\ base \in T /\ \A t \in T, i \in 1 .. n : Step(t, i) \in T
  BY DEF n, base, Step
<1>3. DOMAIN stmts = 1 .. n
  BY DEF n
<1>4. \E f : f = Body(f)
  <2>1. step \in [1 .. n -> [T -> T]]
    BY <1>2
  <2>2. \A i \in 1 .. n, t \in T : step[i][t] = Step(t, i)
    OBVIOUS
  <2>. HIDE DEF step
  <2>3. PICK f : FoldOK(T, base, step, n, f)
    BY <1>2, <2>1, FoldExists
  <2>4. ASSUME NEW s \in SUBSET (1 .. n), s # {}
        PROVE  Max(s) \in 1 .. n /\ s \ {Max(s)} \in SUBSET (1 .. n)
    BY <1>2, <2>4, MaxIsMember
  <2>5. ASSUME NEW s \in SUBSET (1 .. n)
        PROVE  f[s] = Body(f)[s]
    <3>1. CASE s = {}
      BY <2>3, <3>1 DEF FoldOK
    <3>2. CASE s # {}
      <4>1. f[s \ {Max(s)}] \in T /\ f[s] = step[Max(s)][f[s \ {Max(s)}]]
        BY <2>3, <2>4, <3>2 DEF FoldOK
      <4>. QED  BY <1>3, <2>2, <2>4, <3>2, <4>1
    <3>. QED  BY <3>1, <3>2
  <2>6. f = Body(f)
    BY <1>3, <2>3, <2>5 DEF FoldOK
  <2>. QED  BY <2>6
<1>5. iter = Body(iter)
  BY <1>4
<1>. HIDE DEF iter
<1>6. g[0] = base
  <2>1. 1 .. 0 = {} /\ 0 \in 0 .. n
    BY <1>2
  <2>2. Body(iter)[{}] = base
    OBVIOUS
  <2>. QED  BY <1>5, <2>1, <2>2
<1>7. ASSUME NEW i \in 1 .. n
      PROVE  g[i] = Step(g[i - 1], i)
  <2>1. Body(iter)[1 .. i] = Step(iter[1 .. (i - 1)], i)
    BY <1>2, <1>3, Intervals
  <2>2. i - 1 \in 0 .. n /\ i \in 0 .. n
    BY <1>2
  <2>. QED  BY <1>5, <2>1, <2>2
<1>. HIDE DEF g
<1>8. \A i \in 0 .. n : g[i] \in T
  <2>. DEFINE S == {i \in 0 .. n : g[i] \in T}
  <2>1. 0 \in S
    BY <1>2, <1>6
  <2>2. ASSUME NEW i \in 1 .. n, i - 1 \in S
        PROVE  i \in S
    BY <1>2, <1>7, <2>2
  <2>. HIDE DEF S
  <2>3. 0 .. n \subseteq S
    BY <1>2, <2>1, <2>2, InductionUpTo
  <2>. QED  BY <2>3 DEF S
<1>9. g \in [0 .. n -> T] /\ g[n] = EndOf(stmts)
  BY <1>1, <1>2, <1>8 DEF g
<1>10. EndRun(g, T, stmts)
  BY <1>6, <1>7, <1>9 DEF n, base, Step, EndRun
<1>. QED  BY <1>10

-----------------------------------------------------------------------------
(* The types of the parser. *)

\* The words of operations: tlapm knows no member of STRING.
Words == {op.name : op \in OpForms} \union {op.types : op \in OpForms}
           \union {op.attrs : op \in OpForms} \union {op.location : op \in OpForms}
           \union {"opaque", "structure", "none", "braces"}
Forms == [name : Words, results : SUBSET Nat, operands : SUBSET Nat, types : Words,
          attrs : Words, location : Words]
SymbolSet  == {Symbols[f] : f \in FunctionNames} \union {NoSymbol}
Lines      == [starts : BOOLEAN, closes : BOOLEAN, bare : BOOLEAN, delta : Int,
               symbol : SymbolSet, braced : BOOLEAN, inner : Seq(Forms), op : Forms]
Statements == [line : Lines, first : Nat, last : Nat]
PlacedOps  == [name : Words, results : SUBSET Nat, operands : SUBSET Nat, types : Words,
               attrs : Words, location : Words, path : Seq(Nat), first : Nat, last : Nat]
ScopeSet   == [name : SymbolSet, ops : Seq(Nat), first : Nat, last : Nat]

\* The operations of a function are operations of the text.
ParserStates ==
  {s \in [ops : Seq(PlacedOps), functions : Seq(ScopeSet), path : Seq(Nat),
          counters : Seq(Nat), scope : [function : Nat, depth : Nat]] :
     \A i \in 1 .. Len(s.functions) : s.functions[i].ops \in Seq(1 .. Len(s.ops))}

\* Some fields of a record are replaced, one after the other.
LEMMA FormWith ==
  ASSUME NEW o \in Forms, NEW operands, NEW types, NEW attrs
  PROVE  [o EXCEPT !.operands = operands, !.types = types, !.attrs = attrs]
           = [name |-> o.name, results |-> o.results, operands |-> operands, types |-> types,
              attrs |-> attrs, location |-> o.location]
<1>. DEFINE x == [o EXCEPT !.operands = operands]
            y == [x EXCEPT !.types = types]
            z == [y EXCEPT !.attrs = attrs]
<1>1. o = [name |-> o.name, results |-> o.results, operands |-> o.operands,
           types |-> o.types, attrs |-> o.attrs, location |-> o.location]
  BY DEF Forms
<1>2. x = [name |-> o.name, results |-> o.results, operands |-> operands,
           types |-> o.types, attrs |-> o.attrs, location |-> o.location]
  BY <1>1
<1>3. [o EXCEPT !.operands = operands, !.types = types, !.attrs = attrs] = z
  OBVIOUS
<1>. HIDE DEF x
<1>4. y = [name |-> o.name, results |-> o.results, operands |-> operands,
           types |-> types, attrs |-> o.attrs, location |-> o.location]
  BY <1>2
<1>. HIDE DEF y
<1>. QED  BY <1>3, <1>4

LEMMA StatementWith ==
  ASSUME NEW st \in Statements, NEW line, NEW last
  PROVE  [st EXCEPT !.line = line, !.last = last]
           = [line |-> line, first |-> st.first, last |-> last]
<1>. DEFINE x == [st EXCEPT !.line = line]
            y == [x EXCEPT !.last = last]
<1>1. x = [line |-> line, first |-> st.first, last |-> st.last]
  BY DEF Statements
<1>2. [st EXCEPT !.line = line, !.last = last] = y
  OBVIOUS
<1>. HIDE DEF x
<1>. QED  BY <1>1, <1>2

\* A line that continues a statement leaves it one.
LEMMA JoinedTyped ==
  ASSUME NEW old \in Lines, NEW line \in Lines
  PROVE  /\ Join(old, line) \in Lines
         /\ Join(old, line).starts = old.starts /\ Join(old, line).closes = old.closes
         /\ Join(old, line).bare = old.bare /\ Join(old, line).delta = old.delta + line.delta
         /\ Join(old, line).symbol = (IF old.symbol = NoSymbol THEN line.symbol ELSE old.symbol)
         /\ Join(old, line).braced = (old.braced \/ line.braced)
         /\ Join(old, line).inner = (IF old.braced THEN old.inner ELSE line.inner)
         /\ Join(old, line).op.name = old.op.name
<1>. DEFINE symbol   == IF old.symbol = NoSymbol THEN line.symbol ELSE old.symbol
            braced   == old.braced \/ line.braced
            inner    == IF old.braced THEN old.inner ELSE line.inner
            operands == old.op.operands \union line.op.operands
            attrs    == IF old.op.attrs = "none" /\ old.delta <= 0 THEN line.op.attrs
                        ELSE old.op.attrs
            delta    == old.delta + line.delta
            op       == [name |-> old.op.name, results |-> old.op.results, operands |-> operands,
                         types |-> line.op.types, attrs |-> attrs, location |-> old.op.location]
            new      == [starts |-> old.starts, closes |-> old.closes, bare |-> old.bare,
                         delta |-> delta, symbol |-> symbol, braced |-> braced,
                         inner |-> inner, op |-> op]
<1>1. /\ old.delta \in Int /\ line.delta \in Int /\ old.symbol \in SymbolSet /\ line.symbol \in SymbolSet
      /\ old.op \in Forms /\ line.op \in Forms /\ old.inner \in Seq(Forms)
      /\ line.inner \in Seq(Forms) /\ old.braced \in BOOLEAN /\ line.braced \in BOOLEAN
      /\ old.starts \in BOOLEAN /\ old.closes \in BOOLEAN /\ old.bare \in BOOLEAN
  BY DEF Lines
<1>2. op \in Forms
  BY <1>1 DEF Forms
<1>3. Join(old, line) = new
  <2>1. old = [starts |-> old.starts, closes |-> old.closes, bare |-> old.bare,
               delta |-> old.delta, symbol |-> old.symbol, braced |-> old.braced,
               inner |-> old.inner, op |-> old.op]
    BY DEF Lines
  <2>2. old.op = [name |-> old.op.name, results |-> old.op.results, operands |-> old.op.operands,
                  types |-> old.op.types, attrs |-> old.op.attrs, location |-> old.op.location]
    BY <1>1 DEF Forms
  <2>3. Join(old, line) = [old EXCEPT !.delta = delta, !.symbol = symbol, !.braced = braced,
                             !.inner = inner,
                             !.op = [old.op EXCEPT !.operands = operands,
                                                   !.types = line.op.types, !.attrs = attrs]]
    BY <2>1, <2>2 DEF Join
  <2>4. [old.op EXCEPT !.operands = operands, !.types = line.op.types, !.attrs = attrs] = op
    <3>. DEFINE o == old.op
                t == line.op.types
    <3>1. o \in Forms
      BY <1>1
    <3>. HIDE DEF operands, attrs, o, t
    <3>2. [o EXCEPT !.operands = operands, !.types = t, !.attrs = attrs]
            = [name |-> o.name, results |-> o.results, operands |-> operands, types |-> t,
               attrs |-> attrs, location |-> o.location]
      BY <3>1, FormWith
    <3>. QED  BY <3>2 DEF o, t
  <2>. HIDE DEF delta, symbol, braced, inner, op
  <2>. QED  BY <2>1, <2>3, <2>4
<1>4. symbol \in SymbolSet /\ delta \in Int /\ braced \in BOOLEAN /\ inner \in Seq(Forms)
  BY <1>1
<1>5. op.name = old.op.name
  OBVIOUS
<1>. HIDE DEF op, symbol, delta, braced, inner
<1>6. new \in Lines
  BY <1>1, <1>2, <1>4 DEF Lines
<1>. QED  BY <1>3, <1>5, <1>6 DEF symbol, delta, braced, inner

\* Lines assemble to statements.
LEMMA AddLineTyped ==
  ASSUME NEW lines \in Seq(Lines), NEW i \in 1 .. Len(lines), NEW t \in Seq(Statements)
  PROVE  AddLine(lines, t, i) \in Seq(Statements)
<1>. DEFINE line == lines[i]
            new  == [line |-> line, first |-> i, last |-> i]
            old  == t[Len(t)]
            joined == Join(old.line, line)
<1>1. line \in Lines /\ new \in Statements
  BY DEF Statements
<1>2. CASE t = <<>> \/ line.starts
  <2>1. AddLine(lines, t, i) = Append(t, new)
    BY <1>2 DEF AddLine
  <2>. QED  BY <1>1, <2>1
<1>3. CASE ~(t = <<>> \/ line.starts)
  <2>1. Len(t) \in Nat /\ Len(t) >= 1
    BY <1>3
  <2>2. old \in Statements
    BY <2>1
  <2>3. joined \in Lines
    <3>1. old.line \in Lines
      BY <2>2 DEF Statements
    <3>. QED  BY <1>1, <3>1, JoinedTyped
  <2>4. AddLine(lines, t, i)
          = Append(SubSeq(t, 1, Len(t) - 1), [old EXCEPT !.line = joined, !.last = i])
    BY <1>3 DEF AddLine, Last, Front
  <2>. HIDE DEF joined, old
  <2>5. [old EXCEPT !.line = joined, !.last = i] \in Statements
    <3>1. i \in Nat /\ old \in [line : Lines, first : Nat, last : Nat]
      BY <2>2 DEF Statements
    <3>. QED  BY <2>3, <3>1 DEF Statements
  <2>6. SubSeq(t, 1, Len(t) - 1) \in Seq(Statements)
    BY <2>1
  <2>. QED  BY <2>4, <2>5, <2>6
<1>. QED  BY <1>2, <1>3

LEMMA AssembleRuns ==
  ASSUME NEW lines \in Seq(Lines)
  PROVE  \E g : AssembleRun(g, Seq(Statements), lines)
<1>. DEFINE T == Seq(Statements)
<1>1. <<>> \in T /\ Len(lines) \in Nat /\ \A t \in T, i \in 1 .. Len(lines) : AddLine(lines, t, i) \in T
  BY AddLineTyped
<1>. HIDE DEF T
<1>2. \E g : AssembleRun(g, T, lines)
  BY <1>1, AssembleSteps
<1>. QED  BY <1>2 DEF T

LEMMA AssembleTyped ==
  ASSUME NEW lines \in Seq(Lines)
  PROVE  Assemble(lines) \in Seq(Statements)
<1>. DEFINE T == Seq(Statements)
<1>1. PICK g : AssembleRun(g, T, lines)
  BY AssembleRuns
<1>2. Len(lines) \in Nat
  OBVIOUS
<1>. HIDE DEF T
<1>3. Assemble(lines) \in T
  BY <1>1, <1>2 DEF AssembleRun
<1>. QED  BY <1>3 DEF T

\* The fields of a state of the parser.
LEMMA ParserFields ==
  ASSUME NEW s \in ParserStates
  PROVE  /\ s = [ops |-> s.ops, functions |-> s.functions, path |-> s.path,
                 counters |-> s.counters, scope |-> s.scope]
         /\ s.ops \in Seq(PlacedOps) /\ s.functions \in Seq(ScopeSet) /\ s.path \in Seq(Nat)
         /\ s.counters \in Seq(Nat) /\ s.scope \in [function : Nat, depth : Nat]
         /\ \A i \in 1 .. Len(s.functions) : s.functions[i].ops \in Seq(1 .. Len(s.ops))
BY DEF ParserStates

LEMMA ParserStateOf ==
  ASSUME NEW o \in Seq(PlacedOps), NEW f \in Seq(ScopeSet), NEW p \in Seq(Nat),
         NEW c \in Seq(Nat), NEW e \in [function : Nat, depth : Nat],
         \A i \in 1 .. Len(f) : f[i].ops \in Seq(1 .. Len(o))
  PROVE  [ops |-> o, functions |-> f, path |-> p, counters |-> c, scope |-> e] \in ParserStates
BY DEF ParserStates

LEMMA PopTyped ==
  ASSUME NEW S, NEW seq \in Seq(S)
  PROVE  Pop(seq) \in Seq(S) /\ Len(Pop(seq)) = IF seq = <<>> THEN 0 ELSE Len(seq) - 1
<1>1. CASE seq = <<>>
  BY <1>1 DEF Pop
<1>2. CASE seq # <<>>
  <2>1. Len(seq) \in Nat /\ Len(seq) >= 1
    BY <1>2
  <2>2. SubSeq(seq, 1, Len(seq) - 1) \in Seq(S) /\ Len(SubSeq(seq, 1, Len(seq) - 1)) = Len(seq) - 1
    <3>1. 1 \in 1 .. Len(seq) + 1 /\ Len(seq) - 1 \in 1 - 1 .. Len(seq) /\ (Len(seq) - 1) - 1 + 1 = Len(seq) - 1
      BY <2>1
    <3>. QED  BY <3>1, SubSeqProperties
  <2>. QED  BY <1>2, <2>2 DEF Pop, Front
<1>. QED  BY <1>1, <1>2

LEMMA EnterRegionTyped ==
  ASSUME NEW s \in ParserStates
  PROVE  EnterRegion(s) \in ParserStates
<1>. DEFINE depth == Len(s.counters)
            child == IF depth = 0 THEN 0 ELSE s.counters[depth]
            rest  == IF depth = 0 THEN <<>> ELSE [s.counters EXCEPT ![depth] = @ + 1]
<1>1. s.counters \in Seq(Nat) /\ s.path \in Seq(Nat)
  BY ParserFields
<1>2. child \in Nat /\ rest \in Seq(Nat)
  <2>1. CASE depth = 0
    BY <2>1
  <2>2. CASE depth # 0
    <3>1. depth \in 1 .. Len(s.counters) /\ s.counters[depth] \in Nat
      BY <1>1, <2>2
    <3>. QED  BY <1>1, <2>2, <3>1
  <2>. QED  BY <2>1, <2>2
<1>3. EnterRegion(s) = [s EXCEPT !.path = Append(@, child), !.counters = Append(rest, 0)]
  BY DEF EnterRegion
<1>. HIDE DEF child, rest
<1>4. EnterRegion(s) = [ops |-> s.ops, functions |-> s.functions, path |-> Append(s.path, child),
                        counters |-> Append(rest, 0), scope |-> s.scope]
  BY <1>3, ParserFields
<1>5. Append(s.path, child) \in Seq(Nat) /\ Append(rest, 0) \in Seq(Nat)
  BY <1>1, <1>2
<1>6. /\ s.ops \in Seq(PlacedOps) /\ s.functions \in Seq(ScopeSet)
      /\ s.scope \in [function : Nat, depth : Nat]
      /\ \A i \in 1 .. Len(s.functions) : s.functions[i].ops \in Seq(1 .. Len(s.ops))
  BY ParserFields
<1>. DEFINE p == Append(s.path, child)
            c == Append(rest, 0)
<1>. HIDE DEF p, c
<1>7. [ops |-> s.ops, functions |-> s.functions, path |-> p, counters |-> c, scope |-> s.scope]
        \in ParserStates
  <2>1. p \in Seq(Nat) /\ c \in Seq(Nat)
    BY <1>5 DEF p, c
  <2>. QED  BY <1>6, <2>1, ParserStateOf
<1>. QED  BY <1>4, <1>7 DEF p, c

\* So does leaving one.
LEMMA LeaveRegionTyped ==
  ASSUME NEW s \in ParserStates, NEW last \in Nat
  PROVE  LeaveRegion(s, last) \in ParserStates
<1>. DEFINE ends == s.scope # NoScope /\ Len(Pop(s.path)) < s.scope.depth
            f    == IF ends THEN [s.functions EXCEPT ![s.scope.function].last = last] ELSE s.functions
            e    == IF ends THEN NoScope ELSE s.scope
<1>1. LeaveRegion(s, last) = [ops |-> s.ops, functions |-> f, path |-> Pop(s.path),
                              counters |-> Pop(s.counters), scope |-> e]
  <2>1. LeaveRegion(s, last) = [s EXCEPT !.path = Pop(@), !.counters = Pop(@),
                                         !.scope = IF ends THEN NoScope ELSE @,
                                         !.functions = IF ends THEN [@ EXCEPT ![s.scope.function].last = last] ELSE @]
    BY DEF LeaveRegion
  <2>. HIDE DEF ends
  <2>. QED  BY <2>1, ParserFields
<1>2. e \in [function : Nat, depth : Nat]
  BY ParserFields DEF NoScope
<1>3. f \in Seq(ScopeSet) /\ \A i \in 1 .. Len(f) : f[i].ops \in Seq(1 .. Len(s.ops))
  <2>1. s.functions \in Seq(ScopeSet) /\ \A i \in 1 .. Len(s.functions) : s.functions[i].ops \in Seq(1 .. Len(s.ops))
    BY ParserFields
  <2>2. CASE ~ends
    BY <2>1, <2>2
  <2>3. CASE ends
    <3>. DEFINE n == s.scope.function
                new == [s.functions EXCEPT ![n].last = last]
    <3>1. f = new
      BY <2>3
    <3>2. Len(new) = Len(s.functions) /\ DOMAIN new = 1 .. Len(s.functions)
      BY <2>1
    <3>3. ASSUME NEW i \in 1 .. Len(s.functions)
          PROVE  new[i] \in ScopeSet /\ new[i].ops = s.functions[i].ops
      <4>1. s.functions[i] \in ScopeSet
        BY <2>1
      <4>2. new[i] = IF i = n THEN [s.functions[i] EXCEPT !.last = last] ELSE s.functions[i]
        BY <2>1
      <4>. QED  BY <4>1, <4>2 DEF ScopeSet
    <3>. HIDE DEF new
    <3>4. new \in Seq(ScopeSet)
      <4>1. new = [i \in DOMAIN new |-> new[i]]
        BY DEF new
      <4>2. \A i \in DOMAIN new : new[i] \in ScopeSet
        BY <3>2, <3>3
      <4>3. new \in [DOMAIN new -> ScopeSet]
        BY <4>1, <4>2
      <4>4. new \in [1 .. Len(s.functions) -> ScopeSet]
        BY <3>2, <4>3
      <4>5. Len(s.functions) \in Nat
        BY <2>1
      <4>. QED  BY ONLY <4>4, <4>5
    <3>. QED  BY <2>1, <3>1, <3>2, <3>3, <3>4
  <2>. QED  BY <2>2, <2>3
<1>4. Pop(s.path) \in Seq(Nat) /\ Pop(s.counters) \in Seq(Nat)
  BY ParserFields, PopTyped
<1>. HIDE DEF f, e
<1>. QED  BY <1>1, <1>2, <1>3, <1>4, ParserFields, ParserStateOf

\* What Append and \o yield, as the proofs below need it.
LEMMA AppendIs ==
  ASSUME NEW S, NEW seq \in Seq(S), NEW x \in S
  PROVE  /\ Append(seq, x) \in Seq(S) /\ Len(seq) \in Nat /\ Len(Append(seq, x)) = Len(seq) + 1
         /\ Append(seq, x)[Len(seq) + 1] = x
         /\ \A i \in 1 .. Len(seq) : Append(seq, x)[i] = seq[i]
OBVIOUS

LEMMA ConcatIs ==
  ASSUME NEW S, NEW a \in Seq(S), NEW b \in Seq(S)
  PROVE  /\ a \o b \in Seq(S) /\ Len(a) \in Nat /\ Len(b) \in Nat /\ Len(a \o b) = Len(a) + Len(b)
         /\ \A i \in 1 .. Len(a) : (a \o b)[i] = a[i]
         /\ \A i \in 1 .. Len(b) : (a \o b)[Len(a) + i] = b[i]
<1>1. a \o b \in Seq(S) /\ Len(a) \in Nat /\ Len(b) \in Nat /\ Len(a \o b) = Len(a) + Len(b)
  OBVIOUS
<1>2. \A i \in 1 .. Len(a) : (a \o b)[i] = a[i]
  OBVIOUS
<1>3. \A i \in 1 .. Len(b) : (a \o b)[Len(a) + i] = b[i]
  <2>1. \A i \in 1 .. Len(b) : Len(a) + i \in 1 .. Len(a) + Len(b) /\ Len(a) + i > Len(a) /\ (Len(a) + i) - Len(a) = i
    BY <1>1
  <2>2. \A i \in 1 .. Len(a) + Len(b) : (a \o b)[i] = IF i <= Len(a) THEN a[i] ELSE b[i - Len(a)]
    BY ConcatProperties
  <2>3. ASSUME NEW i \in 1 .. Len(b) PROVE (a \o b)[Len(a) + i] = b[i]
    <3>1. ~(Len(a) + i <= Len(a))
      BY <1>1
    <3>. QED  BY <2>1, <2>2, <3>1
  <2>. QED  BY <2>3
<1>. QED  BY <1>1, <1>2, <1>3

\* Numbers up to n are numbers up to m.
LEMMA WiderIndices ==
  ASSUME NEW n \in Nat, NEW m \in Nat, n <= m, NEW seq \in Seq(1 .. n)
  PROVE  seq \in Seq(1 .. m)
<1>1. 1 .. n \subseteq 1 .. m
  OBVIOUS
<1>. QED  BY <1>1, SeqMonotonic

LEMMA PlacedTyped ==
  ASSUME NEW op \in Forms, NEW path \in Seq(Nat), NEW st \in Statements
  PROVE  Placed(op, path, st) \in PlacedOps
<1>1. st.first \in Nat /\ st.last \in Nat
  BY DEF Statements
<1>2. op.operands \ op.results \in SUBSET Nat
  BY DEF Forms
<1>. QED  BY <1>1, <1>2 DEF Placed, PlacedOps, Forms

LEMMA ReadOpTyped ==
  ASSUME NEW line \in Lines
  PROVE  ReadOp(line) \in Forms
<1>1. OpaqueOp \in Forms
  <2>1. {} \in SUBSET Nat /\ "opaque" \in Words /\ "none" \in Words
    BY DEF Words
  <2>. QED  BY <2>1 DEF OpaqueOp, Forms
<1>2. line.op \in Forms
  BY DEF Lines
<1>. QED  BY <1>1, <1>2 DEF ReadOp

LEMMA PushOpTyped ==
  ASSUME NEW s \in ParserStates, NEW st \in Statements
  PROVE  /\ PushOp(s, st) \in ParserStates
         /\ PushOp(s, st) = [ops |-> Append(s.ops, Placed(ReadOp(st.line), s.path, st)),
                             functions |-> s.functions, path |-> s.path,
                             counters |-> s.counters, scope |-> s.scope]
         /\ Len(PushOp(s, st).ops) = Len(s.ops) + 1
<1>. DEFINE p == Placed(ReadOp(st.line), s.path, st)
            o == Append(s.ops, p)
<1>1. p \in PlacedOps
  <2>1. ReadOp(st.line) \in Forms /\ s.path \in Seq(Nat)
    BY ReadOpTyped, ParserFields DEF Statements
  <2>. QED  BY <2>1, PlacedTyped
<1>2. PushOp(s, st) = [s EXCEPT !.ops = Append(@, p)]
  BY DEF PushOp
<1>. HIDE DEF p
<1>3. PushOp(s, st) = [ops |-> o, functions |-> s.functions, path |-> s.path,
                       counters |-> s.counters, scope |-> s.scope]
  BY <1>2, ParserFields
<1>4. o \in Seq(PlacedOps) /\ Len(o) = Len(s.ops) + 1 /\ Len(s.ops) \in Nat
  BY <1>1, ParserFields
<1>. HIDE DEF o
<1>5. \A i \in 1 .. Len(s.functions) : s.functions[i].ops \in Seq(1 .. Len(o))
  <2>1. \A i \in 1 .. Len(s.functions) : s.functions[i].ops \in Seq(1 .. Len(s.ops))
    BY ParserFields
  <2>. QED  BY <1>4, <2>1, WiderIndices
<1>6. /\ s.functions \in Seq(ScopeSet) /\ s.path \in Seq(Nat)
      /\ s.counters \in Seq(Nat) /\ s.scope \in [function : Nat, depth : Nat]
  BY ParserFields
<1>7. PushOp(s, st) \in ParserStates
  BY <1>3, <1>4, <1>5, <1>6, ParserStateOf
<1>. QED  BY <1>3, <1>4, <1>7 DEF o, p

LEMMA PushInnerTyped ==
  ASSUME NEW s \in ParserStates, NEW st \in Statements
  PROVE  /\ PushInner(s, st) \in ParserStates
         /\ Len(PushInner(s, st).ops) >= Len(s.ops)
<1>1. CASE ~IsShort(st.line)
  <2>1. PushInner(s, st) = s
    BY <1>1 DEF PushInner
  <2>. QED  BY <2>1, ParserFields
<1>2. CASE IsShort(st.line)
  <2>. DEFINE inner == st.line.inner
              base  == Len(s.ops)
              ops   == [k \in DOMAIN inner |-> Placed(inner[k], <<>>, st)]
              ids   == [k \in DOMAIN inner |-> base + k]
              f     == FunctionScope(st.line.symbol, ids, st)
              o     == s.ops \o ops
              fs    == Append(s.functions, f)
  <2>1. PushInner(s, st) = [s EXCEPT !.ops = @ \o ops, !.functions = Append(@, f)]
    BY <1>2 DEF PushInner
  <2>2. inner \in Seq(Forms) /\ st.line.symbol \in SymbolSet /\ st.first \in Nat /\ st.last \in Nat
    BY DEF Statements, Lines
  <2>3. ops \in Seq(PlacedOps) /\ Len(ops) = Len(inner) /\ Len(inner) \in Nat
    <3>1. DOMAIN inner = 1 .. Len(inner) /\ Len(inner) \in Nat /\ \A k \in 1 .. Len(inner) : inner[k] \in Forms
      BY <2>2
    <3>2. <<>> \in Seq(Nat)
      OBVIOUS
    <3>3. \A k \in 1 .. Len(inner) : Placed(inner[k], <<>>, st) \in PlacedOps
      BY <3>1, <3>2, PlacedTyped
    <3>4. ops \in [1 .. Len(inner) -> PlacedOps]
      BY <3>1, <3>3
    <3>. QED  BY <3>1, <3>4
  <2>4. s.ops \in Seq(PlacedOps) /\ base \in Nat /\ s.functions \in Seq(ScopeSet)
    BY ParserFields
  <2>5. ids \in Seq(1 .. base + Len(inner)) /\ ids \in Seq(Nat)
    <3>1. DOMAIN inner = 1 .. Len(inner)
      BY <2>2
    <3>0. base \in Nat /\ Len(inner) \in Nat
      BY <2>3, <2>4
    <3>. HIDE DEF base, inner
    <3>2. \A k \in 1 .. Len(inner) : base + k \in 1 .. base + Len(inner)
      BY <3>0
    <3>3. ids \in [1 .. Len(inner) -> 1 .. base + Len(inner)]
      BY <3>1, <3>2
    <3>4. ids \in Seq(1 .. base + Len(inner))
      BY <2>3, <3>3
    <3>5. 1 .. base + Len(inner) \subseteq Nat
      BY <3>0
    <3>. QED  BY <3>4, <3>5, SeqMonotonic
  <2>. HIDE DEF ops, ids
  <2>6. f \in ScopeSet /\ f.ops = ids
    BY <2>2, <2>5 DEF FunctionScope, ScopeSet
  <2>. HIDE DEF f
  <2>7. PushInner(s, st) = [ops |-> o, functions |-> fs, path |-> s.path,
                            counters |-> s.counters, scope |-> s.scope]
    BY <2>1, ParserFields
  <2>8. o \in Seq(PlacedOps) /\ Len(o) = base + Len(inner)
    <3>1. s.ops \in Seq(PlacedOps) /\ ops \in Seq(PlacedOps) /\ Len(ops) = Len(inner)
      BY <2>3, <2>4
    <3>2. s.ops \o ops \in Seq(PlacedOps) /\ Len(s.ops \o ops) = Len(s.ops) + Len(ops)
      BY <3>1, ConcatIs
    <3>. QED  BY <3>1, <3>2
  <2>9. /\ fs \in Seq(ScopeSet) /\ Len(fs) = Len(s.functions) + 1 /\ Len(s.functions) \in Nat
        /\ fs[Len(s.functions) + 1] = f
        /\ \A i \in 1 .. Len(s.functions) : fs[i] = s.functions[i]
    BY <2>4, <2>6, AppendIs
  <2>. HIDE DEF o, fs, inner
  <2>10. ASSUME NEW i \in 1 .. Len(fs)
         PROVE  fs[i].ops \in Seq(1 .. Len(o))
    <3>1. CASE i = Len(s.functions) + 1
      <4>1. fs[i].ops = ids
        BY <2>6, <2>9, <3>1
      <4>. QED  BY <2>5, <2>8, <4>1
    <3>2. CASE i \in 1 .. Len(s.functions)
      <4>1. fs[i].ops \in Seq(1 .. base)
        BY <2>9, <3>2, ParserFields
      <4>2. Len(o) \in Nat /\ base <= Len(o)
        BY <2>3, <2>4, <2>8
      <4>. QED  BY <2>4, <4>1, <4>2, WiderIndices
    <3>. QED  BY <2>9, <3>1, <3>2
  <2>11. s.path \in Seq(Nat) /\ s.counters \in Seq(Nat) /\ s.scope \in [function : Nat, depth : Nat]
    BY ParserFields
  <2>12. PushInner(s, st) \in ParserStates
    BY <2>7, <2>8, <2>9, <2>10, <2>11, ParserStateOf
  <2>13. PushInner(s, st).ops = o
    BY <2>7
  <2>. QED  BY <2>3, <2>4, <2>8, <2>12, <2>13
<1>. QED  BY <1>1, <1>2

LEMMA AssignScopeTyped ==
  ASSUME NEW s \in ParserStates, NEW st \in Statements, NEW index \in 1 .. Len(s.ops)
  PROVE  AssignScope(s, st, index) \in ParserStates
<1>0. /\ s.ops \in Seq(PlacedOps) /\ s.functions \in Seq(ScopeSet) /\ s.path \in Seq(Nat)
      /\ s.counters \in Seq(Nat) /\ s.scope \in [function : Nat, depth : Nat]
      /\ \A i \in 1 .. Len(s.functions) : s.functions[i].ops \in Seq(1 .. Len(s.ops))
      /\ Len(s.functions) \in Nat /\ Len(s.path) \in Nat
  BY ParserFields
<1>1. CASE st.line.delta > 0 /\ st.line.symbol # NoSymbol /\ s.scope = NoScope
  <2>. DEFINE f  == FunctionScope(st.line.symbol, <<>>, st)
              e  == [function |-> Len(s.functions) + 1, depth |-> Len(s.path) + 1]
              fs == Append(s.functions, f)
  <2>1. AssignScope(s, st, index) = [s EXCEPT !.functions = Append(@, f), !.scope = e]
    BY <1>1 DEF AssignScope
  <2>2. f \in ScopeSet /\ f.ops = <<>>
    <3>1. /\ st.line.symbol \in SymbolSet /\ st.first \in Nat /\ st.last \in Nat /\ <<>> \in Seq(Nat)
      BY DEF Statements, Lines
    <3>. QED  BY <3>1 DEF FunctionScope, ScopeSet
  <2>3. e \in [function : Nat, depth : Nat]
    BY <1>0
  <2>. HIDE DEF f, e
  <2>4. AssignScope(s, st, index) = [ops |-> s.ops, functions |-> fs, path |-> s.path,
                                     counters |-> s.counters, scope |-> e]
    <3>1. s = [ops |-> s.ops, functions |-> s.functions, path |-> s.path,
               counters |-> s.counters, scope |-> s.scope]
      BY ParserFields
    <3>. QED  BY <2>1, <3>1
  <2>5. /\ fs \in Seq(ScopeSet) /\ Len(fs) = Len(s.functions) + 1
        /\ fs[Len(s.functions) + 1] = f
        /\ \A i \in 1 .. Len(s.functions) : fs[i] = s.functions[i]
    BY <1>0, <2>2, AppendIs
  <2>. HIDE DEF fs
  <2>6. ASSUME NEW i \in 1 .. Len(fs)
        PROVE  fs[i].ops \in Seq(1 .. Len(s.ops))
    <3>1. CASE i = Len(s.functions) + 1
      <4>1. fs[i].ops = <<>>
        BY <2>2, <2>5, <3>1
      <4>. QED  BY <4>1
    <3>2. CASE i \in 1 .. Len(s.functions)
      BY <1>0, <2>5, <3>2
    <3>. QED  BY <1>0, <2>5, <3>1, <3>2
  <2>7. /\ s.ops \in Seq(PlacedOps) /\ fs \in Seq(ScopeSet) /\ s.path \in Seq(Nat)
        /\ s.counters \in Seq(Nat) /\ e \in [function : Nat, depth : Nat]
        /\ \A i \in 1 .. Len(fs) : fs[i].ops \in Seq(1 .. Len(s.ops))
    BY <1>0, <2>3, <2>5, <2>6
  <2>. QED  BY <2>4, <2>7, ParserStateOf
<1>2. CASE ~(st.line.delta > 0 /\ st.line.symbol # NoSymbol /\ s.scope = NoScope) /\ s.scope = NoScope
  <2>1. AssignScope(s, st, index) = s
    BY <1>2 DEF AssignScope
  <2>. QED  BY <2>1
<1>3. CASE s.scope # NoScope
  <2>. DEFINE n   == s.scope.function
              new == Extended(s.functions[n], index, st)
              fs  == [s.functions EXCEPT ![n] = new]
  <2>1. AssignScope(s, st, index) = [s EXCEPT !.functions[n] = Extended(@, index, st)]
    BY <1>3 DEF AssignScope
  <2>2. AssignScope(s, st, index) = [ops |-> s.ops, functions |-> fs, path |-> s.path,
                                     counters |-> s.counters, scope |-> s.scope]
    BY <2>1, ParserFields
  <2>3. /\ fs = [i \in 1 .. Len(s.functions) |-> fs[i]]
        /\ \A i \in 1 .. Len(s.functions) : fs[i] = IF i = n THEN new ELSE s.functions[i]
    <3>1. DOMAIN s.functions = 1 .. Len(s.functions)
      BY <1>0
    <3>. HIDE DEF new
    <3>. QED  BY <3>1
  <2>. HIDE DEF fs
  <2>4. ASSUME NEW i \in 1 .. Len(s.functions)
        PROVE  fs[i] \in ScopeSet /\ fs[i].ops \in Seq(1 .. Len(s.ops))
    <3>. DEFINE g == s.functions[i]
    <3>1. g \in ScopeSet /\ g.ops \in Seq(1 .. Len(s.ops)) /\ st.last \in Nat /\ index \in Nat
      BY <1>0 DEF Statements
    <3>2. Append(g.ops, index) \in Seq(1 .. Len(s.ops))
      BY <3>1
    <3>3. Append(g.ops, index) \in Seq(Nat)
      BY <3>1 DEF ScopeSet
    <3>4. CASE i = n
      <4>1. fs[i] = [g EXCEPT !.ops = Append(@, index), !.last = st.last]
        BY <2>3, <3>4 DEF Extended
      <4>. HIDE DEF g, fs
      <4>2. fs[i] = [name |-> g.name, ops |-> Append(g.ops, index), first |-> g.first, last |-> st.last]
        BY <3>1, <4>1 DEF ScopeSet
      <4>. QED  BY <3>1, <3>2, <3>3, <4>2 DEF ScopeSet
    <3>5. CASE i # n
      BY <2>3, <3>1, <3>5
    <3>. QED  BY <3>4, <3>5
  <2>5. fs \in Seq(ScopeSet) /\ Len(fs) = Len(s.functions)
    <3>1. Len(s.functions) \in Nat /\ \A i \in 1 .. Len(s.functions) : fs[i] \in ScopeSet
      BY <1>0, <2>4
    <3>2. fs = [i \in 1 .. Len(s.functions) |-> fs[i]]
      BY <2>3
    <3>3. fs \in [1 .. Len(s.functions) -> ScopeSet]
      BY <3>1, <3>2
    <3>. QED  BY <3>1, <3>3
  <2>6. \A i \in 1 .. Len(fs) : fs[i].ops \in Seq(1 .. Len(s.ops))
    BY <2>4, <2>5
  <2>. QED  BY <1>0, <2>2, <2>5, <2>6, ParserStateOf
<1>. QED  BY <1>1, <1>2, <1>3

\* Entering or leaving any number of regions.
LEMMA RegionsTyped ==
  ASSUME NEW s \in ParserStates, NEW k \in Int, NEW last \in Nat
  PROVE  EnterRegions(s, k) \in ParserStates /\ LeaveRegions(s, last, k) \in ParserStates
<1>. DEFINE n == IF k < 0 THEN 0 ELSE k
<1>1. EnterRegions(s, k) = EnterRegions(s, n) /\ LeaveRegions(s, last, k) = LeaveRegions(s, last, n)
  <2>1. 1 .. k = 1 .. n
    OBVIOUS
  <2>. HIDE DEF n
  <2>2. [i \in 1 .. k |-> i] = [i \in 1 .. n |-> i]
    BY <2>1
  <2>. QED  BY <2>2 DEF EnterRegions, LeaveRegions
<1>2. n \in Nat
  OBVIOUS
<1>. HIDE DEF n
<1>3. \A t \in ParserStates, i \in 1 .. n : EnterRegion(t) \in ParserStates
  BY EnterRegionTyped
<1>4. \A t \in ParserStates, i \in 1 .. n : LeaveRegion(t, last) \in ParserStates
  BY LeaveRegionTyped
<1>5. EnterRegions(s, n) \in ParserStates
  <2>1. PICK g : EnterRun(g, ParserStates, s, n)
    BY <1>2, <1>3, EnterSteps
  <2>. QED  BY <1>2, <2>1 DEF EnterRun
<1>6. LeaveRegions(s, last, n) \in ParserStates
  <2>1. PICK g : LeaveRun(g, ParserStates, s, last, n)
    BY <1>2, <1>4, LeaveSteps
  <2>. QED  BY <1>2, <2>1 DEF LeaveRun
<1>. QED  BY <1>1, <1>5, <1>6

\* A statement leaves the state of the parser well typed.
LEMMA ParseStatementTyped ==
  ASSUME NEW s \in ParserStates, NEW st \in Statements
  PROVE  ParseStatement(s, st) \in ParserStates
<1>. DEFINE line  == st.line
            index == Len(s.ops) + 1
            a     == PushOp(s, st)
            b     == PushInner(a, st)
            c     == AssignScope(b, st, index)
<1>1. line.delta \in Int /\ -line.delta \in Int /\ st.last \in Nat
  BY DEF Statements, Lines
<1>2. a \in ParserStates /\ Len(a.ops) = index /\ Len(s.ops) \in Nat
  BY PushOpTyped, ParserFields
<1>3. b \in ParserStates /\ Len(b.ops) >= index
  <2>. HIDE DEF a
  <2>. QED  BY <1>2, PushInnerTyped
<1>4. index \in 1 .. Len(b.ops)
  <2>1. Len(b.ops) \in Nat
    <3>1. b.ops \in Seq(PlacedOps)
      BY <1>3, ParserFields
    <3>. QED  BY <3>1
  <2>. QED  BY <1>2, <1>3, <2>1
<1>5. c \in ParserStates
  <2>. HIDE DEF b, index
  <2>. QED  BY <1>3, <1>4, AssignScopeTyped
<1>6. ParseStatement(s, st) \in
        {LeaveRegions(s, st.last, -line.delta), EnterRegions(s, line.delta), EnterRegions(c, line.delta)}
  BY DEF ParseStatement
<1>. HIDE DEF c, line
<1>. QED  BY <1>1, <1>5, <1>6, RegionsTyped

LEMMA StartTyped == StartOfText \in ParserStates
<1>1. <<>> \in Seq(PlacedOps) /\ <<>> \in Seq(ScopeSet) /\ <<>> \in Seq(Nat) /\ <<0>> \in Seq(Nat)
  OBVIOUS
<1>2. NoScope \in [function : Nat, depth : Nat]
  BY DEF NoScope
<1>3. \A i \in 1 .. Len(<<>>) : <<>>[i].ops \in Seq(1 .. Len(<<>>))
  OBVIOUS
<1>. QED  BY <1>1, <1>2, <1>3, ParserStateOf DEF StartOfText

LEMMA EndRuns ==
  ASSUME NEW stmts \in Seq(Statements)
  PROVE  \E g : EndRun(g, ParserStates, stmts)
<1>1. \A t \in ParserStates, i \in 1 .. Len(stmts) : ParseStatement(t, stmts[i]) \in ParserStates
  BY ParseStatementTyped
<1>2. DOMAIN stmts = 1 .. Len(stmts) /\ Len(stmts) \in Nat
  OBVIOUS
<1>. QED  BY <1>1, <1>2, StartTyped, EndSteps

LEMMA EndTyped ==
  ASSUME NEW stmts \in Seq(Statements)
  PROVE  EndOf(stmts) \in ParserStates
<1>1. PICK g : EndRun(g, ParserStates, stmts)
  BY EndRuns
<1>2. Len(stmts) \in Nat
  OBVIOUS
<1>. QED  BY <1>1, <1>2 DEF EndRun

\* The operations of a function of a parsed text.
LEMMA ScopeOpsTyped ==
  ASSUME NEW lines \in Seq(Lines), NEW name
  PROVE  ScopeOps(ParseModule(lines), name) \in Seq(PlacedOps)
<1>. DEFINE end    == EndOf(Assemble(lines))
            module == Module(end)
            n      == Scope(module, name)
<1>1. end \in ParserStates
  BY AssembleTyped, EndTyped
<1>2. module.ops = end.ops
  BY DEF Module
<1>3. Len(end.ops) \in Nat /\ end.ops \in Seq(PlacedOps)
  <2>1. end.ops \in Seq(PlacedOps)
    BY <1>1, ParserFields
  <2>. QED  BY <2>1
<1>. HIDE DEF end
<1>4. \A i \in 1 .. Len(module.functions) : module.functions[i].ops \in Seq(1 .. Len(end.ops))
  <2>1. CASE end.functions = <<>> /\ end.ops # <<>>
    <3>. DEFINE ids == [i \in DOMAIN end.ops |-> i]
                st  == [first |-> Head(end.ops).first, last |-> Last(end.ops).last]
    <3>1. module.functions = <<FunctionScope(TheModule, ids, st)>>
      BY <2>1 DEF Module
    <3>2. ids \in Seq(1 .. Len(end.ops))
      <4>1. DOMAIN end.ops = 1 .. Len(end.ops)
        BY <1>3
      <4>2. ids \in [1 .. Len(end.ops) -> 1 .. Len(end.ops)]
        BY <4>1
      <4>. QED  BY <1>3, <4>2
    <3>. HIDE DEF ids, st, module
    <3>3. FunctionScope(TheModule, ids, st).ops = ids
      BY DEF FunctionScope
    <3>. QED  BY <3>1, <3>2, <3>3
  <2>2. CASE ~(end.functions = <<>> /\ end.ops # <<>>)
    <3>1. module.functions = end.functions
      BY <2>2 DEF Module
    <3>. HIDE DEF module
    <3>. QED  BY <1>1, <3>1, ParserFields
  <2>. QED  BY <2>1, <2>2
<1>5. ParseModule(lines) = module
  BY DEF ParseModule, end
<1>. HIDE DEF module
<1>6. n \in 0 .. Len(module.functions)
  <2>. DEFINE I == {i \in 1 .. Len(module.functions) : module.functions[i].name = name}
  <2>1. n = IF I # {} THEN Min(I) ELSE 0
    BY DEF Scope, SelectInSeq
  <2>2. I \in SUBSET Nat
    OBVIOUS
  <2>. HIDE DEF n
  <2>3. I # {} => Min(I) \in I
    <3>. HIDE DEF I
    <3>. QED  BY <2>2, MinIsMember
  <2>. QED  BY <2>1, <2>3
<1>. HIDE DEF n
<1>7. CASE n = 0
  BY <1>5, <1>7 DEF ScopeOps, n
<1>8. CASE n # 0
  <2>. DEFINE ids == module.functions[n].ops
              m   == Len(ids)
  <2>1. ids \in Seq(1 .. Len(end.ops))
    BY <1>4, <1>6, <1>8
  <2>2. ScopeOps(module, name) = [k \in DOMAIN ids |-> module.ops[ids[k]]]
    BY <1>8 DEF ScopeOps, n
  <2>. HIDE DEF ids
  <2>3. DOMAIN ids = 1 .. m /\ m \in Nat /\ \A k \in 1 .. m : ids[k] \in 1 .. Len(end.ops)
    BY <2>1
  <2>4. \A k \in 1 .. m : module.ops[ids[k]] \in PlacedOps
    BY <1>2, <1>3, <2>3 DEF module
  <2>5. ScopeOps(module, name) \in [1 .. m -> PlacedOps]
    BY <2>2, <2>3, <2>4
  <2>. QED  BY <1>5, <2>3, <2>5
<1>. QED  BY <1>7, <1>8

-----------------------------------------------------------------------------
(* The lines that are printed and edited.                                    *)

LEMMA FormsTyped ==
  /\ OpForms \subseteq Forms
  /\ Carriers \subseteq Forms
  /\ [OpaqueOp EXCEPT !.name = "structure"] \in Forms
  /\ OpaqueOp \in Forms
<1>1. ASSUME NEW op \in OpForms PROVE op \in Forms
  <2>1. op \in [name : STRING, results : SUBSET Nat, operands : SUBSET Nat,
                types : STRING, attrs : STRING, location : STRING]
    BY EngineAssumption
  <2>2. op.name \in Words /\ op.types \in Words /\ op.attrs \in Words /\ op.location \in Words
    BY DEF Words
  <2>3. op = [name |-> op.name, results |-> op.results, operands |-> op.operands,
              types |-> op.types, attrs |-> op.attrs, location |-> op.location]
    BY <2>1
  <2>4. op.results \in SUBSET Nat /\ op.operands \in SUBSET Nat
    BY <2>1
  <2>. QED  BY <2>2, <2>3, <2>4 DEF Forms
<1>2. Carriers \subseteq OpForms
  BY EngineAssumption
<1>3. {} \in SUBSET Nat /\ "opaque" \in Words /\ "none" \in Words /\ "structure" \in Words
  BY DEF Words
<1>4. OpaqueOp \in Forms
  BY <1>3 DEF OpaqueOp, Forms
<1>5. [OpaqueOp EXCEPT !.name = "structure"]
        = [name |-> "structure", results |-> {}, operands |-> {}, types |-> "none",
           attrs |-> "none", location |-> "none"]
  BY DEF OpaqueOp
<1>6. [OpaqueOp EXCEPT !.name = "structure"] \in Forms
  BY <1>3, <1>5 DEF Forms
<1>. QED  BY <1>1, <1>2, <1>4, <1>6

LEMMA LinesTyped ==
  /\ ModuleLine \in Lines /\ Attributes \in Lines /\ LabelLine \in Lines
  /\ CloseLine \in Lines /\ ElseLine \in Lines /\ AliasLine \in Lines
  /\ \A f \in FunctionNames : FunctionLine(f) \in Lines /\ Declaration(f) \in Lines
  /\ \A op \in OpForms : OpLine(op) \in Lines /\ RegionLine(op) \in Lines
  /\ \A f \in FunctionNames, op \in Carriers : ShortLine(f, op) \in Lines
  /\ \A line \in Referring \union {Opaque(0)} :
       line \in Lines /\ [line EXCEPT !.starts = FALSE] \in Lines
<1>. DEFINE o == [OpaqueOp EXCEPT !.name = "structure"]
<1>1. o \in Forms
  BY FormsTyped
<1>2. NoSymbol \in SymbolSet /\ \A f \in FunctionNames : Symbols[f] \in SymbolSet
  BY DEF SymbolSet
<1>3. <<>> \in Seq(Forms)
  OBVIOUS
<1>4. Opaque(0) \in Lines /\ Opaque(1) \in Lines /\ Opaque(-1) \in Lines
  <2>. HIDE DEF o
  <2>1. ASSUME NEW d \in Int PROVE Opaque(d) \in Lines
    BY <1>1, <1>2, <1>3 DEF Opaque, Lines, o
  <2>. QED  BY <2>1
<1>. HIDE DEF o
<1>5. /\ ModuleLine \in Lines /\ Attributes \in Lines /\ LabelLine \in Lines
      /\ CloseLine \in Lines /\ ElseLine \in Lines
  BY <1>4 DEF ModuleLine, Attributes, LabelLine, CloseLine, ElseLine, Lines
<1>6. ASSUME NEW f \in FunctionNames
      PROVE  FunctionLine(f) \in Lines /\ Declaration(f) \in Lines
  BY <1>2, <1>4 DEF FunctionLine, Declaration, Lines
<1>7. ASSUME NEW op \in OpForms
      PROVE  OpLine(op) \in Lines /\ RegionLine(op) \in Lines
  <2>1. Opaque(0).op \in Forms /\ op \in Forms
    BY <1>4, FormsTyped DEF Lines
  <2>2. <<Opaque(0).op>> \in Seq(Forms)
    BY <2>1
  <2>. DEFINE inner == IF op.attrs = "none" THEN <<>> ELSE <<Opaque(0).op>>
  <2>3. inner \in Seq(Forms)
    BY <1>3, <2>2
  <2>4. OpLine(op) = [Opaque(0) EXCEPT !.op = op, !.braced = (op.attrs # "none"), !.inner = inner]
    BY DEF OpLine
  <2>. HIDE DEF inner
  <2>5. OpLine(op) \in Lines
    BY <1>4, <2>1, <2>3, <2>4 DEF Lines
  <2>. QED  BY <1>4, <2>1, <2>5 DEF RegionLine, Lines
<1>8. ASSUME NEW f \in FunctionNames, NEW op \in Carriers
      PROVE  ShortLine(f, op) \in Lines
  <2>1. <<op>> \in Seq(Forms)
    BY FormsTyped
  <2>2. Declaration(f) \in Lines /\ Declaration(f).op \in Forms /\ "braces" \in Words
    BY <1>6 DEF Lines, Words
  <2>. DEFINE d == Declaration(f)
              x == [d.op EXCEPT !.attrs = "braces"]
  <2>3. x \in Forms
    BY <2>2 DEF Forms
  <2>4. ShortLine(f, op) = [d EXCEPT !.braced = TRUE, !.inner = <<op>>, !.op = x]
    BY DEF ShortLine
  <2>. HIDE DEF SymbolSet, d, x
  <2>. QED  BY <2>1, <2>2, <2>3, <2>4 DEF Lines, d
<1>9. AliasLine \in Lines
  BY <1>4, FormsTyped DEF AliasLine, Lines
<1>10. ASSUME NEW line \in Referring \union {Opaque(0)}
       PROVE  line \in Lines /\ [line EXCEPT !.starts = FALSE] \in Lines
  <2>1. line \in Lines
    BY <1>4, <1>6, <1>8, EngineAssumption DEF Referring
  <2>. QED  BY <2>1 DEF Lines
<1>. QED  BY <1>5, <1>6, <1>7, <1>8, <1>9, <1>10

-----------------------------------------------------------------------------
(* The texts before and after a pass are lines.                              *)

TextsInv == text \in Seq(Lines) /\ before \in Seq(Lines)

LEMMA NextNames == NextName \subseteq FunctionNames /\ Callees \subseteq FunctionNames
BY EngineAssumption DEF NextName

LEMMA RemoveTyped ==
  ASSUME NEW S, NEW seq \in Seq(S), NEW n \in DOMAIN seq
  PROVE  RemoveAt(seq, n) \in Seq(S)
<1>1. Len(seq) \in Nat /\ n \in 1 .. Len(seq)
  OBVIOUS
<1>2. SubSeq(seq, 1, n - 1) \in Seq(S) /\ SubSeq(seq, n + 1, Len(seq)) \in Seq(S)
  BY <1>1
<1>. QED  BY <1>2 DEF RemoveAt

LEMMA InsertTyped ==
  ASSUME NEW S, NEW seq \in Seq(S), NEW n \in DOMAIN seq, NEW x \in S
  PROVE  InsertAt(seq, n, x) \in Seq(S)
<1>1. Len(seq) \in Nat /\ n \in 1 .. Len(seq)
  OBVIOUS
<1>2. SubSeq(seq, 1, n - 1) \in Seq(S) /\ SubSeq(seq, n, Len(seq)) \in Seq(S) /\ <<x>> \in Seq(S)
  BY <1>1
<1>. QED  BY <1>2 DEF InsertAt

LEMMA EmitTyped ==
  ASSUME TextsInv, NEW lines \in Seq(Lines), NEW kind, NEW defines, Emit(lines, kind, defines)
  PROVE  TextsInv'
BY DEF TextsInv, Emit

LEMMA EditTyped ==
  ASSUME TextsInv, NEW new \in Seq(Lines), Edit(new)
  PROVE  TextsInv'
BY DEF TextsInv, Edit

LEMMA TextsStep ==
  ASSUME TextsInv, [Next]_vars
  PROVE  TextsInv'
<1>0. text \in Seq(Lines) /\ before \in Seq(Lines)
  BY DEF TextsInv
<1>1. \A l \in Lines : <<l>> \in Seq(Lines) /\ \A m \in Lines : <<l, m>> \in Seq(Lines)
  OBVIOUS
<1>2. CASE PrintAlias \/ OpenModule
  BY <1>1, <1>2, LinesTyped, EmitTyped DEF PrintAlias, OpenModule
<1>3. CASE OpenFunction
  BY <1>1, <1>3, LinesTyped, NextNames, EmitTyped DEF OpenFunction
<1>4. CASE ShortFunction
  BY <1>1, <1>4, LinesTyped, NextNames, EmitTyped DEF ShortFunction
<1>5. CASE Declare
  BY <1>1, <1>5, LinesTyped, EmitTyped DEF Declare
<1>6. CASE PrintOp
  BY <1>1, <1>6, LinesTyped, EmitTyped DEF PrintOp
<1>7. CASE PrintCall
  <2>1. PICK line \in Referring \union {Opaque(0)} :
          \/ Emit(<<line>>, "op", 0)
          \/ Emit(<<[line EXCEPT !.starts = FALSE]>>, "call", 0)
    BY <1>7 DEF PrintCall
  <2>. DEFINE call == [line EXCEPT !.starts = FALSE]
  <2>2. line \in Lines /\ call \in Lines
    BY LinesTyped
  <2>. HIDE DEF call
  <2>. QED  BY <1>1, <2>1, <2>2, EmitTyped DEF call
<1>8. CASE OpenRegion
  <2>1. PICK op \in Carriers : Emit(<<RegionLine(op)>>, "op", 0)
    BY <1>8 DEF OpenRegion
  <2>2. op \in OpForms
    BY EngineAssumption
  <2>. QED  BY <1>1, <2>1, <2>2, LinesTyped, EmitTyped
<1>9. CASE NextBlock
  BY <1>1, <1>9, LinesTyped, EmitTyped DEF NextBlock
<1>10. CASE Close
  BY <1>1, <1>10, LinesTyped, EmitTyped DEF Close
<1>11. CASE StartPass
  BY <1>0, <1>11 DEF StartPass, TextsInv
<1>12. CASE EraseOp
  <2>1. PICK n \in DOMAIN text : Edit(RemoveAt(text, n))
    BY <1>12 DEF EraseOp
  <2>2. RemoveAt(text, n) \in Seq(Lines)
    BY <1>0, RemoveTyped
  <2>. QED  BY <2>1, <2>2, EditTyped
<1>13. CASE ModifyOp
  <2>1. PICK n \in DOMAIN text, op \in OpForms : Edit([text EXCEPT ![n] = OpLine(op)])
    BY <1>13 DEF ModifyOp
  <2>2. [text EXCEPT ![n] = OpLine(op)] \in Seq(Lines)
    BY <1>0, LinesTyped
  <2>. QED  BY <2>1, <2>2, EditTyped
<1>14. CASE InsertOp
  <2>1. PICK n \in DOMAIN text, op \in OpForms : Edit(InsertAt(text, n, OpLine(op)))
    BY <1>14 DEF InsertOp
  <2>2. InsertAt(text, n, OpLine(op)) \in Seq(Lines)
    BY <1>0, LinesTyped, InsertTyped
  <2>. QED  BY <2>1, <2>2, EditTyped
<1>15. CASE MoveOp
  <2>1. PICK n \in DOMAIN text :
          IsOp(n + 1) /\ Edit([text EXCEPT ![n] = text[n + 1], ![n + 1] = text[n]])
    BY <1>15 DEF MoveOp
  <2>2. text[n] \in Lines /\ text[n + 1] \in Lines
    BY <1>0, <2>1 DEF IsOp
  <2>3. [text EXCEPT ![n] = text[n + 1], ![n + 1] = text[n]] \in Seq(Lines)
    <3>1. [text EXCEPT ![n] = text[n + 1]] \in Seq(Lines)
      BY <1>0, <2>2
    <3>2. [[text EXCEPT ![n] = text[n + 1]] EXCEPT ![n + 1] = text[n]] \in Seq(Lines)
      <4>. DEFINE q == [text EXCEPT ![n] = text[n + 1]]
                  m == n + 1
                  x == text[n]
      <4>1. q \in Seq(Lines) /\ x \in Lines /\ m \in DOMAIN q
        BY <2>1, <2>2, <3>1 DEF IsOp
      <4>. HIDE DEF q, m, x
      <4>2. [q EXCEPT ![m] = x] \in Seq(Lines)
        BY <4>1
      <4>. QED  BY <4>2 DEF q, m, x
    <3>. QED  BY <3>2
  <2>. QED  BY <2>1, <2>3, EditTyped
<1>16. CASE UNCHANGED vars
  BY <1>0, <1>16 DEF vars, TextsInv
<1>. QED
  BY <1>2, <1>3, <1>4, <1>5, <1>6, <1>7, <1>8, <1>9, <1>10, <1>11, <1>12, <1>13, <1>14, <1>15,
     <1>16 DEF Next

\* The texts before and after a pass are sequences of lines, whatever was printed and
\* edited: what the parser, the diff and the graphs are applied to.
THEOREM TextsAreLines == Spec => []TextsInv
<1>1. Init => TextsInv
  BY DEF Init, TextsInv
<1>2. TextsInv /\ [Next]_vars => TextsInv'
  BY TextsStep
<1>. QED  BY <1>1, <1>2, PTL DEF Spec

-----------------------------------------------------------------------------
(* The diffs of all functions of all passes.                                 *)

LEMMA ScopeOpsLength ==
  ASSUME NEW lines \in Seq(Lines), NEW name
  PROVE  Len(ScopeOps(ParseModule(lines), name)) \in Nat
<1>. DEFINE ops == ScopeOps(ParseModule(lines), name)
<1>1. ops \in Seq(PlacedOps)
  BY ScopeOpsTyped
<1>. HIDE DEF ops
<1>. QED  BY <1>1

\* For every function of every pass, whatever the texts and the matching: each
\* operation of either snapshot is in exactly one change, the operations after keep
\* their order, and a function compared with itself has the diff that the handler
\* answers without comparing (diff.rs: match_ops, diff_function; api.rs: ir_diff).
THEOREM EveryDiffAccountsForAll == Spec => []DiffAccountsForAll
<1>1. ASSUME TextsInv PROVE DiffAccountsForAll
  <2>1. ASSUME NEW name
        PROVE  LET old == ScopeOps(ParseModule(before), name)
                   new == ScopeOps(ParseModule(text), name)
               IN AccountsForAll(old, new, DiffFunction(old, new)) /\ ReflexiveDiff(new)
    <3>. DEFINE old == ScopeOps(ParseModule(before), name)
                new == ScopeOps(ParseModule(text), name)
    <3>1. Len(old) \in Nat /\ Len(new) \in Nat
      BY <1>1, ScopeOpsLength DEF TextsInv
    <3>. HIDE DEF old, new
    <3>2. AccountsForAll(old, new, DiffFunction(old, new)) /\ ReflexiveDiff(new)
      BY <3>1, DiffIsTotal, DiffIsReflexive
    <3>. QED  BY <3>2 DEF old, new
  <2>. QED  BY <2>1 DEF DiffAccountsForAll, ForEachFunction, ForEachScope
<1>. QED  BY <1>1, TextsAreLines, PTL

\* For every function of every pass: no operation is reported as removed and another
\* of the same name as added, since the second pass of the matching would have paired
\* them (diff.rs: match_ops).
THEOREM EveryDiffIsTight == Spec => []DiffMissesNoPair
<1>1. ASSUME TextsInv PROVE DiffMissesNoPair
  <2>1. ASSUME NEW name
        PROVE  LET old == ScopeOps(ParseModule(before), name)
                   new == ScopeOps(ParseModule(text), name)
               IN NoMissedPair(old, new, DiffFunction(old, new))
    <3>. DEFINE old == ScopeOps(ParseModule(before), name)
                new == ScopeOps(ParseModule(text), name)
    <3>1. Len(old) \in Nat /\ Len(new) \in Nat
      BY <1>1, ScopeOpsLength DEF TextsInv
    <3>. HIDE DEF old, new
    <3>2. NoMissedPair(old, new, DiffFunction(old, new))
      BY <3>1, DiffIsTight
    <3>. QED  BY <3>2 DEF old, new
  <2>. QED  BY <2>1 DEF DiffMissesNoPair, ForEachFunction, ForEachScope
<1>. QED  BY <1>1, TextsAreLines, PTL

-----------------------------------------------------------------------------
(* The graphs of all functions of all passes.                                *)

LEMMA ScopeOpsPlaced ==
  ASSUME NEW lines \in Seq(Lines), NEW name
  PROVE  IsPlaced(ScopeOps(ParseModule(lines), name))
<1>. DEFINE ops == ScopeOps(ParseModule(lines), name)
<1>1. ops \in Seq(PlacedOps)
  BY ScopeOpsTyped
<1>. HIDE DEF ops
<1>2. Len(ops) \in Nat /\ \A i \in 1 .. Len(ops) : ops[i] \in PlacedOps
  BY <1>1
<1>3. IsPlaced(ops)
  BY <1>2 DEF IsPlaced, PlacedOps, Paths
<1>. QED  BY <1>3 DEF ops

\* The graphs before and after they are collapsed, of a function of a pass.
LEMMA GraphsAreRight ==
  ASSUME TextsInv, NEW name, NEW budget \in Budgets,
         NEW full \in {FullDataflow(ScopeOps(ParseModule(text), name)),
                       FullDataflowDiff(ScopeOps(ParseModule(before), name),
                                        ScopeOps(ParseModule(text), name))}
  PROVE  LET graph == CollapseToBudget(full, budget)
         IN /\ WithinBudget(full, graph, budget) /\ WellFormed(graph)
            /\ IsQuotient(full, graph) /\ NoNeedlessCollapse(full, graph, budget)
<1>1. IsPlaced(ScopeOps(ParseModule(text), name)) /\ IsPlaced(ScopeOps(ParseModule(before), name))
  BY ScopeOpsPlaced DEF TextsInv
<1>2. IsFull(full)
  BY <1>1, DataflowIsFull, DataflowDiffIsFull
<1>3. budget \in Nat
  BY EngineAssumption
<1>. QED  BY <1>2, <1>3, CollapseIsRight

\* For every function of every pass and every budget: a graph has no more nodes than
\* were asked for, says so if it was cut off, has no node twice and no edge to a node
\* it does not have (graph.rs: build_dataflow, build_dataflow_diff, collapse_to_budget,
\* maybe_truncate).
THEOREM EveryGraphKeepsToBudget == Spec => []GraphsKeepToBudget
<1>1. TextsInv => GraphsKeepToBudget
  BY GraphsAreRight DEF GraphsKeepToBudget, ForEachGraph, ForEachFunction, ForEachScope
<1>. QED  BY <1>1, TextsAreLines, PTL

\* For every function of every pass and every budget: in a graph that was not cut off
\* each operation is represented by a node, a cluster counts the operations it stands
\* for, and the edges are those of the full graph between what stands for their ends
\* (graph.rs: collapse_cluster).
THEOREM EveryGraphLosesNothing == Spec => []GraphsLoseNothing
<1>1. TextsInv => GraphsLoseNothing
  BY GraphsAreRight DEF GraphsLoseNothing, ForEachGraph, ForEachFunction, ForEachScope
<1>. QED  BY <1>1, TextsAreLines, PTL

\* For every function of every pass and every budget: a graph with the cluster that
\* was collapsed last opened again would exceed the budget (graph.rs:
\* collapse_to_budget).
THEOREM EveryGraphShowsWhatFits == Spec => []GraphsShowWhatFits
<1>1. TextsInv => GraphsShowWhatFits
  BY GraphsAreRight DEF GraphsShowWhatFits, ForEachGraph, ForEachFunction, ForEachScope
<1>. QED  BY <1>1, TextsAreLines, PTL

-----------------------------------------------------------------------------
(* A line more is a statement more that is parsed, or continues the last.    *)

LEMMA AssembleStep ==
  ASSUME NEW t \in Seq(Lines), NEW l \in Lines
  PROVE  /\ Assemble(Append(t, l)) = AddLine(Append(t, l), Assemble(t), Len(t) + 1)
         /\ Assemble(t) \in Seq(Statements)
<1>. DEFINE n == Len(t)
            u == Append(t, l)
<1>1. u \in Seq(Lines) /\ n \in Nat /\ Len(u) = n + 1 /\ \A i \in 1 .. n : u[i] = t[i]
  BY AppendIs
<1>. HIDE DEF u
<1>2. PICK g : AssembleRun(g, Seq(Statements), t)
  BY AssembleRuns
<1>3. PICK h : AssembleRun(h, Seq(Statements), u)
  BY <1>1, AssembleRuns
<1>4. /\ g[0] = <<>> /\ g[n] = Assemble(t)
      /\ \A i \in 1 .. n : g[i] = AddLine(t, g[i - 1], i)
  BY <1>2 DEF AssembleRun
<1>5. /\ h[0] = <<>> /\ h[n + 1] = Assemble(u)
      /\ \A i \in 1 .. n + 1 : h[i] = AddLine(u, h[i - 1], i)
  BY <1>1, <1>3 DEF AssembleRun
<1>6. ASSUME NEW i \in 1 .. n, NEW x
      PROVE  AddLine(u, x, i) = AddLine(t, x, i)
  <2>1. u[i] = t[i]
    BY <1>1
  <2>. QED  BY <2>1 DEF AddLine
<1>. DEFINE S == {i \in 0 .. n : h[i] = g[i]}
<1>. HIDE DEF n
<1>7. 0 \in S
  BY <1>1, <1>4, <1>5
<1>8. ASSUME NEW i \in 1 .. n, i - 1 \in S PROVE i \in S
  <2>1. i \in 1 .. n + 1 /\ i \in 0 .. n
    BY <1>1
  <2>2. h[i - 1] = g[i - 1]
    BY <1>8
  <2>3. h[i] = AddLine(u, h[i - 1], i) /\ g[i] = AddLine(t, g[i - 1], i)
    BY <1>4, <1>5, <2>1
  <2>4. h[i] = g[i]
    BY <1>6, <2>2, <2>3
  <2>. QED  BY <2>1, <2>4
<1>. HIDE DEF S
<1>9. 0 .. n \subseteq S
  BY <1>1, <1>7, <1>8, InductionUpTo
<1>10. h[n] = g[n]
  BY <1>1, <1>9 DEF S
<1>11. n + 1 \in 1 .. n + 1 /\ (n + 1) - 1 = n
  BY <1>1
<1>12. h[n + 1] = AddLine(u, h[n], n + 1)
  BY <1>5, <1>11
<1>. QED  BY <1>4, <1>5, <1>10, <1>12, AssembleTyped DEF n, u

LEMMA EndOfStep ==
  ASSUME NEW t \in Seq(Statements), NEW st \in Statements
  PROVE  EndOf(Append(t, st)) = ParseStatement(EndOf(t), st)
<1>. DEFINE n == Len(t)
            u == Append(t, st)
<1>1. u \in Seq(Statements) /\ n \in Nat /\ Len(u) = n + 1 /\ u[n + 1] = st
      /\ \A i \in 1 .. n : u[i] = t[i]
  BY AppendIs
<1>. HIDE DEF u
<1>2. PICK g : EndRun(g, ParserStates, t)
  BY EndRuns
<1>3. PICK h : EndRun(h, ParserStates, u)
  BY <1>1, EndRuns
<1>4. /\ g[0] = StartOfText /\ g[n] = EndOf(t)
      /\ \A i \in 1 .. n : g[i] = ParseStatement(g[i - 1], t[i])
  BY <1>2 DEF EndRun
<1>5. /\ h[0] = StartOfText /\ h[n + 1] = EndOf(u)
      /\ \A i \in 1 .. n + 1 : h[i] = ParseStatement(h[i - 1], u[i])
  BY <1>1, <1>3 DEF EndRun
<1>. DEFINE S == {i \in 0 .. n : h[i] = g[i]}
<1>. HIDE DEF n
<1>7. 0 \in S
  BY <1>1, <1>4, <1>5
<1>8. ASSUME NEW i \in 1 .. n, i - 1 \in S PROVE i \in S
  <2>1. i \in 1 .. n + 1 /\ i \in 0 .. n
    BY <1>1
  <2>2. h[i - 1] = g[i - 1]
    BY <1>8
  <2>3. h[i] = ParseStatement(h[i - 1], u[i]) /\ g[i] = ParseStatement(g[i - 1], t[i])
    BY <1>4, <1>5, <2>1
  <2>4. h[i] = g[i]
    BY <1>1, <2>2, <2>3
  <2>. QED  BY <2>1, <2>4
<1>. HIDE DEF S
<1>9. 0 .. n \subseteq S
  BY <1>1, <1>7, <1>8, InductionUpTo
<1>10. h[n] = g[n]
  BY <1>1, <1>9 DEF S
<1>11. n + 1 \in 1 .. n + 1 /\ (n + 1) - 1 = n
  BY <1>1
<1>12. h[n + 1] = ParseStatement(h[n], u[n + 1])
  BY <1>5, <1>11
<1>. QED  BY <1>1, <1>4, <1>5, <1>10, <1>12 DEF n, u

\* A line as a statement.
StatementOf(l, first, last) == [line |-> l, first |-> first, last |-> last]

LEMMA AssembleNone == Assemble(<<>>) = <<>>
<1>1. <<>> \in Seq(Lines) /\ Len(<<>>) = 0
  OBVIOUS
<1>2. PICK g : AssembleRun(g, Seq(Statements), <<>>)
  BY <1>1, AssembleRuns
<1>. QED  BY <1>1, <1>2 DEF AssembleRun

\* A line that starts a statement, and the first one whatever it is.
LEMMA AssembleStart ==
  ASSUME NEW t \in Seq(Lines), NEW l \in Lines, l.starts \/ t = <<>>
  PROVE  /\ Assemble(Append(t, l))
              = Append(Assemble(t), StatementOf(l, Len(t) + 1, Len(t) + 1))
         /\ StatementOf(l, Len(t) + 1, Len(t) + 1) \in Statements
         /\ Assemble(t) \in Seq(Statements)
<1>. DEFINE n == Len(t)
            u == Append(t, l)
            a == Assemble(t)
            st == StatementOf(l, n + 1, n + 1)
<1>1. n \in Nat /\ u[n + 1] = l
  BY AppendIs
<1>2. Assemble(u) = AddLine(u, a, n + 1) /\ a \in Seq(Statements)
  BY AssembleStep
<1>3. a = <<>> \/ l.starts
  BY AssembleNone
<1>. HIDE DEF u, a, n
<1>4. AddLine(u, a, n + 1) = Append(a, st)
  BY <1>1, <1>3 DEF AddLine, StatementOf
<1>5. st \in Statements
  BY <1>1 DEF Statements, StatementOf
<1>. QED  BY <1>2, <1>4, <1>5 DEF u, a, n

LEMMA FrontIs ==
  ASSUME NEW S, NEW a \in Seq(S), NEW x \in S
  PROVE  Append(a, x) # <<>> /\ Last(Append(a, x)) = x /\ Front(Append(a, x)) = a
<1>1. /\ Append(a, x) \in Seq(S) /\ Len(Append(a, x)) = Len(a) + 1 /\ Len(a) \in Nat
      /\ Append(a, x)[Len(a) + 1] = x
  BY AppendIs
<1>2. Front(Append(a, x)) = SubSeq(Append(a, x), 1, Len(a))
  BY <1>1 DEF Front
<1>3. SubSeq(Append(a, x), 1, Len(a)) = a
  OBVIOUS
<1>. QED  BY <1>1, <1>2, <1>3 DEF Last

LEMMA FrontAndLast ==
  ASSUME NEW S, NEW a \in Seq(S), a # <<>>
  PROVE  Front(a) \in Seq(S) /\ Last(a) \in S /\ a = Append(Front(a), Last(a))
<1>1. PICK n \in Nat : Len(a) = n + 1
  <2>1. Len(a) \in Nat /\ Len(a) # 0
    OBVIOUS
  <2>. QED  BY <2>1
<1>2. Front(a) = SubSeq(a, 1, n) /\ Last(a) = a[n + 1]
  BY <1>1 DEF Front, Last
<1>3. SubSeq(a, 1, n) \in Seq(S) /\ a[n + 1] \in S
  BY <1>1
<1>4. a = Append(SubSeq(a, 1, n), a[n + 1])
  BY <1>1
<1>. QED  BY <1>2, <1>3, <1>4

\* A line that starts none is part of the last statement.
LEMMA AssembleJoin ==
  ASSUME NEW t \in Seq(Lines), NEW l \in Lines, ~l.starts, Assemble(t) # <<>>
  PROVE  LET a  == Assemble(t)
             st == Last(a)
             j  == StatementOf(Join(st.line, l), st.first, Len(t) + 1)
         IN /\ Assemble(Append(t, l)) = Append(Front(a), j) /\ a = Append(Front(a), st)
            /\ Front(a) \in Seq(Statements) /\ st \in Statements /\ j \in Statements
<1>. DEFINE n == Len(t)
            u == Append(t, l)
            a == Assemble(t)
            st == Last(a)
            j == StatementOf(Join(st.line, l), st.first, n + 1)
<1>1. n \in Nat /\ u[n + 1] = l
  BY AppendIs
<1>2. Assemble(u) = AddLine(u, a, n + 1) /\ a \in Seq(Statements) /\ a # <<>>
  BY AssembleStep
<1>. HIDE DEF u, a, n
<1>3. Front(a) \in Seq(Statements) /\ st \in Statements /\ a = Append(Front(a), st)
  BY <1>2, FrontAndLast
<1>4. AddLine(u, a, n + 1) = Append(Front(a), [st EXCEPT !.line = Join(@, l), !.last = n + 1])
  BY <1>1, <1>2 DEF AddLine
<1>. HIDE DEF st
<1>5. Join(st.line, l) \in Lines
  BY <1>3, JoinedTyped DEF Statements
<1>6. [st EXCEPT !.line = Join(@, l), !.last = n + 1] = j
  BY <1>3, StatementWith DEF StatementOf
<1>7. j \in Statements
  BY <1>1, <1>3, <1>5 DEF Statements, StatementOf
<1>. QED  BY <1>2, <1>3, <1>4, <1>6, <1>7 DEF u, a, n, st

\* Lines are equal if their fields are.
LEMMA LineEq ==
  ASSUME NEW a \in Lines, NEW b \in Lines,
         a.starts = b.starts, a.closes = b.closes, a.bare = b.bare, a.delta = b.delta,
         a.symbol = b.symbol, a.braced = b.braced, a.inner = b.inner, a.op = b.op
  PROVE  a = b
BY DEF Lines

\* A function whose attributes are on a line of their own is one statement.
LEMMA AssembleFunction ==
  ASSUME NEW t \in Seq(Lines), NEW f \in FunctionNames
  PROVE  LET fn == StatementOf(FunctionLine(f), Len(t) + 1, Len(t) + 2) IN
         /\ Assemble(Append(Append(t, Declaration(f)), Attributes)) = Append(Assemble(t), fn)
         /\ fn \in Statements /\ Assemble(t) \in Seq(Statements)
<1>. DEFINE n == Len(t)
            d == Declaration(f)
            e == Attributes
            u == Append(t, d)
            a == Assemble(t)
            st == StatementOf(d, n + 1, n + 1)
            fn == StatementOf(FunctionLine(f), n + 1, n + 2)
<1>1. d \in Lines /\ e \in Lines /\ FunctionLine(f) \in Lines
  BY LinesTyped
<1>2. d.starts /\ ~e.starts
  BY DEF Declaration, Attributes, Opaque
<1>3. Join(d, e) = FunctionLine(f)
  <2>. DEFINE j == Join(d, e)
              l == FunctionLine(f)
  <2>1. Symbols[f] # NoSymbol
    BY EngineAssumption
  <2>2. /\ d.delta = 0 /\ e.delta = 1 /\ d.symbol = Symbols[f] /\ ~d.braced /\ ~e.braced
        /\ d.inner = <<>> /\ e.inner = <<>>
        /\ d.op = [OpaqueOp EXCEPT !.name = "structure"] /\ e.op = d.op
    BY DEF Declaration, Attributes, Opaque
  <2>3. /\ l.delta = 1 /\ l.symbol = Symbols[f] /\ l.op = d.op /\ ~l.braced /\ l.inner = <<>>
        /\ l.starts = d.starts /\ l.closes = d.closes /\ l.bare = d.bare
    BY DEF Declaration, FunctionLine, Opaque
  <2>4. j.op = d.op
    <3>. DEFINE operands == d.op.operands \union e.op.operands
                attrs == IF d.op.attrs = "none" /\ d.delta <= 0 THEN e.op.attrs ELSE d.op.attrs
    <3>1. j.op = [d.op EXCEPT !.operands = operands, !.types = e.op.types, !.attrs = attrs]
      <4>. HIDE DEF d, e
      <4>. QED  BY <1>1 DEF Join, Lines
    <3>2. d.op \in Forms
      BY <1>1 DEF Lines
    <3>3. operands = d.op.operands /\ attrs = d.op.attrs /\ e.op.types = d.op.types
      BY <2>2
    <3>4. d.op = [name |-> d.op.name, results |-> d.op.results, operands |-> d.op.operands,
                  types |-> d.op.types, attrs |-> d.op.attrs, location |-> d.op.location]
      BY <3>2 DEF Forms
    <3>. HIDE DEF d, e, j, operands, attrs
    <3>. QED  BY <3>1, <3>2, <3>3, <3>4, FormWith
  <2>5. /\ j \in Lines /\ j.starts = d.starts /\ j.closes = d.closes /\ j.bare = d.bare
        /\ j.delta = d.delta + e.delta
        /\ j.symbol = (IF d.symbol = NoSymbol THEN e.symbol ELSE d.symbol)
        /\ j.braced = (d.braced \/ e.braced) /\ j.inner = (IF d.braced THEN d.inner ELSE e.inner)
    <3>. HIDE DEF d, e
    <3>. QED  BY <1>1, JoinedTyped
  <2>6. j.braced \in BOOLEAN /\ l.braced \in BOOLEAN
    BY <1>1, <2>5 DEF Lines
  <2>. HIDE DEF j, l, d, e
  <2>7. /\ j.starts = l.starts /\ j.closes = l.closes /\ j.bare = l.bare /\ j.delta = l.delta
        /\ j.symbol = l.symbol /\ j.braced = l.braced /\ j.inner = l.inner /\ j.op = l.op
    BY <2>1, <2>2, <2>3, <2>4, <2>5, <2>6
  <2>8. l \in Lines
    BY <1>1 DEF l
  <2>9. j = l
    BY <2>5, <2>7, <2>8, LineEq
  <2>. QED  BY <2>9 DEF j, l
<1>. HIDE DEF d, e
<1>4. n \in Nat /\ u \in Seq(Lines) /\ Len(u) = n + 1 /\ (n + 1) + 1 = n + 2
  BY <1>1, AppendIs
<1>5. Assemble(u) = Append(a, st) /\ a \in Seq(Statements) /\ st \in Statements
  BY <1>1, <1>2, AssembleStart
<1>. HIDE DEF u, a, n
<1>6. Append(a, st) # <<>> /\ Last(Append(a, st)) = st /\ Front(Append(a, st)) = a
  <2>. HIDE DEF st
  <2>. QED  BY <1>5, FrontIs
<1>7. Assemble(Append(u, e)) = Append(a, StatementOf(Join(st.line, e), st.first, n + 2))
  BY <1>1, <1>2, <1>4, <1>5, <1>6, AssembleJoin
<1>8. st.line = d /\ st.first = n + 1
  BY DEF StatementOf
<1>9. fn \in Statements
  BY <1>1, <1>4 DEF Statements, StatementOf
<1>. QED  BY <1>3, <1>5, <1>7, <1>8, <1>9 DEF u, a, d, e, n

-----------------------------------------------------------------------------
(* What a statement of each kind does to the state of the parser.            *)

\* A state has the functions of the one before.
SameFunctions(r, q) ==
  /\ Len(q.functions) = Len(r.functions)
  /\ \A f \in 1 .. Len(r.functions) :
       q.functions[f].name = r.functions[f].name /\ q.functions[f].ops = r.functions[f].ops

\* An operation more, which belongs to the function that is open.
Pushes(r, q, op) ==
  /\ q.ops = Append(r.ops, op)
  /\ Len(q.functions) = Len(r.functions)
  /\ \A f \in 1 .. Len(r.functions) :
       /\ q.functions[f].name = r.functions[f].name
       /\ q.functions[f].ops = IF f = r.scope.function
                               THEN Append(r.functions[f].ops, Len(r.ops) + 1)
                               ELSE r.functions[f].ops

\* A function more.
Defines(r, q, name, ops) ==
  /\ Len(q.functions) = Len(r.functions) + 1
  /\ \A f \in 1 .. Len(r.functions) :
       q.functions[f].name = r.functions[f].name /\ q.functions[f].ops = r.functions[f].ops
  /\ q.functions[Len(r.functions) + 1].name = name
  /\ q.functions[Len(r.functions) + 1].ops = ops

\* A region more, numbered in the one around it, or one less.
Enters(r, q) ==
  LET depth == Len(r.counters) IN
  /\ q.path = Append(r.path, r.counters[depth])
  /\ q.counters = Append([r.counters EXCEPT ![depth] = r.counters[depth] + 1], 0)
Leaves(r, q) == q.path = Pop(r.path) /\ q.counters = Pop(r.counters)

\* Entering none or one region, leaving one.
LEMMA RegionsOne ==
  ASSUME NEW s \in ParserStates, NEW last \in Nat
  PROVE  /\ EnterRegions(s, 0) = s /\ EnterRegions(s, 1) = EnterRegion(s)
         /\ LeaveRegions(s, last, 1) = LeaveRegion(s, last)
<1>1. PICK g : EnterRun(g, ParserStates, s, 0)
  BY EnterRegionTyped, EnterSteps
<1>2. EnterRegions(s, 0) = s
  BY <1>1 DEF EnterRun
<1>3. PICK h : EnterRun(h, ParserStates, s, 1)
  BY EnterRegionTyped, EnterSteps
<1>4. EnterRegions(s, 1) = EnterRegion(s)
  <2>1. 1 \in 1 .. 1 /\ 1 - 1 = 0
    OBVIOUS
  <2>. QED  BY <1>3, <2>1 DEF EnterRun
<1>5. PICK k : LeaveRun(k, ParserStates, s, last, 1)
  BY LeaveRegionTyped, LeaveSteps
<1>6. LeaveRegions(s, last, 1) = LeaveRegion(s, last)
  <2>1. 1 \in 1 .. 1 /\ 1 - 1 = 0
    OBVIOUS
  <2>. QED  BY <1>5, <2>1 DEF LeaveRun
<1>. QED  BY <1>2, <1>4, <1>6

LEMMA EnterIs ==
  ASSUME NEW s \in ParserStates, Len(s.counters) # 0
  PROVE  LET q == EnterRegion(s) IN
         Enters(s, q) /\ q.ops = s.ops /\ q.functions = s.functions /\ q.scope = s.scope
<1>. DEFINE depth == Len(s.counters)
            p == Append(s.path, s.counters[depth])
            c == Append([s.counters EXCEPT ![depth] = s.counters[depth] + 1], 0)
<1>1. EnterRegion(s) = [s EXCEPT !.path = p, !.counters = c]
  BY DEF EnterRegion
<1>. HIDE DEF p, c
<1>2. /\ EnterRegion(s).path = p /\ EnterRegion(s).counters = c
      /\ EnterRegion(s).ops = s.ops /\ EnterRegion(s).functions = s.functions
      /\ EnterRegion(s).scope = s.scope
  BY <1>1, ParserFields
<1>. QED  BY <1>2 DEF Enters, p, c

LEMMA LeaveIs ==
  ASSUME NEW s \in ParserStates, NEW last \in Nat
  PROVE  LET q == LeaveRegion(s, last)
             ends == s.scope # NoScope /\ Len(Pop(s.path)) < s.scope.depth
         IN /\ Leaves(s, q) /\ q.ops = s.ops /\ SameFunctions(s, q)
            /\ q.scope = IF ends THEN NoScope ELSE s.scope
<1>. DEFINE ends == s.scope # NoScope /\ Len(Pop(s.path)) < s.scope.depth
            n == s.scope.function
            new == [s.functions EXCEPT ![n].last = last]
            f == IF ends THEN new ELSE s.functions
            e == IF ends THEN NoScope ELSE s.scope
            p == Pop(s.path)
            c == Pop(s.counters)
<1>1. LeaveRegion(s, last) = [s EXCEPT !.path = p, !.counters = c, !.scope = e, !.functions = f]
  BY DEF LeaveRegion
<1>. HIDE DEF p, c, e
<1>2. /\ s.functions \in Seq(ScopeSet) /\ Len(s.functions) \in Nat
      /\ DOMAIN s.functions = 1 .. Len(s.functions)
      /\ \A i \in 1 .. Len(s.functions) : s.functions[i] \in ScopeSet
  BY ParserFields
<1>3. /\ Len(f) = Len(s.functions)
      /\ \A i \in 1 .. Len(s.functions) :
           f[i].name = s.functions[i].name /\ f[i].ops = s.functions[i].ops
  <2>1. new = [s.functions EXCEPT ![n] = [s.functions[n] EXCEPT !.last = last]]
    OBVIOUS
  <2>2. DOMAIN new = 1 .. Len(s.functions) /\ Len(new) = Len(s.functions)
    BY <1>2, <2>1
  <2>3. ASSUME NEW i \in 1 .. Len(s.functions)
        PROVE  new[i].name = s.functions[i].name /\ new[i].ops = s.functions[i].ops
    <3>1. new[i] = IF i = n THEN [s.functions[i] EXCEPT !.last = last] ELSE s.functions[i]
      BY <1>2, <2>1
    <3>2. s.functions[i] \in ScopeSet
      BY <1>2
    <3>. HIDE DEF new
    <3>. QED  BY <3>1, <3>2 DEF ScopeSet
  <2>. HIDE DEF new
  <2>. QED  BY <2>2, <2>3
<1>. HIDE DEF f
<1>4. /\ LeaveRegion(s, last).path = p /\ LeaveRegion(s, last).counters = c
      /\ LeaveRegion(s, last).ops = s.ops /\ LeaveRegion(s, last).functions = f
      /\ LeaveRegion(s, last).scope = e
  BY <1>1, ParserFields
<1>. QED  BY <1>3, <1>4 DEF Leaves, SameFunctions, p, c, e

\* An operation that has no symbol, opens nothing or is in a function already, and is
\* no function on one line.
LEMMA PushIs ==
  ASSUME NEW s \in ParserStates, NEW st \in Statements,
         ~IsShort(st.line), st.line.symbol = NoSymbol \/ st.line.delta = 0 \/ s.scope # NoScope
  PROVE  LET q == AssignScope(PushInner(PushOp(s, st), st), st, Len(s.ops) + 1) IN
         /\ Pushes(s, q, Placed(ReadOp(st.line), s.path, st))
         /\ q.path = s.path /\ q.counters = s.counters /\ q.scope = s.scope
         /\ q \in ParserStates
<1>. DEFINE a == PushOp(s, st)
            index == Len(s.ops) + 1
            x == Placed(ReadOp(st.line), s.path, st)
<1>1. /\ a \in ParserStates /\ Len(a.ops) = index /\ Len(s.ops) \in Nat
      /\ a.ops = Append(s.ops, x) /\ a.functions = s.functions /\ a.path = s.path
      /\ a.counters = s.counters /\ a.scope = s.scope
  BY PushOpTyped, ParserFields
<1>. HIDE DEF a, x
<1>2. PushInner(a, st) = a
  BY DEF PushInner
<1>3. index \in 1 .. Len(a.ops)
  BY <1>1
<1>. HIDE DEF index
<1>4. AssignScope(a, st, index) \in ParserStates
  BY <1>1, <1>3, AssignScopeTyped
<1>5. CASE a.scope = NoScope
  <2>1. AssignScope(a, st, index) = a
    BY <1>1, <1>5 DEF AssignScope
  <2>2. \A f \in 1 .. Len(s.functions) : f # s.scope.function
    BY <1>1, <1>5 DEF NoScope
  <2>3. Pushes(s, a, x)
    BY <1>1, <2>2 DEF Pushes
  <2>. QED  BY <1>1, <1>2, <2>1, <2>3 DEF a, x, index
<1>6. CASE a.scope # NoScope
  <2>. DEFINE n   == a.scope.function
              new == Extended(a.functions[n], index, st)
              fs  == [a.functions EXCEPT ![n] = new]
              q   == AssignScope(a, st, index)
  <2>1. q = [a EXCEPT !.functions = fs]
    BY <1>6 DEF AssignScope
  <2>. HIDE DEF q
  <2>2. q = [ops |-> a.ops, functions |-> fs, path |-> a.path,
             counters |-> a.counters, scope |-> a.scope]
    <3>1. a = [ops |-> a.ops, functions |-> a.functions, path |-> a.path,
               counters |-> a.counters, scope |-> a.scope]
      BY <1>1, ParserFields
    <3>. HIDE DEF new
    <3>. QED  BY <2>1, <3>1
  <2>3. /\ a.functions \in Seq(ScopeSet) /\ Len(a.functions) \in Nat
        /\ DOMAIN a.functions = 1 .. Len(a.functions)
        /\ \A i \in 1 .. Len(a.functions) : a.functions[i] \in ScopeSet
    BY <1>1, ParserFields
  <2>4. /\ DOMAIN fs = 1 .. Len(a.functions) /\ Len(fs) = Len(a.functions)
        /\ \A i \in 1 .. Len(a.functions) : fs[i] = IF i = n THEN new ELSE a.functions[i]
    <3>. HIDE DEF new, n
    <3>. QED  BY <2>3
  <2>. HIDE DEF fs
  <2>5. ASSUME NEW i \in 1 .. Len(a.functions)
        PROVE  /\ fs[i].name = a.functions[i].name
               /\ fs[i].ops = IF i = n THEN Append(a.functions[i].ops, index)
                              ELSE a.functions[i].ops
    <3>. DEFINE g == a.functions[i]
    <3>1. g \in ScopeSet
      BY <2>3
    <3>2. CASE i = n
      <4>1. fs[i] = [g EXCEPT !.ops = Append(g.ops, index), !.last = st.last]
        BY <2>4, <3>2 DEF Extended
      <4>. HIDE DEF g
      <4>2. fs[i].name = g.name /\ fs[i].ops = Append(g.ops, index)
        BY <3>1, <4>1 DEF ScopeSet
      <4>. QED  BY <3>2, <4>2 DEF g
    <3>3. CASE i # n
      BY <2>4, <3>3
    <3>. QED  BY <3>2, <3>3
  <2>6. q.ops = a.ops /\ q.functions = fs /\ q.path = a.path /\ q.counters = a.counters
        /\ q.scope = a.scope
    BY <2>2
  <2>7. Pushes(s, q, x)
    BY <1>1, <2>4, <2>5, <2>6 DEF Pushes, index
  <2>. QED  BY <1>1, <1>2, <1>4, <2>6, <2>7 DEF a, x, q, index
<1>. QED  BY <1>5, <1>6

LEMMA OpStep ==
  ASSUME NEW s \in ParserStates, NEW st \in Statements,
         ~st.line.bare, st.line.delta = 0, ~IsShort(st.line)
  PROVE  LET q == ParseStatement(s, st) IN
         /\ Pushes(s, q, Placed(ReadOp(st.line), s.path, st))
         /\ q.path = s.path /\ q.counters = s.counters /\ q.scope = s.scope
<1>. DEFINE c == AssignScope(PushInner(PushOp(s, st), st), st, Len(s.ops) + 1)
<1>1. /\ Pushes(s, c, Placed(ReadOp(st.line), s.path, st)) /\ c \in ParserStates
      /\ c.path = s.path /\ c.counters = s.counters /\ c.scope = s.scope
  BY PushIs
<1>2. ParseStatement(s, st) = EnterRegions(c, 0)
  BY DEF ParseStatement
<1>. HIDE DEF c
<1>3. ParseStatement(s, st) = c
  BY <1>1, <1>2, RegionsOne
<1>. QED  BY <1>1, <1>3

LEMMA RegionStep ==
  ASSUME NEW s \in ParserStates, NEW st \in Statements, Len(s.counters) # 0,
         ~st.line.bare, st.line.delta = 1, st.line.symbol = NoSymbol
  PROVE  LET q == ParseStatement(s, st) IN
         /\ Pushes(s, q, Placed(ReadOp(st.line), s.path, st))
         /\ Enters(s, q) /\ q.scope = s.scope
<1>. DEFINE c == AssignScope(PushInner(PushOp(s, st), st), st, Len(s.ops) + 1)
            x == Placed(ReadOp(st.line), s.path, st)
<1>0. ~IsShort(st.line)
  BY DEF IsShort
<1>1. /\ Pushes(s, c, x) /\ c \in ParserStates
      /\ c.path = s.path /\ c.counters = s.counters /\ c.scope = s.scope
  BY <1>0, PushIs
<1>2. ParseStatement(s, st) = EnterRegions(c, 1)
  BY DEF ParseStatement
<1>. HIDE DEF c, x
<1>3. ParseStatement(s, st) = EnterRegion(c)
  BY <1>1, <1>2, RegionsOne
<1>4. LET q == EnterRegion(c) IN
      Enters(c, q) /\ q.ops = c.ops /\ q.functions = c.functions /\ q.scope = c.scope
  BY <1>1, EnterIs
<1>. QED  BY <1>1, <1>3, <1>4 DEF Enters, Pushes, x

\* A function that is opened, before its body is entered.
LEMMA FunctionIs ==
  ASSUME NEW s \in ParserStates, NEW st \in Statements,
         st.line.delta = 1, st.line.symbol # NoSymbol, s.scope = NoScope
  PROVE  LET q == AssignScope(PushInner(PushOp(s, st), st), st, Len(s.ops) + 1) IN
         /\ q.ops = Append(s.ops, Placed(ReadOp(st.line), s.path, st))
         /\ Defines(s, q, st.line.symbol, <<>>)
         /\ q.path = s.path /\ q.counters = s.counters /\ q \in ParserStates
         /\ q.scope = [function |-> Len(s.functions) + 1, depth |-> Len(s.path) + 1]
<1>. DEFINE a == PushOp(s, st)
            index == Len(s.ops) + 1
            x == Placed(ReadOp(st.line), s.path, st)
            c == AssignScope(PushInner(a, st), st, index)
            f == FunctionScope(st.line.symbol, <<>>, st)
            fs == Append(s.functions, f)
            e == [function |-> Len(s.functions) + 1, depth |-> Len(s.path) + 1]
<1>1. /\ a \in ParserStates /\ Len(a.ops) = index /\ Len(s.ops) \in Nat
      /\ a.ops = Append(s.ops, x) /\ a.functions = s.functions /\ a.path = s.path
      /\ a.counters = s.counters /\ a.scope = s.scope
  BY PushOpTyped, ParserFields
<1>. HIDE DEF a, x
<1>2. PushInner(a, st) = a
  BY DEF PushInner, IsShort
<1>3. index \in 1 .. Len(a.ops)
  BY <1>1
<1>. HIDE DEF index
<1>4. c \in ParserStates
  BY <1>1, <1>2, <1>3, AssignScopeTyped
<1>5. c = [a EXCEPT !.functions = fs, !.scope = e]
  <2>1. c = AssignScope(a, st, index)
    BY <1>2
  <2>2. /\ a.scope = NoScope /\ st.line.delta > 0
        /\ Append(a.functions, f) = fs /\ Len(a.functions) = Len(s.functions)
        /\ Len(a.path) = Len(s.path)
    BY <1>1
  <2>. HIDE DEF fs, f, c
  <2>3. AssignScope(a, st, index)
          = [a EXCEPT !.functions = Append(a.functions, FunctionScope(st.line.symbol, <<>>, st)),
                      !.scope = [function |-> Len(a.functions) + 1, depth |-> Len(a.path) + 1]]
    BY <2>2 DEF AssignScope
  <2>. QED  BY <2>1, <2>2, <2>3 DEF f
<1>. HIDE DEF c
<1>6. /\ s.functions \in Seq(ScopeSet) /\ f \in ScopeSet /\ f.name = st.line.symbol /\ f.ops = <<>>
  <2>1. /\ st.line.symbol \in SymbolSet /\ st.first \in Nat /\ st.last \in Nat /\ <<>> \in Seq(Nat)
    BY DEF Statements, Lines
  <2>2. s.functions \in Seq(ScopeSet)
    BY ParserFields
  <2>. QED  BY <2>1, <2>2 DEF FunctionScope, ScopeSet
<1>. HIDE DEF f
<1>7. /\ Len(fs) = Len(s.functions) + 1 /\ fs[Len(s.functions) + 1] = f
      /\ \A i \in 1 .. Len(s.functions) : fs[i] = s.functions[i]
  BY <1>6, AppendIs
<1>. HIDE DEF fs, e
<1>8. /\ c.ops = a.ops /\ c.functions = fs /\ c.path = a.path /\ c.counters = a.counters
      /\ c.scope = e
  <2>1. a = [ops |-> a.ops, functions |-> a.functions, path |-> a.path,
             counters |-> a.counters, scope |-> a.scope]
    BY <1>1, ParserFields
  <2>. QED  BY <1>5, <2>1
<1>9. Defines(s, c, st.line.symbol, <<>>)
  BY <1>6, <1>7, <1>8 DEF Defines
<1>. QED  BY <1>1, <1>4, <1>8, <1>9 DEF c, a, x, index, e

LEMMA FunctionStep ==
  ASSUME NEW s \in ParserStates, NEW st \in Statements, Len(s.counters) # 0,
         ~st.line.closes, ~st.line.bare, st.line.delta = 1, st.line.symbol # NoSymbol,
         s.scope = NoScope
  PROVE  LET q == ParseStatement(s, st) IN
         /\ q.ops = Append(s.ops, Placed(st.line.op, s.path, st))
         /\ Defines(s, q, st.line.symbol, <<>>) /\ Enters(s, q)
         /\ q.scope = [function |-> Len(s.functions) + 1, depth |-> Len(s.path) + 1]
<1>. DEFINE c == AssignScope(PushInner(PushOp(s, st), st), st, Len(s.ops) + 1)
            x == Placed(ReadOp(st.line), s.path, st)
            e == [function |-> Len(s.functions) + 1, depth |-> Len(s.path) + 1]
<1>1. ParseStatement(s, st) = EnterRegions(c, 1)
  BY DEF ParseStatement
<1>2. x = Placed(st.line.op, s.path, st)
  BY DEF ReadOp
<1>3. /\ c.ops = Append(s.ops, x) /\ Defines(s, c, st.line.symbol, <<>>)
      /\ c.path = s.path /\ c.counters = s.counters /\ c \in ParserStates /\ c.scope = e
  BY FunctionIs
<1>. HIDE DEF c, x, e
<1>4. ParseStatement(s, st) = EnterRegion(c)
  BY <1>1, <1>3, RegionsOne
<1>5. LET q == EnterRegion(c) IN
      Enters(c, q) /\ q.ops = c.ops /\ q.functions = c.functions /\ q.scope = c.scope
  BY <1>3, EnterIs
<1>. QED  BY <1>2, <1>3, <1>4, <1>5 DEF Enters, Defines, e

\* A function on one line, which has one operation.
LEMMA ShortStep ==
  ASSUME NEW s \in ParserStates, NEW st \in Statements, NEW op, st.line.inner = <<op>>,
         ~st.line.closes, ~st.line.bare, st.line.delta = 0, st.line.symbol # NoSymbol,
         st.line.braced, s.scope = NoScope
  PROVE  LET q == ParseStatement(s, st) IN
         /\ q.ops = Append(Append(s.ops, Placed(st.line.op, s.path, st)), Placed(op, <<>>, st))
         /\ Defines(s, q, st.line.symbol, <<Len(s.ops) + 2>>)
         /\ q.path = s.path /\ q.counters = s.counters /\ q.scope = s.scope
<1>. DEFINE a == PushOp(s, st)
            b == PushInner(a, st)
            index == Len(s.ops) + 1
            x == Placed(ReadOp(st.line), s.path, st)
            y == Placed(op, <<>>, st)
            c == AssignScope(b, st, index)
            inner == st.line.inner
            base == Len(a.ops)
            f == FunctionScope(st.line.symbol, [k \in DOMAIN inner |-> base + k], st)
            os == [k \in DOMAIN inner |-> Placed(inner[k], <<>>, st)]
<1>1. ParseStatement(s, st) = EnterRegions(c, 0)
  BY DEF ParseStatement
<1>2. x = Placed(st.line.op, s.path, st)
  BY DEF ReadOp
<1>3. /\ a \in ParserStates /\ Len(a.ops) = index /\ Len(s.ops) \in Nat
      /\ a.ops = Append(s.ops, x) /\ a.functions = s.functions /\ a.path = s.path
      /\ a.counters = s.counters /\ a.scope = s.scope
  BY PushOpTyped, ParserFields
<1>. HIDE DEF a, x
<1>4. b = [a EXCEPT !.ops = a.ops \o os, !.functions = Append(a.functions, f)]
  <2>1. IsShort(st.line)
    BY DEF IsShort
  <2>. QED  BY <2>1 DEF PushInner
<1>5. os = <<y>> /\ f = FunctionScope(st.line.symbol, <<Len(s.ops) + 2>>, st)
  <2>1. DOMAIN inner = {1} /\ inner[1] = op
    OBVIOUS
  <2>2. base + 1 = Len(s.ops) + 2
    BY <1>3
  <2>3. os = [k \in {1} |-> y]
    BY <2>1
  <2>4. [k \in DOMAIN inner |-> base + k] = [k \in {1} |-> Len(s.ops) + 2]
    BY <2>1, <2>2
  <2>. HIDE DEF base, os, y, inner
  <2>5. [k \in {1} |-> y] = <<y>> /\ [k \in {1} |-> Len(s.ops) + 2] = <<Len(s.ops) + 2>>
    <3>1. {1} = 1 .. 1
      OBVIOUS
    <3>. QED  BY <3>1
  <2>. QED  BY <2>3, <2>4, <2>5 DEF inner
<1>6. b \in ParserStates
  BY <1>3, PushInnerTyped
<1>. HIDE DEF b
<1>7. c = b
  <2>1. b.scope = NoScope
    BY <1>3, <1>4, ParserFields
  <2>. QED  BY <2>1 DEF AssignScope
<1>. HIDE DEF c, f, os
<1>8. /\ b.ops = a.ops \o os /\ b.functions = Append(a.functions, f) /\ b.path = a.path
      /\ b.counters = a.counters /\ b.scope = a.scope
  <2>1. a = [ops |-> a.ops, functions |-> a.functions, path |-> a.path,
             counters |-> a.counters, scope |-> a.scope]
    BY <1>3, ParserFields
  <2>. HIDE DEF a
  <2>. QED  BY <1>4, <2>1
<1>9. ParseStatement(s, st) = b
  BY <1>1, <1>6, <1>7, RegionsOne
<1>10. a.ops \o os = Append(a.ops, y)
  <2>1. a.ops \in Seq(PlacedOps)
    BY <1>3, ParserFields
  <2>2. y \in PlacedOps
    <3>1. st.line \in Lines
      BY DEF Statements
    <3>2. st.line.inner \in Seq(Forms)
      BY <3>1 DEF Lines
    <3>3. op \in Forms
      BY <3>2
    <3>4. <<>> \in Seq(Nat)
      OBVIOUS
    <3>. QED  BY <3>3, <3>4, PlacedTyped
  <2>. HIDE DEF y
  <2>. QED  BY <1>5, <2>1, <2>2
<1>11. Defines(s, b, st.line.symbol, <<Len(s.ops) + 2>>)
  <2>1. /\ s.functions \in Seq(ScopeSet) /\ f \in ScopeSet /\ f.name = st.line.symbol
        /\ f.ops = <<Len(s.ops) + 2>>
    <3>1. /\ st.line.symbol \in SymbolSet /\ st.first \in Nat /\ st.last \in Nat
          /\ <<Len(s.ops) + 2>> \in Seq(Nat)
      BY <1>3 DEF Statements, Lines
    <3>2. s.functions \in Seq(ScopeSet)
      BY ParserFields
    <3>. QED  BY <1>5, <3>1, <3>2 DEF FunctionScope, ScopeSet
  <2>. DEFINE fs == Append(s.functions, f)
  <2>2. /\ Len(fs) = Len(s.functions) + 1 /\ fs[Len(s.functions) + 1] = f
        /\ \A i \in 1 .. Len(s.functions) : fs[i] = s.functions[i]
    BY <2>1, AppendIs
  <2>3. b.functions = fs
    BY <1>3, <1>8
  <2>. HIDE DEF fs
  <2>. QED  BY <2>1, <2>2, <2>3 DEF Defines
<1>. QED  BY <1>2, <1>3, <1>8, <1>9, <1>10, <1>11 DEF y

LEMMA LabelStep ==
  ASSUME NEW s \in ParserStates, NEW st \in Statements,
         ~st.line.closes, st.line.bare, st.line.delta = 0
  PROVE  ParseStatement(s, st) = s
<1>1. ParseStatement(s, st) = EnterRegions(s, 0)
  BY DEF ParseStatement
<1>. QED  BY <1>1, RegionsOne

LEMMA CloseStep ==
  ASSUME NEW s \in ParserStates, NEW st \in Statements,
         st.line.closes, st.line.delta = -1
  PROVE  LET q == ParseStatement(s, st)
             ends == s.scope # NoScope /\ Len(Pop(s.path)) < s.scope.depth
         IN /\ Leaves(s, q) /\ q.ops = s.ops /\ SameFunctions(s, q)
            /\ q.scope = IF ends THEN NoScope ELSE s.scope
<1>1. st.last \in Nat
  BY DEF Statements
<1>2. -st.line.delta = 1 /\ st.line.delta < 0
  <2>1. \A d \in Int : d + 1 = 0 => -d = 1 /\ d < 0
    OBVIOUS
  <2>2. \A d \in Int : d = -1 => d + 1 = 0
    OBVIOUS
  <2>3. st.line.delta \in Int
    BY DEF Statements, Lines
  <2>4. st.line.delta + 1 = 0
    BY <2>2, <2>3
  <2>. QED  BY <2>1, <2>3, <2>4
<1>3. ParseStatement(s, st) = LeaveRegions(s, st.last, 1)
  BY <1>2 DEF ParseStatement
<1>. QED  BY <1>1, <1>3, RegionsOne, LeaveIs

-----------------------------------------------------------------------------
(* What is printed and what of it the parser has read.                       *)

\* Where the parser is in the text that is being printed.
Read == EndOf(Assemble(text))

LineKinds == {"alias", "module", "function", "short", "declaration", "op", "call", "else",
              "label", "close", "continued"}
OpenKinds == {"module", "function", "region"}
Wheres    == [kind : LineKinds, defines : Nat, function : Nat, region : Nat]
Openings  == {o \in [kind : OpenKinds, line : Nat, function : Nat] :
                o.kind = "function" => o.function # 0}

\* Every line is in one of the regions that were opened before it.
Lined ==
  /\ inside \in Seq(Wheres) /\ Len(inside) = Len(text)
  /\ opened \in Seq(Openings)
  /\ \A d \in 1 .. Len(opened) : opened[d].line \in 1 .. Len(text)
  /\ \A d, e \in 1 .. Len(opened) : d < e => opened[d].line < opened[e].line
  /\ \A n \in 1 .. Len(inside) : inside[n].region < n

\* The path is that of what is open, and the scope the function that is.
Scoped(s) ==
  /\ Len(s.path) = Len(opened) /\ Len(s.counters) = Len(opened) + 1
  /\ \/ s.scope = NoScope
     \/ s.scope.depth \in 1 .. Len(opened) /\ s.scope.function \in 1 .. Len(s.functions)
  /\ \A d \in 1 .. Len(opened) :
       opened[d].function = IF d < s.scope.depth THEN 0 ELSE s.scope.function
  /\ text # <<>> => s.ops # <<>>

\* Some operations are those of some lines, each once.
Listed(ops, ids, lines) ==
  /\ \A k \in 1 .. Len(ids) : IsOpaque(ops[ids[k]]) \/ ops[ids[k]].first \in lines
  /\ \A n \in lines : \E k \in 1 .. Len(ids) : ~IsOpaque(ops[ids[k]]) /\ ops[ids[k]].first = n
  /\ \A k, l \in 1 .. Len(ids) :
       (~IsOpaque(ops[ids[k]]) /\ ~IsOpaque(ops[ids[l]]) /\ ops[ids[k]].first = ops[ids[l]].first)
         => k = l

\* The functions are those that were printed, in their order.
Functioned(s) ==
  /\ Defined = 1 .. Len(s.functions)
  /\ \A f \in 1 .. Len(s.functions) :
       /\ f \in FunctionNames /\ s.functions[f].name = Symbols[f]
       /\ Listed(s.ops, s.functions[f].ops, LinesIn(f))
  /\ \A n \in 1 .. Len(inside) : inside[n].function \in 0 .. Len(s.functions)
  /\ \A i \in 1 .. Len(s.ops) : s.ops[i].first \in 1 .. Len(text)

\* A function on one line has one operation, and is never open.
Shorts(s) ==
  \A n \in 1 .. Len(inside) :
    inside[n].kind = "short" =>
      /\ Len(s.functions[inside[n].defines].ops) = 1
      /\ inside[n].defines # s.scope.function
      /\ inside[n].defines # 0

\* A path starts as another does.
Starts(p, path, d) == Len(p) >= d /\ \A i \in 1 .. d : p[i] = path[i]
LineAt(lines, d) == IF d = 0 THEN 0 ELSE lines[d]

\* Paths and the regions they stand for, beside the path that is current: one path for
\* one region, the prefixes of the current path for what is open, and children that
\* have been counted.
Placement(places, path, counters, lines) ==
  /\ \A x, y \in places : x.path = y.path <=> x.region = y.region
  /\ \A x \in places, d \in 0 .. Len(path) :
       (Len(x.path) = d /\ Starts(x.path, path, d)) <=> x.region = LineAt(lines, d)
  /\ \A x \in places, d \in 0 .. Len(path) :
       (Len(x.path) > d /\ Starts(x.path, path, d)) => x.path[d + 1] < counters[d + 1]
  /\ \A d \in 1 .. Len(path) : path[d] < counters[d]

Place(path, region) == [path |-> path, region |-> region]
Places(ops) ==
  {Place(ops[i].path, inside[ops[i].first].region) :
     i \in {j \in 1 .. Len(ops) : inside[ops[j].first].kind # "short"}}
OpenLines == [d \in 1 .. Len(opened) |-> opened[d].line]
Pathed(s) == Placement(Places(s.ops), s.path, s.counters, OpenLines)

\* The operations that are walked up to a line, and the bodies on one line.
Walked(n) == {k \in 1 .. n : IsWalked(k)}
Bodies(n) == {k \in 1 .. n : inside[k].kind = "short"}

\* The lines after which the parser has read an operation more or less than are walked.
ShiftKinds == {"alias", "else", "call"}
NoShift(n) == \A k \in 1 .. n : inside[k].kind \notin ShiftKinds

\* Up to the first of these lines operations have the numbers of the walk.
Numbered(s) ==
  /\ NoShift(Len(inside)) =>
       Len(s.ops) = Cardinality(Walked(Len(inside))) + Cardinality(Bodies(Len(inside)))
  /\ \A f \in 1 .. Len(s.functions) : \A n \in LinesIn(f) :
       NoShift(n - 1) => /\ \E k \in 1 .. Len(s.functions[f].ops) : 
                                     s.functions[f].ops[k] = Ordinal(n) + 1
                        /\ s.ops[Ordinal(n) + 1].first = n

Reading(s) == Scoped(s) /\ Functioned(s) /\ Shorts(s) /\ Pathed(s) /\ Numbered(s)
ParserInv == (Printing /\ ~Misread) => Reading(Read)

\* A statement that the next line may continue: it closes a region, opens none or is a
\* function that is opened.
Continuable(line) ==
  \/ line.closes /\ line.delta = -1
  \/ /\ ~line.closes
     /\ line.delta = 0 \/ (~line.bare /\ line.delta = 1 /\ line.symbol # NoSymbol)

\* The statements are of lines of the text, and the last one is of that form wherever a
\* line that starts no statement can be printed; aliases open nothing.
Ending ==
  LET a == Assemble(text) IN
  /\ OnlyAliases => opened = <<>>
  /\ text # <<>> => a # <<>>
  /\ \A i \in 1 .. Len(a) : a[i].first \in 1 .. Len(text)
  /\ (text # <<>> /\ (Innermost.kind = "function" \/ OnlyAliases)) =>
       inside[Last(a).first].kind # "short" /\ Continuable(Last(a).line)

LinedInv == Printing => Lined /\ Ending

-----------------------------------------------------------------------------
(* Operations and the lines they are those of.                               *)

LEMMA ListedNone ==
  ASSUME NEW ops
  PROVE  Listed(ops, <<>>, {})
BY DEF Listed

LEMMA ListedOne ==
  ASSUME NEW ops, NEW i, NEW n, ~IsOpaque(ops[i]), ops[i].first = n
  PROVE  Listed(ops, <<i>>, {n})
BY DEF Listed

\* Operations after those that are listed do not matter.
LEMMA ListedKeeps ==
  ASSUME NEW ops, NEW more, NEW lines, NEW m \in Nat, NEW ids \in Seq(1 .. m),
         \A i \in 1 .. m : more[i] = ops[i], Listed(ops, ids, lines)
  PROVE  Listed(more, ids, lines)
<1>1. \A k \in 1 .. Len(ids) : ids[k] \in 1 .. m
  OBVIOUS
<1>2. \A k \in 1 .. Len(ids) : more[ids[k]] = ops[ids[k]]
  BY <1>1
<1>. QED  BY <1>2 DEF Listed

\* One more operation is listed: that of a line more, or an opaque one.
LEMMA ListedGrows ==
  ASSUME NEW ops, NEW more, NEW lines, NEW m \in Nat, NEW ids \in Seq(1 .. m),
         \A i \in 1 .. m : more[i] = ops[i], Listed(ops, ids, lines),
         NEW n, n \notin lines, NEW grown,
         \/ IsOpaque(more[m + 1]) /\ grown = lines
         \/ ~IsOpaque(more[m + 1]) /\ more[m + 1].first = n /\ grown = lines \union {n}
  PROVE  Listed(more, Append(ids, m + 1), grown)
<1>. DEFINE u == Append(ids, m + 1)
            j == Len(ids) + 1
<1>1. /\ Len(u) = j /\ Len(ids) \in Nat /\ u[j] = m + 1
      /\ \A k \in 1 .. Len(ids) : u[k] = ids[k] /\ ids[k] \in 1 .. m
  <2>1. ids \in Seq(Nat)
    <3>1. 1 .. m \subseteq Nat
      OBVIOUS
    <3>. QED  BY <3>1, SeqMonotonic
  <2>. QED  BY <2>1, AppendIs
<1>2. \A k \in 1 .. j : k = j \/ k \in 1 .. Len(ids)
  BY <1>1
<1>. HIDE DEF u, j
<1>3. Listed(more, ids, lines)
  BY ListedKeeps
<1>4. /\ \A k \in 1 .. Len(ids) : more[u[k]] = more[ids[k]]
      /\ more[u[j]] = more[m + 1]
      /\ 1 .. Len(ids) \subseteq 1 .. j /\ j \in 1 .. j
  BY <1>1 DEF j
<1>5. \A k \in 1 .. j : IsOpaque(more[u[k]]) \/ more[u[k]].first \in grown
  BY <1>2, <1>3, <1>4 DEF Listed
<1>6. ASSUME NEW l \in grown
      PROVE  \E k \in 1 .. j : ~IsOpaque(more[u[k]]) /\ more[u[k]].first = l
  <2>1. CASE l \in lines
    <3>1. PICK k \in 1 .. Len(ids) : ~IsOpaque(more[ids[k]]) /\ more[ids[k]].first = l
      BY <1>3, <2>1 DEF Listed
    <3>2. k \in 1 .. j /\ more[u[k]] = more[ids[k]]
      BY <1>4
    <3>. QED  BY <3>1, <3>2
  <2>2. CASE l \notin lines
    <3>1. ~IsOpaque(more[m + 1]) /\ more[m + 1].first = l
      BY <2>2
    <3>. QED  BY <1>4, <3>1
  <2>. QED  BY <2>1, <2>2
<1>7. ASSUME NEW k \in 1 .. j, NEW l \in 1 .. j,
             ~IsOpaque(more[u[k]]), ~IsOpaque(more[u[l]]), more[u[k]].first = more[u[l]].first
      PROVE  k = l
  <2>1. CASE k = j /\ l = j
    BY <2>1
  <2>2. CASE k \in 1 .. Len(ids) /\ l \in 1 .. Len(ids)
    <3>1. more[u[k]] = more[ids[k]] /\ more[u[l]] = more[ids[l]]
      BY <1>4, <2>2
    <3>. QED  BY <1>3, <1>7, <2>2, <3>1 DEF Listed
  <2>3. ASSUME NEW a \in 1 .. Len(ids), ~IsOpaque(more[u[a]]), ~IsOpaque(more[m + 1])
        PROVE  more[u[a]].first # more[m + 1].first
    <3>1. more[u[a]] = more[ids[a]]
      BY <1>4
    <3>2. more[u[a]].first \in lines
      BY <1>3, <2>3, <3>1 DEF Listed
    <3>3. more[m + 1].first = n
      BY <2>3
    <3>. QED  BY <3>2, <3>3
  <2>. QED  BY <1>2, <1>4, <1>7, <2>1, <2>2, <2>3
<1>. QED  BY <1>1, <1>5, <1>6, <1>7 DEF Listed, u

-----------------------------------------------------------------------------
(* Paths and the regions they stand for.                                     *)

\* What the lines of the regions that are open are.
Ascends(lines, n) ==
  /\ \A d \in 1 .. Len(lines) : lines[d] \in 1 .. n
  /\ \A d, e \in 1 .. Len(lines) : d < e => lines[d] < lines[e]

LEMMA PathsEqual ==
  ASSUME NEW p \in Seq(Nat), NEW path \in Seq(Nat)
  PROVE  (Len(p) = Len(path) /\ Starts(p, path, Len(path))) <=> p = path
<1>1. Len(p) \in Nat /\ Len(path) \in Nat
  OBVIOUS
<1>2. ASSUME Len(p) = Len(path), Starts(p, path, Len(path))
      PROVE  p = path
  <2>1. \A i \in 1 .. Len(p) : p[i] = path[i]
    BY <1>2 DEF Starts
  <2>. QED  BY <1>2, <2>1
<1>3. ASSUME p = path
      PROVE  Len(p) = Len(path) /\ Starts(p, path, Len(path))
  BY <1>1, <1>3 DEF Starts
<1>. QED  BY <1>2, <1>3

LEMMA PlacementAdd ==
  ASSUME NEW places, NEW path \in Seq(Nat), NEW counters, NEW lines, NEW n \in Nat,
         \A x \in places : x.path \in Seq(Nat),
         Len(lines) = Len(path), Ascends(lines, n),
         Placement(places, path, counters, lines)
  PROVE  Placement(places \union {Place(path, LineAt(lines, Len(path)))}, path, counters, lines)
<1>. DEFINE y == Place(path, LineAt(lines, Len(path)))
            m == Len(path)
<1>1. m \in Nat /\ y.path = path /\ y.region = LineAt(lines, m)
  BY DEF Place
<1>. HIDE DEF y, m
<1>2. \A d, e \in 0 .. m : LineAt(lines, d) = LineAt(lines, e) => d = e
  <2>1. /\ \A d \in 1 .. m : lines[d] \in 1 .. n
        /\ \A d, e \in 1 .. m : d < e => lines[d] < lines[e]
    BY DEF Ascends, m
  <2>2. \A d, e \in 1 .. m : lines[d] = lines[e] => d = e
    BY <1>1, <2>1
  <2>3. \A d \in 1 .. m : lines[d] # 0
    BY <1>1, <2>1
  <2>. QED  BY <1>1, <2>2, <2>3 DEF LineAt
<1>3. \A x \in places : (x.path = y.path) <=> (x.region = y.region)
  <2>1. \A x \in places : (Len(x.path) = m /\ Starts(x.path, path, m)) <=> x.region = LineAt(lines, m)
    BY <1>1 DEF Placement, m
  <2>. QED  BY <1>1, <2>1, PathsEqual DEF m
<1>4. \A d \in 0 .. m : (Len(y.path) = d /\ Starts(y.path, path, d)) <=> y.region = LineAt(lines, d)
  <2>1. Starts(path, path, m)
    BY <1>1 DEF Starts, m
  <2>. QED  BY <1>1, <1>2, <2>1 DEF m
<1>5. \A d \in 0 .. m : (Len(y.path) > d /\ Starts(y.path, path, d)) => y.path[d + 1] < counters[d + 1]
  <2>1. ASSUME NEW d \in 0 .. m, m > d PROVE path[d + 1] < counters[d + 1]
    <3>1. d + 1 \in 1 .. m
      BY <1>1, <2>1
    <3>. QED  BY <3>1 DEF Placement, m
  <2>. QED  BY <1>1, <2>1 DEF m
<1>. QED  BY <1>3, <1>4, <1>5 DEF Placement, y, m

EnterHolds(places, path, counters, lines, n, p, c, l) ==
  /\ \A x \in places : x.path \in Seq(Nat) /\ x.region \in Nat /\ x.region < n
  /\ path \in Seq(Nat) /\ counters \in Seq(Nat) /\ n \in Nat
  /\ Len(lines) = Len(path) /\ Len(counters) = Len(path) + 1
  /\ Placement(places, path, counters, lines)
  /\ p = Append(path, counters[Len(counters)])
  /\ c = Append([counters EXCEPT ![Len(counters)] = counters[Len(counters)] + 1], 0)
  /\ Len(l) = Len(lines) + 1
  /\ \A d \in 1 .. Len(lines) : l[d] = lines[d]
  /\ l[Len(lines) + 1] = n

LEMMA PlacementEnter ==
  ASSUME NEW places, NEW path, NEW counters, NEW lines, NEW n, NEW p, NEW c, NEW l,
         EnterHolds(places, path, counters, lines, n, p, c, l)
  PROVE  Placement(places, p, c, l)
<1>0. /\ \A x \in places : x.path \in Seq(Nat) /\ x.region \in Nat /\ x.region < n
      /\ path \in Seq(Nat) /\ counters \in Seq(Nat) /\ n \in Nat
      /\ Len(lines) = Len(path) /\ Len(counters) = Len(path) + 1
      /\ Placement(places, path, counters, lines)
      /\ p = Append(path, counters[Len(counters)])
      /\ c = Append([counters EXCEPT ![Len(counters)] = counters[Len(counters)] + 1], 0)
      /\ Len(l) = Len(lines) + 1
      /\ \A d \in 1 .. Len(lines) : l[d] = lines[d]
      /\ l[Len(lines) + 1] = n
  BY DEF EnterHolds
<1>. USE <1>0
<1>. DEFINE m == Len(path)
            e == [counters EXCEPT ![Len(counters)] = counters[Len(counters)] + 1]
<1>1. /\ m \in Nat /\ Len(p) = m + 1 /\ p[m + 1] = counters[m + 1]
      /\ \A i \in 1 .. m : p[i] = path[i] /\ p[i] \in Nat
      /\ counters[m + 1] \in Nat
  <2>1. counters[m + 1] \in Nat
    OBVIOUS
  <2>. QED  BY <2>1, AppendIs
<1>2. /\ c[m + 2] = 0 /\ c[m + 1] = counters[m + 1] + 1
      /\ \A i \in 1 .. m : c[i] = counters[i] /\ counters[i] \in Nat
  <2>1. e \in Seq(Nat) /\ Len(e) = m + 1 /\ e[m + 1] = counters[m + 1] + 1
        /\ \A i \in 1 .. m : e[i] = counters[i] /\ counters[i] \in Nat
    OBVIOUS
  <2>. HIDE DEF e
  <2>2. c = Append(e, 0)
    BY DEF e
  <2>3. \A i \in 1 .. m + 1 : c[i] = e[i]
    BY <2>1, <2>2, AppendIs
  <2>4. c[m + 2] = 0
    <3>1. c[(m + 1) + 1] = 0
      BY <2>1, <2>2, AppendIs
    <3>2. (m + 1) + 1 = m + 2
      BY <1>1
    <3>. QED  BY <3>1, <3>2
  <2>. QED  BY <1>1, <2>1, <2>3, <2>4
<1>. DEFINE r == counters[m + 1]
<1>3. /\ \A d \in 0 .. m : LineAt(l, d) = LineAt(lines, d)
      /\ LineAt(l, m + 1) = n
  BY <1>1 DEF LineAt
<1>4. ASSUME NEW d \in 0 .. m, NEW x
      PROVE  Starts(x, p, d) <=> Starts(x, path, d)
  <2>1. \A i \in 1 .. d : i \in 1 .. m
    BY <1>1
  <2>2. \A i \in 1 .. d : p[i] = path[i]
    BY <1>1, <2>1
  <2>. HIDE DEF m
  <2>. QED  BY <2>2 DEF Starts
<1>5. ASSUME NEW x \in places, Len(x.path) > m, Starts(x.path, path, m)
      PROVE  x.path[m + 1] < r
  <2>1. m \in 0 .. m
    BY <1>1
  <2>. QED  BY <1>5, <2>1 DEF Placement
<1>6. \A x \in places : ~(Len(x.path) >= m + 1 /\ Starts(x.path, p, m + 1))
  <2>1. ASSUME NEW x \in places, Len(x.path) >= m + 1, Starts(x.path, p, m + 1) PROVE FALSE
    <3>1. x.path \in Seq(Nat) /\ Len(x.path) \in Nat
      OBVIOUS
    <3>2. Starts(x.path, path, m) /\ Len(x.path) > m
      <4>1. Len(x.path) > m
        BY <1>1, <2>1, <3>1
      <4>2. \A i \in 1 .. m + 1 : x.path[i] = p[i]
        BY <2>1 DEF Starts
      <4>3. \A i \in 1 .. m : x.path[i] = path[i]
        BY <1>1, <4>2
      <4>. QED  BY <1>1, <3>1, <4>1, <4>3 DEF Starts
    <3>3. x.path[m + 1] = r
      <4>1. m + 1 \in 1 .. m + 1
        BY <1>1
      <4>. QED  BY <1>1, <2>1, <4>1 DEF Starts
    <3>4. x.path[m + 1] < r
      BY <1>5, <3>2
    <3>. QED  BY <1>1, <3>3, <3>4
  <2>. QED  BY <2>1
<1>. HIDE DEF m, r
<1>7. \A x \in places, d \in 0 .. m + 1 :
        (Len(x.path) = d /\ Starts(x.path, p, d)) <=> x.region = LineAt(l, d)
  <2>1. ASSUME NEW x \in places, NEW d \in 0 .. m
        PROVE  (Len(x.path) = d /\ Starts(x.path, p, d)) <=> x.region = LineAt(l, d)
    BY <1>3, <1>4 DEF Placement, m
  <2>2. ASSUME NEW x \in places
        PROVE  (Len(x.path) = m + 1 /\ Starts(x.path, p, m + 1)) <=> x.region = LineAt(l, m + 1)
    <3>1. x.region # n
      OBVIOUS
    <3>2. ~(Len(x.path) = m + 1 /\ Starts(x.path, p, m + 1))
      BY <1>1, <1>6 DEF m
    <3>. QED  BY <1>3, <3>1, <3>2
  <2>3. \A d \in 0 .. m + 1 : d = m + 1 \/ d \in 0 .. m
    BY <1>1
  <2>. QED  BY <2>1, <2>2, <2>3
<1>8. \A x \in places, d \in 0 .. m + 1 :
        (Len(x.path) > d /\ Starts(x.path, p, d)) => x.path[d + 1] < c[d + 1]
  <2>1. ASSUME NEW x \in places, NEW d \in 0 .. m, Len(x.path) > d, Starts(x.path, p, d)
        PROVE  x.path[d + 1] < c[d + 1]
    <3>1. Starts(x.path, path, d)
      BY <1>4, <2>1
    <3>2. x.path[d + 1] < counters[d + 1]
      BY <2>1, <3>1 DEF Placement, m
    <3>3. x.path[d + 1] \in Nat
      <4>1. x.path \in Seq(Nat) /\ Len(x.path) \in Nat
        OBVIOUS
      <4>2. d + 1 \in 1 .. Len(x.path)
        BY <1>1, <2>1, <4>1
      <4>. QED  BY <4>1, <4>2
    <3>4. CASE d = m
      <4>1. c[d + 1] = counters[d + 1] + 1 /\ counters[d + 1] \in Nat
        BY <1>1, <1>2, <3>4
      <4>2. \A a, b \in Nat : a < b => a < b + 1
        OBVIOUS
      <4>3. x.path[d + 1] < counters[d + 1] + 1
        BY <3>2, <3>3, <4>1, <4>2
      <4>. QED  BY <4>1, <4>3
    <3>5. CASE d # m
      <4>1. d + 1 \in 1 .. m
        BY <1>1, <3>5
      <4>. QED  BY <1>2, <3>2, <4>1
    <3>. QED  BY <3>4, <3>5
  <2>2. ASSUME NEW x \in places, Len(x.path) > m + 1, Starts(x.path, p, m + 1) PROVE FALSE
    <3>1. Len(x.path) \in Nat
      OBVIOUS
    <3>2. Len(x.path) >= m + 1
      BY <1>1, <2>2, <3>1
    <3>. QED  BY <1>6, <2>2, <3>2
  <2>3. \A d \in 0 .. m + 1 : d = m + 1 \/ d \in 0 .. m
    BY <1>1
  <2>. QED  BY <2>1, <2>2, <2>3
<1>9. \A d \in 1 .. m + 1 : p[d] < c[d]
  <2>1. \A d \in 1 .. m : p[d] < c[d]
    BY <1>1, <1>2 DEF Placement, m
  <2>2. p[m + 1] < c[m + 1]
    BY <1>1, <1>2
  <2>3. \A d \in 1 .. m + 1 : d = m + 1 \/ d \in 1 .. m
    BY <1>1
  <2>. QED  BY <2>1, <2>2, <2>3
<1>10. \A x, y \in places : x.path = y.path <=> x.region = y.region
  BY DEF Placement
<1>. QED  BY <1>1, <1>7, <1>8, <1>9, <1>10 DEF Placement

LEMMA PlacementLeave ==
  ASSUME NEW places, NEW path, NEW counters, NEW lines, NEW p, NEW c, NEW l, NEW m \in Nat,
         Placement(places, path, counters, lines), Len(path) = m + 1, Len(p) = m,
         \A d \in 1 .. m : p[d] = path[d], \A d \in 1 .. m + 1 : c[d] = counters[d],
         \A d \in 1 .. m : l[d] = lines[d]
  PROVE  Placement(places, p, c, l)
<1>1. /\ \A d \in 0 .. m : LineAt(l, d) = LineAt(lines, d)
      /\ \A x : \A d \in 0 .. m : Starts(x, p, d) <=> Starts(x, path, d)
      /\ \A d \in 0 .. m : c[d + 1] = counters[d + 1]
      /\ \A d \in 0 .. m : d \in 0 .. m + 1
      /\ \A d \in 1 .. m : d \in 1 .. m + 1
  BY DEF LineAt, Starts
<1>. QED  BY <1>1 DEF Placement

-----------------------------------------------------------------------------
(* Lines that are printed, and the regions they open and close.              *)

\* Some lines more, the first of which is of that kind.
Adds(m, kind, defines) ==
  /\ inside' \in Seq(Wheres) /\ Len(inside') = Len(inside) + m /\ Len(text') = Len(inside')
  /\ \A n \in 1 .. Len(inside) : inside'[n] = inside[n]
  /\ inside'[Len(inside) + 1] = Where(kind, defines)
  /\ \A n \in Len(inside) + 2 .. Len(inside) + m : inside'[n] = Where("continued", 0)

\* A region more is open, or one less.
Opens(function) ==
  /\ Len(opened') = Len(opened) + 1
  /\ \A d \in 1 .. Len(opened) : opened'[d] = opened[d]
  /\ opened'[Len(opened) + 1].line = Len(inside) + 1
  /\ opened'[Len(opened) + 1].function = function
Closes ==
  /\ Len(opened) = Len(opened') + 1
  /\ \A d \in 1 .. Len(opened') : opened'[d] = opened[d]

\* The function and the region around the lines that come next.
LEMMA InnermostIs ==
  ASSUME Lined
  PROVE  /\ Innermost.function \in Nat
         /\ Innermost.line = LineAt(OpenLines, Len(opened))
         /\ Innermost.line \in 0 .. Len(inside)
         /\ Innermost = IF opened = <<>> THEN Outside ELSE opened[Len(opened)]
         /\ Len(inside) \in Nat /\ Len(opened) \in Nat
<1>1. opened \in Seq(Openings) /\ inside \in Seq(Wheres) /\ Len(inside) = Len(text)
      /\ Len(inside) \in Nat /\ Len(opened) \in Nat
  BY DEF Lined
<1>2. CASE opened = <<>>
  BY <1>1, <1>2 DEF Innermost, Outside, LineAt
<1>3. CASE opened # <<>>
  <2>1. Len(opened) \in 1 .. Len(opened) /\ Len(opened) # 0
    BY <1>1, <1>3
  <2>2. Innermost = opened[Len(opened)]
    BY <1>3 DEF Innermost, Last
  <2>3. opened[Len(opened)] \in Openings /\ opened[Len(opened)].line \in 1 .. Len(text)
    BY <1>1, <2>1 DEF Lined
  <2>4. OpenLines[Len(opened)] = opened[Len(opened)].line
    BY <2>1 DEF OpenLines
  <2>. QED  BY <1>1, <1>3, <2>1, <2>2, <2>3, <2>4 DEF Openings, LineAt
<1>. QED  BY <1>2, <1>3

LEMMA EmitAdds ==
  ASSUME TextsInv, Lined, NEW lines \in Seq(Lines), lines # <<>>, NEW kind \in LineKinds,
         NEW defines \in Nat, Emit(lines, kind, defines)
  PROVE  Adds(Len(lines), kind, defines)
<1>. DEFINE ws == [k \in DOMAIN lines |->
                     IF k = 1 THEN Where(kind, defines) ELSE Where("continued", 0)]
            m == Len(lines)
            n == Len(inside)
<1>1. Where(kind, defines) \in Wheres /\ Where("continued", 0) \in Wheres
  <2>1. "continued" \in LineKinds
    BY DEF LineKinds
  <2>2. Innermost.function \in Nat /\ Innermost.line \in Nat
    BY InnermostIs
  <2>. QED  BY <2>1, <2>2 DEF Where, Wheres
<1>2. m \in Nat /\ DOMAIN lines = 1 .. m /\ m # 0 /\ n \in Nat /\ n = Len(text)
      /\ inside \in Seq(Wheres) /\ text \in Seq(Lines)
  BY DEF Lined, TextsInv
<1>3. ws \in Seq(Wheres) /\ Len(ws) = m
  <2>1. ws \in [1 .. m -> Wheres]
    BY <1>1, <1>2
  <2>. HIDE DEF ws, m
  <2>. QED  BY <1>2, <2>1
<1>4. /\ ws[1] = Where(kind, defines)
      /\ \A k \in 2 .. m : ws[k] = Where("continued", 0)
  BY <1>2
<1>5. inside' = inside \o ws /\ text' = text \o lines
  BY DEF Emit
<1>. HIDE DEF ws, m, n
<1>6. /\ inside' \in Seq(Wheres) /\ Len(inside') = n + m
      /\ \A i \in 1 .. n : inside'[i] = inside[i]
      /\ \A i \in 1 .. m : inside'[n + i] = ws[i]
  <2>1. inside \in Seq(Wheres) /\ ws \in Seq(Wheres) /\ Len(ws) = m /\ Len(inside) = n
    BY <1>2, <1>3 DEF n
  <2>2. /\ inside \o ws \in Seq(Wheres) /\ Len(inside \o ws) = n + m
        /\ \A i \in 1 .. n : (inside \o ws)[i] = inside[i]
        /\ \A i \in 1 .. m : (inside \o ws)[n + i] = ws[i]
    <3>. DEFINE v == inside \o ws
    <3>1. /\ v \in Seq(Wheres) /\ Len(v) = Len(inside) + Len(ws)
          /\ \A i \in 1 .. Len(inside) : v[i] = inside[i]
          /\ \A i \in 1 .. Len(ws) : v[Len(inside) + i] = ws[i]
      <4>1. inside \in Seq(Wheres) /\ ws \in Seq(Wheres)
        BY <2>1
      <4>2. /\ inside \o ws \in Seq(Wheres)
            /\ Len(inside \o ws) = Len(inside) + Len(ws)
            /\ \A i \in 1 .. Len(inside) : (inside \o ws)[i] = inside[i]
            /\ \A i \in 1 .. Len(ws) : (inside \o ws)[Len(inside) + i] = ws[i]
        BY ONLY <4>1, ConcatIs
      <4>. QED  BY <4>2
    <3>. HIDE DEF v
    <3>2. /\ v \in Seq(Wheres) /\ Len(v) = n + m
          /\ \A i \in 1 .. n : v[i] = inside[i]
          /\ \A i \in 1 .. m : v[n + i] = ws[i]
      BY <2>1, <3>1
    <3>. QED  BY <3>2 DEF v
  <2>. QED  BY <1>5, <2>2
<1>7. Len(text') = n + m
  BY <1>2, <1>5, ConcatIs DEF n, m
<1>8. inside'[n + 1] = Where(kind, defines)
  <2>1. 1 \in 1 .. m
    BY <1>2
  <2>. QED  BY <1>4, <1>6, <2>1
<1>9. ASSUME NEW i \in n + 2 .. n + m
      PROVE  inside'[i] = Where("continued", 0)
  <2>1. i - n \in 2 .. m /\ i - n \in 1 .. m /\ n + (i - n) = i
    BY <1>2
  <2>. QED  BY <1>4, <1>6, <2>1
<1>. QED  BY <1>6, <1>7, <1>8, <1>9 DEF Adds, n, m

\* The lines stay in regions opened before them.
LEMMA RegionsBefore ==
  ASSUME Lined, NEW m \in {1, 2}, NEW kind, NEW defines, Adds(m, kind, defines)
  PROVE  /\ \A n \in 1 .. Len(inside') : inside'[n].region < n
         /\ \A n \in Len(inside) + 1 .. Len(inside') : inside'[n].function = Innermost.function
<1>. DEFINE k == Len(inside)
<1>1. k \in Nat /\ Innermost.line \in 0 .. k
  BY InnermostIs
<1>2. \A n \in 1 .. k : inside'[n].region < n
  BY DEF Lined, Adds
<1>3. ASSUME NEW n \in k + 1 .. k + m
      PROVE  inside'[n].region < n /\ inside'[n].function = Innermost.function
  <2>1. inside'[n].region = Innermost.line /\ inside'[n].function = Innermost.function
    <3>1. n = k + 1 \/ n \in k + 2 .. k + m
      BY <1>1
    <3>. QED  BY <3>1 DEF Adds, Where
  <2>. HIDE DEF k
  <2>. QED  BY <1>1, <2>1
<1>4. Len(inside') = k + m
  BY DEF Adds
<1>5. \A n \in 1 .. k + m : n \in 1 .. k \/ n \in k + 1 .. k + m
  BY <1>1
<1>. QED  BY <1>2, <1>3, <1>4, <1>5

LEMMA LinedStays ==
  ASSUME Lined, NEW m \in {1, 2}, NEW kind, NEW defines, Adds(m, kind, defines),
         opened' = opened
  PROVE  Lined'
<1>1. /\ inside' \in Seq(Wheres) /\ Len(inside') = Len(text')
      /\ \A n \in 1 .. Len(inside') : inside'[n].region < n
  BY RegionsBefore DEF Adds
<1>2. Len(inside) \in Nat /\ Len(inside') = Len(inside) + m /\ Len(text) = Len(inside)
  BY InnermostIs DEF Adds, Lined
<1>3. \A d \in 1 .. Len(opened) : opened[d].line \in 1 .. Len(text')
  <2>1. \A i \in 1 .. Len(inside) : i \in 1 .. Len(text')
    BY <1>1, <1>2
  <2>. QED  BY <1>2, <2>1 DEF Lined
<1>. QED  BY <1>1, <1>3 DEF Lined

LEMMA LinedOpens ==
  ASSUME Lined, NEW m \in {1, 2}, NEW kind, NEW defines, Adds(m, kind, defines),
         NEW function, Opens(function), opened' \in Seq(Openings)
  PROVE  Lined'
<1>. DEFINE k == Len(opened)
            N == Len(inside)
<1>1. /\ inside' \in Seq(Wheres) /\ Len(inside') = Len(text')
      /\ \A n \in 1 .. Len(inside') : inside'[n].region < n
  BY RegionsBefore DEF Adds
<1>2. N \in Nat /\ Len(inside') = N + m /\ Len(text) = N /\ k \in Nat
  BY InnermostIs DEF Adds, Lined
<1>3. /\ \A d \in 1 .. k : opened'[d].line \in 1 .. N
      /\ opened'[k + 1].line = N + 1 /\ Len(opened') = k + 1
      /\ \A d, e \in 1 .. k : d < e => opened'[d].line < opened'[e].line
  BY <1>2 DEF Lined, Opens
<1>. HIDE DEF k, N
<1>4. \A d \in 1 .. k + 1 : d \in 1 .. k \/ d = k + 1
  BY <1>2
<1>5. \A d \in 1 .. k + 1 : opened'[d].line \in 1 .. Len(text')
  BY <1>1, <1>2, <1>3, <1>4
<1>6. ASSUME NEW d \in 1 .. k + 1, NEW e \in 1 .. k + 1, d < e
      PROVE  opened'[d].line < opened'[e].line
  <2>1. d \in 1 .. k
    BY <1>2, <1>6
  <2>2. CASE e \in 1 .. k
    BY <1>3, <1>6, <2>1, <2>2
  <2>3. CASE e = k + 1
    BY <1>2, <1>3, <2>1, <2>3
  <2>. QED  BY <1>4, <2>2, <2>3
<1>. QED  BY <1>1, <1>3, <1>5, <1>6 DEF Lined

LEMMA LinedCloses ==
  ASSUME Lined, NEW m \in {1, 2}, NEW kind, NEW defines, Adds(m, kind, defines),
         Closes, opened' \in Seq(Openings)
  PROVE  Lined'
<1>1. /\ inside' \in Seq(Wheres) /\ Len(inside') = Len(text')
      /\ \A n \in 1 .. Len(inside') : inside'[n].region < n
  BY RegionsBefore DEF Adds
<1>2. Len(inside) \in Nat /\ Len(inside') = Len(inside) + m /\ Len(text) = Len(inside)
      /\ Len(opened') \in Nat
  BY InnermostIs DEF Adds, Lined
<1>3. /\ \A i \in 1 .. Len(inside) : i \in 1 .. Len(text')
      /\ \A d \in 1 .. Len(opened') : d \in 1 .. Len(opened) /\ opened'[d] = opened[d]
  BY <1>1, <1>2 DEF Closes
<1>. QED  BY <1>1, <1>2, <1>3 DEF Lined

-----------------------------------------------------------------------------
(* The scope of the parser and the regions that are open.                    *)

\* The function that is printed is the one that the parser has open.
LEMMA ScopeIsOpen ==
  ASSUME Lined, NEW r \in ParserStates, Scoped(r)
  PROVE  /\ Innermost.function = r.scope.function
         /\ r.scope.function = 0 <=> r.scope = NoScope
         /\ Len(opened) \in Nat /\ Len(r.functions) \in Nat
<1>1. Len(opened) \in Nat /\ Len(r.functions) \in Nat /\ r.scope \in [function : Nat, depth : Nat]
  BY InnermostIs, ParserFields
<1>2. \/ r.scope = NoScope /\ r.scope.function = 0 /\ r.scope.depth = 0
      \/ r.scope.depth \in 1 .. Len(opened) /\ r.scope.function \in 1 .. Len(r.functions)
  BY DEF Scoped, NoScope
<1>3. r.scope.function = 0 <=> r.scope = NoScope
  <2>1. CASE r.scope = NoScope
    BY <2>1 DEF NoScope
  <2>2. CASE r.scope # NoScope
    <3>1. r.scope.function \in 1 .. Len(r.functions)
      BY <1>2, <2>2
    <3>. QED  BY <1>1, <2>2, <3>1
  <2>. QED  BY <2>1, <2>2
<1>4. CASE opened = <<>>
  <2>1. Innermost.function = 0
    BY <1>4 DEF Innermost, Outside
  <2>. QED  BY <1>1, <1>2, <1>3, <1>4, <2>1
<1>5. CASE opened # <<>>
  <2>1. Innermost = opened[Len(opened)]
    BY <1>5, InnermostIs
  <2>2. opened \in Seq(Openings)
    BY DEF Lined
  <2>3. Len(opened) \in 1 .. Len(opened)
    BY <1>1, <1>5, <2>2
  <2>4. ~(Len(opened) < r.scope.depth)
    BY <1>1, <1>2
  <2>5. opened[Len(opened)].function = r.scope.function
    BY <2>3, <2>4 DEF Scoped
  <2>. QED  BY <1>1, <1>3, <2>1, <2>5
<1>. QED  BY <1>4, <1>5

LEMMA ScopedStays ==
  ASSUME Lined, NEW r \in ParserStates, NEW q \in ParserStates, Scoped(r),
         q.path = r.path, q.counters = r.counters, q.scope = r.scope,
         Len(q.functions) >= Len(r.functions), q.ops # <<>>, opened' = opened
  PROVE  Scoped(q)'
<1>1. Len(q.functions) \in Nat /\ Len(r.functions) \in Nat
  BY ParserFields
<1>2. \A f \in 1 .. Len(r.functions) : f \in 1 .. Len(q.functions)
  BY <1>1
<1>. QED  BY <1>2 DEF Scoped

LEMMA EntersLength ==
  ASSUME NEW r \in ParserStates, NEW q, Enters(r, q), Len(r.counters) = Len(r.path) + 1
  PROVE  Len(q.path) = Len(r.path) + 1 /\ Len(q.counters) = Len(r.counters) + 1
<1>. DEFINE depth == Len(r.counters)
            e == [r.counters EXCEPT ![depth] = r.counters[depth] + 1]
<1>1. r.path \in Seq(Nat) /\ r.counters \in Seq(Nat) /\ Len(r.path) \in Nat
  BY ParserFields
<1>2. e \in Seq(Nat) /\ Len(e) = Len(r.counters) /\ r.counters[depth] \in Nat
  BY <1>1
<1>. HIDE DEF e
<1>3. q.path = Append(r.path, r.counters[depth]) /\ q.counters = Append(e, 0)
  BY DEF Enters, e
<1>4. Len(Append(r.path, r.counters[depth])) = Len(r.path) + 1 /\ Len(Append(e, 0)) = Len(e) + 1
  <2>1. 0 \in Nat
    OBVIOUS
  <2>. HIDE DEF depth
  <2>. QED  BY <1>1, <1>2, <2>1, AppendIs
<1>. QED  BY <1>2, <1>3, <1>4

LEMMA ScopedEnters ==
  ASSUME Lined, NEW r \in ParserStates, NEW q \in ParserStates, Scoped(r),
         Enters(r, q), q.scope = r.scope, Len(q.functions) = Len(r.functions), q.ops # <<>>,
         Opens(r.scope.function)
  PROVE  Scoped(q)'
<1>. DEFINE k == Len(opened)
<1>1. k \in Nat
  BY InnermostIs
<1>2. Len(q.path) = k + 1 /\ Len(q.counters) = k + 2 /\ Len(opened') = k + 1
  <2>1. Len(r.path) = k /\ Len(r.counters) = k + 1 /\ Len(opened') = k + 1
    BY DEF Scoped, Opens
  <2>2. Len(q.path) = Len(r.path) + 1 /\ Len(q.counters) = Len(r.counters) + 1
    BY <2>1, EntersLength
  <2>. HIDE DEF k
  <2>. QED  BY <1>1, <2>1, <2>2
<1>3. r.scope = NoScope \/ (r.scope.depth \in 1 .. k /\ r.scope.function \in 1 .. Len(r.functions))
  BY DEF Scoped
<1>4. r.scope.depth \in 0 .. k
  BY <1>1, <1>3 DEF NoScope
<1>5. ASSUME NEW d \in 1 .. k + 1
      PROVE  opened'[d].function = IF d < r.scope.depth THEN 0 ELSE r.scope.function
  <2>1. CASE d = k + 1
    BY <1>1, <1>4, <2>1 DEF Opens
  <2>2. CASE d \in 1 .. k
    BY <2>2 DEF Opens, Scoped
  <2>. QED  BY <1>1, <2>1, <2>2
<1>. HIDE DEF k
<1>6. q.scope = NoScope
        \/ (q.scope.depth \in 1 .. Len(opened') /\ q.scope.function \in 1 .. Len(q.functions))
  BY <1>1, <1>2, <1>3
<1>. QED  BY <1>1, <1>2, <1>5, <1>6 DEF Scoped

LEMMA ScopedFunction ==
  ASSUME Lined, NEW r \in ParserStates, NEW q \in ParserStates, Scoped(r),
         Enters(r, q), r.scope = NoScope, Len(q.functions) = Len(r.functions) + 1,
         q.scope = [function |-> Len(r.functions) + 1, depth |-> Len(r.path) + 1], q.ops # <<>>,
         Opens(Len(r.functions) + 1)
  PROVE  Scoped(q)'
<1>. DEFINE k == Len(opened)
<1>1. k \in Nat /\ Len(r.functions) \in Nat
  BY InnermostIs, ParserFields
<1>2. Len(q.path) = k + 1 /\ Len(q.counters) = k + 2 /\ Len(opened') = k + 1 /\ Len(r.path) = k
  <2>1. Len(r.path) = k /\ Len(r.counters) = k + 1 /\ Len(opened') = k + 1
    BY DEF Scoped, Opens
  <2>2. Len(q.path) = Len(r.path) + 1 /\ Len(q.counters) = Len(r.counters) + 1
    BY <2>1, EntersLength
  <2>. HIDE DEF k
  <2>. QED  BY <1>1, <2>1, <2>2
<1>3. q.scope.function = Len(r.functions) + 1 /\ q.scope.depth = k + 1
  BY <1>2
<1>4. \A d \in 1 .. k : opened[d].function = 0
  BY <1>1 DEF Scoped, NoScope
<1>5. ASSUME NEW d \in 1 .. k + 1
      PROVE  opened'[d].function = IF d < q.scope.depth THEN 0 ELSE q.scope.function
  <2>1. CASE d = k + 1
    BY <1>1, <1>3, <2>1 DEF Opens
  <2>2. CASE d \in 1 .. k
    <3>1. d < k + 1 /\ opened'[d] = opened[d]
      BY <1>1, <2>2 DEF Opens
    <3>. QED  BY <1>3, <1>4, <2>2, <3>1
  <2>. QED  BY <1>1, <2>1, <2>2
<1>. HIDE DEF k
<1>6. q.scope.depth \in 1 .. Len(opened') /\ q.scope.function \in 1 .. Len(q.functions)
  BY <1>1, <1>2, <1>3
<1>. QED  BY <1>1, <1>2, <1>5, <1>6 DEF Scoped

LEMMA LeavesLength ==
  ASSUME NEW r \in ParserStates, NEW q, Leaves(r, q), NEW m \in Nat,
         Len(r.path) = m + 1, Len(r.counters) = m + 2
  PROVE  /\ Len(q.path) = m /\ Len(q.counters) = m + 1 /\ Len(Pop(r.path)) = m
         /\ \A d \in 1 .. m : q.path[d] = r.path[d]
         /\ \A d \in 1 .. m + 1 : q.counters[d] = r.counters[d]
<1>1. r.path \in Seq(Nat) /\ r.counters \in Seq(Nat) /\ q.path = Pop(r.path)
      /\ q.counters = Pop(r.counters)
  BY ParserFields DEF Leaves
<1>2. ASSUME NEW s \in Seq(Nat), NEW k \in Nat, Len(s) = k + 1
      PROVE  Len(Pop(s)) = k /\ \A d \in 1 .. k : Pop(s)[d] = s[d]
  <2>1. s # <<>> /\ Len(s) - 1 = k
    BY <1>2
  <2>2. Pop(s) = SubSeq(s, 1, k)
    BY <2>1 DEF Pop, Front
  <2>. QED  BY <1>2, <2>2
<1>3. m + 2 = (m + 1) + 1 /\ m + 1 \in Nat
  OBVIOUS
<1>4. Len(q.path) = m /\ \A d \in 1 .. m : q.path[d] = r.path[d]
  BY <1>1, <1>2
<1>5. Len(q.counters) = m + 1 /\ \A d \in 1 .. m + 1 : q.counters[d] = r.counters[d]
  BY <1>1, <1>2, <1>3
<1>. QED  BY <1>1, <1>4, <1>5

LEMMA ScopedLeaves ==
  ASSUME Lined, NEW r \in ParserStates, NEW q \in ParserStates, Scoped(r),
         Leaves(r, q), Len(q.functions) = Len(r.functions), q.ops = r.ops, text # <<>>,
         q.scope = IF r.scope # NoScope /\ Len(Pop(r.path)) < r.scope.depth THEN NoScope
                   ELSE r.scope,
         Closes, opened' \in Seq(Openings)
  PROVE  Scoped(q)'
<1>. DEFINE m == Len(opened')
<1>1. m \in Nat /\ Len(opened) = m + 1
  BY DEF Closes
<1>2. Len(r.path) = m + 1 /\ Len(r.counters) = m + 2
  BY <1>1 DEF Scoped
<1>3. Len(q.path) = m /\ Len(q.counters) = m + 1 /\ Len(Pop(r.path)) = m
  BY <1>1, <1>2, LeavesLength
<1>. HIDE DEF m
<1>4. q.ops # <<>>
  BY DEF Scoped
<1>5. r.scope = NoScope \/ (r.scope.depth \in 1 .. m + 1 /\ r.scope.function \in 1 .. Len(r.functions))
  BY <1>1 DEF Scoped
<1>6. /\ q.scope = NoScope
           \/ (q.scope.depth \in 1 .. m /\ q.scope.function \in 1 .. Len(q.functions))
  BY <1>1, <1>3, <1>5
<1>7. ASSUME NEW d \in 1 .. m
      PROVE  opened'[d].function = IF d < q.scope.depth THEN 0 ELSE q.scope.function
  <2>1. opened'[d] = opened[d] /\ d \in 1 .. m + 1
    BY <1>1 DEF Closes, m
  <2>2. opened[d].function = IF d < r.scope.depth THEN 0 ELSE r.scope.function
    BY <1>1, <2>1 DEF Scoped
  <2>3. CASE q.scope = r.scope
    BY <2>1, <2>2, <2>3
  <2>4. CASE q.scope # r.scope
    <3>1. r.scope # NoScope /\ m < r.scope.depth /\ q.scope = NoScope
      BY <1>3, <2>4
    <3>2. d < r.scope.depth
      BY <1>1, <1>5, <3>1
    <3>. QED  BY <2>1, <2>2, <3>1, <3>2 DEF NoScope
  <2>. QED  BY <2>3, <2>4
<1>. QED  BY <1>1, <1>3, <1>4, <1>6, <1>7 DEF Scoped, m

-----------------------------------------------------------------------------
(* The functions that are printed and the operations listed in them.         *)

\* What lines more do to the lines of a function, by the kind of the first of them.
LEMMA LinesGrow ==
  ASSUME Lined, NEW m \in {1, 2}, NEW kind, NEW defines, Adds(m, kind, defines), NEW f
  PROVE  LinesIn(f)' = LinesIn(f) \union
           IF (kind = "op" /\ f = Innermost.function) \/ (kind = "short" /\ f = defines)
           THEN {Len(inside) + 1} ELSE {}
<1>. DEFINE N == Len(inside)
<1>1. /\ N \in Nat /\ DOMAIN inside = 1 .. N /\ DOMAIN inside' = 1 .. N + m
      /\ \A n \in 1 .. N : inside'[n] = inside[n]
      /\ inside'[N + 1] = Where(kind, defines)
      /\ \A n \in N + 2 .. N + m : inside'[n] = Where("continued", 0)
  BY DEF Lined, Adds
<1>. DEFINE w == Where(kind, defines)
<1>2. /\ w.kind = kind /\ w.function = Innermost.function /\ w.defines = defines
      /\ \A n \in N + 2 .. N + m : inside'[n].kind = "continued"
  BY <1>1 DEF Where
<1>. HIDE DEF N, w
<1>3. \A n : n \in 1 .. N + m <=> (n \in 1 .. N \/ n = N + 1 \/ n \in N + 2 .. N + m)
  BY <1>1
<1>4. ~(N + 1 \in 1 .. N)
  BY <1>1
<1>. DEFINE In(n)  == n \in 1 .. N /\ ((inside[n].kind = "op" /\ inside[n].function = f)
                               \/ (inside[n].kind = "short" /\ inside[n].defines = f))
            In2(n) == n \in 1 .. N + m /\ ((inside'[n].kind = "op" /\ inside'[n].function = f)
                               \/ (inside'[n].kind = "short" /\ inside'[n].defines = f))
<1>5. \A n : n \in LinesIn(f) <=> In(n)
  BY <1>1 DEF LinesIn
<1>6. \A n : n \in LinesIn(f)' <=> In2(n)
  BY <1>1 DEF LinesIn
<1>7. inside'[N + 1] = w
  BY <1>1 DEF w
<1>8. In2(N + 1) <=> ((kind = "op" /\ f = Innermost.function) \/ (kind = "short" /\ f = defines))
  <2>1. N + 1 \in 1 .. N + m
    BY <1>3
  <2>. QED  BY <1>2, <1>7, <2>1
<1>9. ASSUME NEW n, n # N + 1
      PROVE  In2(n) <=> In(n)
  <2>1. CASE n \in 1 .. N
    BY <1>1, <1>3, <2>1
  <2>2. CASE n \in N + 2 .. N + m
    <3>1. ~(n \in 1 .. N)
      BY <1>1, <2>2
    <3>. QED  BY <1>2, <2>2, <3>1
  <2>3. CASE n \notin 1 .. N /\ n \notin N + 2 .. N + m
    BY <1>3, <1>9, <2>3
  <2>. QED  BY <2>1, <2>2, <2>3
<1>10. ~In(N + 1)
  BY <1>4
<1>. HIDE DEF In, In2
<1>. QED  BY <1>5, <1>6, <1>8, <1>9, <1>10 DEF N

LEMMA LinesInText ==
  ASSUME Lined, NEW f
  PROVE  LinesIn(f) \subseteq 1 .. Len(inside)
BY DEF Lined, LinesIn

\* What they do to the functions that are defined.
LEMMA DefinedGrows ==
  ASSUME Lined, NEW m \in {1, 2}, NEW kind, NEW defines, Adds(m, kind, defines)
  PROVE  Defined' = Defined \union ({defines} \ {0})
<1>. DEFINE N == Len(inside)
<1>1. /\ N \in Nat /\ DOMAIN inside = 1 .. N /\ DOMAIN inside' = 1 .. N + m
      /\ \A n \in 1 .. N : inside'[n] = inside[n]
      /\ inside'[N + 1] = Where(kind, defines)
      /\ \A n \in N + 2 .. N + m : inside'[n] = Where("continued", 0)
  BY DEF Lined, Adds
<1>2. /\ inside'[N + 1].defines = defines
      /\ \A n \in N + 2 .. N + m : inside'[n].defines = 0
  BY <1>1 DEF Where
<1>. HIDE DEF N
<1>3. \A n : n \in 1 .. N + m <=> (n \in 1 .. N \/ n = N + 1 \/ n \in N + 2 .. N + m)
  BY <1>1
<1>4. \A x : x \in Defined <=> x # 0 /\ \E n \in 1 .. N : inside[n].defines = x
  BY <1>1 DEF Defined
<1>5. \A x : x \in Defined' <=> x # 0 /\ \E n \in 1 .. N + m : inside'[n].defines = x
  BY <1>1 DEF Defined
<1>6. ASSUME NEW x, x # 0
      PROVE  (\E n \in 1 .. N + m : inside'[n].defines = x)
               <=> ((\E n \in 1 .. N : inside[n].defines = x) \/ x = defines)
  BY <1>1, <1>2, <1>3, <1>6
<1>. QED  BY <1>4, <1>5, <1>6

\* The next name is that of the next function.
LEMMA NextNameIs ==
  ASSUME NEW r \in ParserStates, Functioned(r), NEW f \in NextName
  PROVE  f = Len(r.functions) + 1 /\ f \in FunctionNames
<1>1. Len(r.functions) \in Nat
  BY ParserFields
<1>2. Defined = 1 .. Len(r.functions)
  BY DEF Functioned
<1>3. Cardinality(Defined) = Len(r.functions)
  BY <1>1, <1>2, FS_Interval
<1>. QED  BY <1>3 DEF NextName

\* The operations of a function are some of those that are placed.
LEMMA IdsTyped ==
  ASSUME NEW r \in ParserStates
  PROVE  /\ Len(r.ops) \in Nat /\ Len(r.functions) \in Nat /\ r.ops \in Seq(PlacedOps)
         /\ \A f \in 1 .. Len(r.functions) : r.functions[f].ops \in Seq(1 .. Len(r.ops))
BY ParserFields

\* An operation more, of a line that defines no function.
LEMMA FunctionedPushes ==
  ASSUME Lined, NEW r \in ParserStates, Scoped(r), Functioned(r),
         NEW kind, Adds(1, kind, 0), NEW q, NEW x \in PlacedOps, Pushes(r, q, x),
         x.first = Len(inside) + 1, kind # "short",
         \/ r.scope = NoScope /\ kind # "op"
         \/ IsOpaque(x) /\ kind # "op"
         \/ ~IsOpaque(x) /\ kind = "op"
  PROVE  Functioned(q)'
<1>. DEFINE N == Len(inside)
            M == Len(r.ops)
            g == r.scope.function
<1>1. /\ N \in Nat /\ M \in Nat /\ Len(r.functions) \in Nat /\ N = Len(text)
      /\ g = Innermost.function /\ (g = 0 <=> r.scope = NoScope)
      /\ Len(text') = N + 1 /\ Len(inside') = N + 1
  BY ScopeIsOpen, InnermostIs, IdsTyped DEF Lined, Adds
<1>2. Defined' = 1 .. Len(q.functions)
  BY DefinedGrows DEF Functioned, Pushes
<1>3. /\ Len(q.ops) = M + 1 /\ q.ops[M + 1] = x
      /\ \A i \in 1 .. M : q.ops[i] = r.ops[i]
  BY IdsTyped, AppendIs DEF Pushes
<1>. HIDE DEF N, M
<1>4. ASSUME NEW f \in 1 .. Len(q.functions)
      PROVE  /\ f \in FunctionNames /\ q.functions[f].name = Symbols[f]
             /\ Listed(q.ops, q.functions[f].ops, LinesIn(f)')
  <2>. DEFINE ids == r.functions[f].ops
              old == LinesIn(f)
              new == LinesIn(f)'
  <2>1. f \in 1 .. Len(r.functions) /\ f # 0
    BY <1>1 DEF Pushes
  <2>2. /\ f \in FunctionNames /\ r.functions[f].name = Symbols[f]
        /\ Listed(r.ops, ids, old) /\ ids \in Seq(1 .. M)
    BY <2>1, IdsTyped DEF Functioned, M
  <2>3. /\ q.functions[f].name = r.functions[f].name
        /\ q.functions[f].ops = IF f = g THEN Append(ids, M + 1) ELSE ids
    BY <2>1 DEF Pushes, M
  <2>4. new = old \union IF kind = "op" /\ f = g THEN {N + 1} ELSE {}
    BY <1>1, LinesGrow DEF N
  <2>5. N + 1 \notin old
    <3>1. N + 1 \notin 1 .. N
      BY <1>1
    <3>. QED  BY <3>1, LinesInText DEF N
  <2>. HIDE DEF ids, old, new, g
  <2>6. CASE f # g
    <3>1. new = old /\ q.functions[f].ops = ids
      BY <2>3, <2>4, <2>6
    <3>2. Listed(q.ops, ids, old)
      BY <1>1, <1>3, <2>2, ListedKeeps
    <3>. QED  BY <2>2, <2>3, <3>1, <3>2 DEF new
  <2>7. CASE f = g
    <3>1. q.functions[f].ops = Append(ids, M + 1) /\ r.scope # NoScope
      BY <1>1, <2>1, <2>3, <2>7
    <3>2. \/ IsOpaque(q.ops[M + 1]) /\ new = old
          \/ ~IsOpaque(q.ops[M + 1]) /\ q.ops[M + 1].first = N + 1 /\ new = old \union {N + 1}
      BY <1>3, <2>4, <2>7, <3>1 DEF N
    <3>3. Listed(q.ops, Append(ids, M + 1), new)
      BY <1>1, <1>3, <2>2, <2>5, <3>2, ListedGrows
    <3>. QED  BY <2>2, <2>3, <3>1, <3>3 DEF new
  <2>. QED  BY <2>6, <2>7
<1>5. \A n \in 1 .. Len(inside') : inside'[n].function \in 0 .. Len(q.functions)
  <2>1. \A n \in N + 1 .. N + 1 : inside'[n].function = g
    BY <1>1, RegionsBefore DEF N
  <2>2. g \in 0 .. Len(r.functions)
    BY <1>1 DEF Scoped, NoScope
  <2>3. \A n \in 1 .. N : inside'[n].function \in 0 .. Len(r.functions)
    BY DEF Adds, Functioned, N
  <2>4. \A n \in 1 .. N + 1 : n \in 1 .. N \/ n \in N + 1 .. N + 1
    BY <1>1
  <2>5. Len(q.functions) = Len(r.functions) /\ Len(inside') = N + 1
    BY DEF Pushes, Adds, N
  <2>. HIDE DEF g
  <2>. QED  BY <2>1, <2>2, <2>3, <2>4, <2>5
<1>6. \A i \in 1 .. Len(q.ops) : q.ops[i].first \in 1 .. Len(text')
  <2>1. \A i \in 1 .. M : q.ops[i].first \in 1 .. N
    BY <1>1, <1>3 DEF Functioned, M
  <2>2. \A i \in 1 .. M + 1 : i \in 1 .. M \/ i = M + 1
    BY <1>1
  <2>3. x.first = N + 1
    BY DEF N
  <2>. QED  BY <1>1, <1>3, <2>1, <2>2, <2>3
<1>. QED  BY <1>2, <1>4, <1>5, <1>6 DEF Functioned

\* A function that is not defined yet has no lines.
LEMMA NoLines ==
  ASSUME Lined, NEW r \in ParserStates, Functioned(r), NEW g, g = Len(r.functions) + 1
  PROVE  LinesIn(g) = {}
<1>1. Len(r.functions) \in Nat /\ DOMAIN inside = 1 .. Len(inside)
  BY IdsTyped DEF Lined
<1>2. ASSUME NEW n \in 1 .. Len(inside), inside[n].function = g PROVE FALSE
  <2>1. inside[n].function \in 0 .. Len(r.functions)
    BY DEF Functioned
  <2>. QED  BY <1>1, <1>2, <2>1
<1>3. ASSUME NEW n \in 1 .. Len(inside), inside[n].defines = g PROVE FALSE
  <2>1. g \in Defined
    BY <1>1, <1>3 DEF Defined
  <2>. QED  BY <1>1, <2>1 DEF Functioned
<1>. QED  BY <1>1, <1>2, <1>3 DEF LinesIn

\* A function more, of one line or with a body that follows.
LEMMA FunctionedDefines ==
  ASSUME Lined, NEW r \in ParserStates, Functioned(r), ~InFunction, NEW m \in {1, 2},
         NEW kind \in {"function", "short"}, NEW g \in FunctionNames, g = Len(r.functions) + 1,
         Adds(m, kind, g), NEW q \in ParserStates, NEW ids, Defines(r, q, Symbols[g], ids),
         Len(q.ops) >= Len(r.ops), \A i \in 1 .. Len(r.ops) : q.ops[i] = r.ops[i],
         \A i \in Len(r.ops) + 1 .. Len(q.ops) : q.ops[i].first = Len(inside) + 1,
         Listed(q.ops, ids, IF kind = "short" THEN {Len(inside) + 1} ELSE {})
  PROVE  Functioned(q)'
<1>. DEFINE N == Len(inside)
            M == Len(r.ops)
            L == Len(r.functions)
<1>1. /\ N \in Nat /\ M \in Nat /\ L \in Nat /\ N = Len(text) /\ Len(q.ops) \in Nat
      /\ Len(text') = N + m /\ Len(inside') = N + m /\ Len(q.functions) = L + 1
  BY InnermostIs, IdsTyped DEF Lined, Adds, Defines
<1>2. Defined' = 1 .. Len(q.functions)
  <2>1. Defined' = 1 .. L \union {g}
    BY <1>1, DefinedGrows DEF Functioned
  <2>. HIDE DEF L
  <2>. QED  BY <1>1, <2>1 DEF L
<1>. HIDE DEF N, M, L
<1>3. ASSUME NEW f \in 1 .. Len(q.functions)
      PROVE  /\ f \in FunctionNames /\ q.functions[f].name = Symbols[f]
             /\ Listed(q.ops, q.functions[f].ops, LinesIn(f)')
  <2>. DEFINE old == LinesIn(f)
              new == LinesIn(f)'
  <2>1. new = old \union IF kind = "short" /\ f = g THEN {N + 1} ELSE {}
    BY LinesGrow DEF N
  <2>. HIDE DEF old, new
  <2>2. CASE f = g
    <3>1. old = {}
      BY <2>2, NoLines DEF old
    <3>2. new = IF kind = "short" THEN {N + 1} ELSE {}
      BY <2>1, <2>2, <3>1
    <3>3. q.functions[f].name = Symbols[f] /\ q.functions[f].ops = ids
      BY <2>2 DEF Defines
    <3>. QED  BY <2>2, <3>2, <3>3 DEF new, N
  <2>3. CASE f \in 1 .. L
    <3>1. f # g
      BY <1>1, <2>3 DEF L
    <3>2. new = old
      BY <2>1, <3>1
    <3>3. q.functions[f].name = r.functions[f].name /\ q.functions[f].ops = r.functions[f].ops
      BY <2>3 DEF Defines, L
    <3>4. /\ f \in FunctionNames /\ r.functions[f].name = Symbols[f]
          /\ Listed(r.ops, r.functions[f].ops, old) /\ r.functions[f].ops \in Seq(1 .. M)
      BY <2>3, IdsTyped DEF Functioned, L, M, old
    <3>5. \A i \in 1 .. M : q.ops[i] = r.ops[i]
      BY DEF M
    <3>6. Listed(q.ops, r.functions[f].ops, old)
      BY <1>1, <3>4, <3>5, ListedKeeps
    <3>. QED  BY <3>2, <3>3, <3>4, <3>6 DEF new
  <2>. QED  BY <1>1, <2>2, <2>3 DEF L
<1>4. \A n \in 1 .. Len(inside') : inside'[n].function \in 0 .. Len(q.functions)
  <2>0. g \in Nat
    BY <1>1 DEF L
  <2>1. \A n \in N + 1 .. N + m : inside'[n].function = Innermost.function
    BY <1>1, RegionsBefore DEF N
  <2>2. Innermost.function \in 0 .. L
    BY <1>1 DEF InFunction
  <2>3. \A n \in 1 .. N : inside'[n].function \in 0 .. L
    BY DEF Adds, Functioned, N, L
  <2>4. \A n \in 1 .. N + m : n \in 1 .. N \/ n \in N + 1 .. N + m
    BY <1>1
  <2>5. 0 .. L \subseteq 0 .. L + 1
    BY <1>1
  <2>6. \A n \in 1 .. N + m : inside'[n].function \in 0 .. L + 1
    BY <2>1, <2>2, <2>3, <2>4, <2>5
  <2>. QED  BY <1>1, <2>6
<1>5. \A i \in 1 .. Len(q.ops) : q.ops[i].first \in 1 .. Len(text')
  <2>1. \A i \in 1 .. M : q.ops[i].first \in 1 .. N
    BY <1>1 DEF Functioned, M
  <2>2. \A i \in 1 .. Len(q.ops) : i \in 1 .. M \/ i \in M + 1 .. Len(q.ops)
    BY <1>1
  <2>3. \A i \in M + 1 .. Len(q.ops) : q.ops[i].first = N + 1
    BY DEF M, N
  <2>. QED  BY <1>1, <2>1, <2>2, <2>3
<1>. QED  BY <1>2, <1>3, <1>4, <1>5 DEF Functioned

\* Lines that are no operations.
LEMMA FunctionedStays ==
  ASSUME Lined, NEW r \in ParserStates, Scoped(r), Functioned(r),
         NEW kind, kind \notin {"op", "short"}, Adds(1, kind, 0), NEW q,
         SameFunctions(r, q), q.ops = r.ops
  PROVE  Functioned(q)'
<1>. DEFINE N == Len(inside)
            L == Len(r.functions)
<1>1. /\ N \in Nat /\ L \in Nat /\ N = Len(text) /\ Len(text') = N + 1 /\ Len(inside') = N + 1
      /\ Len(q.functions) = L
  BY InnermostIs, IdsTyped DEF Lined, Adds, SameFunctions
<1>2. Defined' = 1 .. L
  BY DefinedGrows DEF Functioned
<1>. HIDE DEF N, L
<1>3. ASSUME NEW f \in 1 .. L
      PROVE  /\ f \in FunctionNames /\ q.functions[f].name = Symbols[f]
             /\ Listed(q.ops, q.functions[f].ops, LinesIn(f)')
  <2>1. LinesIn(f)' = LinesIn(f)
    <3>1. LinesIn(f)' = LinesIn(f) \union
            IF (kind = "op" /\ f = Innermost.function) \/ (kind = "short" /\ f = 0)
            THEN {Len(inside) + 1} ELSE {}
      <4>1. 1 \in {1, 2}
        OBVIOUS
      <4>. QED  BY <4>1, LinesGrow
    <3>. QED  BY <3>1
  <2>2. q.functions[f].name = r.functions[f].name /\ q.functions[f].ops = r.functions[f].ops
    BY DEF SameFunctions, L
  <2>. QED  BY <2>1, <2>2 DEF Functioned, L
<1>4. \A n \in 1 .. N + 1 : inside'[n].function \in 0 .. L
  <2>1. \A n \in N + 1 .. N + 1 : inside'[n].function = r.scope.function
    BY <1>1, RegionsBefore, ScopeIsOpen DEF N
  <2>2. r.scope.function \in 0 .. L
    BY <1>1 DEF Scoped, NoScope, L
  <2>3. \A n \in 1 .. N : inside'[n].function \in 0 .. L
    BY DEF Adds, Functioned, N, L
  <2>4. \A n \in 1 .. N + 1 : n \in 1 .. N \/ n \in N + 1 .. N + 1
    BY <1>1
  <2>. QED  BY <2>1, <2>2, <2>3, <2>4
<1>5. \A i \in 1 .. Len(q.ops) : q.ops[i].first \in 1 .. N + 1
  <2>1. \A i \in 1 .. Len(r.ops) : r.ops[i].first \in 1 .. N
    BY <1>1 DEF Functioned
  <2>2. \A i \in 1 .. N : i \in 1 .. N + 1
    BY <1>1
  <2>. QED  BY <2>1, <2>2
<1>. QED  BY <1>1, <1>2, <1>3, <1>4, <1>5 DEF Functioned

\* The lines of functions on one line before and after.
LEMMA ShortLines ==
  ASSUME Lined, NEW m \in {1, 2}, NEW kind, NEW defines, Adds(m, kind, defines),
         NEW n \in 1 .. Len(inside'), inside'[n].kind = "short"
  PROVE  \/ n \in 1 .. Len(inside) /\ inside[n] = inside'[n]
         \/ n = Len(inside) + 1 /\ kind = "short" /\ inside'[n].defines = defines
<1>1. Len(inside) \in Nat /\ Len(inside') = Len(inside) + m
  BY InnermostIs DEF Adds
<1>2. n \in 1 .. Len(inside) \/ n = Len(inside) + 1 \/ n \in Len(inside) + 2 .. Len(inside) + m
  BY <1>1
<1>. QED  BY <1>2 DEF Adds, Where

LEMMA ShortsPushes ==
  ASSUME Lined, NEW r \in ParserStates, Functioned(r), Shorts(r),
         NEW kind, kind # "short", Adds(1, kind, 0), NEW q, NEW x, Pushes(r, q, x),
         q.scope = r.scope
  PROVE  Shorts(q)'
<1>1. ASSUME NEW n \in 1 .. Len(inside'), inside'[n].kind = "short"
      PROVE  /\ Len(q.functions[inside'[n].defines].ops) = 1
             /\ inside'[n].defines # q.scope.function /\ inside'[n].defines # 0
  <2>1. n \in 1 .. Len(inside) /\ inside'[n] = inside[n]
    BY <1>1, ShortLines
  <2>. DEFINE f == inside[n].defines
  <2>2. /\ Len(r.functions[f].ops) = 1 /\ f # r.scope.function /\ f # 0
    BY <1>1, <2>1 DEF Shorts
  <2>3. f \in 1 .. Len(r.functions)
    <3>1. f \in Defined
      BY <2>1, <2>2 DEF Defined, Lined
    <3>. QED  BY <3>1 DEF Functioned
  <2>. HIDE DEF f
  <2>4. q.functions[f].ops = r.functions[f].ops
    BY <2>2, <2>3 DEF Pushes
  <2>. QED  BY <2>1, <2>2, <2>4 DEF f
<1>. QED  BY <1>1 DEF Shorts

LEMMA ShortsDefines ==
  ASSUME Lined, NEW r \in ParserStates, Functioned(r), Shorts(r), NEW m \in {1, 2},
         NEW kind \in {"function", "short"}, NEW g, g = Len(r.functions) + 1,
         Adds(m, kind, g), NEW q, NEW ids, Defines(r, q, Symbols[g], ids),
         kind = "short" => Len(ids) = 1,
         q.scope.function = IF kind = "short" THEN 0 ELSE g
  PROVE  Shorts(q)'
<1>0. Len(r.functions) \in Nat /\ g # 0
  BY IdsTyped
<1>1. ASSUME NEW n \in 1 .. Len(inside'), inside'[n].kind = "short"
      PROVE  /\ Len(q.functions[inside'[n].defines].ops) = 1
             /\ inside'[n].defines # q.scope.function /\ inside'[n].defines # 0
  <2>1. CASE n \in 1 .. Len(inside) /\ inside'[n] = inside[n]
    <3>. DEFINE f == inside[n].defines
    <3>2. /\ Len(r.functions[f].ops) = 1 /\ f # 0
      BY <1>1, <2>1 DEF Shorts
    <3>3. f \in 1 .. Len(r.functions)
      <4>1. f \in Defined
        BY <2>1, <3>2 DEF Defined, Lined
      <4>. QED  BY <4>1 DEF Functioned
    <3>. HIDE DEF f
    <3>4. q.functions[f].ops = r.functions[f].ops
      BY <3>3 DEF Defines
    <3>5. f # g
      BY <1>0, <3>3
    <3>. QED  BY <2>1, <3>2, <3>4, <3>5 DEF f
  <2>2. CASE n = Len(inside) + 1 /\ kind = "short" /\ inside'[n].defines = g
    BY <1>0, <2>2 DEF Defines
  <2>. QED  BY <1>1, <2>1, <2>2, ShortLines
<1>. QED  BY <1>1 DEF Shorts

LEMMA ShortsStays ==
  ASSUME Lined, NEW r \in ParserStates, Functioned(r), Shorts(r),
         NEW kind, kind # "short", Adds(1, kind, 0), NEW q, SameFunctions(r, q),
         q.scope.function \in {r.scope.function, 0}
  PROVE  Shorts(q)'
<1>1. ASSUME NEW n \in 1 .. Len(inside'), inside'[n].kind = "short"
      PROVE  /\ Len(q.functions[inside'[n].defines].ops) = 1
             /\ inside'[n].defines # q.scope.function /\ inside'[n].defines # 0
  <2>1. n \in 1 .. Len(inside) /\ inside'[n] = inside[n]
    BY <1>1, ShortLines
  <2>. DEFINE f == inside[n].defines
  <2>2. /\ Len(r.functions[f].ops) = 1 /\ f # r.scope.function /\ f # 0
    BY <1>1, <2>1 DEF Shorts
  <2>3. f \in 1 .. Len(r.functions)
    <3>1. f \in Defined
      BY <2>1, <2>2 DEF Defined, Lined
    <3>. QED  BY <3>1 DEF Functioned
  <2>. HIDE DEF f
  <2>4. q.functions[f].ops = r.functions[f].ops
    BY <2>2, <2>3 DEF SameFunctions
  <2>. QED  BY <2>1, <2>2, <2>4 DEF f
<1>. QED  BY <1>1 DEF Shorts

-----------------------------------------------------------------------------
(* The paths of the operations and the regions they are in.                  *)

LEMMA OpenLinesAre ==
  ASSUME Lined
  PROVE  /\ Len(OpenLines) = Len(opened) /\ Ascends(OpenLines, Len(inside))
         /\ \A d \in 1 .. Len(opened) : OpenLines[d] = opened[d].line
<1>1. Len(opened) \in Nat /\ DOMAIN OpenLines = 1 .. Len(opened) /\ Len(text) = Len(inside)
  BY InnermostIs DEF Lined, OpenLines
<1>2. Len(OpenLines) = Len(opened)
  BY <1>1
<1>3. \A d \in 1 .. Len(opened) : OpenLines[d] = opened[d].line
  BY DEF OpenLines
<1>. QED  BY <1>1, <1>2, <1>3 DEF Lined, Ascends

LEMMA PlacesTyped ==
  ASSUME Lined, NEW r \in ParserStates, Functioned(r), NEW x \in Places(r.ops)
  PROVE  x.path \in Seq(Nat) /\ x.region \in Nat /\ x.region < Len(inside) + 1
<1>1. PICK i \in 1 .. Len(r.ops) : x = Place(r.ops[i].path, inside[r.ops[i].first].region)
  BY DEF Places
<1>2. x.path = r.ops[i].path /\ x.region = inside[r.ops[i].first].region
  BY <1>1 DEF Place
<1>3. r.ops[i] \in PlacedOps
  BY IdsTyped
<1>4. r.ops[i].first \in 1 .. Len(inside) /\ Len(inside) \in Nat
  BY InnermostIs DEF Functioned, Lined
<1>5. inside[r.ops[i].first] \in Wheres /\ inside[r.ops[i].first].region < r.ops[i].first
  BY <1>4 DEF Lined
<1>. QED  BY <1>2, <1>3, <1>4, <1>5 DEF PlacedOps, Wheres

\* Operations before are where they were.
LEMMA PlacesBefore ==
  ASSUME Lined, NEW r \in ParserStates, Functioned(r), NEW m \in {1, 2}, NEW kind, NEW defines,
         Adds(m, kind, defines), NEW i \in 1 .. Len(r.ops)
  PROVE  inside'[r.ops[i].first] = inside[r.ops[i].first]
<1>1. r.ops[i].first \in 1 .. Len(inside)
  BY DEF Functioned, Lined
<1>. QED  BY <1>1 DEF Adds

LEMMA PlacesSame ==
  ASSUME Lined, NEW r \in ParserStates, Functioned(r), NEW m \in {1, 2}, NEW kind, NEW defines,
         Adds(m, kind, defines), NEW q \in ParserStates,
         Len(q.ops) >= Len(r.ops), \A i \in 1 .. Len(r.ops) : q.ops[i] = r.ops[i],
         \A i \in Len(r.ops) + 1 .. Len(q.ops) : q.ops[i].first = Len(inside) + 1,
         kind = "short" \/ Len(q.ops) = Len(r.ops)
  PROVE  Places(q.ops)' = Places(r.ops)
<1>. DEFINE M == Len(r.ops)
            K == Len(q.ops)
<1>1. M \in Nat /\ K \in Nat /\ M <= K
  BY IdsTyped
<1>2. \A i \in M + 1 .. K : inside'[q.ops[i].first].kind = "short"
  <2>1. ASSUME NEW i \in M + 1 .. K PROVE kind = "short"
    <3>. HIDE DEF M, K
    <3>1. M # K
      BY <1>1
    <3>. QED  BY <3>1 DEF M, K
  <2>2. inside'[Len(inside) + 1].kind = kind
    BY DEF Adds, Where
  <2>. QED  BY <2>1, <2>2
<1>3. \A i \in 1 .. M : q.ops[i] = r.ops[i] /\ inside'[q.ops[i].first] = inside[r.ops[i].first]
  BY PlacesBefore
<1>. DEFINE I == {j \in 1 .. M : inside[r.ops[j].first].kind # "short"}
            J == {j \in 1 .. K : inside'[q.ops[j].first].kind # "short"}
<1>4. I = J
  <2>. HIDE DEF M, K
  <2>1. \A j : j \in 1 .. K <=> (j \in 1 .. M \/ j \in M + 1 .. K)
    BY <1>1
  <2>. QED  BY <1>2, <1>3, <2>1
<1>5. \A j \in I : Place(q.ops[j].path, inside'[q.ops[j].first].region)
                     = Place(r.ops[j].path, inside[r.ops[j].first].region)
  BY <1>3
<1>6. Places(r.ops) = {Place(r.ops[i].path, inside[r.ops[i].first].region) : i \in I}
  BY DEF Places
<1>7. Places(q.ops)' = {Place(q.ops[i].path, inside'[q.ops[i].first].region) : i \in J}
  BY DEF Places
<1>. HIDE DEF I, J
<1>. QED  BY <1>4, <1>5, <1>6, <1>7

LEMMA PlacesPushes ==
  ASSUME Lined, NEW r \in ParserStates, Functioned(r), NEW kind, kind # "short",
         Adds(1, kind, 0) \/ \E g : \E m \in {1, 2} : Adds(m, kind, g), NEW q, NEW x \in PlacedOps,
         x.first = Len(inside) + 1, q.ops = Append(r.ops, x)
  PROVE  Places(q.ops)' = Places(r.ops) \union {Place(x.path, Innermost.line)}
<1>. DEFINE M == Len(r.ops)
            N == Len(inside)
<1>a. PICK g : \E m \in {1, 2} : Adds(m, kind, g)
  OBVIOUS
<1>0. PICK m \in {1, 2} : Adds(m, kind, g)
  BY <1>a
<1>1. M \in Nat /\ Len(q.ops) = M + 1 /\ q.ops[M + 1] = x /\ \A i \in 1 .. M : q.ops[i] = r.ops[i]
  BY IdsTyped, AppendIs
<1>2. inside'[x.first].kind = kind /\ inside'[x.first].region = Innermost.line
  BY <1>0 DEF Adds, Where
<1>3. \A i \in 1 .. M : q.ops[i] = r.ops[i] /\ inside'[q.ops[i].first] = inside[r.ops[i].first]
  BY <1>0, <1>1, PlacesBefore
<1>. DEFINE I == {j \in 1 .. M : inside[r.ops[j].first].kind # "short"}
            J == {j \in 1 .. Len(q.ops) : inside'[q.ops[j].first].kind # "short"}
<1>4. J = I \union {M + 1}
  <2>. HIDE DEF M
  <2>1. \A j : j \in 1 .. M + 1 <=> (j \in 1 .. M \/ j = M + 1)
    BY <1>1
  <2>. QED  BY <1>1, <1>2, <1>3, <2>1
<1>5. \A j \in I : Place(q.ops[j].path, inside'[q.ops[j].first].region)
                     = Place(r.ops[j].path, inside[r.ops[j].first].region)
  BY <1>3
<1>6. Places(r.ops) = {Place(r.ops[i].path, inside[r.ops[i].first].region) : i \in I}
  BY DEF Places
<1>7. Places(q.ops)' = {Place(q.ops[i].path, inside'[q.ops[i].first].region) : i \in J}
  BY DEF Places
<1>8. Place(q.ops[M + 1].path, inside'[q.ops[M + 1].first].region) = Place(x.path, Innermost.line)
  BY <1>1, <1>2
<1>. HIDE DEF I, J, M
<1>. QED  BY <1>4, <1>5, <1>6, <1>7, <1>8

\* The operation that comes next is in the innermost region.
LEMMA PathedWith ==
  ASSUME Lined, NEW r \in ParserStates, Scoped(r), Functioned(r), Pathed(r)
  PROVE  Placement(Places(r.ops) \union {Place(r.path, Innermost.line)},
                   r.path, r.counters, OpenLines)
<1>1. r.path \in Seq(Nat) /\ Len(r.path) = Len(opened)
  BY ParserFields DEF Scoped
<1>2. \A x \in Places(r.ops) : x.path \in Seq(Nat)
  BY PlacesTyped
<1>3. Len(OpenLines) = Len(r.path) /\ Ascends(OpenLines, Len(inside)) /\ Len(inside) \in Nat
  BY <1>1, OpenLinesAre, InnermostIs
<1>4. Innermost.line = LineAt(OpenLines, Len(r.path))
  BY <1>1, InnermostIs
<1>. QED  BY <1>1, <1>2, <1>3, <1>4, PlacementAdd DEF Pathed

LEMMA PathedPushes ==
  ASSUME Lined, NEW r \in ParserStates, Scoped(r), Functioned(r), Pathed(r),
         NEW kind, kind # "short", Adds(1, kind, 0), NEW q, NEW x \in PlacedOps,
         x.first = Len(inside) + 1, x.path = r.path, q.ops = Append(r.ops, x),
         q.path = r.path, q.counters = r.counters, opened' = opened
  PROVE  Pathed(q)'
<1>1. Places(q.ops)' = Places(r.ops) \union {Place(r.path, Innermost.line)}
  BY PlacesPushes
<1>2. OpenLines' = OpenLines
  BY DEF OpenLines
<1>3. Placement(Places(q.ops)', q.path, q.counters, OpenLines')
  BY <1>1, <1>2, PathedWith
<1>. QED  BY <1>3 DEF Pathed

LEMMA PathedEnters ==
  ASSUME Lined, NEW r \in ParserStates, Scoped(r), Functioned(r), Pathed(r),
         NEW m \in {1, 2}, NEW kind, kind # "short", NEW g, Adds(m, kind, g), NEW q,
         NEW x \in PlacedOps, x.first = Len(inside) + 1, x.path = r.path,
         q.ops = Append(r.ops, x), Enters(r, q), NEW f, Opens(f), opened' \in Seq(Openings)
  PROVE  Pathed(q)'
<1>. DEFINE places == Places(r.ops) \union {Place(r.path, Innermost.line)}
            N == Len(inside)
            k == Len(opened)
            l == OpenLines'
<1>0. \E h : \E n \in {1, 2} : Adds(n, kind, h)
  OBVIOUS
<1>1. Places(q.ops)' = places
  BY <1>0, PlacesPushes
<1>2. /\ r.path \in Seq(Nat) /\ r.counters \in Seq(Nat) /\ Len(r.path) = k
      /\ Len(r.counters) = k + 1 /\ N + 1 \in Nat /\ k \in Nat
  BY ParserFields, InnermostIs DEF Scoped
<1>3. ASSUME NEW y \in places
      PROVE  y.path \in Seq(Nat) /\ y.region \in Nat /\ y.region < N + 1
  <2>1. CASE y \in Places(r.ops)
    BY <2>1, PlacesTyped
  <2>2. CASE y = Place(r.path, Innermost.line)
    BY <1>2, <2>2, InnermostIs DEF Place
  <2>. QED  BY <2>1, <2>2
<1>4. /\ Len(OpenLines) = k /\ Len(l) = k + 1
      /\ \A d \in 1 .. k : l[d] = OpenLines[d]
  <2>1. Len(opened') = k + 1 /\ DOMAIN OpenLines' = 1 .. k + 1
    BY DEF Opens, OpenLines
  <2>2. Len(OpenLines') = k + 1
    BY <1>2, <2>1
  <2>3. \A d \in 1 .. k + 1 : OpenLines'[d] = opened'[d].line
    BY <2>1 DEF OpenLines
  <2>4. \A d \in 1 .. k : d \in 1 .. k + 1
    BY <1>2
  <2>5. \A d \in 1 .. k : OpenLines'[d] = OpenLines[d]
    BY <2>3, <2>4, OpenLinesAre DEF Opens
  <2>. QED  BY <2>2, <2>5, OpenLinesAre
<1>5. l[k + 1] = N + 1
  <2>1. k + 1 \in 1 .. k + 1 /\ Len(opened') = k + 1
    BY <1>2 DEF Opens
  <2>. QED  BY <2>1 DEF Opens, OpenLines
<1>6. Placement(places, r.path, r.counters, OpenLines)
  BY PathedWith
<1>7. /\ q.path = Append(r.path, r.counters[Len(r.counters)])
      /\ q.counters = Append([r.counters EXCEPT ![Len(r.counters)]
                                = r.counters[Len(r.counters)] + 1], 0)
  BY DEF Enters
<1>. HIDE DEF places, l, N, k
<1>8. /\ Len(OpenLines) = Len(r.path) /\ Len(r.counters) = Len(r.path) + 1
      /\ Len(l) = Len(OpenLines) + 1 /\ \A d \in 1 .. Len(OpenLines) : l[d] = OpenLines[d]
      /\ l[Len(OpenLines) + 1] = N + 1
  BY <1>2, <1>4, <1>5
<1>9. r.path \in Seq(Nat) /\ r.counters \in Seq(Nat) /\ N + 1 \in Nat
  BY <1>2
<1>10. EnterHolds(places, r.path, r.counters, OpenLines, N + 1, q.path, q.counters, l)
  BY <1>3, <1>6, <1>7, <1>8, <1>9 DEF EnterHolds
<1>11. Placement(places, q.path, q.counters, l)
  BY <1>10, PlacementEnter
<1>. QED  BY <1>1, <1>11 DEF Pathed, l

LEMMA PathedStays ==
  ASSUME Lined, NEW r \in ParserStates, Functioned(r), Pathed(r),
         NEW m \in {1, 2}, NEW kind, NEW defines, Adds(m, kind, defines), NEW q \in ParserStates,
         Len(q.ops) >= Len(r.ops), \A i \in 1 .. Len(r.ops) : q.ops[i] = r.ops[i],
         \A i \in Len(r.ops) + 1 .. Len(q.ops) : q.ops[i].first = Len(inside) + 1,
         kind = "short" \/ Len(q.ops) = Len(r.ops),
         q.path = r.path, q.counters = r.counters, opened' = opened
  PROVE  Pathed(q)'
<1>1. Places(q.ops)' = Places(r.ops)
  BY PlacesSame
<1>2. OpenLines' = OpenLines
  BY DEF OpenLines
<1>. QED  BY <1>1, <1>2 DEF Pathed

LEMMA PathedLeaves ==
  ASSUME Lined, NEW r \in ParserStates, Scoped(r), Functioned(r), Pathed(r),
         NEW kind, NEW defines, Adds(1, kind, defines), NEW q \in ParserStates,
         q.ops = r.ops, Leaves(r, q), Closes, opened' \in Seq(Openings)
  PROVE  Pathed(q)'
<1>. DEFINE m == Len(opened')
<1>1. m \in Nat /\ Len(opened) = m + 1 /\ Len(r.path) = m + 1 /\ Len(r.counters) = m + 2
  BY DEF Closes, Scoped
<1>2. /\ Len(q.path) = m
      /\ \A d \in 1 .. m : q.path[d] = r.path[d]
      /\ \A d \in 1 .. m + 1 : q.counters[d] = r.counters[d]
  BY <1>1, LeavesLength
<1>3. \A d \in 1 .. m : OpenLines'[d] = OpenLines[d]
  <2>1. \A d \in 1 .. m : d \in 1 .. Len(opened) /\ opened'[d] = opened[d]
    BY <1>1 DEF Closes
  <2>. QED  BY <2>1 DEF OpenLines
<1>4. Places(q.ops)' = Places(r.ops)
  <2>1. /\ Len(q.ops) >= Len(r.ops) /\ \A i \in 1 .. Len(r.ops) : q.ops[i] = r.ops[i]
        /\ \A i \in Len(r.ops) + 1 .. Len(q.ops) : q.ops[i].first = Len(inside) + 1
        /\ Len(q.ops) = Len(r.ops)
    BY IdsTyped
  <2>2. 1 \in {1, 2}
    OBVIOUS
  <2>. QED  BY <2>1, <2>2, PlacesSame
<1>. HIDE DEF m
<1>5. Placement(Places(r.ops), q.path, q.counters, OpenLines')
  BY <1>1, <1>2, <1>3, PlacementLeave DEF Pathed
<1>. QED  BY <1>4, <1>5 DEF Pathed

-----------------------------------------------------------------------------
(* The numbers of the operations and their places in a walk of the text.     *)

WalkKinds == {"module", "function", "short", "declaration", "op", "call"}

\* The parser's operations of functions keep their numbers.
Numbers(r, q) ==
  /\ Len(r.functions) <= Len(q.functions) /\ Len(r.ops) <= Len(q.ops)
  /\ \A i \in 1 .. Len(r.ops) : q.ops[i] = r.ops[i]
  /\ \A f \in 1 .. Len(r.functions) :
       /\ Len(r.functions[f].ops) <= Len(q.functions[f].ops)
       /\ \A k \in 1 .. Len(r.functions[f].ops) : q.functions[f].ops[k] = r.functions[f].ops[k]

LEMMA SetMore ==
  ASSUME NEW S, NEW n \in Nat, S \subseteq 1 .. n
  PROVE  /\ Cardinality(S) \in Nat /\ Cardinality(S \union {}) = Cardinality(S)
         /\ Cardinality(S \union {n + 1}) = Cardinality(S) + 1
<1>1. IsFiniteSet(S)
  <2>1. IsFiniteSet(1 .. n)
    BY FS_Interval
  <2>. QED  BY <2>1, FS_Subset
<1>2. n + 1 \notin S
  OBVIOUS
<1>. QED  BY <1>1, <1>2, FS_AddElement, FS_CardinalityType

\* What is walked and printed up to a line does not change.
LEMMA WalkBefore ==
  ASSUME Lined, NEW m \in {1, 2}, NEW kind, NEW defines, Adds(m, kind, defines),
         NEW n \in 0 .. Len(inside)
  PROVE  Walked(n)' = Walked(n) /\ Bodies(n)' = Bodies(n) /\ (NoShift(n)' <=> NoShift(n))
<1>1. Len(inside) \in Nat
  BY InnermostIs
<1>2. \A k \in 1 .. n : inside'[k] = inside[k]
  BY <1>1 DEF Adds
<1>3. Walked(n)' = Walked(n)
  BY <1>2 DEF Walked, IsWalked
<1>4. Bodies(n)' = Bodies(n)
  BY <1>2 DEF Bodies
<1>5. NoShift(n)' <=> NoShift(n)
  BY <1>2 DEF NoShift
<1>. QED  BY <1>3, <1>4, <1>5

LEMMA WalkAfter ==
  ASSUME Lined, NEW m \in {1, 2}, NEW kind, NEW defines, Adds(m, kind, defines),
         NEW N, N = Len(inside)
  PROVE  /\ Bodies(N + 1)' = Bodies(N) \union IF kind = "short" THEN {N + 1} ELSE {}
         /\ Walked(N + m)' = Walked(N) \union IF kind \in WalkKinds THEN {N + 1} ELSE {}
         /\ Bodies(N + m)' = Bodies(N) \union IF kind = "short" THEN {N + 1} ELSE {}
         /\ NoShift(N + m)' => NoShift(N) /\ kind \notin ShiftKinds
         /\ Walked(N) \subseteq 1 .. N /\ Bodies(N) \subseteq 1 .. N /\ N \in Nat
<1>1. N \in Nat
  BY InnermostIs
<1>2. \A k \in 1 .. N : inside'[k] = inside[k]
  BY DEF Adds
<1>3. inside'[N + 1].kind = kind /\ \A k \in N + 2 .. N + m : inside'[k].kind = "continued"
  BY DEF Adds, Where
<1>4. \A k : k \in 1 .. N + m <=> (k \in 1 .. N \/ k = N + 1 \/ k \in N + 2 .. N + m)
  BY <1>1
<1>5. \A k : k \in 1 .. N + 1 <=> (k \in 1 .. N \/ k = N + 1)
  BY <1>1
<1>6. /\ \A k : k \in Bodies(N + 1)' <=> k \in 1 .. N + 1 /\ inside'[k].kind = "short"
      /\ \A k : k \in Bodies(N + m)' <=> k \in 1 .. N + m /\ inside'[k].kind = "short"
      /\ \A k : k \in Bodies(N) <=> k \in 1 .. N /\ inside[k].kind = "short"
  BY DEF Bodies
<1>7. /\ Bodies(N + 1)' = Bodies(N) \union IF kind = "short" THEN {N + 1} ELSE {}
      /\ Bodies(N + m)' = Bodies(N) \union IF kind = "short" THEN {N + 1} ELSE {}
  <2>1. CASE kind = "short"
    <3>1. \A k : k \in Bodies(N + 1)' <=> k \in Bodies(N) \/ k = N + 1
      BY <1>2, <1>3, <1>5, <1>6, <2>1
    <3>2. \A k : k \in Bodies(N + m)' <=> k \in Bodies(N) \/ k = N + 1
      BY <1>2, <1>3, <1>4, <1>6, <2>1
    <3>. QED  BY <2>1, <3>1, <3>2
  <2>2. CASE kind # "short"
    <3>1. \A k : k \in Bodies(N + 1)' <=> k \in Bodies(N)
      BY <1>2, <1>3, <1>5, <1>6, <2>2
    <3>2. \A k : k \in Bodies(N + m)' <=> k \in Bodies(N)
      BY <1>2, <1>3, <1>4, <1>6, <2>2
    <3>. QED  BY <2>2, <3>1, <3>2
  <2>. QED  BY <2>1, <2>2
<1>8. Walked(N + m)' = Walked(N) \union IF kind \in WalkKinds THEN {N + 1} ELSE {}
  <2>0. "continued" \notin WalkKinds
    BY DEF WalkKinds
  <2>1. /\ \A k : k \in Walked(N + m)' <=> k \in 1 .. N + m /\ inside'[k].kind \in WalkKinds
        /\ \A k : k \in Walked(N) <=> k \in 1 .. N /\ inside[k].kind \in WalkKinds
    BY DEF Walked, IsWalked, WalkKinds
  <2>2. CASE kind \in WalkKinds
    <3>1. \A k : k \in Walked(N + m)' <=> k \in Walked(N) \/ k = N + 1
      BY <1>2, <1>3, <1>4, <2>0, <2>1, <2>2
    <3>. QED  BY <2>2, <3>1
  <2>3. CASE kind \notin WalkKinds
    <3>1. \A k : k \in Walked(N + m)' <=> k \in Walked(N)
      BY <1>2, <1>3, <1>4, <2>0, <2>1, <2>3
    <3>. QED  BY <2>3, <3>1
  <2>. QED  BY <2>2, <2>3
<1>9. NoShift(N + m)' => NoShift(N) /\ kind \notin ShiftKinds
  <2>1. SUFFICES ASSUME NoShift(N + m)' PROVE NoShift(N) /\ kind \notin ShiftKinds
    OBVIOUS
  <2>2. \A k \in 1 .. N + m : inside'[k].kind \notin ShiftKinds
    BY <2>1 DEF NoShift
  <2>3. \A k \in 1 .. N : inside[k].kind \notin ShiftKinds
    BY <1>2, <1>4, <2>2
  <2>4. N + 1 \in 1 .. N + m
    BY <1>4
  <2>. QED  BY <1>3, <2>2, <2>3, <2>4 DEF NoShift
<1>10. Walked(N) \subseteq 1 .. N /\ Bodies(N) \subseteq 1 .. N
  BY DEF Walked, Bodies
<1>. QED  BY <1>1, <1>7, <1>8, <1>9, <1>10

LEMMA OrdinalIs ==
  ASSUME NEW n
  PROVE  Ordinal(n) = Cardinality(Walked(n - 1)) + Cardinality(Bodies(n))
BY DEF Ordinal, Walked, Bodies

\* Numbers of operations stay those of the walk when lines come that are walked in turn.
LEMMA NumberedStep ==
  ASSUME Lined, NEW r \in ParserStates, Scoped(r), Functioned(r), Numbered(r),
         NEW m \in {1, 2}, NEW kind, NEW defines, Adds(m, kind, defines),
         NEW q \in ParserStates, Numbers(r, q), Functioned(q)',
         kind \notin ShiftKinds => Len(q.ops) = Len(r.ops) + (IF kind \in WalkKinds THEN 1 ELSE 0)
                                                 + (IF kind = "short" THEN 1 ELSE 0),
         defines = 0 \/ defines = Len(r.functions) + 1,
         NEW N, N = Len(inside),
         \A f \in 1 .. Len(q.functions) :
           LET index == Len(r.ops) + IF kind = "short" THEN 2 ELSE 1 IN
           ((kind = "op" /\ f = Innermost.function) \/ (kind = "short" /\ f = defines)) =>
             /\ \E k \in 1 .. Len(q.functions[f].ops) : q.functions[f].ops[k] = index
             /\ q.ops[index].first = Len(inside) + 1
  PROVE  Numbered(q)'
<1>. DEFINE W == Cardinality(Walked(N))
            B == Cardinality(Bodies(N))
<1>1. /\ N \in Nat /\ Len(inside') = N + m /\ Len(r.ops) \in Nat /\ Len(r.functions) \in Nat
      /\ Len(q.ops) \in Nat /\ Len(q.functions) \in Nat
  BY InnermostIs, IdsTyped DEF Adds
<1>. DEFINE a == IF kind \in WalkKinds THEN 1 ELSE 0
            b == IF kind = "short" THEN 1 ELSE 0
<1>2. /\ W \in Nat /\ B \in Nat
      /\ Cardinality(Walked(N + m)') = W + a
      /\ Cardinality(Bodies(N + m)') = B + b
      /\ Cardinality(Bodies(N + 1)') = B + b
  <2>1. Walked(N) \subseteq 1 .. N /\ Bodies(N) \subseteq 1 .. N
    BY WalkAfter
  <2>2. /\ W \in Nat /\ B \in Nat
        /\ Cardinality(Walked(N) \union {}) = W /\ Cardinality(Walked(N) \union {N + 1}) = W + 1
        /\ Cardinality(Bodies(N) \union {}) = B /\ Cardinality(Bodies(N) \union {N + 1}) = B + 1
    BY <1>1, <2>1, SetMore
  <2>3. Cardinality(Walked(N + m)') = W + a
    <3>1. Walked(N + m)' = Walked(N) \union IF kind \in WalkKinds THEN {N + 1} ELSE {}
      BY WalkAfter
    <3>2. CASE kind \in WalkKinds
      <4>1. Walked(N + m)' = Walked(N) \union {N + 1} /\ a = 1
        BY <3>1, <3>2
      <4>. HIDE DEF a
      <4>. QED  BY <2>2, <4>1
    <3>3. CASE kind \notin WalkKinds
      <4>1. Walked(N + m)' = Walked(N) /\ a = 0
        BY <3>1, <3>3
      <4>. HIDE DEF a
      <4>. QED  BY <2>2, <4>1
    <3>. QED  BY <3>2, <3>3
  <2>4. Cardinality(Bodies(N + m)') = B + b /\ Cardinality(Bodies(N + 1)') = B + b
    <3>1. /\ Bodies(N + m)' = Bodies(N) \union IF kind = "short" THEN {N + 1} ELSE {}
          /\ Bodies(N + 1)' = Bodies(N) \union IF kind = "short" THEN {N + 1} ELSE {}
      BY WalkAfter
    <3>2. CASE kind = "short"
      <4>1. /\ Bodies(N + m)' = Bodies(N) \union {N + 1} /\ b = 1
            /\ Bodies(N + 1)' = Bodies(N) \union {N + 1}
        BY <3>1, <3>2
      <4>. HIDE DEF b
      <4>. QED  BY <2>2, <4>1
    <3>3. CASE kind # "short"
      <4>1. Bodies(N + m)' = Bodies(N) /\ Bodies(N + 1)' = Bodies(N) /\ b = 0
        BY <3>1, <3>3
      <4>. HIDE DEF b
      <4>. QED  BY <2>2, <4>1
    <3>. QED  BY <3>2, <3>3
  <2>. QED  BY <2>2, <2>3, <2>4
<1>3. NoShift(N + m)' => NoShift(N) /\ kind \notin ShiftKinds
  BY WalkAfter
<1>4. NoShift(N) => Len(r.ops) = W + B
  BY DEF Numbered
<1>. HIDE DEF W, B
<1>5. NoShift(N + m)' => Len(q.ops) = Cardinality(Walked(N + m)') + Cardinality(Bodies(N + m)')
  <2>1. kind \notin ShiftKinds => Len(q.ops) = Len(r.ops) + a + b
    OBVIOUS
  <2>2. a \in Nat /\ b \in Nat
    OBVIOUS
  <2>3. SUFFICES ASSUME NoShift(N + m)'
                  PROVE  Len(q.ops) = Cardinality(Walked(N + m)') + Cardinality(Bodies(N + m)')
    OBVIOUS
  <2>4. Len(r.ops) = W + B /\ Len(q.ops) = Len(r.ops) + a + b
    BY <1>3, <1>4, <2>1, <2>3
  <2>. HIDE DEF a, b
  <2>5. Len(q.ops) = (W + a) + (B + b)
    BY <1>2, <2>2, <2>4
  <2>. QED  BY <1>2, <2>5
<1>6. ASSUME NEW f \in 1 .. Len(q.functions), NEW n \in LinesIn(f)', NoShift(n - 1)'
      PROVE  /\ \E k \in 1 .. Len(q.functions[f].ops) : q.functions[f].ops[k] = Ordinal(n)' + 1
             /\ q.ops[Ordinal(n)' + 1].first = n
  <2>1. n \in LinesIn(f) \/ (n = N + 1 /\ ((kind = "op" /\ f = Innermost.function)
                                            \/ (kind = "short" /\ f = defines)))
    BY <1>6, LinesGrow
  <2>2. CASE n \in LinesIn(f)
    <3>1. n \in 1 .. N /\ n - 1 \in 0 .. N /\ n \in 0 .. N
      <4>1. n \in 1 .. N
        BY <2>2, LinesInText
      <4>. QED  BY <1>1, <4>1
    <3>2. f \in 1 .. Len(r.functions)
      <4>1. CASE f = Len(r.functions) + 1
        BY <2>2, <4>1, NoLines
      <4>2. CASE f # Len(r.functions) + 1
        <5>1. Defined' = 1 .. Len(q.functions) /\ Defined = 1 .. Len(r.functions)
          BY DEF Functioned
        <5>2. f \in Defined \union ({defines} \ {0})
          BY <5>1, DefinedGrows
        <5>. QED  BY <4>2, <5>1, <5>2
      <4>. QED  BY <4>1, <4>2
    <3>3. Ordinal(n)' = Ordinal(n) /\ NoShift(n - 1)
      <4>1. /\ Walked(n - 1)' = Walked(n - 1) /\ Bodies(n)' = Bodies(n)
            /\ (NoShift(n - 1)' <=> NoShift(n - 1))
        BY <3>1, WalkBefore
      <4>2. Ordinal(n)' = Cardinality(Walked(n - 1)') + Cardinality(Bodies(n)')
        BY DEF Ordinal, Walked, Bodies
      <4>. QED  BY <1>6, <4>1, <4>2, OrdinalIs
    <3>. DEFINE o == Ordinal(n) + 1
    <3>4. /\ \E k \in 1 .. Len(r.functions[f].ops) : r.functions[f].ops[k] = o
          /\ r.ops[o].first = n
      BY <2>2, <3>2, <3>3 DEF Numbered
    <3>. HIDE DEF o
    <3>5. PICK k \in 1 .. Len(r.functions[f].ops) : r.functions[f].ops[k] = o
      BY <3>4
    <3>6. r.functions[f].ops \in Seq(1 .. Len(r.ops)) /\ Len(r.functions[f].ops) \in Nat
      BY <3>2, IdsTyped
    <3>7. o \in 1 .. Len(r.ops)
      <4>. DEFINE ids == r.functions[f].ops
      <4>1. ids \in Seq(1 .. Len(r.ops)) /\ k \in 1 .. Len(ids) /\ ids[k] = o
        BY <3>5, <3>6
      <4>. HIDE DEF ids
      <4>. QED  BY <4>1
    <3>8. q.ops[o] = r.ops[o]
      BY <3>7 DEF Numbers
    <3>9. k \in 1 .. Len(q.functions[f].ops) /\ q.functions[f].ops[k] = o
      <4>1. Len(q.functions[f].ops) \in Nat
        <5>1. q.functions[f].ops \in Seq(1 .. Len(q.ops))
          BY IdsTyped
        <5>. QED  BY <5>1
      <4>2. Len(r.functions[f].ops) <= Len(q.functions[f].ops)
            /\ q.functions[f].ops[k] = r.functions[f].ops[k]
        BY <3>2, <3>5 DEF Numbers
      <4>. QED  BY <3>5, <3>6, <4>1, <4>2
    <3>. QED  BY <3>3, <3>4, <3>8, <3>9 DEF o
  <2>3. CASE n = N + 1 /\ ((kind = "op" /\ f = Innermost.function) \/ (kind = "short" /\ f = defines))
    <3>. DEFINE index == Len(r.ops) + IF kind = "short" THEN 2 ELSE 1
    <3>1. /\ \E k \in 1 .. Len(q.functions[f].ops) : q.functions[f].ops[k] = index
          /\ q.ops[index].first = n
      BY <2>3
    <3>2. n - 1 = N /\ N \in 0 .. N
      BY <1>1, <2>3
    <3>3. Walked(n - 1)' = Walked(N) /\ NoShift(N)
      BY <1>6, <3>2, WalkBefore
    <3>4. Ordinal(n)' = Cardinality(Walked(n - 1)') + Cardinality(Bodies(n)')
      BY DEF Ordinal, Walked, Bodies
    <3>5. Ordinal(n)' = W + (B + b)
      <4>1. Cardinality(Bodies(n)') = B + b
        BY <1>2, <2>3
      <4>2. Cardinality(Walked(n - 1)') = W
        BY <3>3 DEF W
      <4>. HIDE DEF b
      <4>. QED  BY <3>4, <4>1, <4>2
    <3>6. Ordinal(n)' + 1 = index
      <4>1. index = Len(r.ops) + (b + 1) /\ b \in Nat
        BY <1>1
      <4>2. Len(r.ops) = W + B
        BY <1>4, <3>3
      <4>. HIDE DEF b, index
      <4>. QED  BY <1>1, <1>2, <3>5, <4>1, <4>2
    <3>. HIDE DEF index
    <3>. QED  BY <3>1, <3>6
  <2>. QED  BY <2>1, <2>2, <2>3
<1>7. (NoShift(Len(inside)))' =>
        Len(q.ops) = Cardinality((Walked(Len(inside)))') + Cardinality((Bodies(Len(inside)))')
  BY <1>1, <1>5
<1>8. (Numbered(q))' <=>
        /\ (NoShift(Len(inside)))' =>
             Len(q.ops) = Cardinality((Walked(Len(inside)))') + Cardinality((Bodies(Len(inside)))')
        /\ \A f \in 1 .. Len(q.functions) : \A n \in LinesIn(f)' :
             NoShift(n - 1)' => /\ \E k \in 1 .. Len(q.functions[f].ops) :
                                      q.functions[f].ops[k] = Ordinal(n)' + 1
                               /\ q.ops[Ordinal(n)' + 1].first = n
  BY DEF Numbered
<1>. QED  BY <1>6, <1>7, <1>8

-----------------------------------------------------------------------------
(* What is read after lines of each kind.                                    *)

\* An operation is appended to the function that is open and to no other.
LEMMA NumbersPushes ==
  ASSUME NEW r \in ParserStates, NEW q, NEW x \in PlacedOps, Pushes(r, q, x)
  PROVE  /\ Numbers(r, q) /\ Len(q.ops) = Len(r.ops) + 1 /\ q.ops[Len(r.ops) + 1] = x
         /\ q.ops # <<>>
         /\ \A f \in 1 .. Len(q.functions) : f = r.scope.function =>
              \E k \in 1 .. Len(q.functions[f].ops) : q.functions[f].ops[k] = Len(r.ops) + 1
<1>. DEFINE M == Len(r.ops)
<1>1. /\ M \in Nat /\ Len(q.ops) = M + 1 /\ q.ops[M + 1] = x
      /\ \A i \in 1 .. M : q.ops[i] = r.ops[i]
      /\ Len(q.functions) = Len(r.functions) /\ Len(r.functions) \in Nat
  BY IdsTyped, AppendIs DEF Pushes
<1>2. ASSUME NEW f \in 1 .. Len(r.functions)
      PROVE  /\ Len(r.functions[f].ops) <= Len(q.functions[f].ops)
             /\ \A k \in 1 .. Len(r.functions[f].ops) : q.functions[f].ops[k] = r.functions[f].ops[k]
             /\ f = r.scope.function =>
                  \E k \in 1 .. Len(q.functions[f].ops) : q.functions[f].ops[k] = M + 1
  <2>. DEFINE ids == r.functions[f].ops
              new == q.functions[f].ops
  <2>1. ids \in Seq(Nat) /\ Len(ids) \in Nat
    <3>1. ids \in Seq(1 .. M) /\ 1 .. M \subseteq Nat
      BY <1>1, IdsTyped
    <3>2. ids \in Seq(Nat)
      BY <3>1, SeqMonotonic
    <3>. QED  BY <3>2
  <2>2. new = IF f = r.scope.function THEN Append(ids, M + 1) ELSE ids
    BY DEF Pushes
  <2>. HIDE DEF ids, new, M
  <2>3. CASE f = r.scope.function
    <3>1. /\ Len(new) = Len(ids) + 1 /\ new[Len(ids) + 1] = M + 1
          /\ \A k \in 1 .. Len(ids) : new[k] = ids[k]
      BY <1>1, <2>1, <2>2, <2>3, AppendIs
    <3>2. Len(ids) + 1 \in 1 .. Len(new) /\ Len(ids) <= Len(new)
      BY <2>1, <3>1
    <3>. QED  BY <3>1, <3>2 DEF ids, new
  <2>4. CASE f # r.scope.function
    <3>1. new = ids
      BY <2>2, <2>4
    <3>. QED  BY <2>1, <2>4, <3>1 DEF ids, new
  <2>. QED  BY <2>3, <2>4
<1>3. q.ops # <<>>
  BY <1>1
<1>4. Numbers(r, q)
  <2>1. Len(r.functions) <= Len(q.functions) /\ Len(r.ops) <= Len(q.ops)
    BY <1>1
  <2>. QED  BY <1>1, <1>2, <2>1 DEF Numbers
<1>5. \A f \in 1 .. Len(q.functions) : f = r.scope.function =>
        \E k \in 1 .. Len(q.functions[f].ops) : q.functions[f].ops[k] = Len(r.ops) + 1
  <2>. HIDE DEF M
  <2>. QED  BY <1>1, <1>2 DEF M
<1>. QED  BY <1>1, <1>3, <1>4, <1>5

\* What is known of the operation that a line is read as.
ReadAs(r, x, kind) ==
  /\ x \in PlacedOps /\ x.first = Len(inside) + 1 /\ x.path = r.path
  /\ kind = "op" => ~IsOpaque(x)
  /\ kind = "else" => IsOpaque(x)
  /\ kind \in {"module", "declaration", "alias"} => r.scope = NoScope

LEMMA NumberedPushes ==
  ASSUME Lined, NEW r \in ParserStates, Scoped(r), Functioned(r), Numbered(r),
         NEW kind \in {"module", "declaration", "op", "else", "alias"}, Adds(1, kind, 0),
         NEW q \in ParserStates, NEW x, ReadAs(r, x, kind), Pushes(r, q, x)
  PROVE  Numbered(q)' /\ Functioned(q)'
<1>1. x \in PlacedOps /\ x.first = Len(inside) + 1
  BY DEF ReadAs
<1>2. Functioned(q)'
  BY <1>1, FunctionedPushes DEF ReadAs
<1>3. /\ Numbers(r, q) /\ Len(q.ops) = Len(r.ops) + 1 /\ q.ops[Len(r.ops) + 1] = x
      /\ \A f \in 1 .. Len(q.functions) : f = r.scope.function =>
           \E k \in 1 .. Len(q.functions[f].ops) : q.functions[f].ops[k] = Len(r.ops) + 1
  <2>1. r \in ParserStates /\ x \in PlacedOps /\ Pushes(r, q, x)
    BY <1>1
  <2>. QED  BY ONLY <2>1, NumbersPushes
<1>4. PICK N : N = Len(inside)
  OBVIOUS
<1>5. kind # "short" /\ Innermost.function = r.scope.function /\ 1 \in {1, 2}
  BY ScopeIsOpen
<1>6. kind \notin ShiftKinds => Len(q.ops) = Len(r.ops) + (IF kind \in WalkKinds THEN 1 ELSE 0)
                                               + (IF kind = "short" THEN 1 ELSE 0)
  <2>1. kind \notin ShiftKinds => kind \in WalkKinds
    BY DEF WalkKinds, ShiftKinds
  <2>2. Len(r.ops) \in Nat
    BY IdsTyped
  <2>. QED  BY <1>3, <1>5, <2>1, <2>2
<1>7. \A f \in 1 .. Len(q.functions) :
        LET index == Len(r.ops) + IF kind = "short" THEN 2 ELSE 1 IN
        ((kind = "op" /\ f = Innermost.function) \/ (kind = "short" /\ f = 0)) =>
          /\ \E k \in 1 .. Len(q.functions[f].ops) : q.functions[f].ops[k] = index
          /\ q.ops[index].first = Len(inside) + 1
  BY <1>1, <1>3, <1>5
<1>8. Numbered(q)'
  BY <1>2, <1>3, <1>4, <1>5, <1>6, <1>7, NumberedStep
<1>. QED  BY <1>2, <1>8

LEMMA ReadingPushes ==
  ASSUME Lined, NEW r \in ParserStates, Reading(r),
         NEW kind \in {"declaration", "op", "else", "alias"}, Adds(1, kind, 0),
         NEW q \in ParserStates, NEW x, ReadAs(r, x, kind), Pushes(r, q, x),
         q.path = r.path, q.counters = r.counters, q.scope = r.scope, opened' = opened
  PROVE  Reading(q)'
<1>1. /\ x \in PlacedOps /\ x.first = Len(inside) + 1 /\ x.path = r.path
      /\ q.ops = Append(r.ops, x) /\ Len(q.functions) = Len(r.functions)
  BY DEF ReadAs, Pushes
<1>2. Scoped(r) /\ Functioned(r) /\ Shorts(r) /\ Pathed(r) /\ Numbered(r)
  BY DEF Reading
<1>3. q.ops # <<>> /\ Len(q.functions) >= Len(r.functions)
  BY <1>1, NumbersPushes, IdsTyped
<1>4. Scoped(q)'
  BY <1>2, <1>3, ScopedStays
<1>5. Functioned(q)' /\ Numbered(q)'
  BY <1>2, NumberedPushes
<1>6. Shorts(q)'
  BY <1>2, ShortsPushes
<1>7. Pathed(q)'
  BY <1>1, <1>2, PathedPushes
<1>. QED  BY <1>4, <1>5, <1>6, <1>7 DEF Reading

LEMMA ReadingOpens ==
  ASSUME Lined, NEW r \in ParserStates, Reading(r),
         NEW kind \in {"module", "op"}, Adds(1, kind, 0),
         NEW q \in ParserStates, NEW x, ReadAs(r, x, kind), Pushes(r, q, x),
         Enters(r, q), q.scope = r.scope, Opens(r.scope.function), opened' \in Seq(Openings)
  PROVE  Reading(q)'
<1>1. /\ x \in PlacedOps /\ x.first = Len(inside) + 1 /\ x.path = r.path
      /\ q.ops = Append(r.ops, x) /\ Len(q.functions) = Len(r.functions)
  BY DEF ReadAs, Pushes
<1>2. Scoped(r) /\ Functioned(r) /\ Shorts(r) /\ Pathed(r) /\ Numbered(r)
  BY DEF Reading
<1>3. q.ops # <<>>
  BY <1>1, NumbersPushes
<1>4. Scoped(q)'
  BY <1>1, <1>2, <1>3, ScopedEnters
<1>5. Functioned(q)' /\ Numbered(q)'
  BY <1>2, NumberedPushes
<1>6. Shorts(q)'
  BY <1>2, ShortsPushes
<1>7. 1 \in {1, 2} /\ kind # "short"
  OBVIOUS
<1>8. Pathed(q)'
  BY <1>1, <1>2, <1>7, PathedEnters
<1>. QED  BY <1>4, <1>5, <1>6, <1>8 DEF Reading

\* A function more keeps the numbers of the operations before.
LEMMA NumbersDefines ==
  ASSUME NEW r \in ParserStates, NEW q \in ParserStates, NEW name, NEW ids,
         Defines(r, q, name, ids), Len(r.ops) <= Len(q.ops),
         \A i \in 1 .. Len(r.ops) : q.ops[i] = r.ops[i]
  PROVE  Numbers(r, q)
<1>1. Len(r.functions) \in Nat /\ Len(q.functions) = Len(r.functions) + 1
  BY IdsTyped DEF Defines
<1>2. \A f \in 1 .. Len(r.functions) : q.functions[f].ops = r.functions[f].ops
  BY DEF Defines
<1>3. \A f \in 1 .. Len(r.functions) : Len(r.functions[f].ops) \in Nat
  <2>1. ASSUME NEW f \in 1 .. Len(r.functions) PROVE Len(r.functions[f].ops) \in Nat
    <3>1. r.functions[f].ops \in Seq(1 .. Len(r.ops))
      BY IdsTyped
    <3>. QED  BY <3>1
  <2>. QED  BY <2>1
<1>. QED  BY <1>1, <1>2, <1>3 DEF Numbers

LEMMA ReadingDefines ==
  ASSUME Lined, NEW r \in ParserStates, Reading(r), ~InFunction, r.scope = NoScope,
         NEW m \in {1, 2}, NEW g \in NextName, Adds(m, "function", g),
         NEW q \in ParserStates, NEW x \in PlacedOps, x.first = Len(inside) + 1, x.path = r.path,
         q.ops = Append(r.ops, x), Defines(r, q, Symbols[g], <<>>), Enters(r, q),
         q.scope = [function |-> Len(r.functions) + 1, depth |-> Len(r.path) + 1],
         Opens(g), opened' \in Seq(Openings)
  PROVE  Reading(q)'
<1>2. Scoped(r) /\ Functioned(r) /\ Shorts(r) /\ Pathed(r) /\ Numbered(r)
  BY DEF Reading
<1>3. g = Len(r.functions) + 1 /\ g \in FunctionNames
  BY <1>2, NextNameIs
<1>4. /\ Len(r.ops) \in Nat /\ Len(q.ops) = Len(r.ops) + 1 /\ q.ops[Len(r.ops) + 1] = x
      /\ \A i \in 1 .. Len(r.ops) : q.ops[i] = r.ops[i]
      /\ Len(q.functions) = Len(r.functions) + 1
  BY IdsTyped, AppendIs DEF Defines
<1>5. /\ q.ops # <<>> /\ Len(r.ops) <= Len(q.ops) /\ Len(q.ops) >= Len(r.ops)
      /\ \A i \in Len(r.ops) + 1 .. Len(q.ops) : q.ops[i].first = Len(inside) + 1
  BY <1>4
<1>6. Scoped(q)'
  BY <1>2, <1>3, <1>4, <1>5, ScopedFunction
<1>. DEFINE kind == "function"
<1>7. kind \in {"function", "short"} /\ kind \notin {"short", "op"}
      /\ Adds(m, kind, g) /\ kind \in WalkKinds
  BY DEF WalkKinds
<1>. HIDE DEF kind
<1>8. Listed(q.ops, <<>>, IF kind = "short" THEN {Len(inside) + 1} ELSE {})
  BY <1>7, ListedNone
<1>9. Functioned(q)'
  BY <1>2, <1>3, <1>4, <1>5, <1>7, <1>8, FunctionedDefines
<1>10. Shorts(q)'
  <2>1. q.scope.function = IF kind = "short" THEN 0 ELSE g
    BY <1>3, <1>7
  <2>2. kind = "short" => Len(<<>>) = 1
    BY <1>7
  <2>. QED  BY <1>2, <1>3, <1>7, <2>1, <2>2, ShortsDefines
<1>11. Pathed(q)'
  BY <1>2, <1>7, PathedEnters
<1>12. Numbered(q)'
  <2>1. Numbers(r, q)
    BY <1>4, <1>5, NumbersDefines
  <2>2. kind \notin ShiftKinds => Len(q.ops) = Len(r.ops) + (IF kind \in WalkKinds THEN 1 ELSE 0)
                                                 + (IF kind = "short" THEN 1 ELSE 0)
    <3>1. kind # "short" /\ kind \in WalkKinds
      BY <1>7
    <3>2. Len(r.ops) + 1 + 0 = Len(r.ops) + 1
      BY <1>4
    <3>. QED  BY <1>4, <3>1, <3>2
  <2>3. \A f \in 1 .. Len(q.functions) :
          LET index == Len(r.ops) + IF kind = "short" THEN 2 ELSE 1 IN
          ((kind = "op" /\ f = Innermost.function) \/ (kind = "short" /\ f = g)) =>
            /\ \E k \in 1 .. Len(q.functions[f].ops) : q.functions[f].ops[k] = index
            /\ q.ops[index].first = Len(inside) + 1
    BY <1>7
  <2>4. PICK N : N = Len(inside)
    OBVIOUS
  <2>. QED  BY <1>2, <1>3, <1>7, <1>9, <2>1, <2>2, <2>3, <2>4, NumberedStep
<1>. QED  BY <1>6, <1>9, <1>10, <1>11, <1>12 DEF Reading

LEMMA ReadingShort ==
  ASSUME Lined, NEW r \in ParserStates, Reading(r), ~InFunction, r.scope = NoScope,
         NEW g \in NextName, Adds(1, "short", g), NEW q \in ParserStates,
         NEW x \in PlacedOps, x.first = Len(inside) + 1,
         NEW y \in PlacedOps, y.first = Len(inside) + 1, ~IsOpaque(y),
         q.ops = Append(Append(r.ops, x), y), Defines(r, q, Symbols[g], <<Len(r.ops) + 2>>),
         q.path = r.path, q.counters = r.counters, q.scope = r.scope, opened' = opened
  PROVE  Reading(q)'
<1>. DEFINE M == Len(r.ops)
<1>1. Scoped(r) /\ Functioned(r) /\ Shorts(r) /\ Pathed(r) /\ Numbered(r)
  BY DEF Reading
<1>2. g = Len(r.functions) + 1 /\ g \in FunctionNames /\ Len(r.functions) \in Nat
  BY <1>1, NextNameIs, IdsTyped
<1>3. /\ M \in Nat /\ Len(q.ops) = M + 2 /\ q.ops[M + 1] = x /\ q.ops[M + 2] = y
      /\ \A i \in 1 .. M : q.ops[i] = r.ops[i]
  <2>. DEFINE u == Append(r.ops, x)
  <2>1. /\ M \in Nat /\ u \in Seq(PlacedOps) /\ Len(u) = M + 1 /\ u[M + 1] = x
        /\ \A i \in 1 .. M : u[i] = r.ops[i]
    BY IdsTyped, AppendIs
  <2>. HIDE DEF u, M
  <2>2. /\ Len(q.ops) = Len(u) + 1 /\ q.ops[Len(u) + 1] = y
        /\ \A i \in 1 .. Len(u) : q.ops[i] = u[i]
    BY <2>1, AppendIs DEF u
  <2>3. (M + 1) + 1 = M + 2 /\ M + 1 \in 1 .. M + 1 /\ \A i \in 1 .. M : i \in 1 .. M + 1
    BY <2>1
  <2>. QED  BY <2>1, <2>2, <2>3
<1>4. /\ q.ops # <<>> /\ M <= Len(q.ops) /\ Len(q.ops) >= M
      /\ \A i \in M + 1 .. Len(q.ops) : q.ops[i].first = Len(inside) + 1
  <2>. HIDE DEF M
  <2>1. \A i \in M + 1 .. M + 2 : i = M + 1 \/ i = M + 2
    BY <1>3
  <2>2. q.ops # <<>>
    BY <1>3
  <2>. QED  BY <1>3, <2>1, <2>2
<1>5. Len(q.functions) = Len(r.functions) + 1 /\ Len(q.functions) >= Len(r.functions)
  BY <1>2 DEF Defines
<1>6. Scoped(q)'
  BY <1>1, <1>4, <1>5, ScopedStays
<1>. DEFINE kind == "short"
            ids == <<M + 2>>
<1>7. /\ kind \in {"function", "short"} /\ kind # "op" /\ kind = "short"
      /\ Adds(1, kind, g) /\ kind \in WalkKinds /\ 1 \in {1, 2}
  BY DEF WalkKinds
<1>8. Listed(q.ops, ids, IF kind = "short" THEN {Len(inside) + 1} ELSE {})
  <2>1. ~IsOpaque(q.ops[M + 2]) /\ q.ops[M + 2].first = Len(inside) + 1
    BY <1>3
  <2>2. Listed(q.ops, <<M + 2>>, {Len(inside) + 1})
    BY <2>1, ListedOne
  <2>. QED  BY <2>2
<1>9. Defines(r, q, Symbols[g], ids) /\ Len(ids) = 1 /\ ids[1] = M + 2
  OBVIOUS
<1>. HIDE DEF kind, ids
<1>10. Functioned(q)'
  BY <1>1, <1>2, <1>4, <1>3, <1>7, <1>8, <1>9, FunctionedDefines
<1>11. Shorts(q)'
  <2>1. q.scope.function = IF kind = "short" THEN 0 ELSE g
    BY <1>7 DEF NoScope
  <2>. QED  BY <1>1, <1>2, <1>7, <1>9, <2>1, ShortsDefines
<1>12. Pathed(q)'
  BY <1>1, <1>3, <1>4, <1>7, PathedStays
<1>13. Numbered(q)'
  <2>1. Numbers(r, q)
    BY <1>3, <1>4, <1>9, NumbersDefines
  <2>2. kind \notin ShiftKinds => Len(q.ops) = Len(r.ops) + (IF kind \in WalkKinds THEN 1 ELSE 0)
                                                 + (IF kind = "short" THEN 1 ELSE 0)
    <3>1. M + 1 + 1 = M + 2
      BY <1>3
    <3>. QED  BY <1>3, <1>7, <3>1
  <2>3. ASSUME NEW f \in 1 .. Len(q.functions), f = g
        PROVE  /\ \E k \in 1 .. Len(q.functions[f].ops) : q.functions[f].ops[k] = M + 2
               /\ q.ops[M + 2].first = Len(inside) + 1
    <3>1. q.functions[f].ops = ids
      BY <1>2, <1>9, <2>3 DEF Defines
    <3>2. 1 \in 1 .. Len(ids)
      BY <1>9
    <3>. QED  BY <1>3, <1>9, <3>1, <3>2
  <2>4. \A f \in 1 .. Len(q.functions) :
          LET index == Len(r.ops) + IF kind = "short" THEN 2 ELSE 1 IN
          ((kind = "op" /\ f = Innermost.function) \/ (kind = "short" /\ f = g)) =>
            /\ \E k \in 1 .. Len(q.functions[f].ops) : q.functions[f].ops[k] = index
            /\ q.ops[index].first = Len(inside) + 1
    BY <1>7, <2>3
  <2>5. PICK N : N = Len(inside)
    OBVIOUS
  <2>6. /\ Scoped(r) /\ Functioned(r) /\ Numbered(r) /\ Functioned(q)'
        /\ g = Len(r.functions) + 1 /\ Adds(1, kind, g) /\ 1 \in {1, 2}
        /\ r \in ParserStates /\ q \in ParserStates /\ Lined
    BY <1>1, <1>2, <1>7, <1>10
  <2>. QED  BY ONLY <2>1, <2>2, <2>4, <2>5, <2>6, NumberedStep
<1>. QED  BY <1>6, <1>10, <1>11, <1>12, <1>13 DEF Reading

\* Lines that are no operations keep all numbers.
LEMMA NumberedStays ==
  ASSUME Lined, NEW r \in ParserStates, Scoped(r), Functioned(r), Numbered(r),
         NEW kind \in {"label", "close", "call", "alias"}, Adds(1, kind, 0),
         NEW q \in ParserStates,
         SameFunctions(r, q), q.ops = r.ops
  PROVE  Functioned(q)' /\ Numbered(q)'
<1>1. Functioned(q)'
  BY FunctionedStays
<1>2. Numbers(r, q)
  <2>1. /\ Len(q.functions) = Len(r.functions) /\ Len(r.functions) \in Nat /\ Len(r.ops) \in Nat
        /\ \A f \in 1 .. Len(r.functions) : q.functions[f].ops = r.functions[f].ops
    BY IdsTyped DEF SameFunctions
  <2>2. ASSUME NEW f \in 1 .. Len(r.functions) PROVE Len(r.functions[f].ops) \in Nat
    <3>1. r.functions[f].ops \in Seq(1 .. Len(r.ops))
      BY IdsTyped
    <3>. QED  BY <3>1
  <2>. QED  BY <2>1, <2>2 DEF Numbers
<1>3. /\ kind \notin {"op", "short"} /\ 1 \in {1, 2}
      /\ kind \notin ShiftKinds => kind \notin WalkKinds
  BY DEF WalkKinds, ShiftKinds
<1>4. kind \notin ShiftKinds => Len(q.ops) = Len(r.ops) + (IF kind \in WalkKinds THEN 1 ELSE 0)
                                               + (IF kind = "short" THEN 1 ELSE 0)
  <2>1. Len(r.ops) + 0 + 0 = Len(r.ops)
    BY IdsTyped
  <2>. QED  BY <1>3, <2>1
<1>5. \A f \in 1 .. Len(q.functions) :
        LET index == Len(r.ops) + IF kind = "short" THEN 2 ELSE 1 IN
        ((kind = "op" /\ f = Innermost.function) \/ (kind = "short" /\ f = 0)) =>
          /\ \E k \in 1 .. Len(q.functions[f].ops) : q.functions[f].ops[k] = index
          /\ q.ops[index].first = Len(inside) + 1
  BY <1>3
<1>6. PICK N : N = Len(inside)
  OBVIOUS
<1>. QED  BY <1>1, <1>2, <1>3, <1>4, <1>5, <1>6, NumberedStep

LEMMA ReadingStays ==
  ASSUME Lined, NEW r \in ParserStates, Reading(r), NEW kind \in {"label", "call", "alias"},
         Adds(1, kind, 0), opened' = opened, text # <<>>
  PROVE  Reading(r)'
<1>1. Scoped(r) /\ Functioned(r) /\ Shorts(r) /\ Pathed(r) /\ Numbered(r)
  BY DEF Reading
<1>2. SameFunctions(r, r) /\ r.ops # <<>> /\ 1 \in {1, 2}
  BY <1>1 DEF SameFunctions, Scoped
<1>3. Len(r.functions) \in Nat /\ Len(r.ops) \in Nat
  BY IdsTyped
<1>4. Scoped(r)'
  BY <1>1, <1>2, <1>3, ScopedStays
<1>5. Functioned(r)' /\ Numbered(r)'
  BY <1>1, <1>2, NumberedStays
<1>6. Shorts(r)'
  BY <1>1, <1>2, ShortsStays
<1>7. Pathed(r)'
  BY <1>1, <1>2, <1>3, PathedStays
<1>. QED  BY <1>4, <1>5, <1>6, <1>7 DEF Reading

LEMMA ReadingLeaves ==
  ASSUME Lined, NEW r \in ParserStates, Reading(r), Adds(1, "close", 0), text # <<>>,
         NEW q \in ParserStates, Leaves(r, q), q.ops = r.ops, SameFunctions(r, q),
         q.scope = IF r.scope # NoScope /\ Len(Pop(r.path)) < r.scope.depth THEN NoScope
                   ELSE r.scope,
         Closes, opened' \in Seq(Openings)
  PROVE  Reading(q)'
<1>1. Scoped(r) /\ Functioned(r) /\ Shorts(r) /\ Pathed(r) /\ Numbered(r)
  BY DEF Reading
<1>2. Len(q.functions) = Len(r.functions) /\ q.scope.function \in {r.scope.function, 0}
  BY DEF SameFunctions, NoScope
<1>3. Scoped(q)'
  BY <1>1, <1>2, ScopedLeaves
<1>4. Functioned(q)' /\ Numbered(q)'
  BY <1>1, NumberedStays
<1>5. Shorts(q)'
  BY <1>1, <1>2, ShortsStays
<1>6. Pathed(q)'
  BY <1>1, PathedLeaves
<1>. QED  BY <1>3, <1>4, <1>5, <1>6 DEF Reading

-----------------------------------------------------------------------------
(* What is read after each action.                                           *)

LEMMA ReadTyped ==
  ASSUME TextsInv
  PROVE  Read \in ParserStates
<1>1. text \in Seq(Lines)
  BY DEF TextsInv
<1>2. Assemble(text) \in Seq(Statements)
  BY <1>1, AssembleTyped
<1>. QED  BY <1>2, EndTyped DEF Read

\* What is read after the step, as a constant.
LEMMA ReadNext ==
  ASSUME NEW q, q = Read', Reading(q)'
  PROVE  ParserInv'
<1>1. Reading(Read)' <=> Reading(q)'
  BY DEF Reading, Scoped, Functioned, Shorts, Pathed, Numbered
<1>. QED  BY <1>1 DEF ParserInv

\* Lines that are a statement of their own, and a line that continues the last.
Starting(l, m) ==
  /\ Assemble(text') = Append(Assemble(text), StatementOf(l, Len(text) + 1, Len(text) + m))
  /\ Assemble(text) \in Seq(Statements)
  /\ StatementOf(l, Len(text) + 1, Len(text) + m) \in Statements
Joining(st, j) ==
  LET front == Front(Assemble(text)) IN
  /\ Assemble(text) = Append(front, st) /\ Assemble(text') = Append(front, j)
  /\ front \in Seq(Statements) /\ st \in Statements /\ j \in Statements
LastIs      == Last(Assemble(text))
LastWith(l) == StatementOf(Join(LastIs.line, l), LastIs.first, Len(text) + 1)

LEMMA OneLine ==
  ASSUME TextsInv, NEW l \in Lines, NEW kind, NEW defines, Emit(<<l>>, kind, defines)
  PROVE  text' = Append(text, l) /\ text \in Seq(Lines)
<1>1. text \in Seq(Lines) /\ text' = text \o <<l>>
  BY DEF TextsInv, Emit
<1>2. text \o <<l>> = Append(text, l)
  BY <1>1
<1>. QED  BY <1>1, <1>2

LEMMA StartsOne ==
  ASSUME TextsInv, NEW l \in Lines, l.starts \/ text = <<>>, NEW kind, NEW defines,
         Emit(<<l>>, kind, defines)
  PROVE  Starting(l, 1)
<1>1. text' = Append(text, l) /\ text \in Seq(Lines)
  BY OneLine
<1>. QED  BY <1>1, AssembleStart DEF Starting

LEMMA StartsTwo ==
  ASSUME TextsInv, NEW f \in FunctionNames, NEW kind, NEW defines,
         Emit(<<Declaration(f), Attributes>>, kind, defines)
  PROVE  Starting(FunctionLine(f), 2)
<1>1. text \in Seq(Lines) /\ Declaration(f) \in Lines /\ Attributes \in Lines
  BY LinesTyped DEF TextsInv
<1>2. text' = Append(Append(text, Declaration(f)), Attributes)
  <2>1. text' = text \o <<Declaration(f), Attributes>>
    BY DEF Emit
  <2>. DEFINE d == Declaration(f)
              a == Attributes
  <2>2. d \in Lines /\ a \in Lines
    BY <1>1
  <2>3. text' = text \o <<d, a>>
    BY <2>1
  <2>. HIDE DEF d, a
  <2>4. text \o <<d, a>> = Append(Append(text, d), a)
    BY <1>1, <2>2
  <2>. QED  BY <2>3, <2>4 DEF d, a
<1>. QED  BY <1>1, <1>2, AssembleFunction DEF Starting

LEMMA JoinsOne ==
  ASSUME TextsInv, Ending, text # <<>>, NEW l \in Lines, ~l.starts, NEW kind, NEW defines,
         Emit(<<l>>, kind, defines)
  PROVE  Joining(LastIs, LastWith(l))
<1>1. text' = Append(text, l) /\ text \in Seq(Lines)
  BY OneLine
<1>2. Assemble(text) # <<>>
  BY DEF Ending
<1>. QED  BY <1>1, <1>2, AssembleJoin DEF Joining, LastIs, LastWith

LEMMA ReadStarts ==
  ASSUME NEW l, NEW m, Starting(l, m)
  PROVE  Read' = ParseStatement(Read, StatementOf(l, Len(text) + 1, Len(text) + m))
<1>. DEFINE st == StatementOf(l, Len(text) + 1, Len(text) + m)
<1>1. /\ Assemble(text') = Append(Assemble(text), st) /\ Assemble(text) \in Seq(Statements)
      /\ st \in Statements
  BY DEF Starting
<1>2. Read' = EndOf(Assemble(text'))
  BY DEF Read
<1>. HIDE DEF st
<1>3. EndOf(Append(Assemble(text), st)) = ParseStatement(EndOf(Assemble(text)), st)
  BY <1>1, EndOfStep
<1>. QED  BY <1>1, <1>2, <1>3 DEF Read, st

\* The operation of a line.
LEMMA PlacedIs ==
  ASSUME NEW r \in ParserStates, NEW l \in Lines, NEW first \in Nat, NEW last \in Nat
  PROVE  LET x == Placed(ReadOp(l), r.path, StatementOf(l, first, last))
             y == Placed(l.op, r.path, StatementOf(l, first, last))
         IN /\ x \in PlacedOps /\ x.first = first /\ x.path = r.path
            /\ IsOpaque(x) <=> ReadOp(l).name = "opaque"
            /\ y \in PlacedOps /\ y.first = first /\ y.path = r.path
            /\ StatementOf(l, first, last) \in Statements
<1>. DEFINE st == StatementOf(l, first, last)
<1>1. st \in Statements /\ st.first = first
  BY DEF StatementOf, Statements
<1>2. ReadOp(l) \in Forms /\ l.op \in Forms /\ r.path \in Seq(Nat)
  BY ReadOpTyped, ParserFields DEF Lines
<1>. HIDE DEF st
<1>3. Placed(ReadOp(l), r.path, st) \in PlacedOps /\ Placed(l.op, r.path, st) \in PlacedOps
  BY <1>1, <1>2, PlacedTyped
<1>4. /\ Placed(ReadOp(l), r.path, st).first = first /\ Placed(ReadOp(l), r.path, st).path = r.path
      /\ Placed(ReadOp(l), r.path, st).name = ReadOp(l).name
      /\ Placed(l.op, r.path, st).first = first /\ Placed(l.op, r.path, st).path = r.path
  BY <1>1 DEF Placed
<1>. QED  BY <1>1, <1>3, <1>4 DEF IsOpaque, st

LEMMA OpenOpens ==
  ASSUME Lined, NEW kind \in OpenKinds, NEW function \in Nat, Open(kind, function),
         kind = "function" => function # 0
  PROVE  Opens(function) /\ opened' \in Seq(Openings) /\ Innermost'.kind = kind
<1>. DEFINE x == [kind |-> kind, line |-> Len(text) + 1, function |-> function]
<1>1. opened \in Seq(Openings) /\ Len(text) = Len(inside) /\ Len(text) \in Nat
  BY InnermostIs DEF Lined
<1>2. /\ x \in Openings /\ x.line = Len(text) + 1 /\ x.function = function
      /\ x.kind = kind
  BY <1>1 DEF Openings
<1>3. opened' = Append(opened, x)
  BY DEF Open
<1>. HIDE DEF x
<1>4. /\ opened' \in Seq(Openings) /\ Len(opened') = Len(opened) + 1
      /\ opened'[Len(opened) + 1] = x
      /\ \A d \in 1 .. Len(opened) : opened'[d] = opened[d]
  BY <1>1, <1>2, <1>3, AppendIs
<1>5. opened' # <<>> /\ Last(opened') = x
  BY <1>1, <1>2, <1>3, FrontIs
<1>. QED  BY <1>1, <1>2, <1>4, <1>5 DEF Opens, Innermost

LEMMA CloseCloses ==
  ASSUME Lined, opened # <<>>, opened' = Front(opened)
  PROVE  Closes /\ opened' \in Seq(Openings)
<1>1. opened \in Seq(Openings)
  BY DEF Lined
<1>2. PICK n \in Nat : Len(opened) = n + 1
  <2>1. Len(opened) \in Nat /\ Len(opened) # 0
    BY <1>1
  <2>. QED  BY <2>1
<1>3. opened' = SubSeq(opened, 1, n)
  BY <1>2 DEF Front
<1>4. SubSeq(opened, 1, n) \in Seq(Openings) /\ Len(SubSeq(opened, 1, n)) = n
  <2>1. 1 \in 1 .. Len(opened) + 1 /\ n \in 1 - 1 .. Len(opened) /\ n - 1 + 1 = n
    BY <1>2
  <2>. QED  BY <1>1, <2>1, SubSeqProperties
<1>5. \A d \in 1 .. n : SubSeq(opened, 1, n)[d] = opened[d]
  BY <1>1, <1>2
<1>. QED  BY <1>2, <1>3, <1>4, <1>5 DEF Closes

\* A line that is printed and the statement it is read as.
LEMMA LineIsRead ==
  ASSUME TextsInv, Lined, NEW l \in Lines, l.starts \/ text = <<>>,
         NEW kind \in LineKinds, NEW defines \in Nat, Emit(<<l>>, kind, defines),
         NEW r, r = Read, NEW n, n = Len(inside) + 1,
         NEW q, q = ParseStatement(r, StatementOf(l, n, n))
  PROVE  /\ r \in ParserStates /\ q \in ParserStates /\ q = Read' /\ n \in Nat
         /\ StatementOf(l, n, n) \in Statements /\ Adds(1, kind, defines)
         /\ StatementOf(l, n, n).line = l
<1>1. n = Len(text) + 1 /\ n \in Nat
  BY InnermostIs DEF Lined
<1>2. r \in ParserStates /\ q = Read'
  BY <1>1, ReadTyped, StartsOne, ReadStarts
<1>3. StatementOf(l, n, n) \in Statements /\ StatementOf(l, n, n).line = l
  BY <1>1 DEF StatementOf, Statements
<1>4. q \in ParserStates
  BY <1>2, <1>3, ParseStatementTyped
<1>5. Adds(1, kind, defines)
  <2>1. <<l>> \in Seq(Lines) /\ <<l>> # <<>> /\ Len(<<l>>) = 1
    OBVIOUS
  <2>2. Adds(Len(<<l>>), kind, defines)
    BY <2>1, EmitAdds
  <2>. QED  BY <2>1, <2>2
<1>. QED  BY <1>1, <1>2, <1>3, <1>4, <1>5

\* A line that is one operation.
LEMMA StepsOver ==
  ASSUME TextsInv, Lined, Reading(Read), NEW l \in Lines,
         l.starts \/ text = <<>>, ~l.bare, l.delta = 0, ~IsShort(l),
         NEW kind \in {"declaration", "op", "else", "alias"}, Emit(<<l>>, kind, 0),
         kind = "op" => ReadOp(l).name # "opaque",
         kind = "else" => ReadOp(l).name = "opaque",
         kind \in {"declaration", "alias"} => Read.scope = NoScope, opened' = opened
  PROVE  ParserInv'
<1>1. PICK r : r = Read
  OBVIOUS
<1>2. PICK n : n = Len(inside) + 1
  OBVIOUS
<1>3. PICK st : st = StatementOf(l, n, n)
  OBVIOUS
<1>4. PICK q : q = ParseStatement(r, st)
  OBVIOUS
<1>5. PICK x : x = Placed(ReadOp(l), r.path, st)
  OBVIOUS
<1>6. kind \in LineKinds /\ 0 \in Nat
  BY DEF LineKinds
<1>7. /\ r \in ParserStates /\ q \in ParserStates /\ q = Read' /\ n \in Nat
      /\ st \in Statements /\ Adds(1, kind, 0) /\ st.line = l
  BY <1>1, <1>2, <1>3, <1>4, <1>6, LineIsRead
<1>8. /\ x \in PlacedOps /\ x.first = n /\ x.path = r.path
      /\ IsOpaque(x) <=> ReadOp(l).name = "opaque"
  BY <1>3, <1>5, <1>7, PlacedIs
<1>9. Pushes(r, q, x) /\ q.path = r.path /\ q.counters = r.counters /\ q.scope = r.scope
  <2>1. /\ ~st.line.bare /\ st.line.delta = 0 /\ ~IsShort(st.line)
        /\ x = Placed(ReadOp(st.line), r.path, st)
    BY <1>5, <1>7
  <2>. QED  BY <1>4, <1>7, <2>1, OpStep
<1>10. ReadAs(r, x, kind)
  BY <1>1, <1>2, <1>8 DEF ReadAs
<1>11. Reading(q)'
  BY <1>1, <1>7, <1>9, <1>10, ReadingPushes
<1>. QED  BY <1>7, <1>11, ReadNext

\* An operation with a region, or the module.
LEMMA StepsIn ==
  ASSUME TextsInv, Lined, Reading(Read), NEW l \in Lines,
         l.starts, ~l.bare, l.delta = 1, l.symbol = NoSymbol,
         NEW kind \in {"module", "op"}, Emit(<<l>>, kind, 0),
         kind = "op" => ReadOp(l).name # "opaque",
         kind = "module" => Read.scope = NoScope,
         NEW what \in {"module", "region"}, Open(what, Read.scope.function)
  PROVE  ParserInv'
<1>1. PICK r : r = Read
  OBVIOUS
<1>2. PICK n : n = Len(inside) + 1
  OBVIOUS
<1>3. PICK st : st = StatementOf(l, n, n)
  OBVIOUS
<1>4. PICK q : q = ParseStatement(r, st)
  OBVIOUS
<1>5. PICK x : x = Placed(ReadOp(l), r.path, st)
  OBVIOUS
<1>6. kind \in LineKinds /\ 0 \in Nat
  BY DEF LineKinds
<1>7. /\ r \in ParserStates /\ q \in ParserStates /\ q = Read' /\ n \in Nat
      /\ st \in Statements /\ Adds(1, kind, 0) /\ st.line = l
  BY <1>1, <1>2, <1>3, <1>4, <1>6, LineIsRead
<1>8. /\ x \in PlacedOps /\ x.first = n /\ x.path = r.path
      /\ IsOpaque(x) <=> ReadOp(l).name = "opaque"
  BY <1>3, <1>5, <1>7, PlacedIs
<1>9. Pushes(r, q, x) /\ Enters(r, q) /\ q.scope = r.scope
  <2>1. ~st.line.bare /\ st.line.delta = 1 /\ st.line.symbol = NoSymbol
        /\ x = Placed(ReadOp(st.line), r.path, st)
    BY <1>5, <1>7
  <2>2. Len(r.counters) # 0
    BY <1>1, InnermostIs DEF Reading, Scoped
  <2>. QED  BY <1>4, <1>7, <2>1, <2>2, RegionStep
<1>10. ReadAs(r, x, kind)
  BY <1>1, <1>2, <1>8 DEF ReadAs
<1>11. Opens(r.scope.function) /\ opened' \in Seq(Openings)
  <2>1. r.scope.function \in Nat /\ what \in OpenKinds
    BY <1>7 DEF ParserStates, OpenKinds
  <2>. QED  BY <1>1, <2>1, OpenOpens
<1>12. Reading(q)'
  BY <1>1, <1>7, <1>9, <1>10, <1>11, ReadingOpens
<1>. QED  BY <1>7, <1>12, ReadNext

\* A function, which may be two lines.
LEMMA StepsDefine ==
  ASSUME TextsInv, Lined, Reading(Read), Read.scope = NoScope, ~InFunction,
         NEW f \in NextName, NEW m \in {1, 2}, Adds(m, "function", f),
         NEW l \in Lines, ~l.closes, ~l.bare, l.delta = 1, l.symbol = Symbols[f],
         Read' = ParseStatement(Read, StatementOf(l, Len(text) + 1, Len(text) + m)),
         Open("function", f)
  PROVE  ParserInv'
<1>1. PICK r : r = Read
  OBVIOUS
<1>2. PICK n : n = Len(inside) + 1
  OBVIOUS
<1>3. PICK st : st = StatementOf(l, n, Len(text) + m)
  OBVIOUS
<1>4. PICK q : q = ParseStatement(r, st)
  OBVIOUS
<1>5. PICK x : x = Placed(l.op, r.path, st)
  OBVIOUS
<1>6. n = Len(text) + 1 /\ n \in Nat /\ Len(text) + m \in Nat
  BY <1>2, InnermostIs DEF Lined
<1>7. r \in ParserStates /\ q = Read' /\ Reading(r)
  BY <1>1, <1>3, <1>4, <1>6, ReadTyped
<1>8. x \in PlacedOps /\ x.first = n /\ x.path = r.path /\ st \in Statements
  BY <1>3, <1>5, <1>6, <1>7, PlacedIs
<1>9. st.line = l
  BY <1>3 DEF StatementOf
<1>10. q \in ParserStates
  BY <1>4, <1>7, <1>8, ParseStatementTyped
<1>11. f \in FunctionNames /\ f \in Nat /\ f # 0 /\ Symbols[f] # NoSymbol
  BY EngineAssumption DEF NextName
<1>12. /\ q.ops = Append(r.ops, x) /\ Defines(r, q, Symbols[f], <<>>) /\ Enters(r, q)
       /\ q.scope = [function |-> Len(r.functions) + 1, depth |-> Len(r.path) + 1]
  <2>1. /\ ~st.line.closes /\ ~st.line.bare /\ st.line.delta = 1 /\ st.line.symbol = Symbols[f]
        /\ st.line.symbol # NoSymbol /\ x = Placed(st.line.op, r.path, st) /\ r.scope = NoScope
    BY <1>1, <1>5, <1>9, <1>11
  <2>2. Len(r.counters) # 0
    BY <1>7, InnermostIs DEF Reading, Scoped
  <2>. QED  BY <1>4, <1>7, <1>8, <2>1, <2>2, FunctionStep
<1>13. Opens(f) /\ opened' \in Seq(Openings)
  BY <1>11, OpenOpens DEF OpenKinds
<1>14. Reading(q)'
  <2>1. x.first = Len(inside) + 1 /\ r.scope = NoScope
    BY <1>1, <1>2, <1>8
  <2>. QED  BY <1>7, <1>8, <1>10, <1>12, <1>13, <2>1, ReadingDefines
<1>. QED  BY <1>7, <1>14, ReadNext

\* A function on one line.
LEMMA StepsShort ==
  ASSUME TextsInv, Lined, Reading(Read), Read.scope = NoScope, ~InFunction,
         NEW f \in NextName, NEW op \in Forms, op.name # "opaque",
         NEW l \in Lines, l.starts, ~l.closes, ~l.bare, l.delta = 0, l.symbol = Symbols[f],
         l.braced, l.inner = <<op>>, Emit(<<l>>, "short", f), opened' = opened
  PROVE  ParserInv'
<1>1. PICK r : r = Read
  OBVIOUS
<1>2. PICK n : n = Len(inside) + 1
  OBVIOUS
<1>3. PICK st : st = StatementOf(l, n, n)
  OBVIOUS
<1>4. PICK q : q = ParseStatement(r, st)
  OBVIOUS
<1>5. PICK x : x = Placed(l.op, r.path, st)
  OBVIOUS
<1>6. PICK y : y = Placed(op, <<>>, st)
  OBVIOUS
<1>7. f \in FunctionNames /\ f \in Nat /\ Symbols[f] # NoSymbol /\ "short" \in LineKinds
  BY EngineAssumption DEF NextName, LineKinds
<1>8. /\ r \in ParserStates /\ q \in ParserStates /\ q = Read' /\ n \in Nat
      /\ st \in Statements /\ Adds(1, "short", f) /\ st.line = l
  BY <1>1, <1>2, <1>3, <1>4, <1>7, LineIsRead
<1>9. x \in PlacedOps /\ x.first = n /\ x.path = r.path
  BY <1>3, <1>5, <1>8, PlacedIs
<1>10. y \in PlacedOps /\ y.first = n /\ ~IsOpaque(y)
  <2>1. <<>> \in Seq(Nat) /\ st.first = n
    BY <1>3 DEF StatementOf
  <2>2. y \in PlacedOps
    BY <1>6, <1>8, <2>1, PlacedTyped
  <2>3. y.name = op.name /\ y.first = n
    BY <1>6, <2>1 DEF Placed
  <2>. QED  BY <2>2, <2>3 DEF IsOpaque
<1>11. /\ q.ops = Append(Append(r.ops, x), y)
       /\ Defines(r, q, Symbols[f], <<Len(r.ops) + 2>>)
       /\ q.path = r.path /\ q.counters = r.counters /\ q.scope = r.scope
  <2>1. /\ ~st.line.closes /\ ~st.line.bare /\ st.line.delta = 0 /\ st.line.symbol = Symbols[f]
        /\ st.line.symbol # NoSymbol /\ st.line.braced /\ st.line.inner = <<op>>
        /\ x = Placed(st.line.op, r.path, st) /\ r.scope = NoScope
    BY <1>1, <1>5, <1>7, <1>8
  <2>2. LET z == ParseStatement(r, st) IN
        /\ z.ops = Append(Append(r.ops, Placed(st.line.op, r.path, st)), Placed(op, <<>>, st))
        /\ Defines(r, z, st.line.symbol, <<Len(r.ops) + 2>>)
        /\ z.path = r.path /\ z.counters = r.counters /\ z.scope = r.scope
    BY <1>8, <2>1, ShortStep
  <2>. QED  BY <1>4, <1>6, <2>1, <2>2
<1>12. Reading(q)'
  <2>1. x.first = Len(inside) + 1 /\ y.first = Len(inside) + 1 /\ r.scope = NoScope /\ Reading(r)
    BY <1>1, <1>2, <1>9, <1>10
  <2>. QED  BY <1>8, <1>9, <1>10, <1>11, <2>1, ReadingShort
<1>. QED  BY <1>8, <1>12, ReadNext

\* A label.
LEMMA StepsLabel ==
  ASSUME TextsInv, Lined, Reading(Read), text # <<>>, NEW l \in Lines,
         l.starts, ~l.closes, l.bare, l.delta = 0, Emit(<<l>>, "label", 0), opened' = opened
  PROVE  ParserInv'
<1>1. PICK r : r = Read
  OBVIOUS
<1>2. PICK n : n = Len(inside) + 1
  OBVIOUS
<1>3. PICK st : st = StatementOf(l, n, n)
  OBVIOUS
<1>4. PICK q : q = ParseStatement(r, st)
  OBVIOUS
<1>5. "label" \in LineKinds /\ 0 \in Nat
  BY DEF LineKinds
<1>6. /\ r \in ParserStates /\ q = Read' /\ st \in Statements /\ Adds(1, "label", 0)
      /\ st.line = l
  BY <1>1, <1>2, <1>3, <1>4, <1>5, LineIsRead
<1>7. q = r
  BY <1>4, <1>6, LabelStep
<1>8. Reading(r)'
  BY <1>1, <1>6, ReadingStays
<1>. QED  BY <1>6, <1>7, <1>8, ReadNext

\* A closing brace.
LEMMA StepsOut ==
  ASSUME TextsInv, Lined, Reading(Read), opened # <<>>, opened' = Front(opened),
         NEW l \in Lines, l.starts, l.closes, l.delta = -1, Emit(<<l>>, "close", 0)
  PROVE  ParserInv'
<1>1. PICK r : r = Read
  OBVIOUS
<1>2. PICK n : n = Len(inside) + 1
  OBVIOUS
<1>3. PICK st : st = StatementOf(l, n, n)
  OBVIOUS
<1>4. PICK q : q = ParseStatement(r, st)
  OBVIOUS
<1>5. "close" \in LineKinds /\ 0 \in Nat
  BY DEF LineKinds
<1>6. /\ r \in ParserStates /\ q \in ParserStates /\ q = Read'
      /\ st \in Statements /\ Adds(1, "close", 0) /\ st.line = l
  BY <1>1, <1>2, <1>3, <1>4, <1>5, LineIsRead
<1>7. Closes /\ opened' \in Seq(Openings)
  BY CloseCloses
<1>8. text # <<>>
  BY DEF Lined
<1>9. /\ Leaves(r, q) /\ q.ops = r.ops /\ SameFunctions(r, q)
      /\ q.scope = IF r.scope # NoScope /\ Len(Pop(r.path)) < r.scope.depth THEN NoScope
                   ELSE r.scope
  BY <1>4, <1>6, CloseStep
<1>10. Reading(q)'
  BY <1>1, <1>6, <1>7, <1>8, <1>9, ReadingLeaves
<1>. QED  BY <1>6, <1>10, ReadNext

\* What is read before anything is printed.
LEMMA ReadNothing == Init => Lined /\ Ending /\ Reading(StartOfText) /\ Read = StartOfText
<1>. SUFFICES ASSUME Init PROVE Lined /\ Ending /\ Reading(StartOfText) /\ Read = StartOfText
  OBVIOUS
<1>1. text = <<>> /\ inside = <<>> /\ opened = <<>> /\ Len(<<>>) = 0
  BY DEF Init
<1>2. Read = StartOfText
  <2>1. <<>> \in Seq(Statements)
    OBVIOUS
  <2>2. PICK h : EndRun(h, ParserStates, <<>>)
    BY <2>1, EndRuns
  <2>3. EndOf(<<>>) = StartOfText
    BY <1>1, <2>2 DEF EndRun
  <2>. QED  BY <1>1, <2>3, AssembleNone DEF Read
<1>3. Lined /\ Ending
  BY <1>1, AssembleNone DEF Lined, Ending
<1>4. /\ StartOfText.ops = <<>> /\ StartOfText.functions = <<>> /\ StartOfText.path = <<>>
      /\ StartOfText.counters = <<0>> /\ StartOfText.scope = NoScope
  BY DEF StartOfText
<1>5. Scoped(StartOfText)
  BY <1>1, <1>4 DEF Scoped
<1>6. Functioned(StartOfText)
  <2>1. Defined = {}
    BY <1>1 DEF Defined
  <2>. QED  BY <1>1, <1>4, <2>1 DEF Functioned
<1>7. Shorts(StartOfText)
  BY <1>1 DEF Shorts
<1>8. Pathed(StartOfText)
  <2>1. Places(<<>>) = {}
    BY <1>1 DEF Places
  <2>2. Len(OpenLines) = 0
    BY <1>1 DEF OpenLines
  <2>. QED  BY <1>1, <1>4, <2>1, <2>2 DEF Pathed, Placement
<1>9. Numbered(StartOfText)
  <2>1. Walked(0) = {} /\ Bodies(0) = {}
    BY DEF Walked, Bodies
  <2>2. Cardinality({}) = 0
    BY FS_EmptySet
  <2>3. Len(inside) = 0 /\ Len(StartOfText.ops) = 0 /\ Len(StartOfText.functions) = 0
    BY <1>1, <1>4
  <2>4. Len(StartOfText.ops) = Cardinality(Walked(Len(inside))) + Cardinality(Bodies(Len(inside)))
    BY <2>1, <2>2, <2>3
  <2>. QED  BY <2>3, <2>4 DEF Numbered
<1>. QED  BY <1>2, <1>3, <1>5, <1>6, <1>7, <1>8, <1>9 DEF Reading

\* The lines that are printed.
LEMMA LinesAre ==
  /\ \A op \in OpForms :
       LET l == OpLine(op) IN
       /\ l \in Lines /\ l.starts /\ ~l.closes /\ ~l.bare /\ l.delta = 0 /\ ~IsShort(l)
       /\ ReadOp(l).name # "opaque"
  /\ \A op \in Carriers :
       LET l == RegionLine(op) IN
       /\ l \in Lines /\ l.starts /\ ~l.bare /\ l.delta = 1 /\ l.symbol = NoSymbol
       /\ ReadOp(l).name # "opaque"
  /\ \A f \in FunctionNames :
       LET l == FunctionLine(f) IN
       /\ l \in Lines /\ l.starts /\ ~l.bare /\ l.delta = 1 /\ ~l.closes /\ l.symbol = Symbols[f]
       /\ Continuable(l)
  /\ \A f \in FunctionNames, op \in Carriers :
       LET l == ShortLine(f, op) IN
       /\ l \in Lines /\ l.starts /\ ~l.bare /\ l.delta = 0 /\ ~l.closes /\ l.symbol = Symbols[f]
       /\ l.braced /\ l.inner = <<op>>
<1>1. \A op \in OpForms : op.name # "opaque" /\ op \in Forms
  BY EngineAssumption, FormsTyped
<1>2. Carriers \subseteq OpForms
  BY EngineAssumption
<1>3. ASSUME NEW op \in OpForms
      PROVE  LET l == OpLine(op) IN
             /\ l \in Lines /\ l.starts /\ ~l.closes /\ ~l.bare /\ l.delta = 0 /\ ~IsShort(l)
             /\ ReadOp(l).name # "opaque"
  <2>1. OpLine(op) \in Lines
    BY LinesTyped
  <2>. QED  BY <1>1, <2>1 DEF OpLine, Opaque, ReadOp, IsShort
<1>4. ASSUME NEW op \in Carriers
      PROVE  LET l == RegionLine(op) IN
             /\ l \in Lines /\ l.starts /\ ~l.bare /\ l.delta = 1 /\ l.symbol = NoSymbol
             /\ ReadOp(l).name # "opaque"
  <2>1. RegionLine(op) \in Lines
    BY <1>2, LinesTyped
  <2>. QED  BY <1>1, <1>2, <2>1 DEF RegionLine, Opaque, ReadOp
<1>5. ASSUME NEW f \in FunctionNames
      PROVE  LET l == FunctionLine(f) IN
             /\ l \in Lines /\ l.starts /\ ~l.bare /\ l.delta = 1 /\ ~l.closes
             /\ l.symbol = Symbols[f] /\ Continuable(l)
  <2>1. FunctionLine(f) \in Lines /\ Symbols[f] # NoSymbol
    BY LinesTyped, EngineAssumption
  <2>. QED  BY <2>1 DEF FunctionLine, Opaque, Continuable
<1>6. ASSUME NEW f \in FunctionNames, NEW op \in Carriers
      PROVE  LET l == ShortLine(f, op) IN
             /\ l \in Lines /\ l.starts /\ ~l.bare /\ l.delta = 0 /\ ~l.closes
             /\ l.symbol = Symbols[f] /\ l.braced /\ l.inner = <<op>>
  <2>1. ShortLine(f, op) \in Lines
    BY LinesTyped
  <2>. QED  BY <2>1 DEF ShortLine, Declaration, Opaque
<1>. QED  BY <1>3, <1>4, <1>5, <1>6

\* The lines of declarations and calls, and those calls that start no statement.
LEMMA CallsAre ==
  ASSUME NEW l \in Referring \union {Opaque(0)}
  PROVE  /\ l \in Lines /\ l.starts /\ ~l.closes /\ ~l.bare /\ l.delta = 0
         /\ ReadOp(l).name # "opaque"
         /\ LET c == [l EXCEPT !.starts = FALSE] IN c \in Lines /\ ~c.starts /\ c.delta = 0
<1>1. l \in Lines /\ [l EXCEPT !.starts = FALSE] \in Lines
  BY LinesTyped
<1>2. l.starts /\ ~l.closes /\ ~l.bare /\ l.delta = 0 /\ l.op.name = "structure"
  <2>1. CASE l = Opaque(0)
    BY <2>1 DEF Opaque, OpaqueOp
  <2>2. ASSUME NEW f \in Callees, l = Declaration(f)
        PROVE  l.starts /\ ~l.closes /\ ~l.bare /\ l.delta = 0 /\ l.op.name = "structure"
    BY <2>2 DEF Declaration, Opaque, OpaqueOp
  <2>3. ASSUME NEW f \in Callees, NEW op \in Carriers, l = ShortLine(f, op)
        PROVE  l.starts /\ ~l.closes /\ ~l.bare /\ l.delta = 0 /\ l.op.name = "structure"
    BY <2>3 DEF ShortLine, Declaration, Opaque, OpaqueOp
  <2>. QED  BY <2>1, <2>2, <2>3 DEF Referring
<1>3. LET c == [l EXCEPT !.starts = FALSE] IN ~c.starts /\ c.delta = 0
  BY <1>1, <1>2 DEF Lines
<1>. QED  BY <1>1, <1>2, <1>3 DEF ReadOp

LEMMA BracesAre ==
  /\ /\ ModuleLine \in Lines /\ ModuleLine.starts /\ ~ModuleLine.bare /\ ModuleLine.delta = 1
     /\ ModuleLine.symbol = NoSymbol
  /\ /\ LabelLine \in Lines /\ LabelLine.starts /\ ~LabelLine.closes /\ LabelLine.bare
     /\ LabelLine.delta = 0
  /\ CloseLine \in Lines /\ CloseLine.starts /\ CloseLine.closes /\ CloseLine.delta = -1
  /\ /\ ElseLine \in Lines /\ ElseLine.starts /\ ~ElseLine.bare /\ ElseLine.delta = 0
     /\ ~IsShort(ElseLine) /\ ReadOp(ElseLine).name = "opaque"
  /\ /\ AliasLine \in Lines /\ ~AliasLine.starts /\ ~AliasLine.closes /\ ~AliasLine.bare
     /\ AliasLine.delta = 0 /\ ~IsShort(AliasLine) /\ ReadOp(AliasLine).name = "opaque"
<1>1. /\ ModuleLine \in Lines /\ LabelLine \in Lines /\ CloseLine \in Lines /\ ElseLine \in Lines
      /\ AliasLine \in Lines
  BY LinesTyped
<1>. QED
  BY <1>1 DEF ModuleLine, LabelLine, CloseLine, ElseLine, AliasLine, Opaque, ReadOp, OpaqueOp,
              IsShort

-----------------------------------------------------------------------------
(* The lines and the end of what is printed.                                 *)

LEMMA RangeMore ==
  ASSUME NEW S, NEW a \in Seq(S), NEW x \in S
  PROVE  Range(Append(a, x)) = Range(a) \union {x}
<1>1. /\ DOMAIN a = 1 .. Len(a) /\ DOMAIN Append(a, x) = 1 .. Len(a) + 1 /\ Len(a) \in Nat
      /\ Append(a, x)[Len(a) + 1] = x
      /\ \A i \in 1 .. Len(a) : Append(a, x)[i] = a[i]
  BY AppendIs
<1>. DEFINE b == Append(a, x)
            n == Len(a)
<1>. HIDE DEF b, n
<1>2. \A i : i \in 1 .. n + 1 <=> (i \in 1 .. n \/ i = n + 1)
  BY <1>1 DEF n
<1>3. /\ Range(b) = {b[i] : i \in 1 .. n + 1} /\ Range(a) = {a[i] : i \in 1 .. n}
      /\ b[n + 1] = x /\ \A i \in 1 .. n : b[i] = a[i]
  BY <1>1 DEF Range, b, n
<1>. QED  BY <1>2, <1>3 DEF b

LEMMA EmittedOne ==
  ASSUME TextsInv, Lined, NEW l \in Lines, NEW kind \in LineKinds, NEW defines \in Nat,
         Emit(<<l>>, kind, defines)
  PROVE  Adds(1, kind, defines)
<1>1. <<l>> \in Seq(Lines) /\ <<l>> # <<>> /\ Len(<<l>>) = 1
  OBVIOUS
<1>2. Adds(Len(<<l>>), kind, defines)
  BY <1>1, EmitAdds
<1>. QED  BY <1>1, <1>2

LEMMA FunctionEmitted ==
  ASSUME TextsInv, Lined, NEW f \in NextName,
         \/ Emit(<<FunctionLine(f)>>, "function", f)
         \/ Emit(<<Declaration(f), Attributes>>, "function", f)
  PROVE  \E m \in {1, 2} : Starting(FunctionLine(f), m) /\ Adds(m, "function", f)
<1>1. f \in FunctionNames /\ f \in Nat /\ "function" \in LineKinds
  BY EngineAssumption DEF NextName, LineKinds
<1>. DEFINE l == FunctionLine(f)
<1>2. l \in Lines /\ l.starts
  BY <1>1, LinesAre
<1>3. CASE Emit(<<l>>, "function", f)
  <2>. HIDE DEF l
  <2>1. Adds(1, "function", f) /\ Starting(l, 1)
    BY <1>1, <1>2, <1>3, EmittedOne, StartsOne
  <2>. QED  BY <2>1 DEF l
<1>4. CASE Emit(<<Declaration(f), Attributes>>, "function", f)
  <2>. DEFINE d == Declaration(f)
              a == Attributes
  <2>1. d \in Lines /\ a \in Lines
    BY <1>1, LinesTyped
  <2>2. Emit(<<d, a>>, "function", f)
    BY <1>4
  <2>3. Starting(l, 2)
    BY <1>1, <1>4, StartsTwo
  <2>. HIDE DEF l, d, a
  <2>4. <<d, a>> \in Seq(Lines) /\ <<d, a>> # <<>> /\ Len(<<d, a>>) = 2
    BY <2>1
  <2>5. Adds(Len(<<d, a>>), "function", f)
    BY <1>1, <2>2, <2>4, EmitAdds
  <2>6. 2 \in {1, 2} /\ Adds(2, "function", f)
    BY <2>4, <2>5
  <2>. QED  BY <2>3, <2>6 DEF l
<1>. QED  BY <1>3, <1>4

\* What is kept of the last statement when a line continues it.
LEMMA LastKeeps ==
  ASSUME Ending, text # <<>>, NEW l \in Lines, l.delta = 0,
         NEW st, st = LastIs, NEW j, j = LastWith(l), Joining(st, j)
  PROVE  /\ j.first = st.first /\ st.first \in 1 .. Len(text)
         /\ j.line.closes = st.line.closes /\ j.line.bare = st.line.bare
         /\ j.line.delta = st.line.delta /\ j.line.op.name = st.line.op.name
         /\ st.line.symbol # NoSymbol => j.line.symbol = st.line.symbol
         /\ IsShort(st.line) => IsShort(j.line)
         /\ Continuable(st.line) => Continuable(j.line)
<1>. DEFINE front == Front(Assemble(text))
<1>1. /\ Assemble(text) = Append(front, st) /\ front \in Seq(Statements) /\ st \in Statements
      /\ j \in Statements
  BY DEF Joining
<1>. HIDE DEF front
<1>2. j.line = Join(st.line, l) /\ j.first = st.first
  BY DEF LastWith, StatementOf
<1>3. st.first \in 1 .. Len(text)
  <2>1. Len(front) + 1 \in 1 .. Len(Assemble(text)) /\ Assemble(text)[Len(front) + 1] = st
    BY <1>1, AppendIs
  <2>. QED  BY <2>1 DEF Ending
<1>4. st.line \in Lines /\ st.line.delta \in Int
  BY <1>1 DEF Statements, Lines
<1>5. /\ j.line.closes = st.line.closes /\ j.line.bare = st.line.bare
      /\ j.line.delta = st.line.delta + l.delta /\ j.line.op.name = st.line.op.name
      /\ j.line.symbol = (IF st.line.symbol = NoSymbol THEN l.symbol ELSE st.line.symbol)
      /\ j.line.braced = (st.line.braced \/ l.braced)
  <2>. DEFINE o == st.line
  <2>1. o \in Lines /\ j.line = Join(o, l)
    BY <1>2, <1>4
  <2>. HIDE DEF o
  <2>2. /\ j.line.closes = o.closes /\ j.line.bare = o.bare /\ j.line.delta = o.delta + l.delta
        /\ j.line.op.name = o.op.name /\ j.line.braced = (o.braced \/ l.braced)
        /\ j.line.symbol = (IF o.symbol = NoSymbol THEN l.symbol ELSE o.symbol)
    BY <2>1, JoinedTyped
  <2>. QED  BY <2>2 DEF o
<1>6. j.line.delta = st.line.delta
  BY <1>4, <1>5
<1>. QED  BY <1>2, <1>3, <1>5, <1>6 DEF IsShort, Continuable

\* A statement more: the end is right if the statement is, and what was misread remains.
LEMMA StartingEnds ==
  ASSUME Lined, Ending, NEW m \in {1, 2}, NEW kind, NEW defines, Adds(m, kind, defines),
         NEW l, Starting(l, m),
         (Innermost'.kind = "function" \/ OnlyAliases') => kind # "short" /\ Continuable(l),
         OnlyAliases' => opened' = <<>>
  PROVE  Ending' /\ (Misread => Misread')
<1>. DEFINE a  == Assemble(text)
            b  == Assemble(text')
            N  == Len(text)
            st == StatementOf(l, N + 1, N + m)
<1>1. /\ N \in Nat /\ Len(inside) = N /\ Len(text') = N + m /\ inside'[N + 1].kind = kind
      /\ \A n \in 1 .. N : inside'[n] = inside[n]
  BY InnermostIs DEF Lined, Adds, Where
<1>2. st.line = l /\ st.first = N + 1
  BY DEF StatementOf
<1>3. b = Append(a, st) /\ a \in Seq(Statements) /\ st \in Statements
  BY DEF Starting
<1>4. \A i \in 1 .. Len(a) : a[i].first \in 1 .. N
  BY DEF Ending
<1>. HIDE DEF a, b, N, st
<1>5. /\ Len(a) \in Nat /\ Len(b) = Len(a) + 1 /\ b[Len(a) + 1] = st
      /\ \A i \in 1 .. Len(a) : b[i] = a[i]
  BY <1>3, AppendIs
<1>6. b # <<>> /\ Last(b) = st
  BY <1>3, FrontIs
<1>7. \A i \in 1 .. Len(b) : b[i].first \in 1 .. N + m
  <2>1. \A i \in 1 .. Len(a) + 1 : i \in 1 .. Len(a) \/ i = Len(a) + 1
    BY <1>5
  <2>2. N + 1 \in 1 .. N + m /\ \A i \in 1 .. N : i \in 1 .. N + m
    BY <1>1
  <2>. QED  BY <1>2, <1>4, <1>5, <2>1, <2>2
<1>8. Ending'
  BY <1>1, <1>2, <1>6, <1>7 DEF Ending, b
<1>9. Range(b) = Range(a) \union {st}
  BY <1>3, RangeMore
<1>10. \A x \in Range(a) : x.first \in 1 .. N
  BY <1>3, <1>4 DEF Range
<1>11. Misread => Misread'
  BY <1>1, <1>9, <1>10 DEF Misread, a, b
<1>. QED  BY <1>8, <1>11

\* The last statement continued.
LEMMA JoiningEnds ==
  ASSUME Lined, Ending, NEW kind, NEW defines, Adds(1, kind, defines), text # <<>>,
         NEW l \in Lines, l.delta = 0, Joining(LastIs, LastWith(l)),
         Innermost.kind = "function" \/ OnlyAliases, OnlyAliases' => opened' = <<>>
  PROVE  Ending' /\ (Misread => Misread')
<1>0. PICK st : st = LastIs
  OBVIOUS
<1>a. PICK j : j = LastWith(l)
  OBVIOUS
<1>. DEFINE a  == Assemble(text)
            b  == Assemble(text')
            N  == Len(text)
            front == Front(a)
<1>1. /\ N \in Nat /\ Len(inside) = N /\ Len(text') = N + 1
      /\ \A n \in 1 .. N : inside'[n] = inside[n] /\ n \in 1 .. N + 1
  BY InnermostIs DEF Lined, Adds
<1>b. Joining(st, j)
  BY <1>0, <1>a
<1>2. /\ a = Append(front, st) /\ b = Append(front, j) /\ front \in Seq(Statements)
      /\ st \in Statements /\ j \in Statements
  BY <1>b DEF Joining
<1>3. /\ j.first = st.first /\ st.first \in 1 .. N /\ j.line.closes = st.line.closes
      /\ j.line.bare = st.line.bare
      /\ IsShort(st.line) => IsShort(j.line)
      /\ Continuable(st.line) => Continuable(j.line)
  BY <1>0, <1>a, <1>b, LastKeeps
<1>4. \A i \in 1 .. Len(a) : a[i].first \in 1 .. N
  BY DEF Ending
<1>5. inside[st.first].kind # "short" /\ Continuable(st.line)
  BY <1>0 DEF Ending, LastIs
<1>. HIDE DEF a, b, N, front
<1>6. /\ Len(front) \in Nat /\ Len(a) = Len(front) + 1 /\ Len(b) = Len(front) + 1
      /\ b[Len(front) + 1] = j /\ \A i \in 1 .. Len(front) : a[i] = b[i]
  BY <1>2, AppendIs
<1>7. b # <<>> /\ Last(b) = j
  BY <1>2, FrontIs
<1>8. \A i \in 1 .. Len(b) : b[i].first \in 1 .. N + 1
  <2>1. \A i \in 1 .. Len(front) + 1 : i \in 1 .. Len(front) \/ i = Len(front) + 1
    BY <1>6
  <2>. QED  BY <1>1, <1>3, <1>4, <1>6, <2>1
<1>9. Ending'
  BY <1>1, <1>3, <1>5, <1>7, <1>8 DEF Ending, b
<1>10. Range(b) = Range(front) \union {j} /\ Range(a) = Range(front) \union {st}
  BY <1>2, RangeMore
<1>11. \A x \in Range(a) : x.first \in 1 .. N
  BY <1>2, <1>4, <1>6 DEF Range
<1>12. Misread => Misread'
  BY <1>1, <1>3, <1>10, <1>11 DEF Misread, a, b
<1>. QED  BY <1>9, <1>12

\* A line of another kind is none before the module.
LEMMA AliasesEnd ==
  ASSUME Lined, NEW m \in {1, 2}, NEW kind, NEW defines, Adds(m, kind, defines), kind # "alias"
  PROVE  ~OnlyAliases'
<1>1. Len(inside) \in Nat /\ Len(inside') = Len(inside) + m /\ inside' \in Seq(Wheres)
      /\ inside'[Len(inside) + 1].kind = kind
  BY InnermostIs DEF Adds, Where
<1>2. Len(inside) + 1 \in DOMAIN inside'
  BY <1>1
<1>. QED  BY <1>1, <1>2 DEF OnlyAliases

\* Lines of aliases only were that before.
LEMMA AliasesOpenNothing ==
  ASSUME Lined, Ending, NEW m \in {1, 2}, NEW kind, NEW defines, Adds(m, kind, defines),
         opened' = opened
  PROVE  OnlyAliases' => opened' = <<>>
<1>1. /\ Len(inside) \in Nat /\ Len(inside') = Len(inside) + m /\ inside' \in Seq(Wheres)
      /\ inside \in Seq(Wheres) /\ \A n \in 1 .. Len(inside) : inside'[n] = inside[n]
  BY InnermostIs DEF Adds, Lined
<1>2. DOMAIN inside = 1 .. Len(inside) /\ DOMAIN inside' = 1 .. Len(inside')
  BY <1>1
<1>3. DOMAIN inside \subseteq DOMAIN inside'
  BY <1>1, <1>2
<1>4. OnlyAliases' => OnlyAliases
  BY <1>1, <1>2, <1>3 DEF OnlyAliases
<1>. QED  BY <1>4 DEF Ending

LEMMA NoFunctionIsOpen ==
  ASSUME Lined
  PROVE  /\ ~InFunction => Innermost.kind # "function"
         /\ Innermost.kind = "function" => text # <<>>
         /\ InFunction => text # <<>>
<1>1. CASE opened = <<>>
  BY <1>1 DEF Innermost, Outside, InFunction
<1>2. CASE opened # <<>>
  <2>1. opened \in Seq(Openings) /\ Len(opened) \in 1 .. Len(opened)
    <3>1. opened \in Seq(Openings)
      BY DEF Lined
    <3>. QED  BY <1>2, <3>1
  <2>2. Innermost \in Openings /\ text # <<>>
    <3>1. Innermost = opened[Len(opened)]
      BY <1>2, InnermostIs
    <3>. QED  BY <2>1, <3>1 DEF Lined
  <2>. QED  BY <2>2 DEF Openings, InFunction
<1>. QED  BY <1>1, <1>2

\* The steps: a statement in the same region, one that opens a region or closes one, and
\* a line that continues one.
LEMMA LinesOver ==
  ASSUME TextsInv, Lined, Ending, NEW l \in Lines, l.starts \/ text = <<>>,
         NEW kind \in LineKinds, NEW defines \in Nat, Emit(<<l>>, kind, defines),
         opened' = opened,
         (Innermost.kind = "function" \/ kind = "alias") => kind # "short" /\ Continuable(l)
  PROVE  Lined' /\ Ending' /\ (Misread => Misread')
<1>1. Adds(1, kind, defines) /\ Starting(l, 1) /\ 1 \in {1, 2}
  BY EmittedOne, StartsOne
<1>2. Lined'
  BY <1>1, LinedStays
<1>3. (Innermost'.kind = "function" \/ OnlyAliases') => kind # "short" /\ Continuable(l)
  <2>1. Innermost' = Innermost
    BY DEF Innermost
  <2>. QED  BY <1>1, <2>1, AliasesEnd
<1>4. OnlyAliases' => opened' = <<>>
  BY <1>1, AliasesOpenNothing
<1>. QED  BY <1>1, <1>2, <1>3, <1>4, StartingEnds

LEMMA LinesInto ==
  ASSUME TextsInv, Lined, Ending, NEW l, NEW m \in {1, 2}, NEW kind, kind \notin {"alias", "short"},
         NEW defines, Adds(m, kind, defines), Starting(l, m),
         NEW what \in OpenKinds, NEW function \in Nat, Open(what, function),
         what = "function" => function # 0 /\ Continuable(l)
  PROVE  Lined' /\ Ending' /\ (Misread => Misread')
<1>1. Opens(function) /\ opened' \in Seq(Openings) /\ Innermost'.kind = what
  BY OpenOpens
<1>2. Lined'
  BY <1>1, LinedOpens
<1>3. ~OnlyAliases'
  BY AliasesEnd
<1>4. (Innermost'.kind = "function" \/ OnlyAliases') => kind # "short" /\ Continuable(l)
  BY <1>1, <1>3
<1>. QED  BY <1>2, <1>3, <1>4, StartingEnds

LEMMA LinesOut ==
  ASSUME TextsInv, Lined, Ending, opened # <<>>, opened' = Front(opened),
         Emit(<<CloseLine>>, "close", 0)
  PROVE  Lined' /\ Ending' /\ (Misread => Misread')
<1>1. PICK l : l = CloseLine
  OBVIOUS
<1>2. l \in Lines /\ l.starts /\ Continuable(l) /\ "close" \in LineKinds /\ 0 \in Nat
  BY <1>1, BracesAre DEF Continuable, LineKinds
<1>3. Adds(1, "close", 0) /\ Starting(l, 1) /\ 1 \in {1, 2} /\ "close" # "short"
  BY <1>1, <1>2, EmittedOne, StartsOne
<1>4. Closes /\ opened' \in Seq(Openings)
  BY CloseCloses
<1>5. Lined'
  BY <1>3, <1>4, LinedCloses
<1>6. ~OnlyAliases'
  BY <1>3, AliasesEnd
<1>. QED  BY <1>2, <1>3, <1>5, <1>6, StartingEnds

LEMMA LinesOn ==
  ASSUME TextsInv, Lined, Ending, text # <<>>, NEW l \in Lines, ~l.starts, l.delta = 0,
         NEW kind \in LineKinds, Emit(<<l>>, kind, 0), opened' = opened,
         Innermost.kind = "function" \/ OnlyAliases
  PROVE  Lined' /\ Ending' /\ (Misread => Misread')
<1>1. Adds(1, kind, 0) /\ Joining(LastIs, LastWith(l)) /\ 1 \in {1, 2} /\ 0 \in Nat
  BY EmittedOne, JoinsOne
<1>2. Lined'
  BY <1>1, LinedStays
<1>3. OnlyAliases' => opened' = <<>>
  BY <1>1, AliasesOpenNothing
<1>. QED  BY <1>1, <1>2, <1>3, JoiningEnds

LEMMA PrintedLines ==
  ASSUME TextsInv, Lined, Ending,
         \/ PrintAlias \/ OpenModule \/ OpenFunction \/ ShortFunction \/ Declare
         \/ PrintOp \/ PrintCall \/ OpenRegion \/ NextBlock \/ Close
  PROVE  Lined' /\ Ending' /\ (Misread => Misread')
<1>0. /\ LineKinds = {"alias", "module", "function", "short", "declaration", "op", "call", "else",
                      "label", "close", "continued"}
      /\ OpenKinds = {"module", "function", "region"} /\ 0 \in Nat
  BY DEF LineKinds, OpenKinds
<1>. DEFINE Goal == Lined' /\ Ending' /\ (Misread => Misread')
<1>1. CASE PrintAlias
  <2>1. PICK l : l = AliasLine
    OBVIOUS
  <2>2. OnlyAliases /\ Emit(<<l>>, "alias", 0) /\ opened' = opened
    BY <1>1, <2>1 DEF PrintAlias
  <2>3. l \in Lines /\ ~l.starts /\ l.delta = 0 /\ Continuable(l)
    BY <2>1, BracesAre DEF Continuable
  <2>4. CASE text = <<>>
    BY <1>0, <2>2, <2>3, <2>4, LinesOver
  <2>5. CASE text # <<>>
    BY <1>0, <2>2, <2>3, <2>5, LinesOn
  <2>. QED  BY <2>4, <2>5
<1>2. CASE OpenModule
  <2>1. PICK l : l = ModuleLine
    OBVIOUS
  <2>2. Emit(<<l>>, "module", 0) /\ Open("module", 0)
    BY <1>2, <2>1 DEF OpenModule
  <2>3. l \in Lines /\ l.starts
    BY <2>1, BracesAre
  <2>4. Adds(1, "module", 0) /\ Starting(l, 1) /\ 1 \in {1, 2}
    BY <1>0, <2>2, <2>3, EmittedOne, StartsOne
  <2>5. "module" \notin {"alias", "short"} /\ "module" # "function"
    OBVIOUS
  <2>. QED  BY <1>0, <2>2, <2>4, <2>5, LinesInto
<1>3. CASE OpenFunction
  <2>1. PICK f \in NextName :
          /\ Open("function", f)
          /\ \/ Emit(<<FunctionLine(f)>>, "function", f)
             \/ Emit(<<Declaration(f), Attributes>>, "function", f)
    BY <1>3 DEF OpenFunction
  <2>2. f \in FunctionNames /\ f \in Nat /\ f # 0
    BY EngineAssumption DEF NextName
  <2>3. PICK l : l = FunctionLine(f)
    OBVIOUS
  <2>4. PICK m \in {1, 2} : Starting(l, m) /\ Adds(m, "function", f)
    BY <2>1, <2>3, FunctionEmitted
  <2>5. Continuable(l) /\ "function" \notin {"alias", "short"}
    BY <2>2, <2>3, LinesAre
  <2>. QED  BY <1>0, <2>1, <2>2, <2>4, <2>5, LinesInto
<1>4. CASE ShortFunction
  <2>1. PICK f \in NextName, op \in Carriers :
          ~InFunction /\ Emit(<<ShortLine(f, op)>>, "short", f) /\ opened' = opened
    BY <1>4 DEF ShortFunction
  <2>2. PICK l : l = ShortLine(f, op)
    OBVIOUS
  <2>3. f \in FunctionNames /\ f \in Nat
    BY EngineAssumption DEF NextName
  <2>4. l \in Lines /\ l.starts
    BY <2>2, <2>3, LinesAre
  <2>5. Emit(<<l>>, "short", f) /\ opened' = opened /\ Innermost.kind # "function"
    BY <2>1, <2>2, NoFunctionIsOpen
  <2>. QED  BY <1>0, <2>3, <2>4, <2>5, LinesOver
<1>5. CASE Declare
  <2>1. PICK l \in Referring : ~InFunction /\ Emit(<<l>>, "declaration", 0) /\ opened' = opened
    BY <1>5 DEF Declare
  <2>2. l \in Lines /\ l.starts /\ Innermost.kind # "function"
    BY <2>1, CallsAre, NoFunctionIsOpen
  <2>. QED  BY <1>0, <2>1, <2>2, LinesOver
<1>6. CASE PrintOp
  <2>1. PICK op \in OpForms : Emit(<<OpLine(op)>>, "op", 0) /\ opened' = opened
    BY <1>6 DEF PrintOp
  <2>2. PICK l : l = OpLine(op)
    OBVIOUS
  <2>3. l \in Lines /\ l.starts /\ Continuable(l) /\ Emit(<<l>>, "op", 0)
    BY <2>1, <2>2, LinesAre DEF Continuable
  <2>. QED  BY <1>0, <2>1, <2>3, LinesOver
<1>7. CASE PrintCall
  <2>1. PICK l \in Referring \union {Opaque(0)} :
          /\ opened' = opened
          /\ \/ Emit(<<l>>, "op", 0)
             \/ /\ Innermost.kind = "function"
                /\ Emit(<<[l EXCEPT !.starts = FALSE]>>, "call", 0)
    BY <1>7 DEF PrintCall
  <2>2. PICK c : c = [l EXCEPT !.starts = FALSE]
    OBVIOUS
  <2>3. /\ l \in Lines /\ l.starts /\ Continuable(l) /\ c \in Lines /\ ~c.starts /\ c.delta = 0
    BY <2>2, CallsAre DEF Continuable
  <2>4. CASE Emit(<<l>>, "op", 0)
    BY <1>0, <2>1, <2>3, <2>4, LinesOver
  <2>5. CASE Innermost.kind = "function" /\ Emit(<<c>>, "call", 0)
    <3>1. text # <<>>
      BY <2>5, NoFunctionIsOpen
    <3>. QED  BY <1>0, <2>1, <2>3, <2>5, <3>1, LinesOn
  <2>. QED  BY <2>1, <2>2, <2>4, <2>5
<1>8. CASE OpenRegion
  <2>1. PICK op \in Carriers :
          Emit(<<RegionLine(op)>>, "op", 0) /\ Open("region", Innermost.function)
    BY <1>8 DEF OpenRegion
  <2>2. PICK l : l = RegionLine(op)
    OBVIOUS
  <2>3. l \in Lines /\ l.starts /\ Emit(<<l>>, "op", 0) /\ Innermost.function \in Nat
    BY <2>1, <2>2, LinesAre, InnermostIs
  <2>4. Adds(1, "op", 0) /\ Starting(l, 1) /\ 1 \in {1, 2}
    BY <1>0, <2>3, EmittedOne, StartsOne
  <2>5. "op" \notin {"alias", "short"} /\ "region" # "function"
    OBVIOUS
  <2>. QED  BY <1>0, <2>1, <2>3, <2>4, <2>5, LinesInto
<1>9. CASE NextBlock
  <2>1. CASE Innermost.kind = "region" /\ Emit(<<ElseLine>>, "else", 0)
    <3>1. PICK l : l = ElseLine
      OBVIOUS
    <3>2. l \in Lines /\ l.starts /\ Emit(<<l>>, "else", 0) /\ opened' = opened
      BY <1>9, <2>1, <3>1, BracesAre DEF NextBlock
    <3>. QED  BY <1>0, <2>1, <3>2, LinesOver
  <2>2. CASE Emit(<<LabelLine>>, "label", 0)
    <3>1. PICK l : l = LabelLine
      OBVIOUS
    <3>2. l \in Lines /\ l.starts /\ Continuable(l) /\ Emit(<<l>>, "label", 0) /\ opened' = opened
      BY <1>9, <2>2, <3>1, BracesAre DEF NextBlock, Continuable
    <3>. QED  BY <1>0, <3>2, LinesOver
  <2>. QED  BY <1>9, <2>1, <2>2 DEF NextBlock
<1>10. CASE Close
  BY <1>10, LinesOut DEF Close
<1>. QED  BY <1>1, <1>2, <1>3, <1>4, <1>5, <1>6, <1>7, <1>8, <1>9, <1>10

\* The edits of a pass come after the printing.
LEMMA EditsAreLater ==
  ASSUME [Next]_vars, Printing'
  PROVE  \/ UNCHANGED vars
         \/ /\ Printing
            /\ \/ PrintAlias \/ OpenModule \/ OpenFunction \/ ShortFunction \/ Declare
               \/ PrintOp \/ PrintCall \/ OpenRegion \/ NextBlock \/ Close
<1>1. CASE StartPass \/ EraseOp \/ ModifyOp \/ InsertOp \/ MoveOp
  BY <1>1 DEF StartPass, EraseOp, ModifyOp, InsertOp, MoveOp, Edit, Printing
<1>2. CASE \/ PrintAlias \/ OpenModule \/ OpenFunction \/ ShortFunction \/ Declare
           \/ PrintOp \/ PrintCall \/ OpenRegion \/ NextBlock \/ Close
  <2>1. before = <<>>
    BY <1>2 DEF PrintAlias, OpenModule, OpenFunction, ShortFunction, Declare, PrintOp,
               PrintCall, OpenRegion, NextBlock, Close, Emit
  <2>. QED  BY <1>2, <2>1 DEF Printing
<1>. QED  BY <1>1, <1>2 DEF Next

LEMMA LinedStep ==
  ASSUME TextsInv, LinedInv, [Next]_vars
  PROVE  LinedInv'
<1>1. CASE UNCHANGED vars
  BY <1>1 DEF vars, LinedInv, Printing, Lined, Ending, Innermost, OnlyAliases
<1>2. ASSUME Printing', ~UNCHANGED vars
      PROVE  Lined' /\ Ending'
  <2>1. Printing /\ (\/ PrintAlias \/ OpenModule \/ OpenFunction \/ ShortFunction \/ Declare
                     \/ PrintOp \/ PrintCall \/ OpenRegion \/ NextBlock \/ Close)
    BY <1>2, EditsAreLater
  <2>. QED  BY <2>1, PrintedLines DEF LinedInv
<1>. QED  BY <1>1, <1>2 DEF LinedInv

-----------------------------------------------------------------------------
(* What a line that continues a statement changes of what is read.           *)

\* States that differ in the fields of operations and the ends of statements only.
Alike(r, q) ==
  /\ q.path = r.path /\ q.counters = r.counters /\ q.scope = r.scope
  /\ SameFunctions(r, q) /\ Len(q.ops) = Len(r.ops)
  /\ \A i \in 1 .. Len(r.ops) :
       /\ q.ops[i].path = r.ops[i].path /\ q.ops[i].first = r.ops[i].first
       /\ q.ops[i].name = r.ops[i].name

\* Operations on one line and in one place.
SamePlace(x, y) == y.path = x.path /\ y.first = x.first /\ y.name = x.name

LEMMA OpsAlike ==
  ASSUME NEW p \in ParserStates, NEW x \in PlacedOps, NEW y \in PlacedOps, SamePlace(x, y),
         NEW c, c = Append(p.ops, x), NEW d, d = Append(p.ops, y)
  PROVE  Len(d) = Len(c) /\ \A i \in 1 .. Len(c) : SamePlace(c[i], d[i])
<1>. DEFINE M == Len(p.ops)
<1>1. /\ M \in Nat /\ Len(c) = M + 1 /\ Len(d) = M + 1 /\ c[M + 1] = x /\ d[M + 1] = y
      /\ \A i \in 1 .. M : c[i] = p.ops[i] /\ d[i] = p.ops[i]
  BY IdsTyped, AppendIs
<1>. HIDE DEF M
<1>2. \A i \in 1 .. M + 1 : i \in 1 .. M \/ i = M + 1
  BY <1>1
<1>. QED  BY <1>1, <1>2 DEF SamePlace

LEMMA EnterAlike ==
  ASSUME NEW r \in ParserStates, NEW q \in ParserStates, Alike(r, q)
  PROVE  Alike(EnterRegion(r), EnterRegion(q))
<1>. DEFINE depth == Len(r.counters)
            child == IF depth = 0 THEN 0 ELSE r.counters[depth]
            rest  == IF depth = 0 THEN <<>> ELSE [r.counters EXCEPT ![depth] = @ + 1]
            p == Append(r.path, child)
            c == Append(rest, 0)
<1>1. EnterRegion(r) = [r EXCEPT !.path = p, !.counters = c]
  BY DEF EnterRegion
<1>2. EnterRegion(q) = [q EXCEPT !.path = p, !.counters = c]
  BY DEF EnterRegion, Alike
<1>. HIDE DEF p, c
<1>3. /\ EnterRegion(r).path = p /\ EnterRegion(r).counters = c
      /\ EnterRegion(r).ops = r.ops /\ EnterRegion(r).functions = r.functions
      /\ EnterRegion(r).scope = r.scope
  BY <1>1, ParserFields
<1>4. /\ EnterRegion(q).path = p /\ EnterRegion(q).counters = c
      /\ EnterRegion(q).ops = q.ops /\ EnterRegion(q).functions = q.functions
      /\ EnterRegion(q).scope = q.scope
  BY <1>2, ParserFields
<1>. QED  BY <1>3, <1>4 DEF Alike, SameFunctions

\* Two statements that are the same to the braces and functions.
LEMMA StepAlike ==
  ASSUME NEW p \in ParserStates, NEW st \in Statements, NEW j \in Statements,
         j.first = st.first, j.line.closes = st.line.closes, j.line.bare = st.line.bare,
         j.line.delta = st.line.delta, j.line.op.name = st.line.op.name,
         st.line.symbol # NoSymbol => j.line.symbol = st.line.symbol, Continuable(st.line),
         (~st.line.closes /\ ~st.line.bare) => ~IsShort(st.line) /\ ~IsShort(j.line)
  PROVE  Alike(ParseStatement(p, st), ParseStatement(p, j))
<1>. DEFINE x == Placed(ReadOp(st.line), p.path, st)
            y == Placed(ReadOp(j.line), p.path, j)
            c == AssignScope(PushInner(PushOp(p, st), st), st, Len(p.ops) + 1)
            d == AssignScope(PushInner(PushOp(p, j), j), j, Len(p.ops) + 1)
<1>1. SamePlace(x, y) /\ x \in PlacedOps /\ y \in PlacedOps
  <2>1. st.line \in Lines /\ j.line \in Lines /\ p.path \in Seq(Nat)
    BY ParserFields DEF Statements
  <2>2. ReadOp(st.line) \in Forms /\ ReadOp(j.line) \in Forms
    BY <2>1, ReadOpTyped
  <2>3. ReadOp(j.line).name = ReadOp(st.line).name
    BY DEF ReadOp
  <2>4. x \in PlacedOps /\ y \in PlacedOps
    BY <2>1, <2>2, PlacedTyped
  <2>. QED  BY <2>3, <2>4 DEF Placed, SamePlace
<1>2. CASE st.line.closes
  <2>1. st.line.delta = -1 /\ j.line.delta = -1 /\ j.line.closes
    BY <1>2 DEF Continuable
  <2>. DEFINE r == ParseStatement(p, st)
              q == ParseStatement(p, j)
  <2>2. /\ Leaves(p, r) /\ r.ops = p.ops /\ SameFunctions(p, r)
        /\ r.scope = IF p.scope # NoScope /\ Len(Pop(p.path)) < p.scope.depth THEN NoScope
                     ELSE p.scope
    BY <1>2, <2>1, CloseStep
  <2>3. /\ Leaves(p, q) /\ q.ops = p.ops /\ SameFunctions(p, q)
        /\ q.scope = IF p.scope # NoScope /\ Len(Pop(p.path)) < p.scope.depth THEN NoScope
                     ELSE p.scope
    BY <2>1, CloseStep
  <2>. HIDE DEF r, q
  <2>. QED  BY <2>2, <2>3 DEF Alike, Leaves, SameFunctions, r, q
<1>3. CASE ~st.line.closes /\ st.line.bare
  <2>1. ParseStatement(p, st) = p /\ ParseStatement(p, j) = p
    BY <1>3, LabelStep DEF Continuable
  <2>. QED  BY <2>1 DEF Alike, SameFunctions
<1>4. ASSUME ~st.line.closes, ~st.line.bare,
             st.line.delta = 0 \/ (st.line.delta = 1 /\ p.scope # NoScope)
      PROVE  Alike(c, d) /\ c \in ParserStates /\ d \in ParserStates
  <2>1. /\ Pushes(p, c, x) /\ c.path = p.path /\ c.counters = p.counters /\ c.scope = p.scope
        /\ c \in ParserStates
    BY <1>4, PushIs
  <2>2. /\ Pushes(p, d, y) /\ d.path = p.path /\ d.counters = p.counters /\ d.scope = p.scope
        /\ d \in ParserStates
    BY <1>4, PushIs
  <2>. HIDE DEF c, d, x, y
  <2>3. Len(d.ops) = Len(c.ops) /\ \A i \in 1 .. Len(c.ops) : SamePlace(c.ops[i], d.ops[i])
    <3>1. c.ops = Append(p.ops, x) /\ d.ops = Append(p.ops, y)
      BY <2>1, <2>2 DEF Pushes
    <3>. QED  BY <1>1, <3>1, OpsAlike
  <2>. QED  BY <2>1, <2>2, <2>3 DEF Alike, SamePlace, SameFunctions, Pushes
<1>5. ASSUME ~st.line.closes, ~st.line.bare, st.line.delta = 1, p.scope = NoScope
      PROVE  Alike(c, d) /\ c \in ParserStates /\ d \in ParserStates
  <2>0. st.line.symbol # NoSymbol /\ j.line.symbol = st.line.symbol /\ j.line.delta = 1
    BY <1>5 DEF Continuable
  <2>1. /\ c.ops = Append(p.ops, x) /\ Defines(p, c, st.line.symbol, <<>>)
        /\ c.path = p.path /\ c.counters = p.counters /\ c \in ParserStates
        /\ c.scope = [function |-> Len(p.functions) + 1, depth |-> Len(p.path) + 1]
    BY <1>5, <2>0, FunctionIs
  <2>2. /\ d.ops = Append(p.ops, y) /\ Defines(p, d, st.line.symbol, <<>>)
        /\ d.path = p.path /\ d.counters = p.counters /\ d \in ParserStates
        /\ d.scope = [function |-> Len(p.functions) + 1, depth |-> Len(p.path) + 1]
    BY <1>5, <2>0, FunctionIs
  <2>. HIDE DEF c, d, x, y
  <2>3. Len(d.ops) = Len(c.ops) /\ \A i \in 1 .. Len(c.ops) : SamePlace(c.ops[i], d.ops[i])
    BY <1>1, <2>1, <2>2, OpsAlike
  <2>4. SameFunctions(c, d)
    <3>1. Len(p.functions) \in Nat
      BY IdsTyped
    <3>2. \A f \in 1 .. Len(p.functions) + 1 : f \in 1 .. Len(p.functions) \/ f = Len(p.functions) + 1
      BY <3>1
    <3>. QED  BY <2>1, <2>2, <3>2 DEF Defines, SameFunctions
  <2>. QED  BY <2>1, <2>2, <2>3, <2>4 DEF Alike, SamePlace
<1>6. CASE ~st.line.closes /\ ~st.line.bare
  <2>1. /\ ParseStatement(p, st) = EnterRegions(c, st.line.delta)
        /\ ParseStatement(p, j) = EnterRegions(d, st.line.delta)
    BY <1>6 DEF ParseStatement
  <2>2. st.line.delta = 0 \/ st.line.delta = 1
    BY <1>6 DEF Continuable
  <2>3. Alike(c, d) /\ c \in ParserStates /\ d \in ParserStates
    BY <1>4, <1>5, <1>6, <2>2
  <2>. HIDE DEF c, d
  <2>4. CASE st.line.delta = 0
    <3>1. ParseStatement(p, st) = c /\ ParseStatement(p, j) = d
      BY <2>1, <2>3, <2>4, RegionsOne
    <3>. QED  BY <2>3, <3>1
  <2>5. CASE st.line.delta = 1
    <3>1. ParseStatement(p, st) = EnterRegion(c) /\ ParseStatement(p, j) = EnterRegion(d)
      BY <2>1, <2>3, <2>5, RegionsOne
    <3>. QED  BY <2>3, <3>1, EnterAlike
  <2>. QED  BY <2>2, <2>4, <2>5
<1>. QED  BY <1>2, <1>3, <1>6

\* What is said of a state is said of one like it.
LEMMA ReadingAlike ==
  ASSUME Lined, NEW r \in ParserStates, NEW q \in ParserStates, Alike(r, q), Reading(r)
  PROVE  Reading(q)
<1>1. Scoped(r) /\ Functioned(r) /\ Shorts(r) /\ Pathed(r) /\ Numbered(r)
  BY DEF Reading
<1>2. /\ q.path = r.path /\ q.counters = r.counters /\ q.scope = r.scope
      /\ Len(q.functions) = Len(r.functions) /\ Len(q.ops) = Len(r.ops)
      /\ \A f \in 1 .. Len(r.functions) :
           q.functions[f].name = r.functions[f].name /\ q.functions[f].ops = r.functions[f].ops
      /\ \A i \in 1 .. Len(r.ops) :
           /\ q.ops[i].path = r.ops[i].path /\ q.ops[i].first = r.ops[i].first
           /\ IsOpaque(q.ops[i]) <=> IsOpaque(r.ops[i])
      /\ Len(r.ops) \in Nat /\ Len(r.functions) \in Nat
  BY IdsTyped DEF Alike, SameFunctions, IsOpaque
<1>3. Scoped(q)
  <2>1. r.ops # <<>> => q.ops # <<>>
    <3>1. q.ops \in Seq(PlacedOps) /\ r.ops \in Seq(PlacedOps)
      BY IdsTyped
    <3>. QED  BY <1>2, <3>1
  <2>. QED  BY <1>1, <1>2, <2>1 DEF Scoped
<1>4. ASSUME NEW f \in 1 .. Len(r.functions)
      PROVE  /\ Len(r.functions[f].ops) \in Nat
             /\ \A k \in 1 .. Len(r.functions[f].ops) : r.functions[f].ops[k] \in 1 .. Len(r.ops)
  <2>1. r.functions[f].ops \in Seq(1 .. Len(r.ops))
    BY IdsTyped
  <2>. QED  BY <2>1
<1>5. Functioned(q)
  <2>1. ASSUME NEW f \in 1 .. Len(r.functions)
        PROVE  Listed(q.ops, q.functions[f].ops, LinesIn(f))
    <3>. DEFINE ids == r.functions[f].ops
    <3>1. Listed(r.ops, ids, LinesIn(f)) /\ q.functions[f].ops = ids
      BY <1>1, <1>2 DEF Functioned
    <3>2. \A k \in 1 .. Len(ids) :
            /\ q.ops[ids[k]].first = r.ops[ids[k]].first
            /\ IsOpaque(q.ops[ids[k]]) <=> IsOpaque(r.ops[ids[k]])
      BY <1>2, <1>4
    <3>. HIDE DEF ids
    <3>. QED  BY <3>1, <3>2 DEF Listed
  <2>. QED  BY <1>1, <1>2, <2>1 DEF Functioned
<1>6. Shorts(q)
  <2>1. ASSUME NEW n \in 1 .. Len(inside), inside[n].kind = "short"
        PROVE  /\ Len(q.functions[inside[n].defines].ops) = 1
               /\ inside[n].defines # q.scope.function /\ inside[n].defines # 0
    <3>1. /\ Len(r.functions[inside[n].defines].ops) = 1
          /\ inside[n].defines # r.scope.function /\ inside[n].defines # 0
      BY <1>1, <2>1 DEF Shorts
    <3>2. inside[n].defines \in 1 .. Len(r.functions)
      <4>1. inside[n].defines \in Defined
        BY <2>1, <3>1 DEF Defined, Lined
      <4>. QED  BY <1>1, <4>1 DEF Functioned
    <3>. QED  BY <1>2, <3>1, <3>2
  <2>. QED  BY <2>1 DEF Shorts
<1>7. Pathed(q)
  <2>1. Places(q.ops) = Places(r.ops)
    <3>. DEFINE I == {i \in 1 .. Len(r.ops) : inside[r.ops[i].first].kind # "short"}
                J == {i \in 1 .. Len(q.ops) : inside[q.ops[i].first].kind # "short"}
    <3>1. I = J
      BY <1>2
    <3>2. \A i \in I : Place(q.ops[i].path, inside[q.ops[i].first].region)
                         = Place(r.ops[i].path, inside[r.ops[i].first].region)
      BY <1>2
    <3>3. /\ Places(r.ops) = {Place(r.ops[i].path, inside[r.ops[i].first].region) : i \in I}
          /\ Places(q.ops) = {Place(q.ops[i].path, inside[q.ops[i].first].region) : i \in J}
      BY DEF Places
    <3>. HIDE DEF I, J
    <3>. QED  BY <3>1, <3>2, <3>3
  <2>. QED  BY <1>1, <1>2, <2>1 DEF Pathed
<1>8. Numbered(q)
  <2>1. ASSUME NEW f \in 1 .. Len(r.functions), NEW n \in LinesIn(f), NoShift(n - 1)
        PROVE  /\ \E k \in 1 .. Len(q.functions[f].ops) : q.functions[f].ops[k] = Ordinal(n) + 1
               /\ q.ops[Ordinal(n) + 1].first = n
    <3>1. /\ \E k \in 1 .. Len(r.functions[f].ops) : r.functions[f].ops[k] = Ordinal(n) + 1
          /\ r.ops[Ordinal(n) + 1].first = n
      BY <1>1, <2>1 DEF Numbered
    <3>2. Ordinal(n) + 1 \in 1 .. Len(r.ops)
      BY <1>4, <3>1
    <3>. QED  BY <1>2, <3>1, <3>2
  <2>. QED  BY <1>1, <1>2, <2>1 DEF Numbered
<1>. QED  BY <1>3, <1>5, <1>6, <1>7, <1>8 DEF Reading

\* A line that continues a statement.
LEMMA StepsOn ==
  ASSUME TextsInv, Lined, Ending, Reading(Read), text # <<>>,
         NEW l \in Lines, ~l.starts, l.delta = 0, NEW kind \in {"call", "alias"},
         Emit(<<l>>, kind, 0), opened' = opened, ~Misread',
         Innermost.kind = "function" \/ OnlyAliases
  PROVE  ParserInv'
<1>1. PICK st : st = LastIs
  OBVIOUS
<1>2. PICK j : j = LastWith(l)
  OBVIOUS
<1>3. PICK front : front = Front(Assemble(text))
  OBVIOUS
<1>4. kind \in LineKinds /\ 0 \in Nat
  BY DEF LineKinds
<1>5. Adds(1, kind, 0) /\ Joining(st, j)
  BY <1>1, <1>2, <1>4, EmittedOne, JoinsOne
<1>6. /\ Assemble(text) = Append(front, st) /\ Assemble(text') = Append(front, j)
      /\ front \in Seq(Statements) /\ st \in Statements /\ j \in Statements
  BY <1>3, <1>5 DEF Joining
<1>7. /\ j.first = st.first /\ st.first \in 1 .. Len(text)
      /\ j.line.closes = st.line.closes /\ j.line.bare = st.line.bare
      /\ j.line.delta = st.line.delta /\ j.line.op.name = st.line.op.name
      /\ st.line.symbol # NoSymbol => j.line.symbol = st.line.symbol
      /\ IsShort(st.line) => IsShort(j.line)
  BY <1>1, <1>2, <1>5, LastKeeps
<1>8. inside[st.first].kind # "short" /\ Continuable(st.line)
  BY <1>1 DEF Ending, LastIs
<1>9. (~st.line.closes /\ ~st.line.bare) => ~IsShort(st.line) /\ ~IsShort(j.line)
  <2>1. inside'[j.first].kind # "short"
    BY <1>5, <1>7, <1>8 DEF Adds, Lined
  <2>2. j \in Range(Assemble(text'))
    BY <1>6, RangeMore
  <2>3. ~(IsShort(j.line) /\ ~j.line.closes /\ ~j.line.bare)
    BY <2>1, <2>2 DEF Misread
  <2>. QED  BY <1>7, <2>3
<1>10. PICK p : p = EndOf(front)
  OBVIOUS
<1>11. PICK r : r = Read
  OBVIOUS
<1>12. PICK q : q = Read'
  OBVIOUS
<1>13. p \in ParserStates /\ r = ParseStatement(p, st) /\ q = ParseStatement(p, j)
  <2>1. Read' = EndOf(Assemble(text'))
    BY DEF Read
  <2>. QED  BY <1>6, <1>10, <1>11, <1>12, <2>1, EndTyped, EndOfStep DEF Read
<1>14. r \in ParserStates /\ q \in ParserStates
  BY <1>6, <1>13, ParseStatementTyped
<1>15. Alike(r, q)
  BY <1>6, <1>7, <1>8, <1>9, <1>13, StepAlike
<1>16. Reading(q)
  BY <1>11, <1>14, <1>15, ReadingAlike
<1>17. Reading(q)'
  BY <1>5, <1>14, <1>16, ReadingStays
<1>. QED  BY <1>12, <1>17, ReadNext

LEMMA OpenFunctionRead ==
  ASSUME TextsInv, Lined, Reading(Read), Read.scope = NoScope, OpenFunction
  PROVE  ParserInv'
<1>1. PICK f \in NextName :
        /\ ~InFunction /\ Open("function", f)
        /\ \/ Emit(<<FunctionLine(f)>>, "function", f)
           \/ Emit(<<Declaration(f), Attributes>>, "function", f)
  BY DEF OpenFunction
<1>2. f \in FunctionNames
  BY DEF NextName
<1>. DEFINE l == FunctionLine(f)
<1>3. /\ l \in Lines /\ ~l.bare /\ l.delta = 1 /\ ~l.closes /\ l.symbol = Symbols[f]
  BY <1>2, LinesAre
<1>4. PICK m \in {1, 2} : Starting(l, m) /\ Adds(m, "function", f)
  BY <1>1, FunctionEmitted
<1>. HIDE DEF l
<1>5. Read' = ParseStatement(Read, StatementOf(l, Len(text) + 1, Len(text) + m))
  BY <1>4, ReadStarts
<1>. QED  BY <1>1, <1>3, <1>4, <1>5, StepsDefine

\* A statement that is not misread is no function on one line.
LEMMA NotShort ==
  ASSUME TextsInv, Lined, NEW l \in Lines, l.starts, ~l.closes, ~l.bare,
         NEW kind \in LineKinds, kind # "short", Emit(<<l>>, kind, 0), ~Misread'
  PROVE  ~IsShort(l)
<1>. DEFINE st == StatementOf(l, Len(text) + 1, Len(text) + 1)
<1>1. Starting(l, 1) /\ Adds(1, kind, 0)
  BY EmittedOne, StartsOne
<1>2. st.line = l /\ st.first = Len(inside) + 1
  BY DEF StatementOf, Lined
<1>3. st \in Range(Assemble(text'))
  <2>1. /\ Assemble(text') = Append(Assemble(text), st) /\ Assemble(text) \in Seq(Statements)
        /\ st \in Statements
    BY <1>1 DEF Starting
  <2>. HIDE DEF st
  <2>. QED  BY <2>1, RangeMore
<1>4. inside'[st.first].kind = kind
  BY <1>1, <1>2 DEF Adds, Where
<1>. HIDE DEF st
<1>. QED  BY <1>2, <1>3, <1>4 DEF Misread

\* What is printed is read as the invariant says.
LEMMA ParserStep ==
  ASSUME TextsInv, LinedInv, ParserInv, [Next]_vars
  PROVE  ParserInv'
<1>1. CASE UNCHANGED vars
  <2>1. /\ text' = text /\ inside' = inside /\ opened' = opened /\ before' = before
    BY <1>1 DEF vars
  <2>2. Misread' <=> Misread
    BY <2>1 DEF Misread
  <2>3. ASSUME NEW r
        PROVE  Reading(r)' <=> Reading(r)
    <3>1. Scoped(r)' <=> Scoped(r)
      BY <2>1 DEF Scoped
    <3>2. Functioned(r)' <=> Functioned(r)
      BY <2>1 DEF Functioned, Defined, LinesIn
    <3>3. Shorts(r)' <=> Shorts(r)
      BY <2>1 DEF Shorts
    <3>4. Pathed(r)' <=> Pathed(r)
      BY <2>1 DEF Pathed, Places, OpenLines
    <3>5. Numbered(r)' <=> Numbered(r)
      BY <2>1 DEF Numbered, Walked, IsWalked, Bodies, NoShift, Ordinal, LinesIn
    <3>. QED  BY <3>1, <3>2, <3>3, <3>4, <3>5 DEF Reading
  <2>4. PICK q : q = Read'
    OBVIOUS
  <2>5. q = Read
    BY <2>1, <2>4 DEF Read
  <2>6. ParserInv => ((Printing /\ ~Misread)' => Reading(q)')
    BY <2>1, <2>2, <2>3, <2>5 DEF ParserInv, Printing
  <2>7. Reading(Read)' <=> Reading(q)'
    BY <2>4 DEF Reading, Scoped, Functioned, Shorts, Pathed, Numbered
  <2>. QED  BY <2>6, <2>7 DEF ParserInv
<1>. SUFFICES ASSUME Printing, ~Misread',
                     \/ PrintAlias \/ OpenModule \/ OpenFunction \/ ShortFunction \/ Declare
                     \/ PrintOp \/ PrintCall \/ OpenRegion \/ NextBlock \/ Close
              PROVE  ParserInv'
  <2>1. CASE ~Printing' \/ Misread'
    BY <2>1 DEF ParserInv
  <2>. QED  BY <1>1, <2>1, EditsAreLater
<1>2. Lined /\ Ending
  BY DEF LinedInv
<1>3. Reading(Read)
  <2>1. ~Misread
    BY <1>2, PrintedLines
  <2>. QED  BY <2>1 DEF ParserInv
<1>4. /\ Innermost.function = Read.scope.function
      /\ ~InFunction => Read.scope = NoScope
  <2>1. PICK r : r = Read
    OBVIOUS
  <2>2. r \in ParserStates /\ Scoped(r)
    BY <1>3, <2>1, ReadTyped DEF Reading
  <2>. QED  BY <1>2, <2>1, <2>2, ScopeIsOpen DEF InFunction
<1>5. InFunction => text # <<>>
  BY <1>2, NoFunctionIsOpen
<1>6. NextName \subseteq FunctionNames
  BY NextNames
<1>7. OnlyAliases => opened = <<>>
  BY <1>2 DEF Ending
<1>8. CASE PrintAlias
  <2>1. PICK l : l = AliasLine
    OBVIOUS
  <2>2. /\ l \in Lines /\ ~l.starts /\ ~l.bare /\ l.delta = 0 /\ ~IsShort(l)
        /\ OnlyAliases /\ Emit(<<l>>, "alias", 0) /\ opened' = opened
    BY <1>8, <2>1, BracesAre DEF PrintAlias
  <2>3. Read.scope = NoScope
    BY <1>4, <1>7, <2>2 DEF InFunction, Innermost, Outside
  <2>4. CASE text = <<>>
    BY <1>2, <1>3, <2>2, <2>3, <2>4, StepsOver
  <2>5. CASE text # <<>>
    BY <1>2, <1>3, <2>2, <2>5, StepsOn
  <2>. QED  BY <2>4, <2>5
<1>9. CASE OpenModule
  <2>1. opened = <<>>
    BY <1>7, <1>9 DEF OpenModule
  <2>2. Read.scope = NoScope /\ Read.scope.function = 0
    BY <1>4, <2>1 DEF InFunction, Innermost, Outside
  <2>3. PICK l : l = ModuleLine
    OBVIOUS
  <2>4. /\ l \in Lines /\ l.starts /\ ~l.bare /\ l.delta = 1 /\ l.symbol = NoSymbol
        /\ Emit(<<l>>, "module", 0) /\ Open("module", Read.scope.function)
    BY <1>9, <2>2, <2>3, BracesAre DEF OpenModule
  <2>. QED  BY <1>2, <1>3, <2>2, <2>4, StepsIn
<1>10. CASE OpenFunction
  BY <1>2, <1>3, <1>4, <1>10, OpenFunctionRead DEF OpenFunction
<1>11. CASE ShortFunction
  <2>1. PICK f \in NextName, op \in Carriers :
          ~InFunction /\ Emit(<<ShortLine(f, op)>>, "short", f) /\ opened' = opened
    BY <1>11 DEF ShortFunction
  <2>2. f \in FunctionNames /\ op \in Forms /\ op.name # "opaque"
    BY <1>6, EngineAssumption, FormsTyped
  <2>. QED  BY <1>2, <1>3, <1>4, <2>1, <2>2, LinesAre, StepsShort
<1>12. CASE Declare
  <2>1. PICK l \in Referring : ~InFunction /\ Emit(<<l>>, "declaration", 0) /\ opened' = opened
    BY <1>12 DEF Declare
  <2>2. l \in Lines /\ l.starts /\ ~l.closes /\ ~l.bare /\ l.delta = 0
    BY CallsAre
  <2>3. ~IsShort(l)
    BY <1>2, <2>1, <2>2, NotShort DEF LineKinds
  <2>. QED  BY <1>2, <1>3, <1>4, <2>1, <2>2, <2>3, StepsOver
<1>13. CASE PrintOp
  <2>1. PICK op \in OpForms : Emit(<<OpLine(op)>>, "op", 0) /\ opened' = opened
    BY <1>13 DEF PrintOp
  <2>. QED  BY <1>2, <1>3, <2>1, LinesAre, StepsOver
<1>14. CASE PrintCall
  <2>1. PICK l \in Referring \union {Opaque(0)} :
          /\ opened' = opened
          /\ \/ Emit(<<l>>, "op", 0)
             \/ /\ Innermost.kind = "function"
                /\ Emit(<<[l EXCEPT !.starts = FALSE]>>, "call", 0)
    BY <1>14 DEF PrintCall
  <2>2. PICK c : c = [l EXCEPT !.starts = FALSE]
    OBVIOUS
  <2>3. /\ l \in Lines /\ l.starts /\ ~l.closes /\ ~l.bare /\ l.delta = 0
        /\ ReadOp(l).name # "opaque" /\ c \in Lines /\ ~c.starts /\ c.delta = 0
    BY <2>2, CallsAre
  <2>4. CASE Emit(<<l>>, "op", 0)
    <3>1. ~IsShort(l)
      BY <1>2, <2>3, <2>4, NotShort DEF LineKinds
    <3>. QED  BY <1>2, <1>3, <2>1, <2>3, <2>4, <3>1, StepsOver
  <2>5. CASE Innermost.kind = "function" /\ Emit(<<c>>, "call", 0)
    <3>1. text # <<>>
      BY <1>2, <2>5, NoFunctionIsOpen
    <3>. QED  BY <1>2, <1>3, <2>1, <2>3, <2>5, <3>1, StepsOn
  <2>. QED  BY <2>1, <2>2, <2>4, <2>5
<1>15. CASE OpenRegion
  <2>1. PICK op \in Carriers :
          Emit(<<RegionLine(op)>>, "op", 0) /\ Open("region", Read.scope.function)
    BY <1>4, <1>15 DEF OpenRegion
  <2>. QED  BY <1>2, <1>3, <2>1, LinesAre, StepsIn
<1>16. CASE NextBlock
  <2>1. CASE Emit(<<ElseLine>>, "else", 0)
    BY <1>2, <1>3, <1>16, <2>1, BracesAre, StepsOver DEF NextBlock
  <2>2. CASE Emit(<<LabelLine>>, "label", 0)
    BY <1>2, <1>3, <1>5, <1>16, <2>2, BracesAre, StepsLabel DEF NextBlock
  <2>. QED  BY <1>16, <2>1, <2>2 DEF NextBlock
<1>17. CASE Close
  BY <1>2, <1>3, <1>17, BracesAre, StepsOut DEF Close
<1>. QED
  BY <1>8, <1>9, <1>10, <1>11, <1>12, <1>13, <1>14, <1>15, <1>16, <1>17

\* Whatever is printed, as long as no statement is misread: the path of the parser is
\* that of the braces that are open, the functions are those that were printed with the
\* operations of their lines that start a statement, paths stand for regions, and
\* operations have the numbers of the walk up to the first alias, call without results
\* in a body or line like "} else {" (parser.rs: assemble_statements and parse_module).
THEOREM WhatIsPrintedIsRead == Spec => [](LinedInv /\ ParserInv)
<1>1. Init => TextsInv /\ LinedInv /\ ParserInv
  BY ReadNothing DEF Init, TextsInv, LinedInv, ParserInv
<1>2. (TextsInv /\ LinedInv /\ ParserInv) /\ [Next]_vars => (TextsInv /\ LinedInv /\ ParserInv)'
  BY TextsStep, LinedStep, ParserStep
<1>. QED  BY <1>1, <1>2, PTL DEF Spec

-----------------------------------------------------------------------------
(* What the invariant says of the functions that are looked up by name.      *)

\* The operations with some numbers.
OpsAt(ops, ids) == [k \in 1 .. Len(ids) |-> ops[ids[k]]]

\* No two functions have the same symbol, so that the first of a name is the one.
LEMMA ScopeIs ==
  ASSUME NEW r \in ParserStates, Functioned(r), NEW f \in Defined
  PROVE  /\ f \in 1 .. Len(r.functions)
         /\ Module(r).functions = r.functions /\ Module(r).ops = r.ops
         /\ Scope(Module(r), Symbols[f]) = f
         /\ ScopeOps(Module(r), Symbols[f]) = OpsAt(r.ops, r.functions[f].ops)
<1>1. f \in 1 .. Len(r.functions) /\ Len(r.functions) \in Nat
  BY IdsTyped DEF Functioned
<1>2. r.functions # <<>>
  BY <1>1
<1>3. Module(r).functions = r.functions /\ Module(r).ops = r.ops
  BY <1>2 DEF Module
<1>. DEFINE I == {i \in 1 .. Len(r.functions) : r.functions[i].name = Symbols[f]}
<1>4. I = {f}
  <2>1. f \in FunctionNames /\ r.functions[f].name = Symbols[f]
    BY <1>1 DEF Functioned
  <2>2. ASSUME NEW i \in 1 .. Len(r.functions), r.functions[i].name = Symbols[f]
        PROVE  i = f
    <3>1. i \in FunctionNames /\ Symbols[i] = Symbols[f]
      BY <2>2 DEF Functioned
    <3>. QED  BY <2>1, <3>1, EngineAssumption
  <2>. QED  BY <1>1, <2>1, <2>2
<1>5. Scope(Module(r), Symbols[f]) = IF I # {} THEN Min(I) ELSE 0
  BY <1>3 DEF Scope, SelectInSeq
<1>6. Min({f}) = f
  BY <1>1, MinIsMember
<1>7. Scope(Module(r), Symbols[f]) = f
  <2>. HIDE DEF I
  <2>. QED  BY <1>4, <1>5, <1>6
<1>8. r.functions[f].ops \in Seq(1 .. Len(r.ops))
  BY <1>1, IdsTyped
<1>9. DOMAIN r.functions[f].ops = 1 .. Len(r.functions[f].ops)
  BY <1>8
<1>10. ScopeOps(Module(r), Symbols[f]) = OpsAt(r.ops, r.functions[f].ops)
  BY <1>1, <1>3, <1>7, <1>9 DEF ScopeOps, OpsAt
<1>. QED  BY <1>1, <1>3, <1>7, <1>10

LEMMA ListedAre ==
  ASSUME NEW ops, NEW ids, NEW lines, Len(ids) \in Nat, Listed(ops, ids, lines)
  PROVE  AreOf(OpsAt(ops, ids), lines)
<1>. DEFINE o == OpsAt(ops, ids)
<1>1. DOMAIN o = 1 .. Len(ids) /\ \A k \in 1 .. Len(ids) : o[k] = ops[ids[k]]
  BY DEF OpsAt
<1>. HIDE DEF o
<1>2. RealIn(o) = {k \in 1 .. Len(ids) : ~IsOpaque(ops[ids[k]])}
  BY <1>1 DEF RealIn
<1>3. {o[k].first : k \in RealIn(o)} = lines
  BY <1>1, <1>2 DEF Listed
<1>4. \A k, l \in RealIn(o) : o[k].first = o[l].first => k = l
  BY <1>1, <1>2 DEF Listed
<1>. QED  BY <1>3, <1>4 DEF AreOf, o

LEMMA NamesAre ==
  ASSUME NEW r \in ParserStates, Scoped(r), Functioned(r)
  PROVE  /\ NamesIn(Module(r)) \ {TheModule} = Known
         /\ (text # <<>> /\ Defined = {}) => NamesIn(Module(r)) = {TheModule}
<1>. DEFINE functions == Module(r).functions
            names == {g.name : g \in Range(functions)}
<1>0. NamesIn(Module(r)) = names /\ Known = {Symbols[f] : f \in Defined}
  BY DEF NamesIn, Known
<1>1. Len(r.functions) \in Nat /\ Defined = 1 .. Len(r.functions) /\ r.functions \in Seq(ScopeSet)
  BY ParserFields DEF Functioned
<1>2. CASE r.functions # <<>>
  <2>1. functions = r.functions
    BY <1>2 DEF Module
  <2>. HIDE DEF functions
  <2>2. DOMAIN r.functions = 1 .. Len(r.functions)
    BY <1>1
  <2>3. names = {r.functions[f].name : f \in 1 .. Len(r.functions)}
    BY <2>1, <2>2 DEF Range
  <2>4. \A f \in 1 .. Len(r.functions) :
          r.functions[f].name = Symbols[f] /\ Symbols[f] # TheModule
    BY EngineAssumption DEF Functioned
  <2>5. names \ {TheModule} = {Symbols[f] : f \in Defined}
    BY <1>1, <2>3, <2>4
  <2>6. Defined # {}
    <3>1. Len(r.functions) # 0
      BY <1>1, <1>2
    <3>2. 1 \in 1 .. Len(r.functions)
      BY <1>1, <3>1
    <3>. QED  BY <1>1, <3>2
  <2>. QED  BY <1>0, <2>5, <2>6 DEF functions
<1>3. CASE r.functions = <<>>
  <2>1. Defined = {}
    BY <1>1, <1>3
  <2>2. CASE r.ops = <<>>
    <3>1. functions = <<>> /\ text = <<>>
      BY <1>3, <2>2 DEF Module, Scoped
    <3>. HIDE DEF functions
    <3>2. names = {}
      BY <3>1 DEF Range
    <3>. QED  BY <1>0, <2>1, <3>1, <3>2 DEF functions
  <2>3. CASE r.ops # <<>>
    <3>. DEFINE ids == [i \in DOMAIN r.ops |-> i]
                st  == [first |-> Head(r.ops).first, last |-> Last(r.ops).last]
    <3>1. functions = <<FunctionScope(TheModule, ids, st)>>
      BY <1>3, <2>3 DEF Module
    <3>. HIDE DEF functions, ids, st
    <3>2. FunctionScope(TheModule, ids, st).name = TheModule
      BY DEF FunctionScope
    <3>3. names = {TheModule}
      BY <3>1, <3>2 DEF Range
    <3>. QED  BY <1>0, <2>1, <3>3 DEF functions
  <2>. QED  BY <2>2, <2>3
<1>. QED  BY <1>0, <1>2, <1>3

\* Functions on one line have one operation, and others have paths that stand for regions.
LEMMA RegionsAre ==
  ASSUME Lined, NEW r \in ParserStates, Functioned(r), Shorts(r), Pathed(r), NEW f \in Defined
  PROVE  SameRegions(OpsAt(r.ops, r.functions[f].ops))
<1>. DEFINE ids == r.functions[f].ops
            o   == OpsAt(r.ops, ids)
<1>1. f \in 1 .. Len(r.functions)
  BY ScopeIs
<1>2. ids \in Seq(1 .. Len(r.ops)) /\ Listed(r.ops, ids, LinesIn(f))
  BY <1>1, IdsTyped DEF Functioned
<1>. HIDE DEF ids
<1>3. DOMAIN o = 1 .. Len(ids) /\ Len(ids) \in Nat
      /\ \A k \in 1 .. Len(ids) : o[k] = r.ops[ids[k]] /\ ids[k] \in 1 .. Len(r.ops)
  BY <1>2 DEF OpsAt
<1>. HIDE DEF o
<1>4. ASSUME NEW i \in RealIn(o)
      PROVE  /\ i \in 1 .. Len(ids) /\ o[i].first \in 1 .. Len(inside)
             /\ inside[o[i].first].kind = "short" => Len(ids) = 1
             /\ inside[o[i].first].kind # "short" =>
                  Place(o[i].path, inside[o[i].first].region) \in Places(r.ops)
  <2>1. i \in 1 .. Len(ids) /\ ~IsOpaque(r.ops[ids[i]])
    BY <1>3 DEF RealIn
  <2>2. o[i].first \in LinesIn(f)
    BY <1>2, <1>3, <2>1 DEF Listed
  <2>3. o[i].first \in 1 .. Len(inside)
    BY <2>2, LinesInText
  <2>4. ASSUME inside[o[i].first].kind = "short" PROVE Len(ids) = 1
    <3>1. inside[o[i].first].defines = f
      BY <2>2, <2>4 DEF LinesIn
    <3>. QED  BY <2>3, <2>4, <3>1 DEF Shorts, ids
  <2>5. ASSUME inside[o[i].first].kind # "short"
        PROVE  Place(o[i].path, inside[o[i].first].region) \in Places(r.ops)
    BY <1>3, <2>1, <2>5 DEF Places
  <2>. QED  BY <2>1, <2>3, <2>4, <2>5
<1>5. ASSUME NEW i \in RealIn(o), NEW j \in RealIn(o)
      PROVE  (o[i].path = o[j].path) <=> (inside[o[i].first].region = inside[o[j].first].region)
  <2>1. CASE Len(ids) = 1
    <3>1. i = 1 /\ j = 1
      BY <1>4, <2>1
    <3>. QED  BY <3>1
  <2>2. CASE Len(ids) # 1
    <3>. DEFINE x == Place(o[i].path, inside[o[i].first].region)
                y == Place(o[j].path, inside[o[j].first].region)
    <3>1. x \in Places(r.ops) /\ y \in Places(r.ops)
      BY <1>4, <2>2
    <3>2. x.path = y.path <=> x.region = y.region
      <4>. HIDE DEF x, y
      <4>. QED  BY <3>1 DEF Pathed, Placement
    <3>. QED  BY <3>2 DEF Place
  <2>. QED  BY <2>1, <2>2
<1>. QED  BY <1>5 DEF SameRegions, o, ids

\* Up to the first line that differs the numbers of the operations are those of the walk.
LEMMA RowsAre ==
  ASSUME Lined, NEW r \in ParserStates, Functioned(r), Numbered(r), NEW f \in Defined,
         NEW n \in LinesIn(f), ~WalksDiffer(n)
  PROVE  Names(Module(r), RowOp(Module(r), Symbols[f], Ordinal(n)), n)
<1>1. /\ f \in 1 .. Len(r.functions)
      /\ Module(r).functions = r.functions /\ Module(r).ops = r.ops
      /\ Scope(Module(r), Symbols[f]) = f
  BY ScopeIs
<1>2. NoShift(n - 1)
  BY DEF NoShift, ShiftKinds, WalksDiffer
<1>. DEFINE ids == r.functions[f].ops
<1>3. ids \in Seq(1 .. Len(r.ops)) /\ Len(r.ops) \in Nat
  BY <1>1, IdsTyped
<1>4. PICK k \in 1 .. Len(ids) : ids[k] = Ordinal(n) + 1
  BY <1>1, <1>2 DEF Numbered
<1>5. r.ops[Ordinal(n) + 1].first = n
  BY <1>1, <1>2 DEF Numbered
<1>. HIDE DEF ids
<1>6. Ordinal(n) + 1 \in Range(ids) /\ Ordinal(n) + 1 # 0
  <2>1. ids[k] \in 1 .. Len(r.ops) /\ k \in DOMAIN ids
    BY <1>3, <1>4
  <2>2. ids[k] \in Range(ids) /\ ids[k] # 0
    BY <1>3, <2>1 DEF Range
  <2>. QED  BY <1>4, <2>2
<1>7. RowOp(Module(r), Symbols[f], Ordinal(n)) = Ordinal(n) + 1
  <2>1. f # 0
    BY <1>1
  <2>. QED  BY <1>1, <1>6, <2>1 DEF RowOp, ids
<1>. QED  BY <1>1, <1>5, <1>6, <1>7 DEF Names

LEMMA WhatIsRead ==
  ASSUME TextsInv, LinedInv, ParserInv, Printing, ~Misread
  PROVE  \E r \in ParserStates : /\ Lined /\ Scoped(r) /\ Functioned(r) /\ Shorts(r)
                                 /\ Pathed(r) /\ Numbered(r) /\ ParseModule(text) = Module(r)
<1>1. Read \in ParserStates
  BY ReadTyped
<1>2. Lined /\ Reading(Read) /\ ParseModule(text) = Module(Read)
  BY DEF LinedInv, ParserInv, ParseModule, Read
<1>. QED  BY <1>1, <1>2 DEF Reading

\* For every text that is printed, every prefix of it and whatever functions and
\* operations there are, if no statement is misread as a function on one line: each
\* function is found by its symbol and has the operations printed in it, each once and no
\* other, but not the calls without results in its body, which are part of the statement
\* before; the braces that are open are counted right (parser.rs: assemble_statements and
\* parse_module; diff.rs: diff_function, which looks the scope up).
THEOREM EveryFunctionIsAScope == Spec => []FunctionsAreScopes
<1>1. ASSUME TextsInv, LinedInv, ParserInv, Printing, ~Misread
      PROVE  HasScopes(ParseModule(text))
  <2>1. PICK r \in ParserStates :
          Scoped(r) /\ Functioned(r) /\ ParseModule(text) = Module(r)
    BY <1>1, WhatIsRead
  <2>2. Module(r).open = Len(opened)
    BY <2>1 DEF Module, Scoped
  <2>3. ASSUME NEW f \in Defined
        PROVE  AreOf(ScopeOps(Module(r), Symbols[f]), LinesIn(f))
    <3>1. f \in 1 .. Len(r.functions)
          /\ ScopeOps(Module(r), Symbols[f]) = OpsAt(r.ops, r.functions[f].ops)
      BY <2>1, ScopeIs
    <3>2. Listed(r.ops, r.functions[f].ops, LinesIn(f))
      BY <2>1, <3>1 DEF Functioned
    <3>3. r.functions[f].ops \in Seq(1 .. Len(r.ops))
      BY <3>1, IdsTyped
    <3>4. Len(r.functions[f].ops) \in Nat
      BY <3>3
    <3>. QED  BY <3>1, <3>2, <3>4, ListedAre
  <2>. QED  BY <2>1, <2>2, <2>3, NamesAre DEF HasScopes
<1>2. TextsInv /\ LinedInv /\ ParserInv => FunctionsAreScopes
  BY <1>1 DEF FunctionsAreScopes
<1>. QED  BY <1>2, TextsAreLines, WhatIsPrintedIsRead, PTL

\* For every text that is printed and every prefix of it, if no statement is misread: two
\* of the operations that the theorem before finds in a function have the same path if
\* and only if the same operation is around them (parser.rs: parse_module, region_path
\* and sibling_counter).
THEOREM EveryPathIsARegion == Spec => []PathsAreRegions
<1>1. ASSUME TextsInv, LinedInv, ParserInv, Printing, ~Misread, NEW f \in Defined
      PROVE  SameRegions(ScopeOps(ParseModule(text), Symbols[f]))
  <2>1. PICK r \in ParserStates : /\ Lined /\ Functioned(r) /\ Shorts(r) /\ Pathed(r)
                                  /\ ParseModule(text) = Module(r)
    BY <1>1, WhatIsRead
  <2>2. ScopeOps(Module(r), Symbols[f]) = OpsAt(r.ops, r.functions[f].ops)
    BY <1>1, <2>1, ScopeIs
  <2>3. SameRegions(OpsAt(r.ops, r.functions[f].ops))
    BY <1>1, <2>1, RegionsAre
  <2>. QED  BY <2>1, <2>2, <2>3
<1>2. TextsInv /\ LinedInv /\ ParserInv => PathsAreRegions
  BY <1>1 DEF PathsAreRegions
<1>. QED  BY <1>2, TextsAreLines, WhatIsPrintedIsRead, PTL

\* For every text that is printed and every prefix of it, if no statement is misread, up
\* to the first alias, call without results in the body of a function, or region of an
\* operation that ends: the number that the recorder's walk gives an operation is that of
\* the operation which the parser reads on its line (provenance.rs: row_op_idx;
\* TraceRecorder.cpp: writeOpIndex).
THEOREM EveryTokenNamesItsOperation == Spec => []TokensNameOperations
<1>1. ASSUME TextsInv, LinedInv, ParserInv, Printing, ~Misread
      PROVE  NamesAll(ParseModule(text))
  <2>1. PICK r \in ParserStates :
          Lined /\ Functioned(r) /\ Numbered(r) /\ ParseModule(text) = Module(r)
    BY <1>1, WhatIsRead
  <2>. QED  BY <2>1, RowsAre DEF NamesAll
<1>2. TextsInv /\ LinedInv /\ ParserInv => TokensNameOperations
  BY <1>1 DEF TokensNameOperations
<1>. QED  BY <1>2, TextsAreLines, WhatIsPrintedIsRead, PTL
==============================================================================
