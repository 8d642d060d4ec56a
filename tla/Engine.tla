-------------------------------- MODULE Engine --------------------------------
(***************************************************************************)
(* The parser, the diff and the graphs of the engine, over the texts MLIR  *)
(* prints and the edits passes make of them.  The printer and the passes   *)
(* are not part of the repository: they are modelled as far as the parser  *)
(* depends on them, which is where the lines break and the braces are.     *)
(***************************************************************************)
EXTENDS Parser, Dataflow

CONSTANTS
  FunctionNames,  \* symbols of functions, numbers in the order they are defined
  Symbols,        \* Symbols[n]: what the parser reads as the symbol
  OpForms,        \* the operations that are printed
  Carriers,       \* those of them that have regions or are bodies on one line
  Callees,        \* the functions that are called or declared
  Budgets,        \* budgets of nodes asked for
  MaxLines, MaxRegions, MaxEdits   \* bounds: lines but closing braces, nesting, edits

ASSUME EngineAssumption ==
  /\ FunctionNames \subseteq Nat \ {0} /\ DOMAIN Symbols = FunctionNames
  /\ Carriers \subseteq OpForms /\ Callees \subseteq FunctionNames
  /\ Budgets \subseteq Nat /\ {MaxLines, MaxRegions, MaxEdits} \subseteq Nat
  \* A value is a number; the names of operations are none of the model's own.
  /\ OpForms \subseteq [name : STRING, results : SUBSET Nat, operands : SUBSET Nat,
                        types : STRING, attrs : STRING, location : STRING]
  /\ \A op \in OpForms : op.name \notin {"opaque", "structure"}
  \* No two functions of a module have the same symbol.
  /\ \A f, g \in FunctionNames : Symbols[f] = Symbols[g] => f = g
  /\ \A f \in FunctionNames : Symbols[f] \notin {NoSymbol, TheModule}

VARIABLES
  text,      \* the lines printed so far
  opened,    \* the lines that opened what is still open, the innermost last
  inside,    \* (ghost) for each line the function and the region it is in
  before,    \* the text before the pass, empty while the text is printed
  edits

vars == <<text, opened, inside, before, edits>>

Opaque(delta) ==
  [starts |-> TRUE, closes |-> FALSE, bare |-> FALSE, delta |-> delta, symbol |-> NoSymbol,
   braced |-> FALSE, inner |-> <<>>, op |-> [OpaqueOp EXCEPT !.name = "structure"]]

\* The dictionary of an operation's attributes is text in braces.
OpLine(op)      == [Opaque(0) EXCEPT !.op = op, !.braced = op.attrs # "none",
                                     !.inner = IF op.attrs = "none" THEN <<>>
                                               ELSE <<Opaque(0).op>>]
RegionLine(op)  == [Opaque(1) EXCEPT !.op = op]
ModuleLine      == Opaque(1)
FunctionLine(f) == [Opaque(1) EXCEPT !.symbol = Symbols[f]]
Declaration(f)  == [Opaque(0) EXCEPT !.symbol = Symbols[f]]
Attributes      == [Opaque(1) EXCEPT !.starts = FALSE]
\* A function on one line; to the parser, a call or declaration with a dictionary too.
ShortLine(f, op) == [Declaration(f) EXCEPT !.braced = TRUE, !.inner = <<op>>,
                                           !.op.attrs = "braces"]
\* "#map = ...", and the like, starts with nothing that starts a statement.
AliasLine       == [Opaque(0) EXCEPT !.starts = FALSE, !.op = OpaqueOp]
LabelLine       == [Opaque(0) EXCEPT !.bare = TRUE]
CloseLine       == [Opaque(-1) EXCEPT !.closes = TRUE]
ElseLine        == [Opaque(0) EXCEPT !.closes = TRUE]

\* What opened a line: nothing, the module, a function or a region of an operation.
Outside     == [kind |-> "text", line |-> 0, function |-> 0]
Innermost   == IF opened = <<>> THEN Outside ELSE Last(opened)
InFunction  == Innermost.function # 0
Defined     == {inside[n].defines : n \in DOMAIN inside} \ {0}
NextName    == {f \in FunctionNames : f = Cardinality(Defined) + 1}

Init == text = <<>> /\ opened = <<>> /\ inside = <<>> /\ before = <<>> /\ edits = 0

Where(kind, defines) == [kind |-> kind, defines |-> defines,
                         function |-> Innermost.function, region |-> Innermost.line]

\* Closing braces do not count for the bound.
Printed == Len(SelectSeq(inside, LAMBDA line : line.kind # "close"))

\* Prints lines, the first of which is of that kind; the rest continue it.
Emit(lines, kind, defines) ==
  /\ before = <<>> /\ edits = 0
  /\ Printed + Len(lines) <= MaxLines \/ kind = "close"
  /\ text' = text \o lines
  /\ inside' = inside \o [k \in DOMAIN lines |->
                            IF k = 1 THEN Where(kind, defines) ELSE Where("continued", 0)]
  /\ UNCHANGED <<before, edits>>

Open(kind, function) ==
  /\ Len(opened) < MaxRegions
  /\ opened' = Append(opened, [kind |-> kind, line |-> Len(text) + 1, function |-> function])

\* The aliases that are used are printed before what uses them.
OnlyAliases == \A n \in DOMAIN inside : inside[n].kind = "alias"
PrintAlias  == OnlyAliases /\ Emit(<<AliasLine>>, "alias", 0) /\ UNCHANGED opened

OpenModule == OnlyAliases /\ Emit(<<ModuleLine>>, "module", 0) /\ Open("module", 0)

OpenFunction == \E f \in NextName :
  /\ ~InFunction
  /\ \/ Emit(<<FunctionLine(f)>>, "function", f)
     \/ Emit(<<Declaration(f), Attributes>>, "function", f)
  /\ Open("function", f)

ShortFunction == \E f \in NextName, op \in Carriers :
  /\ ~InFunction /\ Emit(<<ShortLine(f, op)>>, "short", f)
  /\ UNCHANGED opened

\* A declaration or a call of a function, with or without attributes.
Referring == {Declaration(f) : f \in Callees}
              \union {ShortLine(f, op) : f \in Callees, op \in Carriers}

Declare == \E line \in Referring :
  ~InFunction /\ Emit(<<line>>, "declaration", 0) /\ UNCHANGED opened

PrintOp == \E op \in OpForms :
  InFunction /\ Emit(<<OpLine(op)>>, "op", 0) /\ UNCHANGED opened

\* A call of a symbol or of a value. With results it starts with "%", and in a region of
\* another operation with "func."; in the body of a function MLIR leaves that prefix out,
\* so that a call without results starts with "call", which starts no statement.
PrintCall == \E line \in Referring \union {Opaque(0)} :
  /\ InFunction
  /\ \/ Emit(<<line>>, "op", 0)
     \/ /\ Innermost.kind = "function"
        /\ Emit(<<[line EXCEPT !.starts = FALSE]>>, "call", 0)
  /\ UNCHANGED opened

OpenRegion == \E op \in Carriers :
  InFunction /\ Emit(<<RegionLine(op)>>, "op", 0) /\ Open("region", Innermost.function)

\* A block of its own or another region of the same operation.
NextBlock ==
  /\ InFunction /\ Last(inside).kind = "op"
  /\ \/ Innermost.kind = "region" /\ Emit(<<ElseLine>>, "else", 0)
     \/ Emit(<<LabelLine>>, "label", 0)
  /\ UNCHANGED opened

Close ==
  /\ opened # <<>>
  /\ Emit(<<CloseLine>>, "close", 0)
  /\ opened' = Front(opened)

-----------------------------------------------------------------------------
(* A pass: operations come and go, change and move. *)

IsOp(n) == n \in DOMAIN text /\ text[n].delta = 0
           /\ text[n].op.name \notin {"structure", "opaque"}

\* There is room for as many lines as edits may add.
StartPass == before = <<>> /\ opened = <<>> /\ text # <<>> /\ Printed + MaxEdits <= MaxLines
             /\ before' = text /\ UNCHANGED <<text, opened, inside, edits>>

Edit(new) ==
  /\ before # <<>> /\ edits < MaxEdits /\ edits' = edits + 1
  /\ text' = new
  /\ UNCHANGED <<opened, inside, before>>

EraseOp  == \E n \in DOMAIN text : IsOp(n) /\ Edit(RemoveAt(text, n))
ModifyOp == \E n \in DOMAIN text, op \in OpForms : IsOp(n) /\ Edit([text EXCEPT ![n] = OpLine(op)])
InsertOp == \E n \in DOMAIN text, op \in OpForms : IsOp(n) /\ Edit(InsertAt(text, n, OpLine(op)))
MoveOp   == \E n \in DOMAIN text : IsOp(n) /\ IsOp(n + 1) /\
              Edit([text EXCEPT ![n] = text[n + 1], ![n + 1] = text[n]])

Next ==
  \/ PrintAlias \/ OpenModule \/ OpenFunction \/ ShortFunction \/ Declare
  \/ PrintOp \/ PrintCall \/ OpenRegion \/ NextBlock \/ Close
  \/ StartPass \/ EraseOp \/ ModifyOp \/ InsertOp \/ MoveOp

Spec == Init /\ [][Next]_vars

-----------------------------------------------------------------------------
(* Properties of the parser, of every text and every prefix of it. *)

Printing == before = <<>>

\* A statement is taken for a function on one line that is none: a call or declaration
\* with attributes, or an operation with attributes that a call without results follows.
Misread ==
  \E st \in Range(Assemble(text)) :
    IsShort(st.line) /\ ~st.line.closes /\ ~st.line.bare /\ inside[st.first].kind # "short"

\* The lines of the operations printed in a function, but for those that start no
\* statement.
LinesIn(f) ==
  {n \in DOMAIN inside : inside[n].kind = "op" /\ inside[n].function = f}
    \union {n \in DOMAIN inside : inside[n].kind = "short" /\ inside[n].defines = f}

\* The operations of a function but those that a line like "} else {" is read as.
IsOpaque(op) == op.name = "opaque"
RealIn(ops)  == {k \in DOMAIN ops : ~IsOpaque(ops[k])}

\* They are those of the lines, each once.
AreOf(ops, lines) ==
  /\ {ops[k].first : k \in RealIn(ops)} = lines
  /\ \A k, l \in RealIn(ops) : ops[k].first = ops[l].first => k = l

NamesIn(module) == {g.name : g \in Range(module.functions)}
Known           == {Symbols[f] : f \in Defined}

HasScopes(module) ==
  /\ module.open = Len(opened)
  /\ NamesIn(module) \ {TheModule} = Known
  /\ (text # <<>> /\ Defined = {}) => NamesIn(module) = {TheModule}
  /\ \A f \in Defined : AreOf(ScopeOps(module, Symbols[f]), LinesIn(f))

\* If no statement is misread, a function that is printed is one of the module's, with
\* the operations printed in it but the calls without results in its body, which are
\* part of the statement before, and with no other, whatever regions, labels, calls and
\* line breaks there are; the braces that are open are counted right at every line.
FunctionsAreScopes == (Printing /\ ~Misread) => HasScopes(ParseModule(text))

SameRegions(ops) ==
  \A i, j \in RealIn(ops) :
    (ops[i].path = ops[j].path)
      <=> (inside[ops[i].first].region = inside[ops[j].first].region)

\* Two of these operations of a function have the same path if and only if the same
\* operation is around them.
PathsAreRegions ==
  (Printing /\ ~Misread) => \A f \in Defined :
    SameRegions(ScopeOps(ParseModule(text), Symbols[f]))

\* The operation a row of the index means, if it is one of the function: the recorder
\* numbers operations in the order it walks them (TraceRecorder.cpp, writeOpIndex).
RowOp(module, name, ordinal) ==
  LET n == Scope(module, name) IN
  IF n # 0 /\ ordinal + 1 \in Range(module.functions[n].ops) THEN ordinal + 1 ELSE 0

\* The lines of operations that are walked, and the place in that walk of the operation
\* of a line.
IsWalked(n) ==
  inside[n].kind \in {"module", "function", "short", "declaration", "op", "call"}
Ordinal(n) ==
  LET previous == {k \in 1 .. n - 1 : IsWalked(k)}
      bodies   == {k \in 1 .. n : inside[k].kind = "short"}
  IN Cardinality(previous) + Cardinality(bodies)

\* Before the line the parser has read an operation more or less than are walked: an
\* alias or a line like "} else {" is parsed as an operation, a call may start no
\* statement, and a terminator at the end of a region need not be printed.
WalksDiffer(n) ==
  \E k \in 1 .. n - 1 :
    \/ inside[k].kind \in {"alias", "else", "call"}
    \/ inside[k].kind = "close" /\ inside[k].region # 0 /\ inside[inside[k].region].kind = "op"

Names(module, op, n) == op # 0 /\ module.ops[op].first = n
NamesAll(module) ==
  \A f \in Defined : \A n \in LinesIn(f) :
    ~WalksDiffer(n) => Names(module, RowOp(module, Symbols[f], Ordinal(n)), n)

\* The events of an operation find it in the text, if no statement is misread: the
\* parser numbers the operations of modules, functions of any layout, declarations,
\* calls that start a statement and blocks as the recorder's walk does, up to the first
\* alias, call without results in a body, or region that ends.
TokensNameOperations ==
  (Printing /\ ~Misread) => NamesAll(ParseModule(text))

-----------------------------------------------------------------------------
(* What a comment of the parser says of it, which the texts of MLIR violate. *)

\* A statement is a single operation or a structural token (parser.rs, Statement).
StatementsAreSingle ==
  Printing => \A st \in Range(Assemble(text)) :
                Cardinality({n \in st.first .. st.last : IsWalked(n)}) <= 1

-----------------------------------------------------------------------------
(* Properties of the diff and of the graphs, of every pass. *)

\* What is asserted of the operations of every function of two modules.
ForEachScope(old, new, Test(_, _)) ==
  \A g \in Range(new.functions) : Test(ScopeOps(old, g.name), ScopeOps(new, g.name))

\* And of the modules before and after the pass.
ForEachFunction(Test(_, _)) ==
  before # <<>> => ForEachScope(ParseModule(before), ParseModule(text), Test)

\* A diff mentions every operation once and in order; and two blobs with the same
\* operations have the diff that the handler answers for one blob.
DiffAccountsForAll ==
  ForEachFunction(LAMBDA old, new :
    AccountsForAll(old, new, DiffFunction(old, new)) /\ ReflexiveDiff(new))

\* No operation is reported as removed and another of its name as added.
DiffMissesNoPair ==
  ForEachFunction(LAMBDA old, new : NoMissedPair(old, new, DiffFunction(old, new)))

\* What is asserted of the graph of a function, of that of its diff, and of what
\* they are collapsed to.
ForEachGraph(Test(_, _, _)) ==
  LET graphs(old, new) == {FullDataflow(new), FullDataflowDiff(old, new)}
      all(old, new) == \A full \in graphs(old, new), budget \in Budgets :
                         Test(full, CollapseToBudget(full, budget), budget)
  IN ForEachFunction(all)

\* A graph has at most as many nodes as were asked for, and edges between them only.
GraphsKeepToBudget ==
  ForEachGraph(LAMBDA full, graph, budget :
                 WithinBudget(full, graph, budget) /\ WellFormed(graph))

\* A graph that is collapsed and not truncated accounts for every operation and edge.
GraphsLoseNothing  == ForEachGraph(LAMBDA full, graph, budget : IsQuotient(full, graph))

\* No region is collapsed that the budget had room for.
GraphsShowWhatFits == ForEachGraph(NoNeedlessCollapse)
=============================================================================
