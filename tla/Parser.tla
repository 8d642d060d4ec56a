-------------------------------- MODULE Parser --------------------------------
(***************************************************************************)
(* The tolerant parser of printed IR (crates/engine/src/parser.rs): lines  *)
(* are assembled to statements, and braces, labels and symbols give every  *)
(* operation the regions and the function it is in.                        *)
(*                                                                         *)
(* A line is represented by what the parser extracts from its text:        *)
(*   starts   it begins with what starts a statement                       *)
(*   closes   it begins with a closing brace                               *)
(*   bare     it is an opening brace alone, or begins with a block label   *)
(*   delta    its opening less its closing braces                          *)
(*   symbol   the first @name in it, NoSymbol if there is none             *)
(*   braced   it has an opening brace with a closing one after it          *)
(*   inner    the operations that the text between these parses to         *)
(*   op       the fields of the operation it is read as                    *)
(* A line that continues another closes the braces it opens or leaves some *)
(* open; it closes none of those of the line before.                       *)
(***************************************************************************)
EXTENDS SequencesExt

NoSymbol == "no symbol"
TheModule == "(module)"
NoScope  == [function |-> 0, depth |-> 0]

\* Mutant of Assemble: no line continues another.
EachLine(lines) ==
  [n \in DOMAIN lines |-> [line |-> lines[n], first |-> n, last |-> n]]

\* A line and one that continues it are read as one: the first symbol counts and the
\* first dictionary, the last types, all operands, and braces from the first that opens
\* to the last that closes.
Join(old, line) ==
  [old EXCEPT !.delta = @ + line.delta,
              !.symbol = IF @ = NoSymbol THEN line.symbol ELSE @,
              !.braced = @ \/ line.braced,
              !.inner = IF old.braced THEN @ ELSE line.inner,
              !.op.operands = @ \union line.op.operands,
              !.op.types = line.op.types,
              !.op.attrs = IF @ = "none" /\ old.delta <= 0 THEN line.op.attrs ELSE @]

\* The first line starts a statement whatever it is; others may continue the last.
AddLine(lines, statements, n) ==
  LET line == lines[n]
      old  == Last(statements)
  IN IF statements = <<>> \/ line.starts
     THEN Append(statements, [line |-> line, first |-> n, last |-> n])
     ELSE Append(Front(statements), [old EXCEPT !.line = Join(@, line), !.last = n])

Assemble(lines) ==
  FoldLeft(LAMBDA statements, n : AddLine(lines, statements, n), <<>>,
           [n \in 1 .. Len(lines) |-> n])

\* path: region_path; counters: sibling_counter; scope: active_scope.
StartOfText == [ops |-> <<>>, functions |-> <<>>, path |-> <<>>, counters |-> <<0>>,
                scope |-> NoScope]

\* Mutant of EnterRegion: the regions of an operation are not counted.
EnterUncounted(s) == [s EXCEPT !.path = Append(@, 0), !.counters = Append(@, 0)]

\* A region is numbered within the region around it; a closing brace too many has
\* left no counter.
EnterRegion(s) ==
  LET depth == Len(s.counters)
      child == IF depth = 0 THEN 0 ELSE s.counters[depth]
      rest  == IF depth = 0 THEN <<>> ELSE [s.counters EXCEPT ![depth] = @ + 1]
  IN [s EXCEPT !.path = Append(@, child), !.counters = Append(rest, 0)]

EnterRegions(state, n) ==
  FoldLeft(LAMBDA s, k : EnterRegion(s), state, [k \in 1 .. n |-> k])

Pop(seq) == IF seq = <<>> THEN <<>> ELSE Front(seq)

\* Mutant of LeaveRegion: a function ends with any region that ends in it.
LeaveFunction(s, last) ==
  [s EXCEPT !.path = Pop(@), !.counters = Pop(@), !.scope = NoScope,
            !.functions = IF s.scope = NoScope THEN @
                          ELSE [@ EXCEPT ![s.scope.function].last = last]]

\* The function ends with the region that is its body.
LeaveRegion(s, last) ==
  LET ends == s.scope # NoScope /\ Len(Pop(s.path)) < s.scope.depth
  IN [s EXCEPT !.path = Pop(@), !.counters = Pop(@),
               !.scope = IF ends THEN NoScope ELSE @,
               !.functions = IF ends THEN [@ EXCEPT ![s.scope.function].last = last] ELSE @]

LeaveRegions(state, last, n) ==
  FoldLeft(LAMBDA s, k : LeaveRegion(s, last), state, [k \in 1 .. n |-> k])

-----------------------------------------------------------------------------
\* A line that is none of an operation's is one that is opaque.
OpaqueOp == [name |-> "opaque", results |-> {}, operands |-> {}, types |-> "none",
             attrs |-> "none", location |-> "none"]
ReadOp(line) == IF line.closes THEN OpaqueOp ELSE line.op

Placed(op, path, st) ==
  [name |-> op.name, results |-> op.results, operands |-> op.operands \ op.results,
   types |-> op.types, attrs |-> op.attrs, location |-> op.location, path |-> path,
   first |-> st.first, last |-> st.last]

PushOp(s, st) == [s EXCEPT !.ops = Append(@, Placed(ReadOp(st.line), s.path, st))]

FunctionScope(name, ops, st) ==
  [name |-> name, ops |-> ops, first |-> st.first, last |-> st.last]
Extended(function, index, st) ==
  [function EXCEPT !.ops = Append(@, index), !.last = st.last]

\* A statement with a symbol that closes what it opens is taken for a function on one
\* line; what it contains is parsed on its own, and has no path of the regions around.
IsShort(line) == line.delta <= 0 /\ line.symbol # NoSymbol /\ line.braced

PushInner(s, st) ==
  LET inner == st.line.inner
      base  == Len(s.ops)
  IN IF ~IsShort(st.line) THEN s
     ELSE [s EXCEPT !.ops = @ \o [k \in DOMAIN inner |-> Placed(inner[k], <<>>, st)],
                    !.functions = Append(@, FunctionScope(st.line.symbol,
                                              [k \in DOMAIN inner |-> base + k], st))]

\* The operation of the statement opens a function, or belongs to the one that is
\* open: functions do not nest.
AssignScope(s, st, index) ==
  IF st.line.delta > 0 /\ st.line.symbol # NoSymbol /\ s.scope = NoScope
  THEN [s EXCEPT !.functions = Append(@, FunctionScope(st.line.symbol, <<>>, st)),
                 !.scope = [function |-> Len(s.functions) + 1, depth |-> Len(s.path) + 1]]
  ELSE IF s.scope = NoScope THEN s
  ELSE [s EXCEPT !.functions[s.scope.function] = Extended(@, index, st)]

ParseStatement(s, st) ==
  LET line  == st.line
      index == Len(s.ops) + 1
  IN IF line.closes /\ line.delta < 0 THEN LeaveRegions(s, st.last, -line.delta)
     ELSE IF line.bare THEN EnterRegions(s, line.delta)
     ELSE EnterRegions(AssignScope(PushInner(PushOp(s, st), st), st, index), line.delta)

\* Without any function the whole text is one.
Module(end) ==
  LET all == FunctionScope(TheModule, [i \in DOMAIN end.ops |-> i],
                           [first |-> Head(end.ops).first, last |-> Last(end.ops).last])
  IN [ops |-> end.ops,
      functions |-> IF end.functions = <<>> /\ end.ops # <<>> THEN <<all>>
                    ELSE end.functions,
      open |-> Len(end.path)]

EndOf(statements)  == FoldLeft(ParseStatement, StartOfText, statements)
ParseModule(lines) == Module(EndOf(Assemble(lines)))

\* The first function of that name; its operations.
Scope(module, name) == SelectInSeq(module.functions, LAMBDA f : f.name = name)
ScopeOps(module, name) ==
  LET n == Scope(module, name) IN
  IF n = 0 THEN <<>>
  ELSE [k \in DOMAIN module.functions[n].ops |-> module.ops[module.functions[n].ops[k]]]
=============================================================================
