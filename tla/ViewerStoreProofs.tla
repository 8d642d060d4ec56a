--------------------------- MODULE ViewerStoreProofs ---------------------------
(***************************************************************************)
(* The viewer: its types, that the page shows what is selected, of that    *)
(* alone, and all of it once nothing is awaited, for any number of passes, *)
(* functions, clicks and failures, and any order of the answers.           *)
(***************************************************************************)
EXTENDS ViewerStore, FiniteSetTheorems, WellFoundedInduction, TLAPS

\* A click on a pass or on a step of a history, and the answer to load, clear the page.
LEMMA ShowPassShows ==
  ASSUME NEW p, ShowPass(p)
  PROVE  ShowsSelectedPass'
BY DEF ShowPass, ShowsSelectedPass

\* What the user does on a page keeps it that of the selected pass.
LEMMA UserShows ==
  ASSUME ShowsSelectedPass, User
  PROVE  ShowsSelectedPass'
<1>1. ASSUME NEW p \in Passes, SelectPass(p) \/ ViewHistoryStep(p)
      PROVE  ShowsSelectedPass'
  BY <1>1, ShowPassShows DEF SelectPass, ViewHistoryStep
<1>2. ASSUME NEW mode \in Modes, SetViewMode(mode)
      PROVE  ShowsSelectedPass'
  BY <1>2 DEF SetViewMode, shown, ShowsSelectedPass
<1>3. ASSUME NEW f \in Functions, SelectFunc(f)
      PROVE  ShowsSelectedPass'
  BY <1>3 DEF SelectFunc, ShowsSelectedPass
<1>4. ASSUME NEW uid \in Uids, SelectOp(uid)
      PROVE  ShowsSelectedPass'
  BY <1>4 DEF SelectOp, ShowsSelectedPass
<1>5. CASE ToggleDiff
  BY <1>5 DEF ToggleDiff, shown, ShowsSelectedPass
<1>. QED  BY <1>1, <1>2, <1>3, <1>4, <1>5 DEF User

\* An answer is shown only if it is for the pass that is selected now.
LEMMA AnswerShows ==
  ASSUME ShowsSelectedPass, NEW c \in calls, Answer(c) \/ Unanswered(c)
  PROVE  ShowsSelectedPass'
<1>1. CASE AnswerLoad(c)
  BY <1>1, ShowPassShows DEF AnswerLoad
<1>2. CASE AnswerPass(c)
  BY <1>2 DEF AnswerPass, Current, ShowsSelectedPass
<1>3. CASE LatePass(c)
  BY <1>3 DEF LatePass, shown, ShowsSelectedPass
<1>4. CASE AnswerOps(c)
  BY <1>4 DEF AnswerOps, Selected, Current, ShowsSelectedPass
<1>5. CASE AnswerGraph(c)
  BY <1>5 DEF AnswerGraph, Selected, Current, ShowsSelectedPass
<1>6. CASE AnswerDiff(c)
  BY <1>6 DEF AnswerDiff, Selected, Current, ShowsSelectedPass
<1>7. CASE AnswerOp(c)
  BY <1>7 DEF AnswerOp, chosen, ShowsSelectedPass
<1>8. CASE Fail(c)
  BY <1>8 DEF Fail, ShowsSelectedPass
<1>. QED  BY <1>1, <1>2, <1>3, <1>4, <1>5, <1>6, <1>7, <1>8 DEF Answer, Unanswered

\* Whatever is fetched and however late it arrives, the page shows data of the selected
\* pass only: the checks after each await of store.ts suffice.
THEOREM PageIsOfSelectedPass == Spec => []ShowsSelectedPass
<1>1. Init => ShowsSelectedPass
  BY DEF Init, ShowsSelectedPass
<1>2. ASSUME ShowsSelectedPass, [Next]_vars
      PROVE  ShowsSelectedPass'
  <2>1. CASE User
    BY <1>2, <2>1, UserShows
  <2>2. CASE \E c \in calls : Answer(c) \/ Unanswered(c)
    BY <1>2, <2>2, AnswerShows
  <2>3. CASE Render \/ \E g \in layouts : LaidOut(g) \/ NotLaidOut(g)
    BY <1>2, <2>3 DEF Render, LaidOut, NotLaidOut, shown, chosen, ShowsSelectedPass
  <2>4. CASE UNCHANGED vars
    BY <1>2, <2>4 DEF vars, shown, chosen, ShowsSelectedPass
  <2>. QED  BY <1>2, <2>1, <2>2, <2>3, <2>4 DEF Next
<1>. QED  BY <1>1, <1>2, PTL DEF Spec

-----------------------------------------------------------------------------
\* The user enters the history mode with an operation, and keeps one.
LEMMA UserKeepsHistory ==
  ASSUME HistoryOfSelection, User
  PROVE  HistoryOfSelection'
<1>1. ASSUME NEW p \in Passes, SelectPass(p) \/ ViewHistoryStep(p)
      PROVE  HistoryOfSelection'
  BY <1>1 DEF SelectPass, ViewHistoryStep, ShowPass, HistoryOfSelection
<1>2. ASSUME NEW mode \in Modes, SetViewMode(mode)
      PROVE  HistoryOfSelection'
  BY <1>2 DEF SetViewMode, shown, HistoryOfSelection
<1>3. ASSUME NEW f \in Functions, SelectFunc(f)
      PROVE  HistoryOfSelection'
  BY <1>3 DEF SelectFunc, HistoryOfSelection
<1>4. ASSUME NEW uid \in Uids, SelectOp(uid)
      PROVE  HistoryOfSelection'
  BY <1>4, ViewerAssumption DEF SelectOp, HistoryOfSelection
<1>5. CASE ToggleDiff
  BY <1>5 DEF ToggleDiff, shown, HistoryOfSelection
<1>. QED  BY <1>1, <1>2, <1>3, <1>4, <1>5 DEF User

\* A history that arrives is kept only if its operation is still selected.
LEMMA AnswerKeepsHistory ==
  ASSUME HistoryOfSelection, NEW c \in calls, Answer(c) \/ Unanswered(c)
  PROVE  HistoryOfSelection'
<1>1. CASE AnswerLoad(c)
  BY <1>1 DEF AnswerLoad, ShowPass, HistoryOfSelection
<1>2. CASE AnswerPass(c)
  BY <1>2 DEF AnswerPass, Return, HistoryOfSelection
<1>3. CASE LatePass(c)
  BY <1>3 DEF LatePass, Finish, Return, shown, HistoryOfSelection
<1>4. CASE AnswerOps(c)
  BY <1>4 DEF AnswerOps, Finish, Return, HistoryOfSelection
<1>5. CASE AnswerGraph(c)
  BY <1>5 DEF AnswerGraph, Finish, Return, HistoryOfSelection
<1>6. CASE AnswerDiff(c)
  BY <1>6 DEF AnswerDiff, Finish, Return, HistoryOfSelection
<1>7. CASE AnswerOp(c)
  BY <1>7 DEF AnswerOp, chosen, HistoryOfSelection
<1>8. CASE Fail(c)
  BY <1>8 DEF Fail, Finish, Return, HistoryOfSelection
<1>. QED  BY <1>1, <1>2, <1>3, <1>4, <1>5, <1>6, <1>7, <1>8 DEF Answer, Unanswered

\* The history on the page is that of the selected operation, and the history mode
\* always has one, in whatever order selections and answers come.
THEOREM HistoryIsOfSelection == Spec => []HistoryOfSelection
<1>1. Init => HistoryOfSelection
  BY DEF Init, HistoryOfSelection
<1>2. ASSUME HistoryOfSelection, [Next]_vars
      PROVE  HistoryOfSelection'
  <2>1. CASE User
    BY <1>2, <2>1, UserKeepsHistory
  <2>2. CASE \E c \in calls : Answer(c) \/ Unanswered(c)
    BY <1>2, <2>2, AnswerKeepsHistory
  <2>3. CASE Render \/ \E g \in layouts : LaidOut(g) \/ NotLaidOut(g)
    BY <1>2, <2>3 DEF Render, LaidOut, NotLaidOut, shown, chosen, HistoryOfSelection
  <2>4. CASE UNCHANGED vars
    BY <1>2, <2>4 DEF vars, shown, chosen, HistoryOfSelection
  <2>. QED  BY <1>2, <2>1, <2>2, <2>3, <2>4 DEF Next
<1>. QED  BY <1>1, <1>2, PTL DEF Spec

-----------------------------------------------------------------------------
\* Only the graph the effect ran for last is being laid out; it has been, or it is not
\* under way any more because a layout failed.  What is displayed does not matter: a
\* graph that replaces another is unknown to the effect until it is rendered.
DrawingInv ==
  /\ failures \in Nat
  /\ layouts \subseteq {laidOut}
  /\ (layouts = {} /\ failures = 0) => layout = laidOut

\* The effect of GraphView and what it has started keep DrawingInv.
LEMMA DrawingSteps ==
  ASSUME DrawingInv, Render \/ \E g \in layouts : LaidOut(g) \/ NotLaidOut(g)
  PROVE  DrawingInv'
<1>1. CASE Render
  BY <1>1 DEF Render, Cancel, DrawingInv
<1>2. ASSUME NEW g \in layouts, LaidOut(g)
      PROVE  DrawingInv'
  BY <1>2 DEF LaidOut, DrawingInv
<1>3. ASSUME NEW g \in layouts, NotLaidOut(g)
      PROVE  DrawingInv'
  BY <1>3 DEF NotLaidOut, DrawingInv
<1>. QED  BY <1>1, <1>2, <1>3

\* Nothing else touches the drawing; a request that fails only adds to the failures.
LEMMA OtherSteps ==
  ASSUME DrawingInv, User \/ \E c \in calls : Answer(c) \/ Unanswered(c)
  PROVE  DrawingInv'
<1>1. ASSUME User
      PROVE  UNCHANGED <<failures, drawing>>
  BY <1>1 DEF User, SelectPass, SetViewMode, SelectFunc, SelectOp, ToggleDiff,
              ViewHistoryStep, Click
<1>2. ASSUME NEW c \in calls, Answer(c)
      PROVE  UNCHANGED <<failures, drawing>>
  BY <1>2 DEF Answer
<1>3. ASSUME NEW c \in calls, Unanswered(c)
      PROVE  failures' = failures + 1 /\ UNCHANGED drawing
  BY <1>3 DEF Unanswered
<1>4. CASE UNCHANGED <<failures, drawing>>
  BY <1>4 DEF drawing, DrawingInv
<1>5. CASE failures' = failures + 1 /\ UNCHANGED drawing
  BY <1>5 DEF drawing, DrawingInv
<1>. QED  BY <1>1, <1>2, <1>3, <1>4, <1>5

\* The layout of a graph that was replaced meanwhile never takes the place of that of
\* the graph on the page: the cleanup of the effect suffices.
THEOREM GraphIsDrawnAsLaidOut == Spec => []DrawnWhenLaidOut
<1>1. Init => DrawingInv
  BY DEF Init, DrawingInv
<1>2. ASSUME DrawingInv, [Next]_vars
      PROVE  DrawingInv'
  <2>1. CASE User \/ \E c \in calls : Answer(c) \/ Unanswered(c)
    BY <2>1, <1>2, OtherSteps
  <2>2. CASE Render \/ \E g \in layouts : LaidOut(g) \/ NotLaidOut(g)
    BY <2>2, <1>2, DrawingSteps
  <2>3. CASE UNCHANGED vars
    BY <1>2, <2>3 DEF vars, drawing, DrawingInv
  <2>. QED  BY <1>2, <2>1, <2>2, <2>3 DEF Next
<1>3. DrawingInv => DrawnWhenLaidOut
  BY DEF DrawingInv, DrawnWhenLaidOut
<1>. QED  BY <1>1, <1>2, <1>3, PTL DEF Spec

-----------------------------------------------------------------------------
(* The types of the store, and how many calls it may have at their awaits. *)

\* Min, of numbers, is a member of the set it is taken of.
LEMMA MinIsMember ==
  ASSUME NEW S \in SUBSET Nat, S # {}
  PROVE  Min(S) \in S
<1>1. PICK n \in S : \A m \in S : ~(<<m, n>> \in OpToRel(<, Nat))
  BY NatLessThanWellFounded, WFMin
<1>2. ASSUME NEW m \in S
      PROVE  n <= m
  <2>1. m \in Nat /\ n \in Nat
    OBVIOUS
  <2>2. m < n => <<m, n>> \in OpToRel(<, Nat)
    BY <2>1 DEF OpToRel
  <2>3. ~(m < n)
    BY <1>1, <2>2
  <2>. QED  BY <2>1, <2>3
<1>. QED  BY <1>2 DEF Min

LEMMA FunctionsAreFunctions ==
  ASSUME NEW p \in Passes
  PROVE  FunctionsOf(p) \subseteq Functions
<1>1. ASSUME NEW side \in Sides, HasSide(p, side)
      PROVE  Scopes[p][side] \subseteq Functions
  BY <1>1, ViewerAssumption DEF HasSide
<1>. QED  BY <1>1 DEF FunctionsOf

\* The pass a trace is opened at is one of its passes.
LEMMA FirstPassIsPass == FirstPass \in Passes
<1>1. \A S \in SUBSET Passes : S # {} => Min(S) \in S
  BY MinIsMember, ViewerAssumption
<1>. QED  BY <1>1, ViewerAssumption DEF FirstPass

LEMMA NextFunctionIsFunction ==
  ASSUME selectedFunc \in OptFunc, NEW p \in Passes
  PROVE  NextFunction(p) \in OptFunc
<1>1. FunctionsOf(p) # {} => Min(FunctionsOf(p)) \in FunctionsOf(p)
  BY MinIsMember, FunctionsAreFunctions, ViewerAssumption
<1>. QED  BY <1>1, FunctionsAreFunctions DEF NextFunction, OptFunc

\* What a call at its await carries: it is there for something, those of refreshView
\* have a selection, and go on as their mode says.
CallOK(c) ==
  /\ c.kind = "pass" => c.pass \in Passes
  /\ c.kind \in {"ops", "graph", "diff"} => c.pass \in Passes /\ c.func \in Functions
  /\ c.kind = "graph" => c.mode = "graph"
  /\ c.kind = "diff" => c.mode # "graph" /\ c.diff

\* The calls after n clicks: load is called Loads times, a click adds one call, and an
\* answer replaces one by at most one.
CallsInv(set, n) ==
  /\ set \subseteq Call /\ \A c \in set : CallOK(c)
  /\ IsFiniteSet(set) /\ Cardinality(set) <= Loads + n

ViewerInv == ViewerTypeOK /\ CallsInv(calls, clicks)

\* Among so few calls a copy number is free.
LEMMA FreeCopy ==
  ASSUME NEW others, IsFiniteSet(others), Cardinality(others) <= MaxClicks + 2,
         NEW call \in Call
  PROVE  /\ Numbered(call, others) \in Call
         /\ \E n : Numbered(call, others) = [call EXCEPT !.copy = n]
<1>. DEFINE Copies == 0 .. MaxClicks + 2
            copied == [n \in Copies |-> [call EXCEPT !.copy = n]]
<1>1. MaxClicks \in Nat
  BY ViewerAssumption
<1>2. IsFiniteSet(Copies) /\ Cardinality(Copies) = MaxClicks + 3
  BY <1>1, FS_Interval
<1>3. ASSUME NEW m \in Copies, NEW n \in Copies, copied[m] = copied[n]
      PROVE  m = n
  <2>1. copied[m].copy = m /\ copied[n].copy = n
    BY DEF Call
  <2>. QED  BY <1>3, <2>1
<1>4. \E n \in Copies : copied[n] \notin others
  <2>1. SUFFICES ASSUME \A n \in Copies : copied[n] \in others
                 PROVE  FALSE
    OBVIOUS
  <2>2. copied \in Injection(Copies, others)
    <3>1. copied \in [Copies -> others]
      BY <2>1
    <3>2. DOMAIN copied = Copies
      OBVIOUS
    <3>. HIDE DEF Copies, copied
    <3>. QED  BY <3>1, <3>2, <1>3 DEF Injection, IsInjective
  <2>3. Cardinality(Copies) <= Cardinality(others)
    <3>. HIDE DEF Copies, copied
    <3>. QED  BY <2>2, FS_Injection
  <2>4. Cardinality(others) \in Nat
    BY FS_CardinalityType
  <2>. QED  BY <2>3, <2>4, <1>1, <1>2
<1>5. \E n \in 0 .. MaxClicks + 2 : [call EXCEPT !.copy = n] \notin others
  BY <1>4
<1>6. PICK n \in 0 .. MaxClicks + 2 : Numbered(call, others) = [call EXCEPT !.copy = n]
  BY <1>5 DEF Numbered
<1>7. [call EXCEPT !.copy = n] \in Call
  BY <1>1 DEF Call
<1>. QED  BY <1>6, <1>7
LEMMA AwaitsOne ==
  ASSUME NEW others, NEW n \in Int, n <= MaxClicks, CallsInv(others, n),
         NEW call \in Call, CallOK(call)
  PROVE  CallsInv(Await(others, {call}), n + 1)
<1>. DEFINE it == Numbered(call, others)
<1>1. Loads \in 1 .. 2 /\ MaxClicks \in Nat /\ Cardinality(others) \in Nat
  BY ViewerAssumption, FS_CardinalityType DEF CallsInv
<1>2. Cardinality(others) <= MaxClicks + 2
  BY <1>1 DEF CallsInv
<1>3. it \in Call /\ \E m : it = [call EXCEPT !.copy = m]
  BY <1>2, FreeCopy DEF CallsInv
<1>4. CallOK(it)
  BY <1>3 DEF CallOK, Call
<1>5. Await(others, {call}) = others \union {it}
  BY DEF Await
<1>. HIDE DEF it
<1>6. IsFiniteSet(others \union {it}) /\ Cardinality(others \union {it}) <= Cardinality(others) + 1
  <2>1. IsFiniteSet(others)
    BY DEF CallsInv
  <2>2. /\ IsFiniteSet(others \cup {it})
        /\ Cardinality(others \cup {it})
             = IF it \in others THEN Cardinality(others) ELSE Cardinality(others) + 1
    BY <2>1, FS_AddElement
  <2>. QED  BY <1>1, <2>2
<1>7. Cardinality(others \union {it}) <= Loads + (n + 1)
  <2>1. Cardinality(others \union {it}) \in Nat
    BY <1>6, FS_CardinalityType
  <2>. QED  BY <2>1, <1>1, <1>6 DEF CallsInv
<1>. QED  BY <1>3, <1>4, <1>5, <1>6, <1>7 DEF CallsInv

\* What a call awaits is what it was made for: it differs from it in its copy only.
LEMMA Awaited ==
  ASSUME NEW others, NEW call \in Call
  PROVE  /\ others \subseteq Await(others, {call})
         /\ \E it \in Await(others, {call}) :
              /\ it.kind = call.kind /\ it.pass = call.pass /\ it.func = call.func
              /\ it.mode = call.mode /\ it.diff = call.diff
<1>1. Numbered(call, others) \in Await(others, {call})
  BY DEF Await
<1>2. PICK n : Numbered(call, others) = [call EXCEPT !.copy = n]
  BY DEF Numbered
<1>. QED  BY <1>1, <1>2 DEF Await, Call

LEMMA EndsOne ==
  ASSUME clicks \in Nat, CallsInv(calls, clicks), NEW c \in calls
  PROVE  CallsInv(calls \ {c}, clicks - 1) /\ CallsInv(calls \ {c}, clicks)
<1>1. Loads \in 1 .. 2 /\ Cardinality(calls) \in Nat
  BY ViewerAssumption, FS_CardinalityType DEF CallsInv
<1>2. IsFiniteSet(calls \ {c}) /\ Cardinality(calls \ {c}) = Cardinality(calls) - 1
  BY FS_RemoveElement DEF CallsInv
<1>. QED  BY <1>1, <1>2 DEF CallsInv

LEMMA PassCalls ==
  ASSUME NEW p \in Passes, NEW back \in BOOLEAN
  PROVE  /\ PassCall(p, back) \in Call /\ CallOK(PassCall(p, back))
         /\ PassCall(p, back).kind = "pass" /\ PassCall(p, back).pass = p
BY DEF PassCall, LoadCall, CallOK, Call, OptPass, OptFunc, OptUid, Modes

LEMMA OpCalls ==
  ASSUME NEW uid \in Uids
  PROVE  OpCall(uid) \in Call /\ CallOK(OpCall(uid))
BY DEF OpCall, LoadCall, CallOK, Call, OptPass, OptFunc, OptUid, Modes

\* refreshView returns at once, or asks for the operations of what is selected.
LEMMA RefreshCalls ==
  ASSUME NEW p \in OptPass, NEW f \in OptFunc, NEW mode \in Modes,
         NEW d \in BOOLEAN, NEW back \in BOOLEAN
  PROVE  \/ (p = None \/ f = None) /\ Refresh(p, f, mode, d, back) = {}
         \/ /\ p # None /\ f # None
            /\ \E call \in Call :
                 /\ CallOK(call) /\ Refresh(p, f, mode, d, back) = {call}
                 /\ call.kind = "ops" /\ call.pass = p /\ call.func = f
                 /\ call.mode = mode /\ call.diff = d
<1>1. CASE p = None \/ f = None
  BY <1>1 DEF Refresh
<1>2. CASE ~(p = None \/ f = None)
  <2>. DEFINE call == [LoadCall(0) EXCEPT !.kind = "ops", !.pass = p, !.func = f, !.mode = mode,
                                          !.diff = d, !.back = back]
  <2>1. Refresh(p, f, mode, d, back) = {call}
    BY <1>2 DEF Refresh
  <2>2. call \in Call /\ CallOK(call)
    BY <1>2 DEF LoadCall, CallOK, Call, OptPass, OptFunc, OptUid
  <2>3. /\ call.kind = "ops" /\ call.pass = p /\ call.func = f
        /\ call.mode = mode /\ call.diff = d
    BY DEF LoadCall
  <2>. HIDE DEF call
  <2>. QED  BY <1>2, <2>1, <2>2, <2>3
<1>. QED  BY <1>1, <1>2

LEMMA RefreshAwaits ==
  ASSUME NEW p \in OptPass, NEW f \in OptFunc, NEW mode \in Modes,
         NEW d \in BOOLEAN, NEW back \in BOOLEAN,
         NEW others, NEW n \in Int, n <= MaxClicks, CallsInv(others, n)
  PROVE  CallsInv(Await(others, Refresh(p, f, mode, d, back)), n + 1)
<1>1. CASE Refresh(p, f, mode, d, back) = {}
  <2>1. Await(others, {}) = others
    BY DEF Await
  <2>2. Loads \in 1 .. 2 /\ Cardinality(others) \in Nat
    BY ViewerAssumption, FS_CardinalityType DEF CallsInv
  <2>. QED  BY <1>1, <2>1, <2>2 DEF CallsInv
<1>2. CASE \E call \in Call : CallOK(call) /\ Refresh(p, f, mode, d, back) = {call}
  BY <1>2, AwaitsOne
<1>. QED  BY <1>1, <1>2, RefreshCalls

-----------------------------------------------------------------------------
(* The type of the store is preserved by what the user does. *)

LEMMA ShowPassTyped ==
  ASSUME ViewerInv, NEW p \in Passes, ShowPass(p)
  PROVE  /\ selectedPass' \in OptPass /\ pages' \in OptPass /\ functions' \in OptPass
         /\ viewMode' \in Modes /\ diffEnabled' \in BOOLEAN /\ selectedFunc' \in OptFunc
         /\ diff' \in Diffs \union {None} /\ selectable' \in Diffs \union {None}
         /\ graph' \in OptGraph /\ selectedOp' \in OptUid /\ history' \in OptUid
         /\ error' \in BOOLEAN
BY DEF ViewerInv, ViewerTypeOK, ShowPass, OptPass, OptFunc, OptUid, OptGraph

\* A click is counted, and leaves the drawing alone.
LEMMA ClickTyped ==
  ASSUME ViewerInv, Click
  PROVE  /\ clicks \in Nat /\ clicks <= MaxClicks /\ clicks' = clicks + 1
         /\ status' \in {"loading", "ready", "error"}
         /\ laidOut' \in OptGraph /\ layouts' \subseteq Graphs /\ layout' \in OptGraph
         /\ clicks' \in 0 .. MaxClicks /\ failures' \in 0 .. MaxFailures
BY ViewerAssumption DEF Click, drawing, ViewerInv, ViewerTypeOK

LEMMA SelectTyped ==
  ASSUME ViewerInv, NEW p \in Passes, SelectPass(p) \/ ViewHistoryStep(p)
  PROVE  ViewerInv'
<1>1. Click /\ ShowPass(p) /\ jumped' = FALSE
  BY DEF SelectPass, ViewHistoryStep
<1>2. \E back \in BOOLEAN : calls' = Await(calls, {PassCall(p, back)})
  BY DEF SelectPass, ViewHistoryStep
<1>3. CallsInv(calls', clicks + 1)
  BY <1>1, <1>2, ClickTyped, PassCalls, AwaitsOne DEF ViewerInv
<1>4. CallsInv(calls, clicks)'
  BY <1>1, <1>3, ClickTyped
<1>5. ViewerTypeOK'
  BY <1>1, <1>4, ClickTyped, ShowPassTyped DEF ViewerTypeOK, CallsInv
<1>. QED  BY <1>4, <1>5 DEF ViewerInv

\* What refreshView awaits after a click.
LEMMA RefreshViewAwaits ==
  ASSUME ViewerInv, Click, RefreshView,
         selectedPass' \in OptPass, selectedFunc' \in OptFunc, viewMode' \in Modes,
         diffEnabled' \in BOOLEAN
  PROVE  CallsInv(calls', clicks + 1)
<1>1. CallsInv(calls, clicks) /\ clicks \in Int /\ clicks <= MaxClicks
  BY ClickTyped DEF ViewerInv
<1>2. FALSE \in BOOLEAN
  OBVIOUS
<1>3. CallsInv(Await(calls, Refresh(selectedPass', selectedFunc', viewMode', diffEnabled', FALSE)),
               clicks + 1)
  BY <1>1, <1>2, RefreshAwaits
<1>. QED  BY <1>3 DEF RefreshView

LEMMA SetViewModeTyped ==
  ASSUME ViewerInv, NEW mode \in Modes, SetViewMode(mode)
  PROVE  ViewerInv'
<1>1. Click /\ jumped' = FALSE
  BY DEF SetViewMode
<1>2. /\ error' \in BOOLEAN /\ pages' \in OptPass /\ functions' \in OptPass
      /\ diff' \in Diffs \union {None} /\ selectable' \in Diffs \union {None}
      /\ graph' \in OptGraph /\ history' \in OptUid
  BY DEF SetViewMode, shown, ViewerInv, ViewerTypeOK
<1>3. /\ selectedPass' \in OptPass /\ viewMode' \in Modes /\ diffEnabled' \in BOOLEAN
      /\ selectedFunc' \in OptFunc /\ selectedOp' \in OptUid
  BY DEF SetViewMode, ViewerInv, ViewerTypeOK
<1>4. CallsInv(calls', clicks + 1)
  BY <1>1, <1>3, RefreshViewAwaits DEF SetViewMode
<1>5. CallsInv(calls, clicks)'
  BY <1>1, <1>4, ClickTyped
<1>6. ViewerTypeOK'
  BY <1>1, <1>2, <1>3, <1>5, ClickTyped DEF ViewerTypeOK, CallsInv
<1>. QED  BY <1>5, <1>6 DEF ViewerInv

LEMMA ToggleDiffTyped ==
  ASSUME ViewerInv, ToggleDiff
  PROVE  ViewerInv'
<1>1. Click /\ jumped' = FALSE
  BY DEF ToggleDiff
<1>2. /\ error' \in BOOLEAN /\ pages' \in OptPass /\ functions' \in OptPass
      /\ diff' \in Diffs \union {None} /\ selectable' \in Diffs \union {None}
      /\ graph' \in OptGraph /\ history' \in OptUid
  BY DEF ToggleDiff, shown, ViewerInv, ViewerTypeOK
<1>3. /\ selectedPass' \in OptPass /\ viewMode' \in Modes /\ diffEnabled' \in BOOLEAN
      /\ selectedFunc' \in OptFunc /\ selectedOp' \in OptUid
  BY DEF ToggleDiff, ViewerInv, ViewerTypeOK
<1>4. CallsInv(calls', clicks + 1)
  BY <1>1, <1>3, RefreshViewAwaits DEF ToggleDiff
<1>5. CallsInv(calls, clicks)'
  BY <1>1, <1>4, ClickTyped
<1>6. ViewerTypeOK'
  BY <1>1, <1>2, <1>3, <1>5, ClickTyped DEF ViewerTypeOK, CallsInv
<1>. QED  BY <1>5, <1>6 DEF ViewerInv

LEMMA SelectFuncTyped ==
  ASSUME ViewerInv, NEW f \in Functions, SelectFunc(f)
  PROVE  ViewerInv'
<1>1. Click /\ jumped' = FALSE
  BY DEF SelectFunc
<1>2. /\ error' \in BOOLEAN /\ pages' \in OptPass /\ functions' \in OptPass
      /\ diff' \in Diffs \union {None} /\ selectable' \in Diffs \union {None}
      /\ graph' \in OptGraph /\ history' \in OptUid
  BY DEF SelectFunc, ViewerInv, ViewerTypeOK, OptUid
<1>3. /\ selectedPass' \in OptPass /\ viewMode' \in Modes /\ diffEnabled' \in BOOLEAN
      /\ selectedFunc' \in OptFunc /\ selectedOp' \in OptUid
  BY DEF SelectFunc, ViewerInv, ViewerTypeOK, OptFunc, OptUid
<1>4. CallsInv(calls', clicks + 1)
  BY <1>1, <1>3, RefreshViewAwaits DEF SelectFunc
<1>5. CallsInv(calls, clicks)'
  BY <1>1, <1>4, ClickTyped
<1>6. ViewerTypeOK'
  BY <1>1, <1>2, <1>3, <1>5, ClickTyped DEF ViewerTypeOK, CallsInv
<1>. QED  BY <1>5, <1>6 DEF ViewerInv

LEMMA SelectOpTyped ==
  ASSUME ViewerInv, NEW uid \in Uids, SelectOp(uid)
  PROVE  ViewerInv'
<1>1. Click /\ jumped' \in BOOLEAN
  BY DEF SelectOp, ViewerInv, ViewerTypeOK
<1>2. /\ error' \in BOOLEAN /\ pages' \in OptPass /\ functions' \in OptPass
      /\ diff' \in Diffs \union {None} /\ selectable' \in Diffs \union {None}
      /\ graph' \in OptGraph /\ history' \in OptUid
  BY DEF SelectOp, ViewerInv, ViewerTypeOK, OptUid
<1>3. /\ selectedPass' \in OptPass /\ viewMode' \in Modes /\ diffEnabled' \in BOOLEAN
      /\ selectedFunc' \in OptFunc /\ selectedOp' \in OptUid
  BY DEF SelectOp, ViewerInv, ViewerTypeOK, OptUid, Modes
<1>4. CallsInv(calls', clicks + 1)
  BY <1>1, ClickTyped, OpCalls, AwaitsOne DEF SelectOp, ViewerInv
<1>5. CallsInv(calls, clicks)'
  BY <1>1, <1>4, ClickTyped
<1>6. ViewerTypeOK'
  BY <1>1, <1>2, <1>3, <1>5, ClickTyped DEF ViewerTypeOK, CallsInv
<1>. QED  BY <1>5, <1>6 DEF ViewerInv

LEMMA UserTyped ==
  ASSUME ViewerInv, User
  PROVE  ViewerInv'
BY SelectTyped, SetViewModeTyped, SelectFuncTyped, SelectOpTyped, ToggleDiffTyped DEF User

-----------------------------------------------------------------------------
(* And by what the store does with the answers. *)

\* What a call carries, kind by kind.
LEMMA CallTyped ==
  ASSUME ViewerInv, NEW c \in calls
  PROVE  /\ c \in Call /\ CallOK(c)
         /\ c.func \in OptFunc /\ c.mode \in Modes /\ c.diff \in BOOLEAN
         /\ c.uid \in OptUid /\ c.back \in BOOLEAN /\ clicks \in Nat /\ clicks <= MaxClicks
BY ViewerAssumption DEF ViewerInv, ViewerTypeOK, CallsInv, Call

LEMMA ReturnTyped ==
  ASSUME ViewerInv, NEW c \in calls, Return(c)
  PROVE  viewMode' \in Modes /\ jumped' \in BOOLEAN
BY CallTyped DEF Return, ViewerInv, ViewerTypeOK, Modes

\* The calls that are left once c is answered, and those when it awaits more.
LEMMA CallEnds ==
  ASSUME ViewerInv, NEW c \in calls, clicks' = clicks, calls' = calls \ {c}
  PROVE  CallsInv(calls, clicks)'
<1>1. CallsInv(calls \ {c}, clicks)
  BY CallTyped, EndsOne DEF ViewerInv
<1>. QED  BY <1>1

LEMMA CallGoesOn ==
  ASSUME ViewerInv, NEW c \in calls, clicks' = clicks,
         NEW call \in Call, CallOK(call), calls' = Await(calls \ {c}, {call})
  PROVE  CallsInv(calls, clicks)'
<1>1. /\ CallsInv(calls \ {c}, clicks - 1)
      /\ clicks \in Nat /\ clicks - 1 \in Int /\ clicks - 1 <= MaxClicks
  <2>1. clicks \in Nat /\ MaxClicks \in Nat /\ clicks <= MaxClicks
    BY CallTyped, ViewerAssumption
  <2>2. CallsInv(calls \ {c}, clicks - 1)
    BY <2>1, EndsOne DEF ViewerInv
  <2>. QED  BY <2>1, <2>2
<1>2. CallsInv(Await(calls \ {c}, {call}), (clicks - 1) + 1)
  BY <1>1, AwaitsOne
<1>3. (clicks - 1) + 1 = clicks'
  BY <1>1
<1>. QED  BY <1>2, <1>3

LEMMA RestTyped ==
  ASSUME ViewerInv, clicks' = clicks, UNCHANGED drawing
  PROVE  /\ laidOut' \in OptGraph /\ layouts' \subseteq Graphs /\ layout' \in OptGraph
         /\ clicks' \in 0 .. MaxClicks
BY DEF drawing, ViewerInv, ViewerTypeOK

LEMMA AnswerLoadTyped ==
  ASSUME ViewerInv, NEW c \in calls, AnswerLoad(c), UNCHANGED <<clicks, failures, drawing>>
  PROVE  ViewerInv'
<1>1. ShowPass(FirstPass) /\ FirstPass \in Passes
  BY FirstPassIsPass DEF AnswerLoad
<1>2. CallsInv(calls, clicks)'
  BY <1>1, PassCalls, CallGoesOn DEF AnswerLoad
<1>3. /\ jumped' \in BOOLEAN /\ status' \in {"loading", "ready", "error"}
      /\ failures' \in 0 .. MaxFailures
  BY DEF AnswerLoad, ViewerInv, ViewerTypeOK
<1>4. ViewerTypeOK'
  BY <1>1, <1>2, <1>3, ShowPassTyped, RestTyped DEF ViewerTypeOK, CallsInv
<1>. QED  BY <1>2, <1>4 DEF ViewerInv

\* refreshView goes on to the graph or the diff as the call it goes on from.
LEMMA NextCall ==
  ASSUME NEW c \in Call, CallOK(c), c.kind = "ops", ~(c.mode # "graph" /\ ~c.diff),
         NEW call, call = [c EXCEPT !.copy = 0, !.kind =
                             IF c.mode = "graph" THEN "graph" ELSE "diff"]
  PROVE  call \in Call /\ CallOK(call)
BY DEF CallOK, Call

LEMMA AnswerPassTyped ==
  ASSUME ViewerInv, NEW c \in calls, AnswerPass(c), UNCHANGED <<clicks, failures, drawing>>
  PROVE  ViewerInv'
<1>1. /\ c.pass \in Passes /\ c.pass \in OptPass /\ c.back \in BOOLEAN
      /\ viewMode \in Modes /\ diffEnabled \in BOOLEAN /\ selectedFunc \in OptFunc
  BY CallTyped DEF AnswerPass, CallOK, OptPass, ViewerInv, ViewerTypeOK
<1>2. selectedFunc' \in OptFunc
  BY <1>1, NextFunctionIsFunction DEF AnswerPass
<1>. DEFINE refresh == Refresh(c.pass, selectedFunc', viewMode, diffEnabled, c.back)
<1>3. calls' = Await(calls \ {c}, refresh)
  BY DEF AnswerPass
<1>4. viewMode' \in Modes /\ jumped' \in BOOLEAN
  BY ReturnTyped DEF AnswerPass, ViewerInv, ViewerTypeOK
<1>5. CallsInv(calls, clicks)'
  <2>1. CASE refresh = {}
    <3>1. calls' = calls \ {c}
      BY <1>3, <2>1 DEF Await
    <3>. QED  BY <3>1, CallEnds
  <2>2. CASE \E call \in Call : CallOK(call) /\ refresh = {call}
    BY <1>3, <2>2, CallGoesOn
  <2>3. \/ refresh = {} \/ \E call \in Call : CallOK(call) /\ refresh = {call}
    <3>. HIDE DEF refresh
    <3>1. \/ (c.pass = None \/ selectedFunc' = None) /\ refresh = {}
          \/ \E call \in Call : CallOK(call) /\ refresh = {call}
      BY <1>1, <1>2, RefreshCalls DEF refresh
    <3>. QED  BY <3>1
  <2>. QED  BY <2>1, <2>2, <2>3
<1>6. /\ pages' \in OptPass /\ functions' \in OptPass
      /\ status' \in {"loading", "ready", "error"} /\ error' \in BOOLEAN
      /\ diff' \in Diffs \union {None} /\ selectable' \in Diffs \union {None}
      /\ graph' \in OptGraph /\ history' \in OptUid /\ selectedPass' \in OptPass
      /\ selectedOp' \in OptUid /\ diffEnabled' \in BOOLEAN /\ failures' \in 0 .. MaxFailures
  BY <1>1 DEF AnswerPass, ViewerInv, ViewerTypeOK
<1>7. ViewerTypeOK'
  BY <1>2, <1>4, <1>5, <1>6, RestTyped DEF ViewerTypeOK, CallsInv
<1>. QED  BY <1>5, <1>7 DEF ViewerInv

LEMMA LatePassTyped ==
  ASSUME ViewerInv, NEW c \in calls, LatePass(c), UNCHANGED <<clicks, failures, drawing>>
  PROVE  ViewerInv'
<1>1. CallsInv(calls, clicks)'
  BY CallEnds DEF LatePass, Finish
<1>2. viewMode' \in Modes /\ jumped' \in BOOLEAN
  BY ReturnTyped DEF LatePass, Finish
<1>3. /\ pages' \in OptPass /\ functions' \in OptPass
      /\ status' \in {"loading", "ready", "error"} /\ error' \in BOOLEAN
      /\ diff' \in Diffs \union {None} /\ selectable' \in Diffs \union {None}
      /\ graph' \in OptGraph /\ history' \in OptUid /\ selectedPass' \in OptPass
      /\ selectedFunc' \in OptFunc /\ selectedOp' \in OptUid /\ diffEnabled' \in BOOLEAN
      /\ failures' \in 0 .. MaxFailures
  BY DEF LatePass, shown, ViewerInv, ViewerTypeOK
<1>4. ViewerTypeOK'
  BY <1>1, <1>2, <1>3, RestTyped DEF ViewerTypeOK, CallsInv
<1>. QED  BY <1>1, <1>4 DEF ViewerInv

LEMMA AnswerOpsTyped ==
  ASSUME ViewerInv, NEW c \in calls, AnswerOps(c), UNCHANGED <<clicks, failures, drawing>>
  PROVE  ViewerInv'
<1>1. c.kind = "ops" /\ c.pass \in Passes /\ c.func \in Functions /\ c \in Call /\ CallOK(c)
  BY CallTyped DEF AnswerOps, CallOK
<1>2. CallsInv(calls, clicks)' /\ viewMode' \in Modes /\ jumped' \in BOOLEAN
  <2>1. CASE c.mode # "graph" /\ ~c.diff
    BY <2>1, CallEnds, ReturnTyped DEF AnswerOps, Finish
  <2>2. CASE ~(c.mode # "graph" /\ ~c.diff)
    <3>. DEFINE call == [c EXCEPT !.copy = 0, !.kind =
                           IF c.mode = "graph" THEN "graph" ELSE "diff"]
    <3>1. call \in Call /\ CallOK(call)
      BY <1>1, <2>2, NextCall
    <3>2. calls' = Await(calls \ {c}, {call}) /\ UNCHANGED <<viewMode, jumped>>
      BY <2>2 DEF AnswerOps
    <3>. HIDE DEF call
    <3>3. CallsInv(calls, clicks)'
      BY <3>1, <3>2, CallGoesOn
    <3>. QED  BY <3>2, <3>3 DEF ViewerInv, ViewerTypeOK
  <2>. QED  BY <2>1, <2>2
<1>3. selectable' \in Diffs \union {None}
  BY <1>1 DEF AnswerOps, Diffs, ViewerInv, ViewerTypeOK
<1>4. /\ pages' \in OptPass /\ functions' \in OptPass
      /\ status' \in {"loading", "ready", "error"} /\ error' \in BOOLEAN
      /\ diff' \in Diffs \union {None}
      /\ graph' \in OptGraph /\ history' \in OptUid /\ selectedPass' \in OptPass
      /\ selectedFunc' \in OptFunc /\ selectedOp' \in OptUid /\ diffEnabled' \in BOOLEAN
      /\ failures' \in 0 .. MaxFailures
  BY DEF AnswerOps, ViewerInv, ViewerTypeOK
<1>5. ViewerTypeOK'
  BY <1>2, <1>3, <1>4, RestTyped DEF ViewerTypeOK, CallsInv
<1>. QED  BY <1>2, <1>5 DEF ViewerInv

LEMMA AnswerGraphTyped ==
  ASSUME ViewerInv, NEW c \in calls, AnswerGraph(c), UNCHANGED <<clicks, failures, drawing>>
  PROVE  ViewerInv'
<1>1. c.pass \in Passes /\ c.func \in Functions /\ c.diff \in BOOLEAN
  BY CallTyped DEF AnswerGraph, CallOK
<1>2. CallsInv(calls, clicks)' /\ viewMode' \in Modes /\ jumped' \in BOOLEAN
  BY CallEnds, ReturnTyped DEF AnswerGraph, Finish
<1>3. graph' \in OptGraph
  BY <1>1 DEF AnswerGraph, OptGraph, Graphs, ViewerInv, ViewerTypeOK
<1>4. /\ pages' \in OptPass /\ functions' \in OptPass
      /\ status' \in {"loading", "ready", "error"} /\ error' \in BOOLEAN
      /\ diff' \in Diffs \union {None} /\ selectable' \in Diffs \union {None}
      /\ history' \in OptUid /\ selectedPass' \in OptPass
      /\ selectedFunc' \in OptFunc /\ selectedOp' \in OptUid /\ diffEnabled' \in BOOLEAN
      /\ failures' \in 0 .. MaxFailures
  BY DEF AnswerGraph, ViewerInv, ViewerTypeOK
<1>5. ViewerTypeOK'
  BY <1>2, <1>3, <1>4, RestTyped DEF ViewerTypeOK, CallsInv
<1>. QED  BY <1>2, <1>5 DEF ViewerInv

LEMMA AnswerDiffTyped ==
  ASSUME ViewerInv, NEW c \in calls, AnswerDiff(c), UNCHANGED <<clicks, failures, drawing>>
  PROVE  ViewerInv'
<1>1. c.pass \in Passes /\ c.func \in Functions
  BY CallTyped DEF AnswerDiff, CallOK
<1>2. CallsInv(calls, clicks)' /\ viewMode' \in Modes /\ jumped' \in BOOLEAN
  BY CallEnds, ReturnTyped DEF AnswerDiff, Finish
<1>3. diff' \in Diffs \union {None}
  BY <1>1 DEF AnswerDiff, Diffs, ViewerInv, ViewerTypeOK
<1>4. /\ pages' \in OptPass /\ functions' \in OptPass
      /\ status' \in {"loading", "ready", "error"} /\ error' \in BOOLEAN
      /\ selectable' \in Diffs \union {None}
      /\ graph' \in OptGraph /\ history' \in OptUid /\ selectedPass' \in OptPass
      /\ selectedFunc' \in OptFunc /\ selectedOp' \in OptUid /\ diffEnabled' \in BOOLEAN
      /\ failures' \in 0 .. MaxFailures
  BY DEF AnswerDiff, ViewerInv, ViewerTypeOK
<1>5. ViewerTypeOK'
  BY <1>2, <1>3, <1>4, RestTyped DEF ViewerTypeOK, CallsInv
<1>. QED  BY <1>2, <1>5 DEF ViewerInv

LEMMA AnswerOpTyped ==
  ASSUME ViewerInv, NEW c \in calls, AnswerOp(c), UNCHANGED <<clicks, failures, drawing>>
  PROVE  ViewerInv'
<1>1. CallsInv(calls, clicks)'
  BY CallEnds DEF AnswerOp
<1>2. history' \in OptUid
  BY CallTyped DEF AnswerOp, ViewerInv, ViewerTypeOK
<1>3. /\ pages' \in OptPass /\ functions' \in OptPass
      /\ status' \in {"loading", "ready", "error"} /\ error' \in BOOLEAN
      /\ diff' \in Diffs \union {None} /\ selectable' \in Diffs \union {None}
      /\ graph' \in OptGraph /\ jumped' \in BOOLEAN /\ failures' \in 0 .. MaxFailures
  BY DEF AnswerOp, ViewerInv, ViewerTypeOK
<1>4. /\ selectedPass' \in OptPass /\ viewMode' \in Modes /\ diffEnabled' \in BOOLEAN
      /\ selectedFunc' \in OptFunc /\ selectedOp' \in OptUid
  BY DEF AnswerOp, chosen, ViewerInv, ViewerTypeOK
<1>5. ViewerTypeOK'
  BY <1>1, <1>2, <1>3, <1>4, RestTyped DEF ViewerTypeOK, CallsInv
<1>. QED  BY <1>1, <1>5 DEF ViewerInv

LEMMA FailTyped ==
  ASSUME ViewerInv, NEW c \in calls, Fail(c), UNCHANGED <<clicks, drawing>>,
         failures' \in 0 .. MaxFailures
  PROVE  ViewerInv'
<1>1. CallsInv(calls, clicks)' /\ viewMode' \in Modes /\ jumped' \in BOOLEAN
  BY CallEnds, ReturnTyped DEF Fail, Finish
<1>2. status' \in {"loading", "ready", "error"} /\ error' \in BOOLEAN
  BY DEF Fail, ViewerInv, ViewerTypeOK
<1>3. /\ pages' \in OptPass /\ functions' \in OptPass
      /\ diff' \in Diffs \union {None} /\ selectable' \in Diffs \union {None}
      /\ graph' \in OptGraph /\ history' \in OptUid /\ selectedPass' \in OptPass
      /\ selectedFunc' \in OptFunc /\ selectedOp' \in OptUid /\ diffEnabled' \in BOOLEAN
  BY DEF Fail, ViewerInv, ViewerTypeOK
<1>4. ViewerTypeOK'
  BY <1>1, <1>2, <1>3, RestTyped DEF ViewerTypeOK, CallsInv
<1>. QED  BY <1>1, <1>4 DEF ViewerInv

LEMMA AnswerTyped ==
  ASSUME ViewerInv, NEW c \in calls, Answer(c) \/ Unanswered(c)
  PROVE  ViewerInv'
<1>1. CASE Answer(c)
  <2>1. UNCHANGED <<clicks, failures, drawing>> /\ failures' \in 0 .. MaxFailures
    BY <1>1 DEF Answer, ViewerInv, ViewerTypeOK
  <2>. QED  BY <1>1, <2>1, AnswerLoadTyped, AnswerPassTyped, LatePassTyped, AnswerOpsTyped,
               AnswerGraphTyped, AnswerDiffTyped, AnswerOpTyped, FailTyped DEF Answer
<1>2. CASE Unanswered(c)
  <2>1. failures' \in 0 .. MaxFailures
    BY <1>2, ViewerAssumption DEF Unanswered, ViewerInv, ViewerTypeOK
  <2>. QED  BY <1>2, <2>1, FailTyped DEF Unanswered
<1>. QED  BY <1>1, <1>2

\* The effect of GraphView touches the drawing only.
LEMMA DrawingTyped ==
  ASSUME ViewerInv, Render \/ \E g \in layouts : LaidOut(g) \/ NotLaidOut(g)
  PROVE  ViewerInv'
<1>1. UNCHANGED <<shown, chosen, calls, jumped, clicks>>
  BY DEF Render, LaidOut, NotLaidOut
<1>2. laidOut' \in OptGraph /\ layouts' \subseteq Graphs /\ layout' \in OptGraph
  BY DEF Render, LaidOut, NotLaidOut, Displayed, Cancel, OptGraph, ViewerInv, ViewerTypeOK
<1>3. failures' \in 0 .. MaxFailures
  BY ViewerAssumption DEF Render, LaidOut, NotLaidOut, ViewerInv, ViewerTypeOK
<1>4. ViewerTypeOK'
  BY <1>1, <1>2, <1>3 DEF shown, chosen, ViewerInv, ViewerTypeOK
<1>. QED  BY <1>1, <1>4 DEF ViewerInv

LEMMA ViewerInit == Init => ViewerInv
<1>. SUFFICES ASSUME Init
              PROVE  ViewerInv
  OBVIOUS
<1>. DEFINE copies == 0 .. Loads - 1
            loads  == [n \in copies |-> LoadCall(n)]
<1>1. Loads \in 1 .. 2 /\ MaxClicks \in Nat /\ MaxFailures \in Nat
  BY ViewerAssumption
<1>2. calls \subseteq Call /\ \A c \in calls : CallOK(c)
  <2>1. ASSUME NEW n \in copies
        PROVE  LoadCall(n) \in Call /\ CallOK(LoadCall(n))
    <3>1. n \in Nat
      BY <1>1
    <3>2. LoadCall(n) \in Call
      BY <3>1 DEF LoadCall, Call, OptPass, OptFunc, OptUid, Modes
    <3>3. LoadCall(n).kind = "load"
      BY DEF LoadCall
    <3>. QED  BY <3>2, <3>3 DEF CallOK
  <2>2. calls = {LoadCall(n) : n \in copies}
    BY DEF Init
  <2>. QED  BY <2>1, <2>2
<1>3. IsFiniteSet(copies) /\ Cardinality(copies) = Loads
  BY <1>1, FS_Interval
<1>4. loads \in Surjection(copies, calls)
  BY DEF Init, Surjection
<1>5. IsFiniteSet(calls) /\ Cardinality(calls) <= Loads
  <2>. HIDE DEF copies, loads
  <2>. QED  BY <1>3, <1>4, FS_Surjection
<1>6. CallsInv(calls, clicks)
  BY <1>1, <1>2, <1>5 DEF Init, CallsInv
<1>7. ViewerTypeOK
  <2>1. clicks \in 0 .. MaxClicks /\ failures \in 0 .. MaxFailures
    BY <1>1 DEF Init
  <2>2. viewMode \in Modes /\ None \in OptPass /\ None \in OptFunc /\ None \in OptUid
        /\ None \in OptGraph
    BY DEF Init, OptPass, OptFunc, OptUid, OptGraph, Modes
  <2>. QED  BY <1>2, <2>1, <2>2 DEF Init, ViewerTypeOK
<1>. QED  BY <1>6, <1>7 DEF ViewerInv

LEMMA ViewerStep ==
  ASSUME ViewerInv, [Next]_vars
  PROVE  ViewerInv'
<1>1. CASE User
  BY <1>1, UserTyped
<1>2. CASE \E c \in calls : Answer(c) \/ Unanswered(c)
  BY <1>2, AnswerTyped
<1>3. CASE Render \/ \E g \in layouts : LaidOut(g) \/ NotLaidOut(g)
  BY <1>3, DrawingTyped
<1>4. CASE UNCHANGED vars
  BY <1>4 DEF vars, shown, chosen, drawing, ViewerInv, ViewerTypeOK
<1>. QED  BY <1>1, <1>2, <1>3, <1>4 DEF Next

\* What the store keeps has its type: whatever arrives in whatever order, a selection is
\* of a pass and a function there are, and a request never lacks what it is asked with.
\* It needs CallsInv: an answer writes what its call has carried since it was made.
THEOREM ViewerTypeCorrect == Spec => []ViewerTypeOK
<1>1. Spec => []ViewerInv
  BY ViewerInit, ViewerStep, PTL DEF Spec
<1>2. ViewerInv => ViewerTypeOK
  BY DEF ViewerInv
<1>. QED  BY <1>1, <1>2, PTL

-----------------------------------------------------------------------------
(* What is missing on the page is on its way. *)

PassComing  == \E c \in calls : c.kind = "pass" /\ Current(c)
GraphComing ==
  \E c \in calls : c.kind \in {"ops", "graph"} /\ Selected(c) /\ c.mode = "graph"
DiffComing  ==
  \E c \in calls : c.kind \in {"ops", "diff"} /\ Selected(c) /\ c.mode # "graph" /\ c.diff

GraphShown == graph # None /\ graph.pass = selectedPass /\ graph.func = selectedFunc
DiffShown  == diff = [pass |-> selectedPass, func |-> selectedFunc]

\* SettledShowsSelection speaks of a store without calls; in between, the call is there
\* that will bring what is missing.  The diff is claimed in history mode too, for a call
\* of viewHistoryStep turns that into text mode without a refresh.
PassFollows  == failures = 0 => pages = selectedPass \/ PassComing
GraphFollows ==
  (viewMode = "graph" /\ selectedFunc # None /\ ~error) =>
    GraphShown \/ GraphComing \/ PassComing
DiffFollows  ==
  (viewMode # "graph" /\ diffEnabled /\ selectedFunc # None /\ ~error /\ ~jumped) =>
    DiffShown \/ DiffComing \/ PassComing

SelectionInv ==
  /\ (status = "ready" \/ selectedFunc # None) => selectedPass # None
  /\ PassFollows /\ GraphFollows /\ DiffFollows

\* A call that is made for the selected pass will bring it.
LEMMA PassAwaited ==
  ASSUME NEW others, NEW p \in Passes, NEW back \in BOOLEAN, ShowPass(p),
         calls' = Await(others, {PassCall(p, back)})
  PROVE  SelectionInv'
<1>1. PICK it \in calls' : it.kind = "pass" /\ it.pass = p
  BY PassCalls, Awaited
<1>2. PassComing' /\ selectedPass' # None
  BY <1>1, ViewerAssumption DEF ShowPass, PassComing, Current
<1>. QED  BY <1>2 DEF SelectionInv, PassFollows, GraphFollows, DiffFollows

\* refreshView is on its way to what its mode and its switch ask for.
LEMMA RefreshFollows ==
  ASSUME NEW others, NEW mode \in Modes, NEW d \in BOOLEAN, NEW back \in BOOLEAN,
         selectedPass' \in OptPass, selectedFunc' \in OptFunc,
         selectedPass' # None, selectedFunc' # None,
         calls' = Await(others, Refresh(selectedPass', selectedFunc', mode, d, back))
  PROVE  /\ mode = "graph" => GraphComing'
         /\ mode # "graph" /\ d => DiffComing'
         /\ others \subseteq calls'
<1>1. PICK call \in Call :
        /\ Refresh(selectedPass', selectedFunc', mode, d, back) = {call}
        /\ call.kind = "ops" /\ call.pass = selectedPass' /\ call.func = selectedFunc'
        /\ call.mode = mode /\ call.diff = d
  BY RefreshCalls
<1>2. calls' = Await(others, {call})
  BY <1>1
<1>3. PICK it \in calls' :
        /\ it.kind = "ops" /\ it.pass = selectedPass' /\ it.func = selectedFunc'
        /\ it.mode = mode /\ it.diff = d
  BY <1>1, <1>2, Awaited
<1>4. Selected(it)'
  BY <1>3 DEF Selected, Current
<1>. QED  BY <1>2, <1>3, <1>4, Awaited DEF GraphComing, DiffComing

\* A click that refreshes the view, whatever it changes before.
LEMMA ClickRefreshes ==
  ASSUME ViewerInv', SelectionInv, Click, RefreshView,
         UNCHANGED <<selectedPass, pages, error>>
  PROVE  SelectionInv'
<1>1. selectedPass # None /\ selectedPass' # None
  BY DEF Click, SelectionInv
<1>2. /\ selectedPass' \in OptPass /\ selectedFunc' \in OptFunc /\ viewMode' \in Modes
      /\ diffEnabled' \in BOOLEAN /\ FALSE \in BOOLEAN
  BY DEF ViewerInv, ViewerTypeOK
<1>3. calls \subseteq calls'
  BY DEF RefreshView, Await
<1>4. PassFollows'
  <2>1. failures' = failures
    BY DEF Click
  <2>. QED  BY <2>1, <1>3 DEF SelectionInv, PassFollows, PassComing, Current
<1>5. GraphFollows' /\ DiffFollows'
  <2>1. CASE selectedFunc' = None
    BY <2>1 DEF GraphFollows, DiffFollows
  <2>2. CASE selectedFunc' # None
    <3>1. /\ viewMode' = "graph" => GraphComing'
          /\ viewMode' # "graph" /\ diffEnabled' => DiffComing'
      BY <1>1, <1>2, <2>2, RefreshFollows DEF RefreshView
    <3>. QED  BY <3>1 DEF GraphFollows, DiffFollows
  <2>. QED  BY <2>1, <2>2
<1>. QED  BY <1>1, <1>4, <1>5 DEF SelectionInv

\* Choosing an operation fetches its history only: in graph mode, or after an error, no
\* diff is claimed from then on.
LEMMA SelectOpFollows ==
  ASSUME SelectionInv, NEW uid \in Uids, SelectOp(uid)
  PROVE  SelectionInv'
<1>1. calls \subseteq calls' /\ status' = status /\ failures' = failures
  BY DEF SelectOp, Await, Click
<1>2. /\ UNCHANGED <<pages, diff, graph, selectedPass, selectedFunc, diffEnabled>>
      /\ viewMode' = "history"
      /\ ~jumped' => ~jumped /\ viewMode # "graph" /\ ~error
  BY DEF SelectOp
<1>3. PassComing => PassComing'
  BY <1>1, <1>2 DEF PassComing, Current
<1>4. DiffComing => DiffComing'
  BY <1>1, <1>2 DEF DiffComing, Selected, Current
<1>5. DiffShown => DiffShown'
  BY <1>2 DEF DiffShown
<1>6. PassFollows'
  BY <1>1, <1>2, <1>3 DEF SelectionInv, PassFollows
<1>7. GraphFollows'
  BY <1>2 DEF GraphFollows
<1>8. DiffFollows'
  BY <1>2, <1>3, <1>4, <1>5 DEF SelectionInv, DiffFollows
<1>. QED  BY <1>1, <1>2, <1>6, <1>7, <1>8 DEF SelectionInv

LEMMA UserFollows ==
  ASSUME ViewerInv, ViewerInv', SelectionInv, User
  PROVE  SelectionInv'
<1>1. ASSUME NEW p \in Passes, SelectPass(p) \/ ViewHistoryStep(p)
      PROVE  SelectionInv'
  <2>1. ShowPass(p) /\ \E back \in BOOLEAN : calls' = Await(calls, {PassCall(p, back)})
    BY <1>1 DEF SelectPass, ViewHistoryStep
  <2>. QED  BY <2>1, PassAwaited
<1>2. ASSUME NEW mode \in Modes, SetViewMode(mode)
      PROVE  SelectionInv'
  BY <1>2, ClickRefreshes DEF SetViewMode, shown
<1>3. ASSUME NEW f \in Functions, SelectFunc(f)
      PROVE  SelectionInv'
  BY <1>3, ClickRefreshes DEF SelectFunc
<1>4. CASE ToggleDiff
  BY <1>4, ClickRefreshes DEF ToggleDiff, shown
<1>. QED  BY <1>1, <1>2, <1>3, <1>4, SelectOpFollows DEF User

-----------------------------------------------------------------------------
\* Ending a call that brings nothing to the page takes nothing from what follows: the
\* calls that will bring it are others, and where its end leaves the graph mode no diff
\* is claimed.
LEMMA OtherCallsFollow ==
  ASSUME ViewerInv, SelectionInv, NEW c \in calls,
         Finish(c) \/ (calls' = calls \ {c} /\ UNCHANGED <<viewMode, jumped>>),
         UNCHANGED <<failures, error, pages, selectedPass, selectedFunc, diffEnabled>>,
         status' = "ready" => status = "ready",
         ~(c.kind = "pass" /\ Current(c)),
         GraphShown \/ (c.kind \in {"ops", "graph"} /\ Selected(c) /\ c.mode = "graph")
           => GraphShown',
         DiffShown \/ (c.kind \in {"ops", "diff"} /\ Selected(c) /\ c.mode # "graph" /\ c.diff)
           => DiffShown'
  PROVE  SelectionInv'
<1>1. calls' = calls \ {c}
  BY DEF Finish
<1>2. /\ viewMode' = viewMode \/ viewMode' = "text"
      /\ ~jumped' => ~jumped
      /\ (~jumped' /\ viewMode' # "graph") => viewMode # "graph"
  <2>1. CASE UNCHANGED <<viewMode, jumped>>
    BY <2>1
  <2>2. CASE Return(c)
    BY <2>2 DEF Return, ViewerInv, ViewerTypeOK
  <2>. QED  BY <2>1, <2>2 DEF Finish
<1>3. PassComing => PassComing'
  BY <1>1 DEF PassComing, Current
<1>4. GraphComing => GraphComing' \/ GraphShown'
  BY <1>1 DEF GraphComing, Selected, Current
<1>5. DiffComing => DiffComing' \/ DiffShown'
  BY <1>1 DEF DiffComing, Selected, Current
<1>6. PassFollows'
  BY <1>3 DEF SelectionInv, PassFollows
<1>7. GraphFollows'
  <2>1. viewMode' = "graph" => viewMode = "graph"
    BY <1>2
  <2>. QED  BY <2>1, <1>3, <1>4 DEF SelectionInv, GraphFollows
<1>8. DiffFollows'
  BY <1>2, <1>3, <1>5 DEF SelectionInv, DiffFollows
<1>. QED  BY <1>6, <1>7, <1>8 DEF SelectionInv

LEMMA AnswerPassFollows ==
  ASSUME ViewerInv, ViewerInv', SelectionInv, NEW c \in calls, AnswerPass(c)
  PROVE  SelectionInv'
<1>1. /\ c.pass \in Passes /\ c.pass \in OptPass /\ c.back \in BOOLEAN /\ c.pass # None
      /\ viewMode \in Modes /\ diffEnabled \in BOOLEAN
  BY CallTyped, ViewerAssumption DEF AnswerPass, CallOK, OptPass, ViewerInv, ViewerTypeOK
<1>2. selectedFunc' \in OptFunc
  BY DEF ViewerInv, ViewerTypeOK
<1>3. selectedPass' = c.pass /\ pages' = c.pass
  BY DEF AnswerPass, Current
<1>4. PassFollows'
  BY <1>3 DEF PassFollows
<1>5. GraphFollows' /\ DiffFollows'
  <2>1. CASE selectedFunc' = None
    BY <2>1 DEF GraphFollows, DiffFollows
  <2>2. CASE selectedFunc' # None
    <3>1. calls' = Await(calls \ {c}, Refresh(selectedPass', selectedFunc', viewMode, diffEnabled,
                                             c.back))
      BY <1>3 DEF AnswerPass
    <3>2. /\ viewMode = "graph" => GraphComing'
          /\ viewMode # "graph" /\ diffEnabled => DiffComing'
      BY <1>1, <1>2, <1>3, <2>2, <3>1, RefreshFollows
    <3>3. Refresh(c.pass, selectedFunc', viewMode, diffEnabled, c.back) # {}
      BY <1>1, <2>2 DEF Refresh
    <3>4. viewMode' = viewMode /\ diffEnabled' = diffEnabled
      BY <3>3 DEF AnswerPass
    <3>. QED  BY <3>2, <3>4 DEF GraphFollows, DiffFollows
  <2>. QED  BY <2>1, <2>2
<1>. QED  BY <1>1, <1>3, <1>4, <1>5 DEF SelectionInv

\* The operations are there; the graph or the diff they were asked with is asked for next.
LEMMA AnswerOpsFollows ==
  ASSUME ViewerInv, SelectionInv, NEW c \in calls, AnswerOps(c), UNCHANGED failures
  PROVE  SelectionInv'
<1>1. /\ c.kind = "ops" /\ c \in Call /\ CallOK(c)
      /\ UNCHANGED <<status, error, pages, diff, graph, selectedPass, selectedFunc, diffEnabled>>
  BY CallTyped DEF AnswerOps
<1>2. CASE c.mode # "graph" /\ ~c.diff
  <2>1. Finish(c) /\ (GraphShown => GraphShown') /\ (DiffShown => DiffShown')
    BY <1>1, <1>2 DEF AnswerOps, GraphShown, DiffShown
  <2>2. /\ ~(c.kind = "pass" /\ Current(c))
        /\ ~(c.kind \in {"ops", "graph"} /\ Selected(c) /\ c.mode = "graph")
        /\ ~(c.kind \in {"ops", "diff"} /\ Selected(c) /\ c.mode # "graph" /\ c.diff)
    BY <1>1, <1>2
  <2>3. /\ GraphShown \/ (c.kind \in {"ops", "graph"} /\ Selected(c) /\ c.mode = "graph")
             => GraphShown'
        /\ DiffShown \/ (c.kind \in {"ops", "diff"} /\ Selected(c) /\ c.mode # "graph" /\ c.diff)
             => DiffShown'
    BY <2>1, <2>2
  <2>4. /\ ~(c.kind = "pass" /\ Current(c)) /\ (status' = "ready" => status = "ready")
        /\ UNCHANGED <<failures, error, pages, selectedPass, selectedFunc, diffEnabled>>
    BY <1>1, <2>2
  <2>. QED  BY <2>1, <2>3, <2>4, OtherCallsFollow
<1>3. CASE ~(c.mode # "graph" /\ ~c.diff)
  <2>. DEFINE call == [c EXCEPT !.copy = 0, !.kind =
                         IF c.mode = "graph" THEN "graph" ELSE "diff"]
  <2>1. /\ call \in Call
        /\ c.mode = "graph" => call.kind = "graph"
        /\ c.mode # "graph" => call.kind = "diff"
        /\ call.pass = c.pass /\ call.func = c.func
        /\ call.mode = c.mode /\ call.diff = c.diff
    <3>1. call \in Call
      BY <1>1, <1>3, NextCall
    <3>. QED  BY <3>1, <1>1 DEF Call
  <2>2. calls' = Await(calls \ {c}, {call}) /\ UNCHANGED <<viewMode, jumped>>
    BY <1>3 DEF AnswerOps
  <2>. HIDE DEF call
  <2>3. PICK it \in calls' : /\ c.mode = "graph" => it.kind = "graph"
                             /\ c.mode # "graph" => it.kind = "diff"
                             /\ it.pass = c.pass /\ it.func = c.func
                             /\ it.mode = c.mode /\ it.diff = c.diff
    BY <2>1, <2>2, Awaited
  <2>4. calls \ {c} \subseteq calls'
    BY <2>1, <2>2, Awaited
  <2>5. PassComing => PassComing'
    BY <1>1, <2>4 DEF PassComing, Current
  <2>6. GraphComing => GraphComing'
    <3>1. CASE Selected(c) /\ c.mode = "graph"
      BY <1>1, <2>3, <3>1 DEF GraphComing, Selected, Current
    <3>2. CASE ~(Selected(c) /\ c.mode = "graph")
      BY <1>1, <2>4, <3>2 DEF GraphComing, Selected, Current
    <3>. QED  BY <3>1, <3>2
  <2>7. DiffComing => DiffComing'
    <3>1. CASE Selected(c) /\ c.mode # "graph" /\ c.diff
      BY <1>1, <2>3, <3>1 DEF DiffComing, Selected, Current
    <3>2. CASE ~(Selected(c) /\ c.mode # "graph" /\ c.diff)
      BY <1>1, <2>4, <3>2 DEF DiffComing, Selected, Current
    <3>. QED  BY <3>1, <3>2
  <2>8. PassFollows'
    BY <1>1, <2>5 DEF SelectionInv, PassFollows
  <2>9. GraphFollows'
    BY <1>1, <2>2, <2>5, <2>6 DEF SelectionInv, GraphFollows, GraphShown
  <2>10. DiffFollows'
    BY <1>1, <2>2, <2>5, <2>7 DEF SelectionInv, DiffFollows, DiffShown
  <2>. QED  BY <1>1, <2>8, <2>9, <2>10 DEF SelectionInv
<1>. QED  BY <1>2, <1>3

\* A failure is shown as an error, except that of a history, which nothing here waits for.
LEMMA FailFollows ==
  ASSUME ViewerInv, SelectionInv, NEW c \in calls, Fail(c), failures' \in Nat,
         \/ failures' = failures /\ Refused(c)
         \/ failures' = failures + 1
  PROVE  SelectionInv'
<1>1. failures \in Nat
  BY DEF ViewerInv, ViewerTypeOK
<1>2. /\ calls' = calls \ {c} /\ Return(c)
      /\ UNCHANGED <<pages, diff, graph, selectedPass, selectedFunc, diffEnabled>>
  BY DEF Fail, Finish
<1>3. CASE c.kind = "op" /\ error' = error
  <2>1. failures' = failures + 1
    BY <1>3 DEF Refused
  <2>2. PassFollows'
    BY <1>1, <2>1 DEF PassFollows
  <2>3. /\ PassComing => PassComing'
        /\ GraphComing => GraphComing'
        /\ DiffComing => DiffComing'
        /\ GraphShown => GraphShown'
        /\ DiffShown => DiffShown'
    BY <1>2, <1>3 DEF PassComing, GraphComing, DiffComing, GraphShown, DiffShown, Selected, Current
  <2>4. /\ viewMode' = viewMode \/ viewMode' = "text"
        /\ ~jumped' => ~jumped
        /\ (~jumped' /\ viewMode' # "graph") => viewMode # "graph"
    BY <1>2 DEF Return
  <2>5. GraphFollows'
    <3>1. viewMode' = "graph" => viewMode = "graph"
      BY <2>4
    <3>. QED  BY <1>2, <1>3, <2>3, <3>1 DEF SelectionInv, GraphFollows
  <2>6. DiffFollows'
    BY <1>2, <1>3, <2>3, <2>4 DEF SelectionInv, DiffFollows
  <2>7. (status' = "ready" \/ selectedFunc' # None) => selectedPass' # None
    BY <1>2, <1>3 DEF Fail, SelectionInv
  <2>. QED  BY <2>2, <2>5, <2>6, <2>7 DEF SelectionInv
<1>4. CASE ~(c.kind = "op" /\ error' = error)
  <2>1. error'
    BY <1>4 DEF Fail, ViewerInv, ViewerTypeOK
  <2>2. PassFollows'
    <3>1. CASE failures' = failures + 1
      BY <1>1, <3>1 DEF PassFollows
    <3>2. CASE failures' = failures /\ Refused(c)
      <4>1. c.kind # "pass"
        BY <3>2 DEF Refused
      <4>. QED  BY <1>2, <3>2, <4>1 DEF SelectionInv, PassFollows, PassComing, Current
    <3>. QED  BY <3>1, <3>2
  <2>3. (status' = "ready" \/ selectedFunc' # None) => selectedPass' # None
    BY <1>2 DEF Fail, SelectionInv
  <2>. QED  BY <2>1, <2>2, <2>3 DEF SelectionInv, GraphFollows, DiffFollows
<1>. QED  BY <1>3, <1>4

LEMMA AnswerFollows ==
  ASSUME ViewerInv, ViewerInv', SelectionInv, NEW c \in calls, Answer(c) \/ Unanswered(c)
  PROVE  SelectionInv'
<1>1. c \in Call /\ CallOK(c)
  BY CallTyped
<1>2. Answer(c) => UNCHANGED failures
  BY DEF Answer
<1>3. ASSUME Answer(c), AnswerLoad(c)
      PROVE  SelectionInv'
  <2>1. ShowPass(FirstPass) /\ calls' = Await(calls \ {c}, {PassCall(FirstPass, FALSE)})
    BY <1>3 DEF AnswerLoad
  <2>. QED  BY <2>1, FirstPassIsPass, PassAwaited
<1>4. ASSUME Answer(c), LatePass(c)
      PROVE  SelectionInv'
  <2>1. /\ Finish(c) /\ c.kind = "pass" /\ ~Current(c)
        /\ UNCHANGED <<status, error, pages, diff, graph, selectedPass, selectedFunc, diffEnabled>>
    BY <1>4 DEF LatePass, shown
  <2>2. GraphShown' = GraphShown /\ DiffShown' = DiffShown
    BY <2>1 DEF GraphShown, DiffShown
  <2>. QED  BY <1>2, <1>4, <2>1, <2>2, OtherCallsFollow
<1>5. ASSUME Answer(c), AnswerGraph(c)
      PROVE  SelectionInv'
  <2>1. /\ Finish(c) /\ c.kind = "graph" /\ c.mode = "graph"
        /\ UNCHANGED <<status, error, pages, diff, selectedPass, selectedFunc, diffEnabled>>
    BY <1>1, <1>5 DEF AnswerGraph, CallOK
  <2>2. /\ GraphShown \/ Selected(c) => GraphShown'
        /\ DiffShown => DiffShown'
    <3>1. CASE Selected(c)
      <4>1. graph' = [pass |-> c.pass, func |-> c.func, diff |-> c.diff]
        BY <1>5, <3>1 DEF AnswerGraph
      <4>2. graph' # None
        BY <1>1, <2>1, <4>1, ViewerAssumption DEF CallOK, Call, Graphs
      <4>. QED  BY <2>1, <3>1, <4>1, <4>2 DEF GraphShown, DiffShown, Selected, Current
    <3>2. CASE ~Selected(c)
      BY <1>5, <2>1, <3>2 DEF AnswerGraph, GraphShown, DiffShown
    <3>. QED  BY <3>1, <3>2
  <2>. QED  BY <1>2, <1>5, <2>1, <2>2, OtherCallsFollow
<1>6. ASSUME Answer(c), AnswerDiff(c)
      PROVE  SelectionInv'
  <2>1. /\ Finish(c) /\ c.kind = "diff" /\ c.mode # "graph"
        /\ UNCHANGED <<status, error, pages, graph, selectedPass, selectedFunc, diffEnabled>>
    BY <1>1, <1>6 DEF AnswerDiff, CallOK
  <2>2. /\ GraphShown => GraphShown'
        /\ DiffShown \/ Selected(c) => DiffShown'
    BY <1>6, <2>1 DEF AnswerDiff, GraphShown, DiffShown, Selected, Current
  <2>. QED  BY <1>2, <1>6, <2>1, <2>2, OtherCallsFollow
<1>7. ASSUME Answer(c), AnswerOp(c)
      PROVE  SelectionInv'
  <2>1. /\ calls' = calls \ {c} /\ c.kind = "op" /\ UNCHANGED <<viewMode, jumped>>
        /\ UNCHANGED <<status, error, pages, diff, graph, selectedPass, selectedFunc, diffEnabled>>
    BY <1>7 DEF AnswerOp, chosen
  <2>2. GraphShown' = GraphShown /\ DiffShown' = DiffShown
    BY <2>1 DEF GraphShown, DiffShown
  <2>. QED  BY <1>2, <1>7, <2>1, <2>2, OtherCallsFollow
<1>8. ASSUME Answer(c), Refused(c), Fail(c)
      PROVE  SelectionInv'
  BY <1>2, <1>8, FailFollows DEF ViewerInv, ViewerTypeOK
<1>9. ASSUME Unanswered(c)
      PROVE  SelectionInv'
  BY <1>9, FailFollows DEF Unanswered, ViewerInv, ViewerTypeOK
<1>. QED  BY <1>2, <1>3, <1>4, <1>5, <1>6, <1>7, <1>8, <1>9, AnswerPassFollows,
             AnswerOpsFollows DEF Answer

\* Once nothing is awaited the page shows what is selected or an error: every action that
\* makes the page incomplete has a call at its await that completes it, and no answer
\* that is dropped was the last one for what is selected then.
THEOREM SettledPageIsOfSelection == Spec => []SettledShowsSelection
<1>. DEFINE Inv == ViewerInv /\ SelectionInv
<1>1. Init => SelectionInv
  BY DEF Init, SelectionInv, PassFollows, GraphFollows, DiffFollows
<1>2. ASSUME ViewerInv, ViewerInv', SelectionInv, [Next]_vars
      PROVE  SelectionInv'
  <2>1. CASE User
    BY <1>2, <2>1, UserFollows
  <2>2. CASE \E c \in calls : Answer(c) \/ Unanswered(c)
    BY <1>2, <2>2, AnswerFollows
  <2>3. CASE (Render \/ \E g \in layouts : LaidOut(g) \/ NotLaidOut(g)) \/ UNCHANGED vars
    <3>1. UNCHANGED <<shown, chosen, calls, jumped>>
      BY <2>3 DEF Render, LaidOut, NotLaidOut, vars
    <3>2. failures' = 0 => failures = 0
      BY <1>2, <2>3 DEF Render, LaidOut, NotLaidOut, vars, ViewerInv, ViewerTypeOK
    <3>3. /\ PassComing' = PassComing /\ GraphComing' = GraphComing /\ DiffComing' = DiffComing
          /\ GraphShown' = GraphShown /\ DiffShown' = DiffShown
      BY <3>1 DEF shown, chosen, PassComing, GraphComing, DiffComing, GraphShown, DiffShown,
                  Selected, Current
    <3>4. UNCHANGED <<status, pages, selectedPass, selectedFunc, viewMode, error, diffEnabled,
                      jumped>>
      BY <3>1 DEF shown, chosen
    <3>. QED  BY <1>2, <3>2, <3>3, <3>4 DEF SelectionInv, PassFollows, GraphFollows, DiffFollows
  <2>. QED  BY <1>2, <2>1, <2>2, <2>3 DEF Next
<1>3. Spec => []Inv
  <2>1. Init => Inv
    BY <1>1, ViewerInit
  <2>2. Inv /\ [Next]_vars => Inv'
    BY <1>2, ViewerStep
  <2>. QED  BY <2>1, <2>2, PTL DEF Spec
<1>4. Inv => SettledShowsSelection
  BY DEF SelectionInv, PassFollows, GraphFollows, DiffFollows, PassComing, GraphComing,
         DiffComing, GraphShown, DiffShown, SettledShowsSelection
<1>. QED  BY <1>3, <1>4, PTL

=============================================================================
