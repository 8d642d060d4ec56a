------------------------------ MODULE ViewerStore ------------------------------
(***************************************************************************)
(* The viewer's store and its asynchronous actions (ui/src/store.ts), the  *)
(* controls that call them (App.tsx, Toolbar.tsx) and the layout of the    *)
(* graph that is shown (GraphView.tsx).                                    *)
(*                                                                         *)
(* An action of the store runs up to its first await; what follows runs    *)
(* when the requests it awaits are answered, in whatever order that is,    *)
(* with the user clicking in between.  Data of the server are represented  *)
(* by the request that fetched them.                                       *)
(***************************************************************************)
EXTENDS Integers, FiniteSetsExt

CONSTANTS
  Passes,       \* the identifiers of the recorded passes, in preorder
  Leaves,       \* those without children
  Changed,      \* those with ir_changed
  Functions,    \* names of functions, in their order
  Scopes,       \* Scopes[pass][side]: the functions of a snapshot, NoSide if none
  NoSide,
  Operations,   \* Operations[function]: the UIDs of its operations
  None,         \* null
  Loads,        \* how often load is called at first: twice under StrictMode
  MaxClicks,    \* bound: what the user does
  MaxFailures   \* bound: requests and layouts that fail

Sides  == {"before", "after"}
Uids   == UNION {Operations[f] : f \in Functions}
Graphs == [pass : Passes, func : Functions, diff : BOOLEAN]

ASSUME ViewerAssumption ==
  /\ Passes \subseteq Nat /\ Passes # {}
  /\ Leaves \subseteq Passes /\ Changed \subseteq Passes
  /\ Functions \subseteq Nat /\ None \notin Passes \union Functions \union Uids \union Graphs
  /\ Scopes \in [Passes -> [Sides -> (SUBSET Functions) \union {NoSide}]]
  /\ Loads \in 1 .. 2 /\ {MaxClicks, MaxFailures} \subseteq Nat

VARIABLES
  status, error, selectedPass, pages, functions, viewMode, diffEnabled, selectedFunc,
  diff, graph, selectable, selectedOp, history,
  calls,      \* the actions of the store that await answers
  laidOut,    \* the graph the effect of GraphView last ran for
  layouts,    \* the graphs being laid out for it
  layout,     \* layoutState, by the graph it is of
  jumped,     \* (ghost) the graph mode was left, or an error cleared, without a refresh
  clicks, failures

shown   == <<status, error, pages, functions, diff, graph, selectable, history>>
chosen  == <<selectedPass, selectedFunc, selectedOp, viewMode, diffEnabled>>
drawing == <<laidOut, layouts, layout>>
vars    == <<shown, chosen, drawing, calls, jumped, clicks, failures>>

Modes   == {"text", "graph", "history"}
OptPass == Passes \union {None}
OptFunc == Functions \union {None}
OptUid  == Uids \union {None}

Diffs       == [pass : Passes, func : Functions]
OptGraph    == Graphs \union {None}

\* "load", "pass" and "op" are those actions at their await; "ops", "graph" and
\* "diff" are the awaits of refreshView, with the selection it has read; back is
\* set in what viewHistoryStep has called.
Call == [kind : {"load", "pass", "op", "ops", "graph", "diff"}, pass : OptPass,
         func : OptFunc, mode : Modes, diff : BOOLEAN, uid : OptUid, back : BOOLEAN,
         copy : Nat]

ViewerTypeOK ==
  /\ status \in {"loading", "ready", "error"} /\ error \in BOOLEAN
  /\ selectedPass \in OptPass /\ pages \in OptPass /\ functions \in OptPass
  /\ viewMode \in Modes /\ diffEnabled \in BOOLEAN /\ selectedFunc \in OptFunc
  /\ diff \in Diffs \union {None} /\ selectable \in Diffs \union {None}
  /\ graph \in OptGraph /\ selectedOp \in OptUid /\ history \in OptUid
  /\ calls \subseteq Call
  /\ laidOut \in OptGraph /\ layouts \subseteq Graphs /\ layout \in OptGraph
  /\ jumped \in BOOLEAN /\ clicks \in 0 .. MaxClicks /\ failures \in 0 .. MaxFailures

-----------------------------------------------------------------------------
(* The server, as far as the store can tell its answers apart. *)

HasSide(p, side)  == Scopes[p][side] # NoSide
BothSides(p)      == \A side \in Sides : HasSide(p, side)
FunctionsOf(p)    == UNION {Scopes[p][side] : side \in {s \in Sides : HasSide(p, s)}}

\* selectable_ops is asked for the snapshots a pass has, and refuses a pass that
\* is no leaf and a function the snapshot lacks.
OpsAnswered(p, f) ==
  p \in Leaves /\ \A side \in Sides : HasSide(p, side) => f \in Scopes[p][side]

GraphAnswered(p, d) == IF d THEN BothSides(p) ELSE \E side \in Sides : HasSide(p, side)
DiffAnswered(p)     == BothSides(p)

-----------------------------------------------------------------------------
LoadCall(n)        == [kind |-> "load", pass |-> None, func |-> None, mode |-> "text",
                       diff |-> FALSE, uid |-> None, back |-> FALSE, copy |-> n]
PassCall(p, back)  == [LoadCall(0) EXCEPT !.kind = "pass", !.pass = p, !.back = back]
OpCall(uid)        == [LoadCall(0) EXCEPT !.kind = "op", !.uid = uid]

\* The first await of refreshView, unless it returns at once.
Refresh(p, f, mode, d, back) ==
  IF p = None \/ f = None THEN {}
  ELSE {[LoadCall(0) EXCEPT !.kind = "ops", !.pass = p, !.func = f, !.mode = mode,
                            !.diff = d, !.back = back]}

\* Calls that await the same are told apart by their copy.
Numbered(call, others) ==
  [call EXCEPT !.copy = CHOOSE n \in 0 .. MaxClicks + 2 :
                          [call EXCEPT !.copy = n] \notin others]
Await(others, new) == others \union {Numbered(call, others) : call \in new}

\* The effect of App has called load; in development StrictMode runs it twice.
Init ==
  /\ status = "loading" /\ error = FALSE
  /\ selectedPass = None /\ pages = None /\ functions = None
  /\ viewMode = "text" /\ diffEnabled = FALSE /\ selectedFunc = None
  /\ diff = None /\ graph = None /\ selectable = None
  /\ selectedOp = None /\ history = None
  /\ calls = {LoadCall(n) : n \in 0 .. Loads - 1}
  /\ laidOut = None /\ layouts = {} /\ layout = None
  /\ jumped = FALSE /\ clicks = 0 /\ failures = 0

\* What selectPass does before its await.
ShowPass(p) ==
  /\ selectedPass' = p
  /\ pages' = None /\ diff' = None /\ graph' = None /\ selectable' = None
  /\ error' = FALSE
  /\ UNCHANGED <<functions, selectedFunc, selectedOp, history, viewMode, diffEnabled>>

\* The pass a trace is opened at.
FirstPass ==
  LET first(set) == Min(set) IN
  IF Leaves \intersect Changed # {} THEN first(Leaves \intersect Changed)
  ELSE IF Changed # {} THEN first(Changed) ELSE first(Passes)

-----------------------------------------------------------------------------
(* The user. *)

Click == status = "ready" /\ clicks < MaxClicks /\ clicks' = clicks + 1
         /\ UNCHANGED <<status, failures, drawing>>

\* Mutant of SelectPass: one request for a pass at a time.
SelectPassOnce(p) ==
  /\ Click
  /\ ShowPass(p)
  /\ calls' = IF \E c \in calls : c.kind = "pass" THEN calls
              ELSE Await(calls, {PassCall(p, FALSE)})
  /\ jumped' = FALSE

SelectPass(p) ==
  /\ Click
  /\ ShowPass(p)
  /\ calls' = Await(calls, {PassCall(p, FALSE)})
  /\ jumped' = FALSE

RefreshView ==
  calls' = Await(calls, Refresh(selectedPass', selectedFunc', viewMode', diffEnabled', FALSE))

SetViewMode(mode) ==
  /\ Click
  /\ mode = "history" => selectedOp # None
  /\ viewMode' = mode
  /\ UNCHANGED <<shown, selectedPass, selectedFunc, selectedOp, diffEnabled>>
  /\ RefreshView
  /\ jumped' = FALSE

\* The control and its key are disabled for a pass that lacks a snapshot.
ToggleDiff ==
  /\ Click
  /\ selectedPass # None /\ BothSides(selectedPass)
  /\ diffEnabled' = ~diffEnabled
  /\ UNCHANGED <<shown, selectedPass, selectedFunc, selectedOp, viewMode>>
  /\ RefreshView
  /\ jumped' = FALSE

\* The list offers the functions of the pass that was answered last.
SelectFunc(f) ==
  /\ Click
  /\ viewMode = "graph" /\ functions # None
  /\ f \in FunctionsOf(functions) \ {selectedFunc}
  /\ selectedFunc' = f /\ selectedOp' = None /\ history' = None
  /\ UNCHANGED <<error, pages, functions, diff, graph, selectable>>
  /\ UNCHANGED <<selectedPass, viewMode, diffEnabled>>
  /\ RefreshView
  /\ jumped' = FALSE

\* An operation is chosen in the text or in the graph, once it is laid out.
Selectable ==
  CASE viewMode = "text"  -> IF pages = None \/ selectable = None THEN {}
                             ELSE Operations[selectable.func]
    [] viewMode = "graph" -> IF layout = None \/ layout # graph THEN {}
                             ELSE Operations[graph.func]
    [] OTHER -> {}

SelectOp(uid) ==
  /\ Click
  /\ uid \in Selectable
  /\ selectedOp' = uid /\ history' = None /\ viewMode' = "history" /\ error' = FALSE
  /\ calls' = Await(calls, {OpCall(uid)})
  /\ jumped' = (jumped \/ viewMode = "graph" \/ error)
  /\ UNCHANGED <<pages, functions, diff, graph, selectable>>
  /\ UNCHANGED <<selectedPass, selectedFunc, diffEnabled>>

ViewHistoryStep(p) ==
  /\ Click
  /\ viewMode = "history" /\ history # None
  /\ p \in Leaves /\ \E f \in FunctionsOf(p) : history \in Operations[f]
  /\ ShowPass(p)
  /\ calls' = Await(calls, {PassCall(p, TRUE)})
  /\ jumped' = FALSE

User ==
  \/ \E p \in Passes : SelectPass(p) \/ ViewHistoryStep(p)
  \/ \E mode \in Modes : SetViewMode(mode)
  \/ \E f \in Functions : SelectFunc(f)
  \/ \E uid \in Uids : SelectOp(uid)
  \/ ToggleDiff

-----------------------------------------------------------------------------
(* The answers, and what the store does with them. *)

\* What is awaited ends a call of viewHistoryStep, which then shows the text.
Return(c) ==
  /\ viewMode' = IF c.back THEN "text" ELSE viewMode
  /\ jumped' = (jumped \/ (c.back /\ viewMode = "graph"))

Finish(c) == calls' = calls \ {c} /\ Return(c)

AnswerLoad(c) ==
  /\ c.kind = "load"
  /\ status' = "ready"
  /\ ShowPass(FirstPass)
  /\ calls' = Await(calls \ {c}, {PassCall(FirstPass, FALSE)})
  /\ UNCHANGED jumped

\* The function selected stays if the new pass has it.
NextFunction(p) ==
  IF selectedFunc \in FunctionsOf(p) THEN selectedFunc
  ELSE IF FunctionsOf(p) = {} THEN None ELSE Min(FunctionsOf(p))

\* Mutant of Current: whatever arrives is taken to be for the selected pass.
AnyPass(c) == TRUE

Current(c) == selectedPass = c.pass

AnswerPass(c) ==
  /\ c.kind = "pass" /\ Current(c)
  /\ pages' = c.pass /\ functions' = c.pass /\ selectedFunc' = NextFunction(c.pass)
  /\ LET refresh == Refresh(c.pass, selectedFunc', viewMode, diffEnabled, c.back) IN
     /\ calls' = Await(calls \ {c}, refresh)
     /\ IF refresh = {} THEN Return(c) ELSE UNCHANGED <<viewMode, jumped>>
  /\ UNCHANGED <<status, error, diff, graph, selectable, history>>
  /\ UNCHANGED <<selectedPass, selectedOp, diffEnabled>>

LatePass(c) ==
  /\ c.kind = "pass" /\ ~Current(c)
  /\ Finish(c)
  /\ UNCHANGED <<shown, selectedPass, selectedFunc, selectedOp, diffEnabled>>

\* Mutant of Selected: only the pass is compared.
SamePass(c) == Current(c)

Selected(c) == Current(c) /\ selectedFunc = c.func

\* refreshView goes on to the graph or to the diff, as it was called for.
AnswerOps(c) ==
  /\ c.kind = "ops" /\ OpsAnswered(c.pass, c.func)
  /\ selectable' = IF Selected(c) THEN [pass |-> c.pass, func |-> c.func] ELSE selectable
  /\ IF c.mode # "graph" /\ ~c.diff THEN Finish(c)
     ELSE /\ calls' = Await(calls \ {c}, {[c EXCEPT !.copy = 0, !.kind =
                              IF c.mode = "graph" THEN "graph" ELSE "diff"]})
          /\ UNCHANGED <<viewMode, jumped>>
  /\ UNCHANGED <<status, error, pages, functions, diff, graph, history>>
  /\ UNCHANGED <<selectedPass, selectedFunc, selectedOp, diffEnabled>>

AnswerGraph(c) ==
  /\ c.kind = "graph" /\ GraphAnswered(c.pass, c.diff)
  /\ graph' = IF Selected(c) THEN [pass |-> c.pass, func |-> c.func, diff |-> c.diff]
              ELSE graph
  /\ Finish(c)
  /\ UNCHANGED <<status, error, pages, functions, diff, selectable, history>>
  /\ UNCHANGED <<selectedPass, selectedFunc, selectedOp, diffEnabled>>

\* Mutant of AnswerDiff: the answer is stored as the graph.
AnswerDiffAsGraph(c) ==
  /\ c.kind = "diff" /\ DiffAnswered(c.pass)
  /\ graph' = IF Selected(c) THEN [pass |-> c.pass, func |-> c.func] ELSE graph
  /\ Finish(c)
  /\ UNCHANGED <<status, error, pages, functions, diff, selectable, history>>
  /\ UNCHANGED <<selectedPass, selectedFunc, selectedOp, diffEnabled>>

AnswerDiff(c) ==
  /\ c.kind = "diff" /\ DiffAnswered(c.pass)
  /\ diff' = IF Selected(c) THEN [pass |-> c.pass, func |-> c.func] ELSE diff
  /\ Finish(c)
  /\ UNCHANGED <<status, error, pages, functions, graph, selectable, history>>
  /\ UNCHANGED <<selectedPass, selectedFunc, selectedOp, diffEnabled>>

\* Mutant of AnswerOp: any history that arrives is shown.
AnswerOpUnguarded(c) ==
  /\ c.kind = "op"
  /\ history' = c.uid
  /\ calls' = calls \ {c}
  /\ UNCHANGED <<status, error, pages, functions, diff, graph, selectable>>
  /\ UNCHANGED <<chosen, jumped>>

AnswerOp(c) ==
  /\ c.kind = "op"
  /\ history' = IF selectedOp = c.uid THEN c.uid ELSE history
  /\ calls' = calls \ {c}
  /\ UNCHANGED <<status, error, pages, functions, diff, graph, selectable>>
  /\ UNCHANGED <<chosen, jumped>>

\* Refused by the server, whatever the network does.
Refused(c) ==
  CASE c.kind = "ops"   -> ~OpsAnswered(c.pass, c.func)
    [] c.kind = "graph" -> ~GraphAnswered(c.pass, c.diff)
    [] c.kind = "diff"  -> ~DiffAnswered(c.pass)
    [] OTHER -> FALSE

\* A failure is shown without regard to what is selected by then, except that of
\* selectOp; that of load replaces the whole page.
Fail(c) ==
  /\ status' = IF c.kind = "load" THEN "error" ELSE status
  /\ error' = (error \/ c.kind # "op" \/ selectedOp = c.uid)
  /\ Finish(c)
  /\ UNCHANGED <<pages, functions, diff, graph, selectable, history>>
  /\ UNCHANGED <<selectedPass, selectedFunc, selectedOp, diffEnabled>>

Answer(c) ==
  /\ \/ AnswerLoad(c) \/ AnswerPass(c) \/ LatePass(c)
     \/ AnswerOps(c) \/ AnswerGraph(c) \/ AnswerDiff(c) \/ AnswerOp(c)
     \/ Refused(c) /\ Fail(c)
  /\ UNCHANGED <<clicks, failures, drawing>>

Unanswered(c) ==
  /\ failures < MaxFailures /\ failures' = failures + 1
  /\ Fail(c)
  /\ UNCHANGED <<clicks, drawing>>

-----------------------------------------------------------------------------
(* The graph on the page. *)

\* GraphView is mounted in graph mode only, on a page that shows the trace.
Displayed == IF viewMode = "graph" /\ status = "ready" THEN graph ELSE None

\* Mutant of Cancel: the effect has no cleanup.
KeepAll(started) == started

\* The cleanup of the effect: the result of what it started is ignored.
Cancel(started) == {}

\* The effect of GraphView, after it was rendered with another graph.
Render ==
  /\ laidOut # Displayed
  /\ laidOut' = Displayed
  /\ layouts' = Cancel(layouts) \union ({Displayed} \ {None})
  /\ layout' = IF Displayed = None THEN None ELSE layout
  /\ UNCHANGED <<shown, chosen, calls, jumped, clicks, failures>>

LaidOut(g) ==
  /\ layouts' = layouts \ {g}
  /\ layout' = g
  /\ UNCHANGED <<shown, chosen, calls, laidOut, jumped, clicks, failures>>

NotLaidOut(g) ==
  /\ failures < MaxFailures /\ failures' = failures + 1
  /\ layouts' = layouts \ {g}
  /\ UNCHANGED <<shown, chosen, calls, laidOut, layout, jumped, clicks>>

Next ==
  \/ User
  \/ \E c \in calls : Answer(c) \/ Unanswered(c)
  \/ Render
  \/ \E g \in layouts : LaidOut(g) \/ NotLaidOut(g)

Spec == Init /\ [][Next]_vars

\* Every request is answered in the end; the user need not do anything.
FairSpec == Spec /\ WF_vars(\E c \in calls : Answer(c))

-----------------------------------------------------------------------------
(* Properties. *)

\* The snapshots, the diff, the graph and the selectable operations on the page are
\* of the pass that is selected, however late an answer for another pass arrives.
ShowsSelectedPass ==
  /\ pages \in {None, selectedPass}
  /\ pages # None => functions = selectedPass
  /\ \A data \in {diff, graph, selectable} \ {None} : data.pass = selectedPass

\* A history on the page is that of the selected operation, and the history mode is
\* never left without one, whatever is selected while histories are fetched.
HistoryOfSelection ==
  /\ history # None => history = selectedOp
  /\ viewMode = "history" => selectedOp # None

\* Once nothing is awaited, the page shows what is selected, or an error: a
\* selection made while an earlier one is being answered is not lost.  Excepted are
\* a page whose snapshots failed, and a diff after viewHistoryStep or selectOp has left
\* the graph mode, or selectOp has cleared an error: neither fetches one.
SettledShowsSelection ==
  (status = "ready" /\ calls = {}) =>
    /\ failures = 0 => pages = selectedPass
    /\ (viewMode = "graph" /\ selectedFunc # None /\ ~error) =>
         graph # None /\ graph.pass = selectedPass /\ graph.func = selectedFunc
    /\ (viewMode = "text" /\ diffEnabled /\ selectedFunc # None /\ ~error /\ ~jumped) =>
         diff = [pass |-> selectedPass, func |-> selectedFunc]

\* When no layout is under way, the graph on the page is drawn by its own layout:
\* the result for a graph that was replaced meanwhile does not take its place.
DrawnWhenLaidOut ==
  (laidOut = Displayed /\ layouts = {} /\ failures = 0) => layout = Displayed

\* The pass that is selected when the user stops gets its snapshots on the page, unless
\* a request fails.
SelectedPassIsShown == pages # selectedPass ~> (pages = selectedPass \/ failures > 0)
=============================================================================
