------------------------------- MODULE Capture -------------------------------
(***************************************************************************)
(* A TraceRecorder attached to an MLIR pass manager.  The pass manager is  *)
(* external code (OpToOpPassAdaptor of MLIR): stack[t] is the call stack   *)
(* of thread t as the pass manager builds it, and each of its actions      *)
(* calls the recorder's callback of the same moment.                       *)
(*                                                                         *)
(*  - Top-level passes run on Main, without a pipeline callback.           *)
(*  - A pass that nests pipelines (an adaptor, or one that calls           *)
(*    runPipeline) may have them run by any thread that is idle or that    *)
(*    waits inside a nesting pass of its own; a Pass object is never run   *)
(*    twice at the same time, since every worker has its own clone.        *)
(*  - Each pass runs inside executeAction<PassExecutionAction>.            *)
(*  - A pass may fail.  Its pipeline is then abandoned WITHOUT the         *)
(*    runAfterPipeline callback, and the nesting pass fails too unless it  *)
(*    is one that may ignore the result of runPipeline.                    *)
(***************************************************************************)
EXTENDS TraceRecorder

CONSTANTS
  Main,         \* the thread that calls PassManager::run
  Nesting,      \* the passes that run nested pipelines
  Tolerant,     \* those that may ignore the failure of a pipeline they ran
  MayFail,      \* the passes that may call signalPassFailure
  Reruns,       \* whether the manager may run again, after a failure or finish()
  MaxDepth,     \* bound: frames on the stack of a thread
  MaxEvents     \* bound: lifecycle events

ASSUME CaptureAssumption ==
  /\ Main \in Threads
  /\ Nesting \in SUBSET Passes /\ Tolerant \in SUBSET Nesting
  /\ MayFail \in SUBSET Passes
  /\ Reruns \in BOOLEAN
  /\ MaxDepth \in Nat /\ MaxEvents \in Nat

VARIABLES
  stack,      \* per thread, the frames of the pass manager, innermost last
  moduleText, \* what the top-level operation prints as
  runFailed   \* PassManager::run has returned failure

managerVars == <<stack, moduleText, runFailed>>
vars == <<storageVars, recorderVars, managerVars>>

\* owner is the thread whose pass nests the pipeline (the thread itself for a
\* pass or pattern); bad means that a pass failed in it.
Frame == [kind : {"pass", "pipeline", "pattern"}, owner : Threads, pass : Passes,
          phase : {"entered", "running", "done"}, bad : BOOLEAN]

CaptureTypeOK ==
  /\ stack \in [Threads -> Seq(Frame)]
  /\ moduleText \in Texts
  /\ runFailed \in BOOLEAN

TypeOK == StorageTypeOK /\ RecorderTypeOK /\ CaptureTypeOK

Init ==
  /\ StorageInit
  /\ RecorderInit
  /\ stack = [t \in Threads |-> <<>>]
  /\ moduleText \in Texts
  /\ runFailed = FALSE

-----------------------------------------------------------------------------
Top(t)     == LastOf(stack[t])
TopIs(t, kind, phase) ==
  stack[t] # <<>> /\ Top(t).kind = kind /\ Top(t).phase = phase

Depths(t)  == 1 .. Len(stack[t])
Running(p) == \E t \in Threads : \E i \in Depths(t) :
                stack[t][i].kind = "pass" /\ stack[t][i].pass = p

\* A thread that is not inside a callback of the recorder.
Free(t) == LockFree \/ call.thread # t

\* The phase in which a pass executes, and the one in which it may return:
\* executeAction reaches the recorder only while its handler is installed.
EntryPhase == IF actionHandler THEN "entered" ELSE "running"
ExitPhase  == IF actionHandler THEN "done" ELSE "running"

NewFrame(kind, owner, p, phase) ==
  [kind |-> kind, owner |-> owner, pass |-> p, phase |-> phase, bad |-> FALSE]
PushFrame(t, frame) == stack' = [stack EXCEPT ![t] = Push(@, frame)]
SetTopPhase(t, phase) ==
  stack' = [stack EXCEPT ![t][Len(stack[t])].phase = phase]

\* What printing the operation of t's innermost pass may yield at depth d.
Printed(d) == IF d = 1 THEN {moduleText} ELSE Texts

RoomForPass(t) == Len(passExecution) + 2 <= MaxRows /\ Len(stack[t]) < MaxDepth

-----------------------------------------------------------------------------
(* PassManager::run and the passes.                                         *)

\* A top-level pass starts.
StartTopLevelPass(p) ==
  /\ stack[Main] = <<>> /\ LockFree /\ attached
  /\ finished \/ runFailed => Reruns
  /\ ~Running(p) /\ RoomForPass(Main)
  /\ PushFrame(Main, NewFrame("pass", Main, p, EntryPhase))
  /\ BeforePass(Main, p, moduleText)
  /\ UNCHANGED <<moduleText, runFailed>>

StartNestedPass(t, p) ==
  /\ TopIs(t, "pipeline", "running") /\ ~Top(t).bad
  /\ ~Running(p) /\ RoomForPass(t)
  /\ PushFrame(t, NewFrame("pass", t, p, EntryPhase))
  /\ \E text \in Texts : BeforePass(t, p, text)
  /\ UNCHANGED <<moduleText, runFailed>>

\* Pass p, waiting at depth i of thread o, has thread t run one of its pipelines.
\* No new pipeline is scheduled once one has failed, unless p tolerates it.
StartPipeline(o, i, t) ==
  LET p == stack[o][i].pass IN
  /\ stack[o][i].kind = "pass" /\ stack[o][i].phase = "running" /\ p \in Nesting
  /\ stack[o][i].bad => p \in Tolerant
  /\ Free(o)
  /\ \/ t # Main /\ stack[t] = <<>>
     \/ TopIs(t, "pass", "running") /\ Top(t).pass \in Nesting
  /\ Len(stack[t]) + 1 < MaxDepth
  /\ PushFrame(t, NewFrame("pipeline", o, p, "running"))
  /\ BeforePipeline(t, o, p)
  /\ UNCHANGED <<moduleText, runFailed>>

HasPipelines(o, p) ==
  \E t \in Threads : \E i \in Depths(t) :
    stack[t][i].kind = "pipeline" /\ stack[t][i].owner = o /\ stack[t][i].pass = p

\* The innermost pass returns; a failure marks the pipeline it ran in.
ReturnFromPass(t, failed) ==
  LET p == Top(t).pass
      n == Len(stack[t])
  IN
  /\ TopIs(t, "pass", ExitPhase) /\ ~HasPipelines(t, p)
  /\ failed => p \in MayFail \/ Top(t).bad
  /\ Top(t).bad /\ p \notin Tolerant => failed
  /\ stack' = [stack EXCEPT ![t] =
                 IF failed /\ n > 1
                 THEN Pop([@ EXCEPT ![n - 1].bad = TRUE]) ELSE Pop(@)]
  /\ runFailed' = (runFailed \/ (failed /\ n = 1))
  /\ \E text \in Printed(n) : AfterPass(t, p, failed, text)
  /\ UNCHANGED moduleText

EndPipeline(t) ==
  /\ TopIs(t, "pipeline", "running") /\ ~Top(t).bad
  /\ stack' = [stack EXCEPT ![t] = Pop(@)]
  /\ AfterPipeline(t)
  /\ UNCHANGED <<moduleText, runFailed>>

\* The frame of the pass that nests the pipeline on top of t's stack.
IsOwner(frame, t) == frame.kind = "pass" /\ frame.pass = Top(t).pass

\* A failed pipeline is left without runAfterPipeline; its owner learns of it.
AbandonPipeline(t) ==
  /\ TopIs(t, "pipeline", "running") /\ Top(t).bad /\ Free(t)
  /\ LET o == Top(t).owner
         marked == [i \in Depths(o) |->
                      IF IsOwner(stack[o][i], t)
                      THEN [stack[o][i] EXCEPT !.bad = TRUE] ELSE stack[o][i]]
     IN stack' = [[stack EXCEPT ![o] = marked] EXCEPT ![t] = Pop(@)]
  /\ UNCHANGED <<storageVars, recorderVars, moduleText, runFailed>>

\* A top-level pass, or one nested in it, rewrites the module.
Rewrite ==
  /\ stack[Main] # <<>> /\ stack[Main][1].phase = "running" /\ LockFree
  /\ \E text \in Texts \ {moduleText} : moduleText' = text
  /\ UNCHANGED <<storageVars, recorderVars, stack, runFailed>>

-----------------------------------------------------------------------------
(* executeAction, pattern and operation notifications (Fidelity::Full).      *)

EnterAction(t) ==
  /\ actionHandler /\ TopIs(t, "pass", "entered")
  /\ SetTopPhase(t, "running")
  /\ BeginAction(t, Top(t).pass)
  /\ UNCHANGED <<moduleText, runFailed>>

LeaveAction(t) ==
  /\ actionHandler /\ TopIs(t, "pass", "running") /\ ~HasPipelines(t, Top(t).pass)
  /\ SetTopPhase(t, "done")
  /\ EndAction(t)
  /\ UNCHANGED <<moduleText, runFailed>>

\* The passes that rewrite with the recorder's listener nest no pipelines.
Rewriting(t) == Fidelity = "full" /\ stack[t] # <<>> /\ Top(t).phase = "running"
                /\ Top(t).kind # "pipeline" /\ Top(t).pass \notin Nesting

EnterPattern(t) ==
  /\ Rewriting(t) /\ Len(stack[t]) < MaxDepth
  /\ PushFrame(t, NewFrame("pattern", t, Top(t).pass, "running"))
  /\ BeginPattern(t, Top(t).pass)
  /\ UNCHANGED <<moduleText, runFailed>>

LeavePattern(t) ==
  /\ TopIs(t, "pattern", "running")
  /\ stack' = [stack EXCEPT ![t] = Pop(@)]
  /\ EndPattern(t)
  /\ UNCHANGED <<moduleText, runFailed>>

NotifyOperation(t) ==
  /\ Rewriting(t) /\ Len(opIdentity) < MaxEvents
  /\ RecordIdentity(t)
  /\ UNCHANGED managerVars

-----------------------------------------------------------------------------
(* The compiler's own calls.                                                *)

\* README: finish() is called once PassManager::run has returned.
CallFinish ==
  /\ \A t \in Threads : stack[t] = <<>>
  /\ Finish
  /\ UNCHANGED managerVars

CallAttach == Attach /\ UNCHANGED managerVars

Callback == RecorderStep /\ UNCHANGED managerVars

PassManager(t) ==
  \/ \E p \in Passes : StartNestedPass(t, p)
  \/ \E o \in Threads : \E i \in Depths(o) : StartPipeline(o, i, t)
  \/ \E failed \in BOOLEAN : ReturnFromPass(t, failed)
  \/ EndPipeline(t)
  \/ AbandonPipeline(t)
  \/ EnterAction(t)
  \/ LeaveAction(t)
  \/ EnterPattern(t)
  \/ LeavePattern(t)
  \/ NotifyOperation(t)

Next ==
  \/ CallAttach
  \/ CallFinish
  \/ Callback
  \/ \E p \in Passes : StartTopLevelPass(p)
  \/ Rewrite
  \/ \E t \in Threads : PassManager(t)

Spec == Init /\ [][Next]_vars

-----------------------------------------------------------------------------
(* Safety.  An invariant holds at every statement of every callback, hence   *)
(* in whatever a crash of the compiler leaves in the file.                   *)

\* No pass has been reported as failed in the trace.
Unmarked == "capture_status" \notin meta

\* The id under which the innermost pass p of thread t is being recorded.
RecordedId(t, p) == activePasses[t][p].id

\* The row that should own the pass at depth i of t's stack.
EnclosingRow(t, i) ==
  IF i = 1 THEN rootPass
  ELSE RecordedId(stack[t][i - 1].owner, stack[t][i - 1].pass)

\* Each pass in execution is recorded under the pass that nested its pipeline,
\* whichever thread that one runs on, and top-level passes under the root.
ParentIsEnclosing ==
  Recording => \A t \in Threads : \A i \in Depths(t) :
    LET p == stack[t][i].pass IN
    stack[t][i].kind = "pass" /\ RecordedId(t, p) # NoId
      => passExecution[RecordedId(t, p)].parent = EnclosingRow(t, i)

\* As long as no pass has failed, rows are recorded under their true parent:
\* the per-thread stacks of beforePipeline/afterPipeline follow the execution.
UnmarkedParents == Unmarked => ParentIsEnclosing

\* The rows form a tree whose edges go from higher to lower ids, rooted at 1.
Forest ==
  \A r \in RowIds :
    passExecution[r].parent \in IF r = 1 THEN {NoId} ELSE 1 .. (r - 1)

Siblings(r, q) == passExecution[r].parent = passExecution[q].parent

\* seq numbers the children of each parent 0, 1, 2, ... in the order of their
\* ids, across threads and whatever fails.
SiblingOrder ==
  \A r \in RowIds :
    /\ \A q \in RowIds : q < r /\ Siblings(q, r)
         => passExecution[q].seq < passExecution[r].seq
    /\ \A n \in 0 .. (passExecution[r].seq - 1) :
         \E q \in RowIds : q < r /\ Siblings(q, r) /\ passExecution[q].seq = n

\* A file that a crash leaves behind has its metadata, and every reference in
\* it is to a row that is there.
Readable ==
  /\ attached => {"format_version", "producer", "fidelity"} \subseteq meta
  /\ \A r \in RowIds : {passExecution[r].before, passExecution[r].after}
                        \subseteq irBlob \union {NoText}
  /\ \A e \in 1 .. Len(opIdentity) : opIdentity[e].pass \in RowIds
  /\ \A id \in Ids : opIndex[id] # NoOpIndex[id] => id \in RowIds

\* A completed snapshot is a fully indexed one, or finish() tells: as long as no
\* error is latched or has been returned, a row that has its after snapshot has
\* both of its op indexes complete, whatever statement failed.
CompletedIsIndexed ==
  Fidelity = "full" /\ ~firstError /\ reported # "error" =>
    \A r \in RowIds : passExecution[r].after # NoText /\ r # rootPass
      => opIndex[r] = [side \in {0, 1} |-> OpsPerSnapshot]

\* Between two top-level passes the root row describes the pipeline so far: it
\* ends with the module as it is now, and changed compares that with its start.
RootSummarises ==
  Recording /\ Unmarked /\ LockFree /\ stack[Main] = <<>> /\ rootPass # NoId
    => LET row == passExecution[rootPass] IN
         /\ ~row.open
         /\ Fidelity # "timeline" =>
              row.after = moduleText /\ row.changed = (row.before # moduleText)

\* A failed statement is never lost: the recorder has latched it by the end of
\* the callback, and finish() returns it; it returns success only for a sealed
\* file.  Nothing else is an error: MLIR's callbacks never re-enter a pass or
\* complete one that was not started.
ErrorsSurface ==
  /\ attached /\ ~finished /\ LockFree => firstError = faulted
  /\ finished => reported = IF faulted THEN "error" ELSE "ok"
  /\ reported = "ok" => journal = "delete"

\* How many passes t is inside down to depth i of its stack.
PassesUpTo(t, i) == Cardinality({j \in 1 .. i : stack[t][j].kind = "pass"})

\* recordIdentity attributes an operation to the pass its thread is running:
\* activePassIds lists the recorded passes t is inside, outermost first, as the
\* stack of the thread has them, through stolen work.
InnermostPassTracked ==
  Recording /\ LockFree => \A t \in Threads :
    /\ Len(activePassIds[t]) = PassesUpTo(t, Len(stack[t]))
    /\ \A i \in Depths(t) : stack[t][i].kind = "pass"
         => activePassIds[t][PassesUpTo(t, i)] = RecordedId(t, stack[t][i].pass)

\* The events of a pass are numbered 0, 1, 2, ... in the order of their rows and
\* name a pattern or action of that very pass, never one of another pass on the
\* thread's stack; with the recorder's own handler no event lacks a name.
EventsAttributed ==
  \A e \in 1 .. Len(opIdentity) :
    LET event == opIdentity[e]
        earlier == {k \in 1 .. (e - 1) : opIdentity[k].pass = event.pass}
    IN /\ event.seq = Cardinality(earlier)
       /\ \/ event.pattern = passExecution[event.pass].name
          \/ ForeignHandler /\ event.pattern = NoPass

\* When every stack has unwound and nothing failed, the recorder has forgotten
\* all executions: no entry survives to misattribute a later pass.
StacksDrain ==
  Recording /\ Unmarked /\ LockFree /\ (\A t \in Threads : stack[t] = <<>>)
    => \A t \in Threads :
         /\ \A p \in Passes : activePasses[t][p] = NotActive
         /\ <<activePassIds[t], pipelineParents[t], currentPatterns[t],
              currentActions[t]>> = <<<<>>, <<>>, <<>>, <<>>>>

\* Once an error is latched and its callback has ended, or finish() has returned,
\* no callback writes and none takes the mutex to write later: the trace is a
\* prefix of the execution, not a prefix with holes.
FrozenAfterStop ==
  [][LockFree /\ attached /\ (firstError \/ finished)
       => UNCHANGED <<meta, irBlob, passExecution, opIndex, opIdentity, call>>]_vars

\* The recorder implements PassTree: mapped to parents and open flags, its rows
\* only ever grow below open passes and close from the leaves up until a pass
\* is marked as failed.
Tree == INSTANCE PassTree WITH
  tree   <- [r \in RowIds |-> [parent |-> passExecution[r].parent,
                               open   |-> passExecution[r].open]],
  failed <- ~Unmarked

ImplementsPassTree == Tree!Spec

-----------------------------------------------------------------------------
(* Liveness.  The mutex is released by code without loops or waits; passes   *)
(* return, and pipelines end, because they are finite (a pass may be kept    *)
(* waiting by its pipelines again and again, hence strong fairness there).   *)

Fairness ==
  /\ WF_vars(Callback)
  /\ \A t \in Threads :
       /\ WF_vars(EndPipeline(t)) /\ WF_vars(AbandonPipeline(t))
       /\ WF_vars(EnterAction(t)) /\ SF_vars(LeaveAction(t)) /\ WF_vars(LeavePattern(t))
       /\ SF_vars(\E failed \in BOOLEAN : ReturnFromPass(t, failed))

FairSpec == Spec /\ Fairness

\* Passes are finite: from some point on none starts a pipeline or a pattern.
PushesOnlyPasses ==
  \A t \in Threads : Len(stack'[t]) > Len(stack[t]) => LastOf(stack'[t]).kind = "pass"

Completed(id) == id \in RowIds /\ ~passExecution[id].open

\* Every recorded pass is eventually completed in the trace, or else the
\* recorder has stopped: no execution stays open because its entry got lost.
EveryPassCompletes ==
  <>[][PushesOnlyPasses]_vars
    => \A id \in Ids : (id \in RowIds) ~> (~Recording \/ Completed(id))
=============================================================================
