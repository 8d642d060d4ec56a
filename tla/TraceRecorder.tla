---------------------------- MODULE TraceRecorder ----------------------------
(***************************************************************************)
(* TraceRecorder::Impl (capture/lib/TraceRecorder.cpp): the recorder that  *)
(* MLIR's instrumentation and rewrite callbacks drive from many threads.   *)
(*                                                                         *)
(* One mutex serialises all callbacks.  A callback that executes several   *)
(* storage statements takes the mutex in its entry action, then performs   *)
(* one action per statement, with its locals and its program counter in    *)
(* call; a callback of at most one statement is a single action.           *)
(***************************************************************************)
EXTENDS TraceStorage

CONSTANTS
  Threads,         \* the threads of the compiler
  Fidelity,        \* TraceOptions::fidelity
  OpsPerSnapshot,  \* operations an IR walk visits
  ForeignHandler   \* context.hasActionHandler() when attach is called

ASSUME RecorderAssumption ==
  /\ Threads # {}
  /\ Fidelity \in {"timeline", "text", "full"}
  /\ OpsPerSnapshot \in Nat \ {0}
  /\ ForeignHandler \in BOOLEAN

VARIABLES
  attached, finished,
  hasStorage,            \* storage is not null
  firstError,            \* firstError holds a message
  actionHandler,         \* actionContext is set: the recorder's handler is installed
  rootPass, rootBefore,
  activePasses,          \* activePasses[thread][pass]; id = NoId when absent
  activePassIds,         \* per thread, the ids of the passes it is inside
  pipelineParents,       \* per thread, the parents of the pipelines it is inside
  nextSequence, nextIdentitySequence,
  currentPatterns, currentActions,
  call,                  \* the callback holding the mutex and its locals
  reported               \* history: what the finish() that sealed the trace returned

recorderVars ==
  <<attached, finished, hasStorage, firstError, actionHandler, rootPass,
    rootBefore, activePasses, activePassIds, pipelineParents, nextSequence,
    nextIdentitySequence, currentPatterns, currentActions, call, reported>>

ActivePass == [id : Ids \union {NoId}, parent : Ids \union {NoId}, before : OptTexts]
NotActive  == [id |-> NoId, parent |-> NoId, before |-> NoText]

Steps == {"idle", "create", "version", "producer", "fidelity", "snapshot",
          "root", "row", "index", "end", "rootEnd", "status", "cleanup"}
Call  == [fn : {"none", "attach", "beforePass", "afterPass"}, step : Steps,
          thread : Threads, pass : Names, failed : BOOLEAN, text : OptTexts,
          ordinal : Nat]

\* The mutex is free.  The thread of a free mutex is immaterial.
NoCall == [fn |-> "none", step |-> "idle", thread |-> CHOOSE t \in Threads : TRUE,
           pass |-> NoPass, failed |-> FALSE, text |-> NoText, ordinal |-> 0]

RecorderTypeOK ==
  /\ attached \in BOOLEAN /\ finished \in BOOLEAN /\ hasStorage \in BOOLEAN
  /\ firstError \in BOOLEAN /\ actionHandler \in BOOLEAN
  /\ rootPass \in Ids \union {NoId}
  /\ rootBefore \in OptTexts
  /\ activePasses \in [Threads -> [Passes -> ActivePass]]
  /\ activePassIds \in [Threads -> Seq(Ids)]
  /\ pipelineParents \in [Threads -> Seq(Ids \union {NoId})]
  /\ nextSequence \in [Ids -> Nat]
  /\ nextIdentitySequence \in [Ids -> Nat]
  /\ currentPatterns \in [Threads -> Seq(Passes)]
  /\ currentActions \in [Threads -> Seq(Passes)]
  /\ call \in Call
  /\ reported \in {"none", "ok", "error"}

RecorderInit ==
  /\ attached = FALSE /\ finished = FALSE /\ hasStorage = FALSE
  /\ firstError = FALSE /\ actionHandler = FALSE
  /\ rootPass = NoId
  /\ rootBefore = NoText
  /\ activePasses = [t \in Threads |-> [p \in Passes |-> NotActive]]
  /\ activePassIds = [t \in Threads |-> <<>>]
  /\ pipelineParents = [t \in Threads |-> <<>>]
  /\ nextSequence = [id \in Ids |-> 0]
  /\ nextIdentitySequence = [id \in Ids |-> 0]
  /\ currentPatterns = [t \in Threads |-> <<>>]
  /\ currentActions = [t \in Threads |-> <<>>]
  /\ call = NoCall
  /\ reported = "none"

-----------------------------------------------------------------------------
LastOf(s)  == s[Len(s)]
Push(s, e) == Append(s, e)
Pop(s)     == IF s = <<>> THEN s ELSE SubSeq(s, 1, Len(s) - 1)

LockFree      == call.fn = "none"
Unlock        == call' = NoCall
GoTo(step)    == call' = [call EXCEPT !.step = step, !.ordinal = 0]
At(fn, step)  == call.fn = fn /\ call.step = step

\* Mutant of RememberError: the message is consumed, not kept.
ConsumeError  == UNCHANGED firstError
RememberError == firstError' = TRUE

\* Mutant of Recording: firstError is not consulted.
RecordingUnlatched == ~finished /\ hasStorage

\* The guard of the callbacks that write: !(finished || firstError || !storage).
Recording == ~finished /\ ~firstError /\ hasStorage

maps   == <<activePasses, activePassIds, pipelineParents, nextSequence,
            nextIdentitySequence, currentPatterns, currentActions>>
stacks == <<pipelineParents, currentPatterns, currentActions>>
life   == <<attached, finished, hasStorage, actionHandler, reported>>
root   == <<rootPass, rootBefore>>

-----------------------------------------------------------------------------
(* attach(): create the file, write the metadata, install the callbacks.    *)

Attach ==
  /\ LockFree /\ ~attached
  /\ call' = [NoCall EXCEPT !.fn = "attach", !.step = "create"]
  /\ UNCHANGED <<storageVars, life, firstError, root, maps>>

AttachStatement(step, Statement, nextStep) ==
  /\ At("attach", step)
  /\ \/ Statement /\ GoTo(nextStep)
     \/ StatementFails /\ Unlock          \* the error is returned to the caller
  /\ UNCHANGED <<life, firstError, root, maps>>

AttachCreate == AttachStatement("create", CreateFile, "version")

\* storage is assigned only when TraceStorage::create has returned it.
AttachVersion ==
  /\ At("attach", "version")
  /\ \/ SetMeta("format_version") /\ hasStorage' = TRUE /\ GoTo("producer")
     \/ StatementFails /\ Unlock /\ UNCHANGED hasStorage
  /\ UNCHANGED <<attached, finished, actionHandler, reported, firstError, root, maps>>

AttachProducer == AttachStatement("producer", SetMeta("producer"), "fidelity")

AttachFidelity ==
  /\ At("attach", "fidelity")
  /\ \/ /\ SetMeta("fidelity")
        /\ attached' = TRUE
        /\ actionHandler' = (Fidelity = "full" /\ ~ForeignHandler)
     \/ StatementFails /\ UNCHANGED <<attached, actionHandler>>
  /\ Unlock
  /\ UNCHANGED <<finished, hasStorage, reported, firstError, root, maps>>

-----------------------------------------------------------------------------
(* finish(): seal the file and surface the first error, once.               *)

Finish ==
  /\ LockFree /\ attached /\ ~finished
  /\ finished' = TRUE
  /\ actionHandler' = FALSE
  /\ \/ SealFile  /\ reported' = IF firstError THEN "error" ELSE "ok"
     \/ SealFails /\ reported' = "error"
  /\ firstError' = FALSE
  /\ UNCHANGED <<attached, hasStorage, root, maps, call>>

-----------------------------------------------------------------------------
(* beforePipeline and afterPipeline.                                        *)

\* parentThread and parentPass are the fields of PipelineParentInfo.
BeforePipeline(t, parentThread, parentPass) ==
  /\ LockFree
  /\ pipelineParents' =
       IF finished \/ firstError THEN pipelineParents
       ELSE [pipelineParents EXCEPT
               ![t] = Push(@, activePasses[parentThread][parentPass].id)]
  /\ UNCHANGED <<storageVars, life, firstError, root, activePasses, activePassIds,
                 nextSequence, nextIdentitySequence, currentPatterns,
                 currentActions, call>>

\* Mutant of AfterPipeline: nothing is popped.
AfterPipelineKeeps(t) == LockFree /\ UNCHANGED <<storageVars, recorderVars>>

AfterPipeline(t) ==
  /\ LockFree
  /\ pipelineParents' = [pipelineParents EXCEPT ![t] = Pop(@)]
  /\ UNCHANGED <<storageVars, life, firstError, root, activePasses, activePassIds,
                 nextSequence, nextIdentitySequence, currentPatterns,
                 currentActions, call>>

-----------------------------------------------------------------------------
(* beforePass: snapshot, the root row on first use, the pass row, its index. *)

\* Mutant of AfterSnapshotStep: the root row is created for every pass.
RootEachTime == "root"

AfterSnapshotStep == IF rootPass = NoId THEN "root" ELSE "row"

BeforePass(t, p, text) ==
  /\ LockFree
  /\ call' = IF ~Recording THEN call
             ELSE [fn |-> "beforePass", thread |-> t, pass |-> p, failed |-> FALSE,
                   step |-> IF Fidelity = "timeline" THEN AfterSnapshotStep
                            ELSE "snapshot",
                   text |-> IF Fidelity = "timeline" THEN NoText ELSE text,
                   ordinal |-> 0]
  /\ UNCHANGED <<storageVars, life, firstError, root, maps>>

\* Mutant of BeforeSnapshot: the error is remembered but does not end the callback.
BeforeSnapshotContinues ==
  /\ At("beforePass", "snapshot")
  /\ GoTo(AfterSnapshotStep)
  /\ \/ WriteBlob(call.text) /\ UNCHANGED firstError
     \/ StatementFails /\ RememberError
  /\ UNCHANGED <<life, root, maps>>

BeforeSnapshot ==
  /\ At("beforePass", "snapshot")
  /\ \/ WriteBlob(call.text) /\ GoTo(AfterSnapshotStep) /\ UNCHANGED firstError
     \/ StatementFails /\ RememberError /\ Unlock
  /\ UNCHANGED <<life, root, maps>>

CreateRoot ==
  /\ At("beforePass", "root")
  /\ \/ /\ BeginPass(NoId, 0, NoPass, call.text)
        /\ rootPass' = NextRowId
        /\ rootBefore' = call.text
        /\ GoTo("row")
        /\ UNCHANGED firstError
     \/ StatementFails /\ RememberError /\ Unlock /\ UNCHANGED root
  /\ UNCHANGED <<life, maps>>

\* Mutant of ParentFor: the outermost pipeline of the thread.
OutermostParent(t) ==
  IF pipelineParents[t] # <<>> THEN pipelineParents[t][1] ELSE rootPass

\* The pass the thread's innermost pipeline belongs to, if it was recorded.
ParentFor(t) ==
  IF pipelineParents[t] # <<>> /\ LastOf(pipelineParents[t]) # NoId
  THEN LastOf(pipelineParents[t]) ELSE rootPass

\* Mutant of SequenceOf: one counter for the whole trace.
GlobalSequence(parent) == nextSequence[rootPass]
SequenceOf(parent)     == nextSequence[parent]

\* emplace fails, and the callback ends, if the key is already there.
RegisterPass(t, p, parent) ==
  IF activePasses[t][p].id # NoId
  THEN RememberError /\ Unlock /\ UNCHANGED <<activePasses, activePassIds>>
  ELSE /\ activePasses' =
            [activePasses EXCEPT
               ![t][p] = [id |-> NextRowId, parent |-> parent, before |-> call.text]]
       /\ activePassIds' = [activePassIds EXCEPT ![t] = Push(@, NextRowId)]
       /\ IF Fidelity = "full" THEN GoTo("index") ELSE Unlock
       /\ UNCHANGED firstError

CreateRow ==
  /\ At("beforePass", "row")
  /\ LET parent == ParentFor(call.thread) IN
       /\ nextSequence' = [nextSequence EXCEPT ![parent] = @ + 1]
       /\ \/ /\ BeginPass(parent, SequenceOf(parent), call.pass, call.text)
             /\ RegisterPass(call.thread, call.pass, parent)
          \/ /\ StatementFails /\ RememberError /\ Unlock
             /\ UNCHANGED <<activePasses, activePassIds>>
  /\ UNCHANGED <<life, root, stacks, nextIdentitySequence>>

MoreOps == call.ordinal + 1 < OpsPerSnapshot

\* One row of the pre-order walk; the walk stops at the first error.
IndexRow(side, nextStep) ==
  \/ /\ WriteOpIndex(activePasses[call.thread][call.pass].id, side)
     /\ IF MoreOps
        THEN call' = [call EXCEPT !.ordinal = @ + 1]
        ELSE IF nextStep = "idle" THEN Unlock ELSE GoTo(nextStep)
     /\ UNCHANGED firstError
  \/ /\ StatementFails
     /\ RememberError
     /\ IF nextStep = "idle" THEN Unlock ELSE GoTo(nextStep)

BeforeIndex ==
  /\ At("beforePass", "index")
  /\ IndexRow(0, "idle")
  /\ UNCHANGED <<life, root, maps>>

-----------------------------------------------------------------------------
(* afterPass: snapshot and index (unless the pass failed), complete the row, *)
(* then the root row, mark a failure, and forget the execution.              *)

\* Mutant of AfterEntryStep: a failed pass is only marked, its row not completed.
MarkOnly(failed) ==
  IF failed THEN "status" ELSE IF Fidelity = "timeline" THEN "end" ELSE "snapshot"

AfterEntryStep(failed) ==
  IF failed \/ Fidelity = "timeline" THEN "end" ELSE "snapshot"

AfterPass(t, p, failed, text) ==
  /\ LockFree
  /\ IF ~Recording THEN UNCHANGED <<call, firstError>>
     ELSE IF activePasses[t][p].id = NoId THEN RememberError /\ UNCHANGED call
     ELSE /\ call' = [fn |-> "afterPass", thread |-> t, pass |-> p, failed |-> failed,
                      step |-> AfterEntryStep(failed),
                      text |-> IF failed \/ Fidelity = "timeline" THEN NoText
                               ELSE text,
                      ordinal |-> 0]
          /\ UNCHANGED firstError
  /\ UNCHANGED <<storageVars, life, root, maps>>

\* On failure the callback returns and leaves its entries behind.
AfterSnapshot ==
  /\ At("afterPass", "snapshot")
  /\ \/ /\ WriteBlob(call.text)
        /\ GoTo(IF Fidelity = "full" THEN "index" ELSE "end")
        /\ UNCHANGED firstError
     \/ StatementFails /\ RememberError /\ Unlock
  /\ UNCHANGED <<life, root, maps>>

AfterIndex ==
  /\ At("afterPass", "index")
  /\ IndexRow(1, "end")
  /\ UNCHANGED <<life, root, maps>>

Differs(before, after) == before # NoText /\ after # NoText /\ before # after

Current == activePasses[call.thread][call.pass]

\* What follows the completed row, given whether an error is now latched.
AfterEndStep(error) ==
  IF ~error /\ Current.parent = rootPass THEN "rootEnd"
  ELSE IF call.failed /\ ~error THEN "status" ELSE "cleanup"

CompleteRow ==
  /\ At("afterPass", "end")
  /\ \/ /\ EndPass(Current.id, call.text,
                   call.failed \/ Differs(Current.before, call.text))
        /\ GoTo(AfterEndStep(firstError))
        /\ UNCHANGED firstError
     \/ StatementFails /\ RememberError /\ GoTo(AfterEndStep(TRUE))
  /\ UNCHANGED <<life, root, maps>>

\* Mutant of RootChanged: compares with the last pass's snapshot, not the first's.
LastPassChanged == call.failed \/ Differs(Current.before, call.text)
RootChanged     == call.failed \/ Differs(rootBefore, call.text)

CompleteRoot ==
  /\ At("afterPass", "rootEnd")
  /\ \/ /\ EndPass(rootPass, call.text, RootChanged)
        /\ GoTo(IF call.failed THEN "status" ELSE "cleanup")
        /\ UNCHANGED firstError
     \/ StatementFails /\ RememberError /\ GoTo("cleanup")
  /\ UNCHANGED <<life, root, maps>>

MarkFailed ==
  /\ At("afterPass", "status")
  /\ \/ SetMeta("capture_status") /\ UNCHANGED firstError
     \/ StatementFails /\ RememberError
  /\ GoTo("cleanup")
  /\ UNCHANGED <<life, root, maps>>

\* Mutant of ForgetPass: the id stays on the thread's stack.
ForgetKeepsId ==
  /\ At("afterPass", "cleanup")
  /\ activePasses' = [activePasses EXCEPT ![call.thread][call.pass] = NotActive]
  /\ Unlock
  /\ UNCHANGED <<storageVars, life, firstError, root, stacks, activePassIds,
                 nextSequence, nextIdentitySequence>>

ForgetPass ==
  /\ At("afterPass", "cleanup")
  /\ activePasses' = [activePasses EXCEPT ![call.thread][call.pass] = NotActive]
  /\ activePassIds' = [activePassIds EXCEPT ![call.thread] = Pop(@)]
  /\ Unlock
  /\ UNCHANGED <<storageVars, life, firstError, root, stacks, nextSequence,
                 nextIdentitySequence>>

-----------------------------------------------------------------------------
(* Rewrite listener and action handler.                                     *)

UnchangedExceptNames ==
  UNCHANGED <<storageVars, life, firstError, root, activePasses, activePassIds,
              pipelineParents, nextSequence, nextIdentitySequence, call>>

BeginPattern(t, name) ==
  /\ LockFree
  /\ currentPatterns' = [currentPatterns EXCEPT ![t] = Push(@, name)]
  /\ UNCHANGED currentActions /\ UnchangedExceptNames

EndPattern(t) ==
  /\ LockFree
  /\ currentPatterns' = [currentPatterns EXCEPT ![t] = Pop(@)]
  /\ UNCHANGED currentActions /\ UnchangedExceptNames

BeginAction(t, name) ==
  /\ LockFree
  /\ currentActions' = [currentActions EXCEPT ![t] = Push(@, name)]
  /\ UNCHANGED currentPatterns /\ UnchangedExceptNames

EndAction(t) ==
  /\ LockFree
  /\ currentActions' = [currentActions EXCEPT ![t] = Pop(@)]
  /\ UNCHANGED currentPatterns /\ UnchangedExceptNames

\* Mutant of Attribution: the outermost action of the thread.
OutermostAttribution(t) ==
  IF currentPatterns[t] # <<>> THEN LastOf(currentPatterns[t])
  ELSE IF currentActions[t] # <<>> THEN currentActions[t][1] ELSE NoPass

\* The innermost pattern, else the innermost action, else none.
Attribution(t) ==
  IF currentPatterns[t] # <<>> THEN LastOf(currentPatterns[t])
  ELSE IF currentActions[t] # <<>> THEN LastOf(currentActions[t]) ELSE NoPass

Listens(t) == Fidelity = "full" /\ Recording /\ activePassIds[t] # <<>>

RecordIdentity(t) ==
  /\ LockFree /\ Listens(t)
  /\ LET id == LastOf(activePassIds[t]) IN
       /\ nextIdentitySequence' = [nextIdentitySequence EXCEPT ![id] = @ + 1]
       /\ \/ /\ WriteIdentityEvent(id, nextIdentitySequence[id], Attribution(t),
                                   IF currentActions[t] # <<>> THEN "action"
                                   ELSE "listener")
             /\ UNCHANGED firstError
          \/ StatementFails /\ RememberError
  /\ UNCHANGED <<life, root, activePasses, activePassIds, stacks, nextSequence, call>>

-----------------------------------------------------------------------------
\* The statements of the callback that holds the mutex.
RecorderStep ==
  \/ AttachCreate \/ AttachVersion \/ AttachProducer \/ AttachFidelity
  \/ BeforeSnapshot \/ CreateRoot \/ CreateRow \/ BeforeIndex
  \/ AfterSnapshot \/ AfterIndex \/ CompleteRow \/ CompleteRoot \/ MarkFailed
  \/ ForgetPass
=============================================================================
